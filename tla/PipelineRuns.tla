---------------------------- MODULE PipelineRuns ----------------------------
(***************************************************************************)
(* The console's ledger of extraction runs and the recovery of stuck ones. *)
(*                                                                         *)
(* A request reserves a row of pipeline_runs and then triggers the DAG run *)
(* of the same id in Airflow.  Four parties write the row afterwards: the  *)
(* request (what the trigger answered), the extraction task (its saves),   *)
(* a refresh (what Airflow says) and a recovery (the janitor, the check    *)
(* before a reservation, an administrator), which closes a run it takes    *)
(* for stuck after it has stopped it in Airflow.  None of them holds a     *)
(* lock from its reading to its writing: refresh and recovery swap against *)
(* the row they read, the others only let the status climb.                *)
(*                                                                         *)
(* A watcher is one refresh, or one recovery of one row; a recovery that   *)
(* plans several rows is several watchers.  Time is what the code reads of *)
(* it: a row's age (0 recent, 1 past the grace and the threshold, 2 out of *)
(* the window that reservations count) and whether anything happened to    *)
(* the Airflow run within the threshold (quiet).  Runs of the whole        *)
(* cartridge, which forbid single reservations, are left out.              *)
(***************************************************************************)
EXTENDS Naturals, FiniteSets

CONSTANTS Runs,       \* run ids: a reservation's token or a client's key
          Entities,
          Entity,     \* the entity each run extracts
          MaxActive,  \* max_active_entity_extracts
          Watchers,   \* refreshes and recoveries under way at once
          MaxFaults   \* bound on lost calls, crashes, deletions, outages

ASSUME RunsAreFinite == IsFiniteSet(Runs)
ASSUME RunsHaveEntities == Entity \in [Runs -> Entities]
ASSUME LimitIsNatural == MaxActive \in Nat
ASSUME FaultsAreBounded == MaxFaults \in Nat

VARIABLES row,    \* pipeline_runs
          req,    \* a run's trigger request: where it is, then the answer
          af,     \* Airflow's DAG runs
          work,   \* the run's extraction task, its retries included
          quiet,  \* nothing happened to the DAG run within the threshold
          sched,  \* the scheduler and the pause switch of the DAG
          w,      \* the watchers
          faults

vars == <<row, req, af, work, quiet, sched, w, faults>>

Active == {"queued", "running"}
Ended == {"success", "partial", "failed"}
AfStates == {"queued", "running", "success", "failed"}
Closing == {"missing", "gone", "stopped"}

Rank(s) == CASE s = "none" -> 0
             [] s = "queued" -> 10
             [] s = "running" -> 20
             [] s = "success" -> 30
             [] s = "partial" -> 40
             [] s = "failed" -> 60

Advance(current, incoming) ==
  IF Rank(incoming) > Rank(current) THEN incoming ELSE current

Rows == [status : {"none"} \cup Active \cup Ended,
         start : {"reserved", "airflow"},   \* whose clock started_at is of
         age : 0..2,
         left : BOOLEAN,                    \* it was once out of the window
         reason : {"none"} \cup Closing]    \* extra.recovery, fencing_token

NoRow == [status |-> "none", start |-> "reserved", age |-> 0,
          left |-> FALSE, reason |-> "none"]

\* The age of a closed row is of no interest to anyone.
Moved(x, s) ==
  IF s \in Active THEN [x EXCEPT !.status = s]
  ELSE [x EXCEPT !.status = s, !.start = "reserved", !.age = 0, !.left = FALSE]

Saved(r, s) == [row EXCEPT ![r] = Moved(@, Advance(@.status, s))]

Fault == faults < MaxFaults /\ faults' = faults + 1

Idle == [pc |-> "idle", run |-> "none", status |-> "none",
         start |-> "none", old |-> FALSE, dag |-> "none", seen |-> "none"]

Looks == [pc : {"describe", "fetch", "refresh", "sync", "stop", "patch"}
                 \cup Closing,
          run : Runs, status : Active \cup Ended,
          start : {"reserved", "airflow"}, old : BOOLEAN,
          dag : {"none", "paused", "down", "busy", "free"},
          seen : {"none"} \cup AfStates]

Init ==
  /\ row = [r \in Runs |-> NoRow]
  /\ req = [r \in Runs |-> "idle"]
  /\ af = [r \in Runs |-> "absent"]
  /\ work = [r \in Runs |-> "none"]
  /\ quiet = [r \in Runs |-> FALSE]
  /\ sched = "up"
  /\ w = [p \in Watchers |-> Idle]
  /\ faults = 0

-----------------------------------------------------------------------------
(* The request.                                                            *)

InWindow(r) == row[r].status \in Active /\ row[r].age < 2

\* Mutant: queued runs are not counted.
AdmittedRunning(r) ==
  /\ \A q \in Runs : InWindow(q) => Entity[q] # Entity[r]
  /\ Cardinality({q \in Runs : row[q].status = "running"}) < MaxActive

Admitted(r) ==
  /\ \A q \in Runs : InWindow(q) => Entity[q] # Entity[r]
  /\ Cardinality({q \in Runs : InWindow(q)}) < MaxActive

\* Under the cartridge's advisory lock.  A client that asks again under its
\* key finds its row as it is, closed ones too.  The key of a run that was
\* deleted in Airflow is not used again.
Reserve(r) ==
  /\ \/ req[r] = "idle" /\ UNCHANGED faults
     \/ req[r] = "done" /\ Fault
  /\ af[r] # "deleted"
  /\ Admitted(r)
  /\ row' = [row EXCEPT ![r] = IF @.status = "none"
                               THEN [@ EXCEPT !.status = "queued"] ELSE @]
  /\ req' = [req EXCEPT ![r] = "reserved"]
  /\ UNCHANGED <<af, work, quiet, sched, w>>

Created(r) == [af EXCEPT ![r] = IF @ = "absent" THEN "queued" ELSE @]

\* What the trigger answers: 409 for a known id is answered by its state.
Answer(r) == Created(r)[r]

Post(r) ==
  /\ req[r] = "reserved"
  /\ af' = Created(r)
  /\ req' = [req EXCEPT ![r] = Answer(r)]
  /\ UNCHANGED <<row, work, quiet, sched, w, faults>>

\* The last of the attempts fails, be it after Airflow created the run.
PostFails(r) ==
  /\ req[r] = "reserved" /\ Fault
  /\ af' \in {af, Created(r)}
  /\ req' = [req EXCEPT ![r] = "failed"]
  /\ UNCHANGED <<row, work, quiet, sched, w>>

\* Mutant: the upsert overwrites the status.
RecordTriggerOver(r) ==
  /\ req[r] \in AfStates
  /\ row' = [row EXCEPT ![r] = Moved(@, req[r])]
  /\ req' = [req EXCEPT ![r] = "done"]
  /\ UNCHANGED <<af, work, quiet, sched, w, faults>>

RecordTrigger(r) ==
  /\ req[r] \in AfStates
  /\ row' = Saved(r, req[r])
  /\ req' = [req EXCEPT ![r] = "done"]
  /\ UNCHANGED <<af, work, quiet, sched, w, faults>>

\* The console dies, or cannot write what the trigger answered.
RequestLost(r) ==
  /\ req[r] \notin {"idle", "done"} /\ Fault
  /\ req' = [req EXCEPT ![r] = "done"]
  /\ UNCHANGED <<row, af, work, quiet, sched, w>>

-----------------------------------------------------------------------------
(* Airflow: one run of the DAG at a time, none while it is paused.         *)

AfStart(r) ==
  /\ sched = "up" /\ af[r] = "queued"
  /\ \A q \in Runs : af[q] # "running"
  /\ af' = [af EXCEPT ![r] = "running"]
  /\ quiet' = [quiet EXCEPT ![r] = FALSE]
  /\ UNCHANGED <<row, req, work, sched, w, faults>>

TaskStart(r) ==
  /\ sched = "up" /\ af[r] = "running" /\ work[r] = "none"
  /\ work' = [work EXCEPT ![r] = "active"]
  /\ quiet' = [quiet EXCEPT ![r] = FALSE]
  /\ UNCHANGED <<row, req, af, sched, w, faults>>

\* A try saves its outcome; the save may be lost, and later tries save again.
TaskSave(r, s) ==
  /\ work[r] = "active"
  /\ row' = Saved(r, s)
  /\ UNCHANGED <<req, af, work, quiet, sched, w, faults>>

TaskEnd(r) ==
  /\ work[r] = "active"
  /\ work' = [work EXCEPT ![r] = "ended"]
  /\ UNCHANGED <<row, req, af, quiet, sched, w, faults>>

AfFinish(r, s) ==
  /\ sched = "up" /\ af[r] = "running" /\ work[r] = "ended"
  /\ af' = [af EXCEPT ![r] = s]
  /\ quiet' = [quiet EXCEPT ![r] = FALSE]
  /\ UNCHANGED <<row, req, work, sched, w, faults>>

Quieten(r) ==
  /\ af[r] \in Active /\ work[r] # "active" /\ ~quiet[r]
  /\ quiet' = [quiet EXCEPT ![r] = TRUE]
  /\ UNCHANGED <<row, req, af, work, sched, w, faults>>

Delete(r) ==
  /\ af[r] \in AfStates /\ req[r] \in {"idle", "done"} /\ Fault
  /\ af' = [af EXCEPT ![r] = "deleted"]
  /\ quiet' = [quiet EXCEPT ![r] = FALSE]
  /\ UNCHANGED <<row, req, work, sched, w>>

Switch(s) ==
  /\ sched # s /\ (s # "up" => Fault) /\ (s = "up" => UNCHANGED faults)
  /\ sched' = s
  /\ UNCHANGED <<row, req, af, work, quiet, w>>

Tick(r) ==
  /\ InWindow(r)
  /\ row' = [row EXCEPT ![r].age = @ + 1, ![r].left = @ \/ row[r].age = 1]
  /\ UNCHANGED <<req, af, work, quiet, sched, w, faults>>

-----------------------------------------------------------------------------
(* Refresh and recovery.                                                   *)

Goes(p, x) == w' = [w EXCEPT ![p] = x]
World == <<req, af, work, quiet, sched, faults>>

\* Recoveries start with the DAG ("describe"), refreshes with the run.
Look(p, r, to) ==
  /\ w[p].pc = "idle" /\ row[r].status \in Active
  /\ Goes(p, [Idle EXCEPT !.pc = to, !.run = r, !.status = row[r].status,
                          !.start = row[r].start, !.old = row[r].age > 0])
  /\ UNCHANGED <<row, World>>

Sibling(r) == \E q \in Runs \ {r} : af[q] = "running"

Describe(p) ==
  /\ w[p].pc = "describe"
  /\ Goes(p, [w[p] EXCEPT !.pc = "fetch",
       !.dag = IF sched # "up" THEN sched
               ELSE IF Sibling(w[p].run) THEN "busy" ELSE "free"])
  /\ UNCHANGED <<row, World>>

Pending(a, dag, r) ==
  \/ a = "running" /\ work[r] # "active" /\ quiet[r] /\ dag # "down"
  \/ a = "queued" /\ dag = "paused"
  \/ a = "queued" /\ dag = "free" /\ quiet[r]

Verdict(x) ==
  LET a == af[x.run] IN
  CASE a \in {"success", "failed"} -> "refresh"
    [] a \in {"absent", "deleted"} /\ x.old -> "missing"
    [] x.old /\ Pending(a, x.dag, x.run) -> "stop"
    [] OTHER -> "idle"

Fetch(p) ==
  /\ w[p].pc = "fetch"
  /\ LET v == Verdict(w[p]) IN
     Goes(p, IF v = "idle" THEN Idle
             ELSE [w[p] EXCEPT !.pc = v, !.dag = "none", !.old = FALSE,
                               !.seen = IF v = "stop" THEN af[w[p].run]
                                                      ELSE "none"])
  /\ UNCHANGED <<row, World>>

\* refresh_dag_run_status: its own reading of Airflow, then the swap.
Refresh(p) ==
  /\ w[p].pc = "refresh"
  /\ Goes(p, IF af[w[p].run] \notin AfStates THEN Idle
             ELSE [w[p] EXCEPT !.pc = "sync", !.seen = af[w[p].run]])
  /\ UNCHANGED <<row, World>>

Synced(x, seen, a) ==
  LET y == Moved(x, Advance(x.status, seen)) IN
  IF y.status \in Active /\ seen = "running" /\ x.start = "reserved"
  THEN [y EXCEPT !.start = "airflow", !.age = a] ELSE y

\* Mutant: the swap does not compare the status.
MatchesAny(x) == TRUE

Matches(x) == row[x.run].status = x.status

Sync(p) ==
  /\ w[p].pc = "sync"
  /\ LET r == w[p].run IN
     IF Matches(w[p])
     THEN \E a \in 0..row[r].age :
            row' = [row EXCEPT ![r] =
                      Synced([@ EXCEPT !.status = w[p].status], w[p].seen, a)]
     ELSE UNCHANGED row
  /\ Goes(p, Idle)
  /\ UNCHANGED World

\* Mutant: a changed state is taken for a run that is gone.
StopAny(p) ==
  /\ w[p].pc = "stop"
  /\ LET a == af[w[p].run] IN
     Goes(p, IF a = w[p].seen THEN [w[p] EXCEPT !.pc = "patch"]
             ELSE IF w[p].status \in Active
             THEN [w[p] EXCEPT !.pc = "gone"] ELSE Idle)
  /\ UNCHANGED <<row, World>>

\* airflow_mark_dag_run_failed: reads the state, and fails the run if it is
\* still the one that was seen; the two calls are not one.
Stop(p) ==
  /\ w[p].pc = "stop"
  /\ LET a == af[w[p].run] IN
     Goes(p, IF a = w[p].seen THEN [w[p] EXCEPT !.pc = "patch"]
             ELSE IF a = "deleted" /\ w[p].status \in Active
             THEN [w[p] EXCEPT !.pc = "gone"] ELSE Idle)
  /\ UNCHANGED <<row, World>>

Patch(p) ==
  /\ w[p].pc = "patch"
  /\ LET r == w[p].run IN
     IF af[r] = "deleted" THEN Goes(p, Idle) /\ UNCHANGED <<af, quiet>>
     ELSE /\ af' = [af EXCEPT ![r] = "failed"]
          /\ quiet' = [quiet EXCEPT ![r] = FALSE]
          /\ Goes(p, IF w[p].status \in Active
                     THEN [w[p] EXCEPT !.pc = "stopped"] ELSE Idle)
  /\ UNCHANGED <<row, req, work, sched, faults>>

\* The compare-and-swap of recover_update_sql, its audit record included.
Close(p) ==
  /\ w[p].pc \in Closing
  /\ LET r == w[p].run IN
     row' = IF Matches(w[p]) /\ row[r].start = w[p].start
               /\ row[r].reason = "none"
            THEN [row EXCEPT ![r] =
                    [Moved(@, Advance(@.status, "failed"))
                       EXCEPT !.reason = w[p].pc]]
            ELSE row
  /\ Goes(p, Idle)
  /\ UNCHANGED World

\* find_airflow_orphans: a closed row whose run waits in a paused DAG.
OrphanLook(p, r) ==
  /\ w[p].pc = "idle" /\ row[r].status \in Ended
  /\ sched = "paused" /\ af[r] \in Active /\ quiet[r] /\ work[r] # "active"
  /\ Goes(p, [Idle EXCEPT !.pc = "stop", !.run = r, !.seen = af[r],
                          !.status = row[r].status, !.start = row[r].start])
  /\ UNCHANGED <<row, World>>

\* A call fails or times out, the database refuses, the console dies.
Abandon(p) ==
  /\ w[p].pc # "idle" /\ Fault
  /\ Goes(p, Idle)
  /\ UNCHANGED <<row, req, af, work, quiet, sched>>

-----------------------------------------------------------------------------
Request(r) == Reserve(r) \/ Post(r) \/ PostFails(r) \/ RecordTrigger(r)
              \/ RequestLost(r)

Airflow(r) == \/ AfStart(r) \/ TaskStart(r) \/ TaskEnd(r) \/ Quieten(r)
              \/ Delete(r)
              \/ \E s \in Ended : TaskSave(r, s)
              \/ \E s \in {"success", "failed"} : AfFinish(r, s)

Step(p) == Describe(p) \/ Fetch(p) \/ Refresh(p) \/ Sync(p) \/ Stop(p)
           \/ Patch(p) \/ Close(p)

Next ==
  \/ \E r \in Runs : Request(r) \/ Airflow(r) \/ Tick(r)
  \/ \E s \in {"up", "down", "paused"} : Switch(s)
  \/ \E p \in Watchers : Step(p) \/ Abandon(p)
  \/ \E p \in Watchers, r \in Runs :
       Look(p, r, "describe") \/ Look(p, r, "refresh") \/ OrphanLook(p, r)

Spec == Init /\ [][Next]_vars

-----------------------------------------------------------------------------
(* Properties.                                                             *)

\* The types of the ledger, of Airflow's side and of the watchers.
TypeOK ==
  /\ row \in [Runs -> Rows]
  /\ req \in [Runs -> {"idle", "reserved", "done"} \cup AfStates]
  /\ af \in [Runs -> {"absent", "deleted"} \cup AfStates]
  /\ work \in [Runs -> {"none", "active", "ended"}]
  /\ quiet \in [Runs -> BOOLEAN]
  /\ sched \in {"up", "down", "paused"}
  /\ faults \in 0..MaxFaults
  /\ w \in [Watchers -> {Idle} \cup Looks]

\* Whoever writes a run's row, and however long ago it read what it writes,
\* the status never falls: a closed run is never reopened (the request's
\* upsert, the task's save, the refresh's swap, recover_update_sql).
StatusClimbs ==
  [][\A r \in Runs : Rank(row'[r].status) >= Rank(row[r].status)]_row

\* A run that a recovery closed as stalled cannot execute any more: it was
\* stopped, or is gone, in Airflow before its row was closed (_neutralize
\* before _apply_mark_failed).
StoppedBeforeClosed ==
  \A r \in Runs : row[r].reason \in {"stopped", "gone"} =>
    af[r] \in {"failed", "deleted"}

\* A recovered run stays failed: neither a late answer of its trigger nor a
\* late save of its task nor an old refresh changes what the recovery wrote.
RecoveryIsFinal ==
  \A r \in Runs : row[r].reason # "none" => row[r].status = "failed"

\* Whoever reports it, a run counts as done only if its task was executed.
SuccessIsBacked ==
  \A r \in Runs : row[r].status \in {"success", "partial"} => work[r] # "none"

Holding == {r \in Runs : row[r].status \in Active /\ ~row[r].left}

\* Of the runs that never left the window of the reservations' count, at
\* most MaxActive are active at once and no two of one entity, whatever the
\* refreshes and recoveries do meanwhile (reserve_entity_extract_slot).
ActiveBounded ==
  /\ Cardinality(Holding) <= MaxActive
  /\ \A q, r \in Holding : Entity[q] = Entity[r] => q = r

\* Nothing is known, in Airflow or of a request, of a run without a row.
UnreservedIsUnknown ==
  \A r \in Runs : row[r].status = "none" =>
    row[r] = NoRow /\ req[r] = "idle" /\ af[r] = "absent" /\ work[r] = "none"

\* An answered or a reported success is one of an executed task.
ReportsAreBacked ==
  \A r \in Runs : req[r] = "success" \/ af[r] = "success" => work[r] # "none"

\* A run that is being triggered has not been deleted.
PendingIsNotDeleted == \A r \in Runs : req[r] = "reserved" => af[r] # "deleted"

HoldersAreCounted == \A r \in Holding : row[r].age < 2

\* A watcher about to close a stalled run has stopped it, and what it saw of a
\* finished one was so.
WatchersAreSound ==
  \A p \in Watchers : w[p].pc # "idle" =>
    /\ row[w[p].run].status # "none"
    /\ w[p].pc \notin {"stop", "patch"} => w[p].status \in Active
    /\ w[p].pc \in {"stop", "patch"} =>
         w[p].seen \in Active /\ af[w[p].run] # "absent"
    /\ w[p].pc = "sync" => w[p].seen \in AfStates
    /\ w[p].pc = "sync" /\ w[p].seen = "success" => work[w[p].run] # "none"
    /\ w[p].pc \in {"stopped", "gone"} => af[w[p].run] \in {"failed", "deleted"}

\* The inductive invariant: the properties above, and what request and
\* watchers hold of a run between their steps.
PipelineInv ==
  /\ TypeOK
  /\ SuccessIsBacked
  /\ RecoveryIsFinal
  /\ StoppedBeforeClosed
  /\ ActiveBounded
  /\ UnreservedIsUnknown
  /\ ReportsAreBacked
  /\ PendingIsNotDeleted
  /\ HoldersAreCounted
  /\ WatchersAreSound

=============================================================================
