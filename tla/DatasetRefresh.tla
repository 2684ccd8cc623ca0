--------------------------- MODULE DatasetRefresh ---------------------------
(***************************************************************************)
(* One run of the dataset_refresh_chain DAG: materialize_in_order walks    *)
(* the plan, one durable slot (a fenced pipeline_runs row) per dataset, in *)
(* one or more tries of the task, and record_run writes the outcome to the *)
(* run registry. A try that Airflow gave up may still be running.          *)
(* Renewing a live lease changes nothing here: a lease is live or it is    *)
(* not, and a heartbeat that is refused ends the wait for the job.         *)
(***************************************************************************)
EXTENDS Naturals, FiniteSets

CONSTANTS
  N,          \* the plan is 1 .. N, in the order of resolve_chain
  Upstreams,  \* Upstreams[d]: what d reads; 0 is a source outside the plan
  MaxTries,   \* the tries of a task: its retries plus one
  MaxFaults   \* bound on lost database calls, lost answers and dying workers

Items == 1 .. N
Try == 1 .. MaxTries

\* _build_plan sorts by the longest path from the seed.
ASSUME RefreshConstants ==
  /\ N \in Nat \ {0} /\ MaxTries \in Nat \ {0} /\ MaxFaults \in Nat
  /\ Upstreams \in [Items -> SUBSET (0 .. N)]
  /\ \A d \in Items : \A u \in Upstreams[d] : u < d

VARIABLES
  slot,      \* the slot row of a dataset
  job,       \* job[d][k]: the service job under the key of d and lease token k
  lenient,   \* conf.allow_partial
  cur, lost, \* Airflow: the current try, the tries it gave up although they ran on
  pc, pos, tok, res,   \* a try: step, item, lease token, results so far
  xcom,      \* the pushed result; all "none" before
  reg,       \* status of the DAG's row in the run registry
  rpc, rtry, outcome,  \* record_run: step, try, the status it computed
  faults

tryVars == <<pc, pos, tok, res>>
recVars == <<reg, rpc, rtry, outcome>>
vars == <<slot, job, lenient, cur, lost, pc, pos, tok, res, xcom,
          reg, rpc, rtry, outcome, faults>>

Durable == {"ok", "degraded"}        \* status success; partial with a degraded result
Slots == [status : {"none", "running", "failed", "skipped"} \cup Durable,
          token : 0 .. MaxTries, live : BOOLEAN]
Classes == {"none", "failed", "blocked", "absent"} \cup Durable
Answers == {"failed", "rejected", "absent"} \cup Durable
NoResult == [d \in Items |-> "none"]

Init ==
  /\ slot = [d \in Items |-> [status |-> "none", token |-> 0, live |-> FALSE]]
  /\ job = [d \in Items |-> [k \in Try |-> "none"]]
  /\ lenient \in BOOLEAN
  /\ cur = 0 /\ lost = {}
  /\ pc = [t \in Try |-> "idle"] /\ pos = [t \in Try |-> 1]
  /\ tok = [t \in Try |-> 0] /\ res = [t \in Try |-> NoResult]
  /\ xcom = NoResult
  /\ reg = "none" /\ rpc = "wait" /\ rtry = 1 /\ outcome = "none"
  /\ faults = 0

Fault == faults < MaxFaults /\ faults' = faults + 1

Goto(t, step) == pc' = [pc EXCEPT ![t] = step]
Raise(t) == Goto(t, "raised") /\ UNCHANGED <<pos, tok, res>>
Advance(t, class) ==
  /\ Goto(t, "item")
  /\ pos' = [pos EXCEPT ![t] = @ + 1]
  /\ res' = [res EXCEPT ![t][pos[t]] = class]
  /\ UNCHANGED tok

(***************************************************************************)
(* reserve_materialization.                                                *)
(***************************************************************************)
Active(d) == slot[d].status = "running" /\ slot[d].live

\* Mutant: a degraded result is not durable.
FreeUnlessOk(d) == slot[d].status # "ok" /\ ~Active(d)

\* No durable result and no live lease.
Free(d) == slot[d].status \notin Durable /\ ~Active(d)

\* The commit may be acknowledged or not.
Reserve(t) ==
  /\ pc[t] = "item" /\ pos[t] <= N
  /\ LET d == pos[t] IN
       /\ Free(d)
       /\ slot' = [slot EXCEPT ![d] = [status |-> "running", token |-> @.token + 1,
                                       live |-> TRUE]]
       /\ tok' = [tok EXCEPT ![t] = slot[d].token + 1]
  /\ UNCHANGED <<job, lenient, cur, lost, pos, res, xcom, recVars>>
  /\ \/ Goto(t, "held") /\ UNCHANGED faults
     \/ Goto(t, "raised") /\ Fault

\* A durable result is reused by every later try.
Reuse(t) ==
  /\ pc[t] = "item" /\ pos[t] <= N /\ slot[pos[t]].status \in Durable
  /\ Advance(t, slot[pos[t]].status)
  /\ UNCHANGED <<slot, job, lenient, cur, lost, xcom, recVars, faults>>

\* "materialization idempotency slot is already active".
AlreadyActive(t) ==
  /\ pc[t] = "item" /\ pos[t] <= N /\ Active(pos[t])
  /\ Raise(t)
  /\ UNCHANGED <<slot, job, lenient, cur, lost, xcom, recVars, faults>>

(***************************************************************************)
(* finish_materialization.                                                 *)
(***************************************************************************)
\* Mutant: the UPDATE does not compare the token.
HoldsAnyToken(t) == slot[pos[t]].status = "running" /\ slot[pos[t]].live

\* The guard of its UPDATE.
Holds(t) == slot[pos[t]].status = "running" /\ slot[pos[t]].token = tok[t] /\ slot[pos[t]].live

Finished(t, status) ==
  /\ Holds(t)
  /\ slot' = [slot EXCEPT ![pos[t]] = [@ EXCEPT !.status = status, !.live = FALSE]]

\* It is refused, or the database fails.
NotFinished(t) ==
  /\ UNCHANGED slot
  /\ IF Holds(t) THEN Fault ELSE UNCHANGED faults

\* The slot is closed and the try goes on; or finish raises and the try fails,
\* with the slot closed when only the acknowledgement was lost.
Conclude(t, status, class) ==
  /\ UNCHANGED <<job, lenient, cur, lost, xcom, recVars>>
  /\ \/ Finished(t, status) /\ Advance(t, class) /\ UNCHANGED faults
     \/ Finished(t, status) /\ Raise(t) /\ Fault
     \/ NotFinished(t) /\ Raise(t)

\* "runtime materialization authority failed closed".
FailClosed(t) ==
  /\ UNCHANGED <<job, lenient, cur, lost, xcom, recVars>>
  /\ Raise(t)
  /\ \/ Finished(t, "failed") /\ UNCHANGED faults
     \/ NotFinished(t)

(***************************************************************************)
(* materialize_in_order.                                                   *)
(***************************************************************************)
\* failure_chain: failed, or skipped because of one that is in it.
FailureChain(t) == {d \in Items : res[t][d] \in {"failed", "blocked"}}

Blocked(t) == Upstreams[pos[t]] \cap FailureChain(t) # {}

Skip(t) ==
  /\ pc[t] = "held" /\ Blocked(t)
  /\ Conclude(t, "skipped", "blocked")

NoContext(t) ==
  /\ pc[t] = "held" /\ ~Blocked(t)
  /\ FailClosed(t)

\* _invoke_materialize: the key of the job is made of the slot and its token.
Invoke(t) ==
  /\ pc[t] = "held" /\ ~Blocked(t)
  /\ Goto(t, "asked")
  /\ job' = [job EXCEPT ![pos[t]][tok[t]] = "asked"]
  /\ UNCHANGED <<slot, lenient, cur, lost, pos, tok, res, xcom, recVars, faults>>

Answer(t) == job[pos[t]][tok[t]]

Published(t) ==
  /\ pc[t] = "asked" /\ Answer(t) \in Durable
  /\ Conclude(t, Answer(t), Answer(t))

\* finish(success=True) failed with the lease still held: the handler reports a failure.
PublishedAsFailed(t) ==
  /\ pc[t] = "asked" /\ Answer(t) \in Durable
  /\ Finished(t, "failed") /\ Advance(t, "failed") /\ Fault
  /\ UNCHANGED <<job, lenient, cur, lost, xcom, recVars>>

Rejected(t) ==
  /\ pc[t] = "asked" /\ Answer(t) = "rejected"
  /\ FailClosed(t)

\* _structural_absence: some input was never materialized or is out of date.
Explained(t) == \E u \in Upstreams[pos[t]] : u \in Items => res[t][u] \notin Durable

Absent(t) ==
  /\ pc[t] = "asked" /\ Answer(t) = "absent" /\ Explained(t)
  /\ Conclude(t, "skipped", "absent")

\* The job failed, or the try stopped waiting for it: the deadline, a lost answer,
\* a refused heartbeat.
Failed(t) ==
  /\ pc[t] = "asked" /\ Answer(t) \in {"asked", "failed", "absent"}
  /\ Answer(t) = "absent" => ~Explained(t)
  /\ Conclude(t, "failed", "failed")

\* The result is pushed before a failed item fails the task.
End(t) ==
  /\ pc[t] = "item" /\ pos[t] > N
  /\ xcom' = res[t]
  /\ Goto(t, IF "failed" \in {res[t][d] : d \in Items} /\ ~lenient THEN "raised" ELSE "done")
  /\ UNCHANGED <<slot, job, lenient, cur, lost, pos, tok, res, recVars, faults>>

\* The service works on a job whether or not somebody still waits for it.
JobEnds(d, k) ==
  /\ job[d][k] = "asked"
  /\ \E a \in Answers : job' = [job EXCEPT ![d][k] = a]
  /\ UNCHANGED <<slot, lenient, cur, lost, tryVars, xcom, recVars, faults>>

Expire(d) ==
  /\ Active(d)
  /\ slot' = [slot EXCEPT ![d].live = FALSE]
  /\ UNCHANGED <<job, lenient, cur, lost, tryVars, xcom, recVars, faults>>

(***************************************************************************)
(* Airflow.                                                                *)
(***************************************************************************)
Over(t) == pc[t] \in {"raised", "dead"} \/ t \in lost

\* A try starts with its XCom cleared.
StartTry ==
  /\ cur < MaxTries /\ (cur > 0 => Over(cur))
  /\ cur' = cur + 1
  /\ Goto(cur + 1, "item")
  /\ xcom' = NoResult
  /\ UNCHANGED <<slot, job, lenient, lost, pos, tok, res, recVars, faults>>

Working(t) == pc[t] \in {"item", "held", "asked"}

Die(t) ==
  /\ Working(t) /\ Fault
  /\ Goto(t, "dead")
  /\ UNCHANGED <<slot, job, lenient, cur, lost, pos, tok, res, xcom, recVars>>

\* The worker's heartbeat stopped, the process did not.
GiveUp(t) ==
  /\ t = cur /\ Working(t) /\ t \notin lost /\ Fault
  /\ lost' = lost \cup {t}
  /\ UNCHANGED <<slot, job, lenient, cur, tryVars, xcom, recVars>>

TaskState ==
  IF cur = 0 THEN "none"
  ELSE IF pc[cur] = "done" /\ cur \notin lost THEN "success"
  ELSE IF cur = MaxTries /\ Over(cur) THEN "failed" ELSE "running"

(***************************************************************************)
(* record_run and pipeline_run_save.                                       *)
(***************************************************************************)
StatusRank(s) ==
  CASE s = "none" -> 0 [] s = "running" -> 20 [] s = "success" -> 30
    [] s = "partial" -> 40 [] s = "blocked" -> 50 [] OTHER -> 60

Count(x, classes) == Cardinality({d \in Items : x[d] \in classes})

\* Mutant: skipped and degraded datasets do not count.
StatusIgnoringSkips(x, state) ==
  IF state # "success" \/ Count(x, {"none"}) > 0 THEN "failed"
  ELSE IF Count(x, {"failed"}) > 0 THEN "partial" ELSE "success"

\* materialization_status; without a pushed result there are no counts.
Status(x, state) ==
  IF state # "success" \/ Count(x, {"none"}) > 0 THEN "failed"
  ELSE IF Count(x, {"failed"}) > 0 THEN (IF Count(x, Durable) > 0 THEN "partial" ELSE "failed")
  ELSE IF Count(x, {"ok"}) = 0 /\ Count(x, {"blocked", "absent"}) > 0 THEN "blocked"
  ELSE IF Count(x, {"blocked", "absent", "degraded"}) > 0 THEN "partial" ELSE "success"

\* Good enough to tell the console about it and to end the task well.
Tolerated(x, status) ==
  status = "success" \/ (status = "partial" /\ (lenient \/ Count(x, {"failed"}) = 0))

\* pipeline_run_save never lowers the rank of a status.
Save(s) == reg' = IF StatusRank(s) > StatusRank(reg) THEN s ELSE reg

\* Mutant: retries are not counted.
RaiseRecordAgain == rtry' = rtry /\ rpc' = "wait"

RaiseRecord ==
  IF rtry < MaxTries THEN rtry' = rtry + 1 /\ rpc' = "wait"
  ELSE rtry' = rtry /\ rpc' = "failed"

\* record_run starts when the task before it is done, whatever its state.
RecordStart ==
  /\ rpc = "wait" /\ TaskState \in {"success", "failed"}
  /\ outcome' = Status(xcom, TaskState)
  /\ rpc' = IF Tolerated(xcom, Status(xcom, TaskState)) THEN "open" ELSE "close"
  /\ UNCHANGED <<slot, job, lenient, cur, lost, tryVars, xcom, reg, rtry, faults>>

\* finalize_pipeline_status. A save is confirmed only by an answer with the
\* requested status; the answer may get lost, with the save made or not.
RecordOpen ==
  /\ rpc = "open"
  /\ UNCHANGED <<slot, job, lenient, cur, lost, tryVars, xcom, outcome>>
  /\ \/ Save("running") /\ reg' = "running" /\ rpc' = "trigger" /\ UNCHANGED <<rtry, faults>>
     \/ Save("running") /\ reg' # "running" /\ RaiseRecord /\ UNCHANGED faults
     \/ (Save("running") \/ UNCHANGED reg) /\ RaiseRecord /\ Fault

\* /internal/intelligence/gold-refresh.
Trigger ==
  /\ rpc = "trigger" /\ rpc' = "final"
  /\ UNCHANGED <<slot, job, lenient, cur, lost, tryVars, xcom, reg, rtry, outcome, faults>>

\* Mutant: the failure is not saved.
TriggerFailsUnsaved ==
  /\ rpc = "trigger" /\ RaiseRecord
  /\ UNCHANGED <<slot, job, lenient, cur, lost, tryVars, xcom, reg, outcome, faults>>

TriggerFails ==
  /\ rpc = "trigger" /\ RaiseRecord
  /\ UNCHANGED <<slot, job, lenient, cur, lost, tryVars, xcom, outcome>>
  /\ \/ Save("failed") /\ UNCHANGED faults
     \/ UNCHANGED reg /\ Fault

\* A run that is not good enough fails the task after it was saved.
RecordFinal ==
  /\ rpc \in {"final", "close"}
  /\ UNCHANGED <<slot, job, lenient, cur, lost, tryVars, xcom, outcome>>
  /\ \/ Save(outcome) /\ reg' = outcome /\ rpc = "final" /\ rpc' = "done" /\ UNCHANGED <<rtry, faults>>
     \/ Save(outcome) /\ (reg' # outcome \/ rpc = "close") /\ RaiseRecord /\ UNCHANGED faults
     \/ (Save(outcome) \/ UNCHANGED reg) /\ RaiseRecord /\ Fault

----------------------------------------------------------------------------
Step(t) ==
  \/ Reserve(t) \/ Reuse(t) \/ AlreadyActive(t) \/ Skip(t) \/ NoContext(t) \/ Invoke(t)
  \/ Published(t) \/ PublishedAsFailed(t) \/ Rejected(t) \/ Absent(t) \/ Failed(t) \/ End(t)

Record == RecordStart \/ RecordOpen \/ Trigger \/ TriggerFails \/ RecordFinal

Next ==
  \/ \E t \in Try : Step(t) \/ Die(t) \/ GiveUp(t)
  \/ \E d \in Items : Expire(d) \/ \E k \in Try : JobEnds(d, k)
  \/ StartTry \/ Record

Spec == Init /\ [][Next]_vars

\* A try that runs goes on, and Airflow starts the tries and tasks that are due.
FairSpec ==
  /\ Spec
  /\ \A t \in Try : WF_vars(Step(t))
  /\ WF_vars(StartTry) /\ WF_vars(Record)

(***************************************************************************)
(* Properties.                                                             *)
(***************************************************************************)

\* Every variable has its type.
TypeOK ==
  /\ slot \in [Items -> Slots]
  /\ job \in [Items -> [Try -> {"none", "asked"} \cup Answers]]
  /\ lenient \in BOOLEAN
  /\ cur \in 0 .. MaxTries /\ lost \in SUBSET Try
  /\ pc \in [Try -> {"idle", "item", "held", "asked", "raised", "done", "dead"}]
  /\ pos \in [Try -> 1 .. N + 1]
  /\ tok \in [Try -> 0 .. MaxTries]
  /\ res \in [Try -> [Items -> Classes]]
  /\ xcom \in [Items -> Classes]
  /\ reg \in {"none", "running", "success", "partial", "blocked", "failed"}
  /\ rpc \in {"wait", "open", "trigger", "final", "close", "done", "failed"}
  /\ rtry \in Try
  /\ outcome \in {"none", "success", "partial", "blocked", "failed"}
  /\ faults \in 0 .. MaxFaults

\* A slot holds a durable result only when the job under its own token published it:
\* a try that was given up and fenced off never closes the slot of the next one.
DurableIsBacked ==
  \A d \in Items : slot[d].status \in Durable => job[d][slot[d].token] = slot[d].status

\* What a try reports as refreshed, by itself or by reuse, is and stays in its slot.
ClaimsAreDurable ==
  /\ \A t \in Try, d \in Items : res[t][d] \in Durable => slot[d].status = res[t][d]
  /\ \A d \in Items : xcom[d] \in Durable => slot[d].status = xcom[d]

\* A dataset is materialized only after every planned dataset it reads was concluded
\* in the same try without a failure, its own or one it was skipped for.
InputsAreSound ==
  \A t \in Try : pc[t] = "asked" =>
    \A u \in Upstreams[pos[t]] \cap Items : res[t][u] \in Durable \cup {"absent"}

\* The registry's success stands for a durable result of every dataset in the plan, and
\* partial for one at least, whichever try pushed the result record_run read.
RecordIsBacked ==
  /\ reg = "success" => \A d \in Items : slot[d].status = "ok"
  /\ reg = "partial" => \E d \in Items : slot[d].status \in Durable

\* The DAG and the registry end with the same verdict. Only a lost call leaves the run
\* open in the registry for good, or recorded as a success by a task that failed.
RegistryAgrees ==
  /\ rpc = "done" => reg = outcome /\ reg \in {"success", "partial"}
  /\ rpc = "failed" /\ reg \in {"none", "running", "success"} => faults > 0

Holding(t) == pc[t] \in {"held", "asked"}

\* The tries that have come past the reservation of d.
Reached(d) == {t \in Try : pos[t] > d \/ (pos[t] = d /\ pc[t] \notin {"idle", "item"})}

Reservations ==
  /\ \A d \in Items : slot[d].token <= Cardinality(Reached(d))
  /\ \A t \in Try : t > cur => pc[t] = "idle"
  /\ \A t \in Try : Holding(t) => pos[t] <= N

Fencing ==
  /\ \A t \in Try : Holding(t) =>
       /\ tok[t] \in 1 .. slot[pos[t]].token
       /\ tok[t] = slot[pos[t]].token => slot[pos[t]].status = "running"
  /\ \A t, u \in Try : Holding(t) /\ Holding(u) /\ pos[t] = pos[u] /\ tok[t] = tok[u] => t = u

Progress == \A t \in Try, d \in Items : d < pos[t] => res[t][d] # "none"

OutcomeIsBacked ==
  /\ outcome = "success" => \A d \in Items : slot[d].status = "ok"
  /\ outcome = "partial" => \E d \in Items : slot[d].status \in Durable
  /\ rpc \in {"open", "trigger", "final", "done"} => outcome \in {"success", "partial"}
  /\ rpc = "close" => outcome \in {"partial", "blocked", "failed"}
  /\ reg = "success" /\ rpc # "done" => faults > 0

\* The inductive invariant: a token is given out once, to a try that comes past the
\* dataset for the first time, and its holder alone can close the slot; so results,
\* inputs, the recorded status and the registry rest on what the slots hold.
RefreshInv ==
  /\ TypeOK /\ Reservations /\ Fencing /\ Progress
  /\ DurableIsBacked /\ ClaimsAreDurable /\ InputsAreSound
  /\ OutcomeIsBacked /\ RecordIsBacked /\ RegistryAgrees

Fence(d) == INSTANCE FencedRun WITH
              phase <- CASE slot[d].status = "none" -> "none"
                         [] slot[d].status = "running" -> "held"
                         [] slot[d].status \in Durable -> "closed"
                         [] OTHER -> "open",
              token <- slot[d].token,
              wrote <- 0

\* Every slot is a fenced run: a failed or skipped slot may be taken again under a
\* larger token, a durable one never. It is Fence(d)!Spec for every d.
ImplementsFencedRun ==
  /\ \A d \in Items : Fence(d)!Init
  /\ [][\A d \in Items : [Fence(d)!Next]_(Fence(d)!vars)]_slot

\* Every run of the chain ends, with its outcome recorded or record_run failed.
RefreshEnds == <>(rpc \in {"done", "failed"})

\* The steps a try of materialize_in_order has left, at most: three for an item.
TryLeft(t) ==
  LET items == 3 * (N + 1 - pos[t])
  IN CASE pc[t] = "idle" -> 3 * N + 2
       [] pc[t] = "item" -> items + 1
       [] pc[t] = "held" -> items
       [] pc[t] = "asked" -> items - 1
       [] OTHER -> 0

\* The steps record_run has left, at most: five for each of its tries.
RecordLeft ==
  CASE rpc = "wait" -> 5 * (MaxTries - rtry) + 4
    [] rpc = "open" -> 5 * (MaxTries - rtry) + 3
    [] rpc = "trigger" -> 5 * (MaxTries - rtry) + 2
    [] rpc \in {"final", "close"} -> 5 * (MaxTries - rtry) + 1
    [] OTHER -> 0

\* A run of the chain only ever comes closer to its end: no try returns to an item
\* it has concluded or given up, none starts twice, and record_run is tried anew
\* only at the price of a try, whatever leases, jobs, lost calls and Airflow do.
RefreshAdvances ==
  [][/\ \A t \in Try : \/ pc'[t] = pc[t] /\ pos'[t] = pos[t]
                       \/ TryLeft(t)' < TryLeft(t)
     /\ UNCHANGED <<rpc, rtry>> \/ RecordLeft' < RecordLeft]_vars
=============================================================================
