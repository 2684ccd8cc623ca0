---------------------------- MODULE ScheduledRuns ----------------------------
(***************************************************************************)
(* One scheduled run of a monitor agent (an agent_schedule_runs row):      *)
(* reservation, takeover of an expired lease, the executor that watches    *)
(* monitor and heartbeat, the monitor's durable effects, each in a         *)
(* transaction that holds the run's advisory lock shared and asserts the   *)
(* fencing token, closing the run, and the reconciliation of expired runs. *)
(* Renewing a live lease changes nothing here: a lease is live, expired,   *)
(* or stale (expired for an hour; a row without a lease starts as expired).*)
(***************************************************************************)
EXTENDS Naturals

CONSTANTS
  Instances,   \* calls that run this monitor, in any process
  MaxToken,    \* bound on takeovers
  MaxFaults    \* bound on lost database calls and dying processes

ASSUME ScheduleConstants == MaxToken \in Nat \ {0} /\ MaxFaults \in Nat

VARIABLES
  row,      \* the agent_schedule_runs row
  agent,    \* agent[t]: the agent_runs row of the monitor started under token t
  pc, tok, plan,   \* an executor: step, its token, how it will close the run
  mon,      \* its monitor task
  fx,       \* fx[t]: the effect transaction open under token t
  last,     \* the token of the last effect that was committed
  rec,      \* find_due_agents' reconciliation
  faults

vars == <<row, agent, pc, tok, plan, mon, fx, last, rec, faults>>
execVars == <<pc, tok, plan, mon>>

Tokens == 1 .. MaxToken
Closed == {"ok", "error", "cancelled"}
Rows == [status : {"none", "running"} \cup Closed, token : 0 .. MaxToken,
         lease : {"none", "live", "expired", "stale"}, linked : BOOLEAN]
Plans == [status : Closed, retry : BOOLEAN]
Finished == {"ok", "invalid", "failed"}
NoPlan == [status |-> "error", retry |-> FALSE]

\* No row yet, or one that was running before leases were introduced.
Init ==
  /\ row \in {[status |-> "none", token |-> 0, lease |-> "none", linked |-> FALSE],
              [status |-> "running", token |-> 1, lease |-> "expired", linked |-> FALSE]}
  /\ agent = [t \in Tokens |-> "none"]
  /\ pc = [i \in Instances |-> "idle"]
  /\ tok = [i \in Instances |-> 0]
  /\ plan = [i \in Instances |-> NoPlan]
  /\ mon = [i \in Instances |-> "off"]
  /\ fx = [t \in Tokens |-> "none"]
  /\ last = 0 /\ rec = "idle" /\ faults = 0

Fault == faults < MaxFaults /\ faults' = faults + 1

\* assert_scheduled_effect_authority.
Authority(t) == row.status = "running" /\ row.token = t /\ row.lease = "live"

\* pg_advisory_xact_lock: nobody holds the run's lock shared.
Unlocked == \A t \in Tokens : fx[t] = "none"

\* Somebody is queued for the lock, and shared requests queue behind.
Queued == rec = "queued" \/ \E i \in Instances : pc[i] \in {"reclaim", "queued"}

Goto(i, step) == pc' = [pc EXCEPT ![i] = step]

\* The call has ended; its locals are gone.
Leave(i) ==
  /\ Goto(i, "idle")
  /\ tok' = [tok EXCEPT ![i] = 0]
  /\ plan' = [plan EXCEPT ![i] = NoPlan]
  /\ mon' = [mon EXCEPT ![i] = "off"]

CloseAs(i, status, retry) ==
  /\ plan' = [plan EXCEPT ![i] = [status |-> status, retry |-> retry]]
  /\ Goto(i, "queued")

(***************************************************************************)
(* reserve_scheduled_run. A duplicate is answered and changes nothing.     *)
(***************************************************************************)

Insert(i) ==
  /\ pc[i] = "idle" /\ row.status = "none"
  /\ row' = [status |-> "running", token |-> 1, lease |-> "live", linked |-> FALSE]
  /\ tok' = [tok EXCEPT ![i] = 1]
  /\ Goto(i, "start")
  /\ UNCHANGED <<agent, plan, mon, fx, last, rec, faults>>

FindExpired(i) ==
  /\ pc[i] = "idle" /\ row.status = "running" /\ row.lease # "live"
  /\ Goto(i, "reclaim")
  /\ UNCHANGED <<row, agent, tok, plan, mon, fx, last, rec, faults>>

\* Mutant: the UPDATE does not ask for a running row.
ReclaimClosed(i) ==
  /\ pc[i] = "reclaim" /\ Unlocked
  /\ IF row.lease # "live" /\ row.token < MaxToken
     THEN /\ row' = [row EXCEPT !.token = @ + 1, !.lease = "live"]
          /\ tok' = [tok EXCEPT ![i] = row.token + 1]
          /\ Goto(i, "start")
     ELSE UNCHANGED <<row, tok>> /\ Goto(i, "idle")
  /\ UNCHANGED <<agent, plan, mon, fx, last, rec, faults>>

\* Mutant: the token is not raised.
ReclaimSameToken(i) ==
  /\ pc[i] = "reclaim" /\ Unlocked
  /\ IF row.status = "running" /\ row.lease # "live"
     THEN /\ row' = [row EXCEPT !.lease = "live"]
          /\ tok' = [tok EXCEPT ![i] = row.token]
          /\ Goto(i, "start")
     ELSE UNCHANGED <<row, tok>> /\ Goto(i, "idle")
  /\ UNCHANGED <<agent, plan, mon, fx, last, rec, faults>>

\* The guarded UPDATE, after the lock.
Reclaim(i) ==
  /\ pc[i] = "reclaim" /\ Unlocked
  /\ IF row.status = "running" /\ row.lease # "live" /\ row.token < MaxToken
     THEN /\ row' = [row EXCEPT !.token = @ + 1, !.lease = "live"]
          /\ tok' = [tok EXCEPT ![i] = row.token + 1]
          /\ Goto(i, "start")
     ELSE UNCHANGED <<row, tok>> /\ Goto(i, "idle")
  /\ UNCHANGED <<agent, plan, mon, fx, last, rec, faults>>

(***************************************************************************)
(* execute_reserved_scheduled_monitor.                                     *)
(***************************************************************************)

\* The first heartbeat decides whether the monitor starts at all.
Start(i) ==
  /\ pc[i] = "start" /\ Authority(tok[i])
  /\ mon' = [mon EXCEPT ![i] = "working"]
  /\ Goto(i, "watch")
  /\ UNCHANGED <<row, agent, tok, plan, fx, last, rec, faults>>

StartRefused(i) ==
  /\ pc[i] = "start"
  /\ \/ ~Authority(tok[i]) /\ UNCHANGED faults
     \/ Fault
  /\ CloseAs(i, "error", FALSE)
  /\ UNCHANGED <<row, agent, tok, mon, fx, last, rec>>

\* Timeout of the monitor, or a heartbeat that fails.
Interrupted(i) ==
  /\ pc[i] = "watch"
  /\ \/ (mon[i] \notin Finished \/ ~Authority(tok[i])) /\ UNCHANGED faults
     \/ Fault
  /\ CloseAs(i, "error", TRUE)
  /\ UNCHANGED <<row, agent, tok, mon, fx, last, rec>>

\* CancelledError from outside.
Cancelled(i) ==
  /\ pc[i] = "watch"
  /\ CloseAs(i, "cancelled", TRUE)
  /\ UNCHANGED <<row, agent, tok, mon, fx, last, rec, faults>>

\* Mutant: whatever the monitor returned counts as ok.
ReturnedOk(i) ==
  /\ pc[i] = "watch" /\ mon[i] \in Finished
  /\ CloseAs(i, "ok", FALSE)
  /\ UNCHANGED <<row, agent, tok, mon, fx, last, rec, faults>>

Returned(i) ==
  /\ pc[i] = "watch" /\ mon[i] \in Finished
  /\ CloseAs(i, IF mon[i] = "ok" THEN "ok" ELSE "error", mon[i] = "invalid")
  /\ UNCHANGED <<row, agent, tok, mon, fx, last, rec, faults>>

Retry(i) ==
  /\ pc[i] = "retry"
  /\ Goto(i, "queued")
  /\ UNCHANGED <<row, agent, tok, plan, mon, fx, last, rec, faults>>

\* finish_scheduled_run's guarded UPDATE.
ClosedRow(i) ==
  IF Authority(tok[i])
  THEN [row EXCEPT !.status = plan[i].status, !.lease = "none", !.linked = plan[i].status = "ok"]
  ELSE row

\* The authority is retired, by this executor or before it; then the monitor is
\* cancelled. What it would still write is refused by the fence.
Finish(i) ==
  /\ pc[i] = "queued" /\ Unlocked
  /\ row' = ClosedRow(i)
  /\ Leave(i)
  /\ UNCHANGED <<agent, fx, last, rec, faults>>

\* The call fails, perhaps after its commit; retire_active_authority tries again
\* while the monitor goes on, the other paths give up.
FinishFails(i) ==
  /\ pc[i] = "queued" /\ Fault
  /\ UNCHANGED row \/ (Unlocked /\ row' = ClosedRow(i))
  /\ IF plan[i].retry
     THEN Goto(i, "retry") /\ UNCHANGED <<tok, plan, mon>>
     ELSE Leave(i)
  /\ UNCHANGED <<agent, fx, last, rec>>

\* What a dying process has sent to mcp-infra goes on without it.
Crash(i) ==
  /\ pc[i] # "idle" /\ Fault
  /\ Leave(i)
  /\ UNCHANGED <<row, agent, fx, last, rec>>

(***************************************************************************)
(* run_scheduled_monitor: agent run, audit, tools, agent run, audit.       *)
(***************************************************************************)

EffectBegin(i) ==
  /\ mon[i] = "working" /\ Authority(tok[i])
  /\ fx' = [fx EXCEPT ![tok[i]] = "open"]
  /\ mon' = [mon EXCEPT ![i] = "waiting"]
  /\ UNCHANGED <<row, agent, pc, tok, plan, last, rec, faults>>

\* wisdom_bits__run calls the console back, which asserts the authority again in
\* a transaction of its own.
CallBack(t) ==
  /\ fx[t] = "open" /\ agent[t] = "running"
  /\ fx' = [fx EXCEPT ![t] = "asking"]
  /\ UNCHANGED <<row, agent, execVars, last, rec, faults>>

Minted(t) ==
  /\ fx[t] = "asking" /\ Authority(t) /\ ~Queued
  /\ fx' = [fx EXCEPT ![t] = "called"]
  /\ UNCHANGED <<row, agent, execVars, last, rec, faults>>

\* Mutant: no lock_timeout behind a queued close.
MintWaits(t) ==
  /\ fx[t] = "asking" /\ ~Authority(t) /\ ~Queued
  /\ fx' = [fx EXCEPT ![t] = "called"]
  /\ UNCHANGED <<row, agent, execVars, last, rec, faults>>

\* A stale authority, or lock_timeout behind a queued close: no ticket.
MintRefused(t) ==
  /\ fx[t] = "asking" /\ (~Authority(t) \/ Queued)
  /\ fx' = [fx EXCEPT ![t] = "called"]
  /\ UNCHANGED <<row, agent, execVars, last, rec, faults>>

Told(t, m) == mon' = [i \in Instances |-> IF tok[i] = t /\ mon[i] = "waiting" THEN m ELSE mon[i]]

\* _start_run, then audits and tools, then _finish_run, then the last audit.
EffectCommit(t) ==
  /\ fx[t] \in {"open", "called"}
  /\ \/ /\ agent[t] = "none" /\ agent' = [agent EXCEPT ![t] = "running"]
        /\ Told(t, "working")
     \/ /\ agent[t] = "running"
        /\ agent' \in {agent, [agent EXCEPT ![t] = IF fx[t] = "open" THEN "ok" ELSE "running"]}
        /\ Told(t, "working")
     \/ agent[t] = "ok" /\ UNCHANGED agent /\ Told(t, "ok")
  /\ fx' = [fx EXCEPT ![t] = "none"]
  /\ last' = t
  /\ UNCHANGED <<row, pc, tok, plan, rec, faults>>

EffectRollback(t) ==
  /\ fx[t] \in {"open", "called"}
  /\ fx' = [fx EXCEPT ![t] = "none"]
  /\ Told(t, "failing")
  /\ UNCHANGED <<row, agent, pc, tok, plan, last, rec, faults>>

\* Any exception: a refused effect, a lost lease, an engine's error.
MonitorFails(i) ==
  /\ mon[i] = "working"
  /\ mon' = [mon EXCEPT ![i] = "failing"]
  /\ UNCHANGED <<row, agent, pc, tok, plan, fx, last, rec, faults>>

\* An inactive agent returns no run.
Inactive(i) ==
  /\ mon[i] = "working" /\ agent[tok[i]] = "none"
  /\ mon' = [mon EXCEPT ![i] = "invalid"]
  /\ UNCHANGED <<row, agent, pc, tok, plan, fx, last, rec, faults>>

\* The error is written to the agent run, if the fence lets it through.
RecordFailure(i) ==
  /\ mon[i] = "failing"
  /\ IF Authority(tok[i]) /\ agent[tok[i]] # "none"
     THEN agent' = [agent EXCEPT ![tok[i]] = "error"] /\ last' = tok[i]
     ELSE UNCHANGED <<agent, last>>
  /\ mon' = [mon EXCEPT ![i] = "failed"]
  /\ UNCHANGED <<row, pc, tok, plan, fx, rec, faults>>

(***************************************************************************)
(* reconcile_expired_runs, and time.                                       *)
(***************************************************************************)

\* Mutant: only rows that never had a lease are looked for.
FindWithoutLease ==
  /\ rec = "idle" /\ row.status = "running" /\ row.lease = "none"
  /\ rec' = "queued"
  /\ UNCHANGED <<row, agent, execVars, fx, last, faults>>

FindStale ==
  /\ rec = "idle" /\ row.status = "running" /\ row.lease = "stale"
  /\ rec' = "queued"
  /\ UNCHANGED <<row, agent, execVars, fx, last, faults>>

Reconcile ==
  /\ rec = "queued" /\ Unlocked
  /\ IF row.status = "running" /\ row.lease = "stale"
     THEN /\ row' = [row EXCEPT !.status = "error", !.lease = "none"]
          /\ agent' = IF row.linked /\ agent[row.token] = "running"
                      THEN [agent EXCEPT ![row.token] = "error"] ELSE agent
     ELSE UNCHANGED <<row, agent>>
  /\ rec' = "idle"
  /\ UNCHANGED <<execVars, fx, last, faults>>

Tick ==
  /\ row.lease \in {"live", "expired"}
  /\ row' = [row EXCEPT !.lease = IF @ = "live" THEN "expired" ELSE "stale"]
  /\ UNCHANGED <<agent, execVars, fx, last, rec, faults>>

Executor(i) ==
  \/ Insert(i) \/ FindExpired(i) \/ Reclaim(i) \/ Start(i) \/ StartRefused(i)
  \/ Interrupted(i) \/ Cancelled(i) \/ Returned(i) \/ Retry(i)
  \/ Finish(i) \/ FinishFails(i) \/ Crash(i)

Monitor(i) == EffectBegin(i) \/ MonitorFails(i) \/ Inactive(i) \/ RecordFailure(i)

Effect(t) == CallBack(t) \/ Minted(t) \/ MintRefused(t) \/ EffectCommit(t) \/ EffectRollback(t)

Next ==
  \/ \E i \in Instances : Executor(i) \/ Monitor(i)
  \/ \E t \in Tokens : Effect(t)
  \/ FindStale \/ Reconcile \/ Tick

Spec == Init /\ [][Next]_vars

\* An executor that has started goes on, effects end, the lock's queue is served in
\* order, an unrenewed lease runs out, and the scheduler polls.
FairSpec ==
  /\ Spec
  /\ \A i \in Instances :
       /\ WF_vars(Start(i) \/ StartRefused(i) \/ Interrupted(i) \/ Returned(i) \/ Retry(i))
       /\ SF_vars(Finish(i) \/ Reclaim(i))
  /\ WF_vars(\E t \in Tokens : Minted(t) \/ MintRefused(t) \/ EffectCommit(t))
  /\ WF_vars(Tick) /\ WF_vars(FindStale) /\ SF_vars(Reconcile)

(***************************************************************************)
(* Properties.                                                             *)
(***************************************************************************)

\* Every variable has its type.
TypeOK ==
  /\ row \in Rows
  /\ agent \in [Tokens -> {"none", "running", "ok", "error"}]
  /\ pc \in [Instances -> {"idle", "reclaim", "start", "watch", "retry", "queued"}]
  /\ tok \in [Instances -> 0 .. MaxToken]
  /\ plan \in [Instances -> Plans]
  /\ mon \in [Instances -> {"off", "working", "waiting", "failing"} \cup Finished]
  /\ fx \in [Tokens -> {"none", "open", "asking", "called"}]
  /\ last \in 0 .. MaxToken
  /\ rec \in {"idle", "queued"}
  /\ faults \in 0 .. MaxFaults

\* assert_scheduled_effect_authority holds the run's lock to the end of the
\* transaction: while an effect is open, the run stays running under its token,
\* even when the lease has expired and others wait to take it over or to close it.
EffectsAreFenced ==
  \A t \in Tokens : fx[t] # "none" => row.status = "running" /\ row.token = t

\* A run closed as ok is the work of the token that closed it: its monitor has
\* finished its agent run as ok, and nobody has changed that since.
OkMeansDone == row.status = "ok" => agent[row.token] = "ok"

\* Tokens are handed out once, and an executor's monitor is its own.
TokensAreOwn ==
  /\ last <= row.token
  /\ row.status = "none" => row.token = 0
  /\ \A i \in Instances :
       /\ tok[i] <= row.token
       /\ pc[i] \in {"start", "watch", "retry", "queued"} => tok[i] > 0
       /\ mon[i] # "off" => pc[i] \in {"watch", "retry", "queued"}
       /\ mon[i] = "ok" => agent[tok[i]] = "ok" /\ fx[tok[i]] = "none"
       /\ pc[i] \in {"retry", "queued"} /\ plan[i].status = "ok" => mon[i] = "ok"
  /\ \A i, j \in Instances :
       i # j /\ pc[i] \notin {"idle", "reclaim"} /\ pc[j] \notin {"idle", "reclaim"} =>
         tok[i] # tok[j]

\* The inductive invariant behind the properties above.
ScheduleInv == TypeOK /\ EffectsAreFenced /\ OkMeansDone /\ TokensAreOwn

Fence == INSTANCE FencedRun WITH
           phase <- CASE row.status = "none" -> "none" [] row.status = "running" -> "held"
                      [] OTHER -> "closed",
           token <- row.token,
           wrote <- last

\* A scheduled run is a fenced run: takeovers raise the token, only the current
\* holder's effects are committed, and a closed run is never touched again.
ImplementsFencedRun == Fence!Spec

\* Every executor ends, although its close waits for its own monitor's effects and
\* their call back to the console waits behind the close.
ExecutorsEnd == \A i \in Instances : pc[i] # "idle" ~> pc[i] = "idle"

\* No run stays running: it is closed by its executor, taken over or reconciled.
RunsAreClosed == row.status = "running" ~> row.status # "running"
=============================================================================
