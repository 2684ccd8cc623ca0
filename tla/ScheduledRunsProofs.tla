-------------------------- MODULE ScheduledRunsProofs --------------------------
(***************************************************************************)
(* ScheduledRuns keeps its inductive invariant and implements FencedRun,   *)
(* for any number of instances, takeovers and faults.                      *)
(***************************************************************************)
EXTENDS ScheduledRuns, TLAPS

\* What finish_scheduled_run makes of the row.
LEMMA ClosedRowFacts == ASSUME TypeOK, NEW i \in Instances PROVE
  /\ ClosedRow(i) \in Rows
  /\ ClosedRow(i).token = row.token
  /\ ClosedRow(i).status = "none" <=> row.status = "none"
  /\ ClosedRow(i) = row \/ (Authority(tok[i]) /\ ClosedRow(i).status = plan[i].status)
<1>1. plan[i] \in Plans /\ row \in Rows
  BY DEF TypeOK
<1>2. plan[i].status \in Closed
  BY <1>1 DEF Plans
<1>3. CASE Authority(tok[i])
  <2>1. ClosedRow(i) = [row EXCEPT !.status = plan[i].status, !.lease = "none", !.linked = plan[i].status = "ok"]
    BY <1>3 DEF ClosedRow
  <2>2. (plan[i].status = "ok") \in BOOLEAN
    OBVIOUS
  <2>3. ClosedRow(i) \in Rows
    BY <1>1, <1>2, <2>1, <2>2 DEF Rows
  <2>4. ClosedRow(i).token = row.token /\ ClosedRow(i).status = plan[i].status
    BY <1>1, <2>1 DEF Rows
  <2> QED BY <1>2, <1>3, <2>3, <2>4 DEF Closed, Authority
<1>4. CASE ~Authority(tok[i])
  BY <1>1, <1>4 DEF ClosedRow
<1> QED BY <1>3, <1>4

\* What a call that has ended leaves behind.
LEMMA LeaveFacts == ASSUME TypeOK, NEW i \in Instances, Leave(i) PROVE
  /\ pc'[i] = "idle" /\ tok'[i] = 0 /\ plan'[i] = NoPlan /\ mon'[i] = "off"
  /\ \A j \in Instances \ {i} : pc'[j] = pc[j] /\ tok'[j] = tok[j] /\ plan'[j] = plan[j] /\ mon'[j] = mon[j]
  /\ pc' \in [Instances -> {"idle", "reclaim", "start", "watch", "retry", "queued"}]
  /\ tok' \in [Instances -> 0 .. MaxToken]
  /\ plan' \in [Instances -> Plans]
  /\ mon' \in [Instances -> {"off", "working", "waiting", "failing"} \cup Finished]
BY ScheduleConstants DEF TypeOK, Leave, Goto, NoPlan, Plans, Closed

\* Losing a call keeps the ownership of tokens.
LEMMA LeaveOwn == ASSUME ScheduleInv, NEW i \in Instances, Leave(i), UNCHANGED <<agent, fx, last>>,
    row'.token = row.token, row'.status = "none" => row.status = "none"
  PROVE TokensAreOwn'
BY LeaveFacts, ScheduleConstants DEF ScheduleInv, TypeOK, Rows, TokensAreOwn

\* Two executors whose monitors are on have different tokens.
LEMMA OwnToken == ASSUME ScheduleInv, NEW i \in Instances, mon[i] # "off",
    NEW j \in Instances \ {i}, mon[j] # "off"
  PROVE tok[j] # tok[i] /\ tok[j] \in Tokens
<1>1. \A k \in {i, j} : pc[k] \in {"watch", "retry", "queued"}
  BY DEF ScheduleInv, TokensAreOwn
<1>2. \A k \in {i, j} : pc[k] \notin {"idle", "reclaim"} /\ pc[k] \in {"start", "watch", "retry", "queued"}
  BY <1>1
<1>3. tok[j] # tok[i]
  BY <1>2 DEF ScheduleInv, TokensAreOwn
<1>4. tok[j] > 0
  BY <1>2 DEF ScheduleInv, TokensAreOwn
<1>5. tok[j] \in 0 .. MaxToken
  BY DEF ScheduleInv, TypeOK
<1> QED BY <1>3, <1>4, <1>5, ScheduleConstants DEF Tokens

\* Insert keeps every type.
LEMMA InsertType == ASSUME TypeOK, NEW i \in Instances, Insert(i) PROVE TypeOK'
<1> USE ScheduleConstants DEF Tokens
<1>1. row' \in Rows
  BY DEF TypeOK, Rows, Plans, Closed, NoPlan, execVars, Goto, Insert
<1>2. pc' \in [Instances -> {"idle", "reclaim", "start", "watch", "retry", "queued"}]
  BY DEF TypeOK, Goto, execVars, Insert
<1>3. tok' \in [Instances -> 0 .. MaxToken] /\ last' \in 0 .. MaxToken
  BY DEF TypeOK, Rows, execVars, Insert
<1>4. plan' \in [Instances -> Plans]
  BY DEF TypeOK, Plans, Closed, NoPlan, execVars, Insert
<1>5. mon' \in [Instances -> {"off", "working", "waiting", "failing"} \cup Finished]
  BY DEF TypeOK, Finished, execVars, Insert
<1>6. agent' \in [Tokens -> {"none", "running", "ok", "error"}]
  BY DEF TypeOK, execVars, Insert
<1>7. fx' \in [Tokens -> {"none", "open", "asking", "called"}] /\ rec' \in {"idle", "queued"} /\ faults' \in 0 .. MaxFaults
  BY DEF TypeOK, execVars, Fault, Insert
<1> QED BY <1>1, <1>2, <1>3, <1>4, <1>5, <1>6, <1>7 DEF TypeOK

\* FindExpired keeps every type.
LEMMA FindExpiredType == ASSUME TypeOK, NEW i \in Instances, FindExpired(i) PROVE TypeOK'
<1> USE ScheduleConstants DEF Tokens
<1>1. row' \in Rows
  BY DEF TypeOK, Rows, Plans, Closed, NoPlan, execVars, Goto, FindExpired
<1>2. pc' \in [Instances -> {"idle", "reclaim", "start", "watch", "retry", "queued"}]
  BY DEF TypeOK, Goto, execVars, FindExpired
<1>3. tok' \in [Instances -> 0 .. MaxToken] /\ last' \in 0 .. MaxToken
  BY DEF TypeOK, Rows, execVars, FindExpired
<1>4. plan' \in [Instances -> Plans]
  BY DEF TypeOK, Plans, Closed, NoPlan, execVars, FindExpired
<1>5. mon' \in [Instances -> {"off", "working", "waiting", "failing"} \cup Finished]
  BY DEF TypeOK, Finished, execVars, FindExpired
<1>6. agent' \in [Tokens -> {"none", "running", "ok", "error"}]
  BY DEF TypeOK, execVars, FindExpired
<1>7. fx' \in [Tokens -> {"none", "open", "asking", "called"}] /\ rec' \in {"idle", "queued"} /\ faults' \in 0 .. MaxFaults
  BY DEF TypeOK, execVars, Fault, FindExpired
<1> QED BY <1>1, <1>2, <1>3, <1>4, <1>5, <1>6, <1>7 DEF TypeOK

\* Reclaim keeps every type.
LEMMA ReclaimType == ASSUME TypeOK, NEW i \in Instances, Reclaim(i) PROVE TypeOK'
<1> USE ScheduleConstants
<1>1. row' \in Rows /\ tok' \in [Instances -> 0 .. MaxToken]
  <2>1. CASE UNCHANGED <<row, tok>>
    BY <2>1 DEF TypeOK
  <2>2. CASE /\ row.token < MaxToken
             /\ row' = [row EXCEPT !.token = row.token + 1, !.lease = "live"]
             /\ tok' = [tok EXCEPT ![i] = row.token + 1]
    <3>1. row.token + 1 \in 0 .. MaxToken
      BY <2>2 DEF TypeOK, Rows
    <3>2. row' \in Rows
      BY <2>2, <3>1 DEF TypeOK, Rows
    <3> QED BY <2>2, <3>1, <3>2 DEF TypeOK
  <2> QED BY <2>1, <2>2 DEF Reclaim
<1>2. pc' \in [Instances -> {"idle", "reclaim", "start", "watch", "retry", "queued"}]
  BY DEF TypeOK, Goto, Reclaim
<1> QED BY <1>1, <1>2 DEF TypeOK, Reclaim

\* Start keeps every type.
LEMMA StartType == ASSUME TypeOK, NEW i \in Instances, Start(i) PROVE TypeOK'
<1> USE ScheduleConstants DEF Tokens
<1>1. row' \in Rows
  BY DEF TypeOK, Rows, Plans, Closed, NoPlan, execVars, Goto, Start, Authority
<1>2. pc' \in [Instances -> {"idle", "reclaim", "start", "watch", "retry", "queued"}]
  BY DEF TypeOK, Goto, execVars, Start, Authority
<1>3. tok' \in [Instances -> 0 .. MaxToken] /\ last' \in 0 .. MaxToken
  BY DEF TypeOK, Rows, execVars, Start, Authority
<1>4. plan' \in [Instances -> Plans]
  BY DEF TypeOK, Plans, Closed, NoPlan, execVars, Start, Authority
<1>5. mon' \in [Instances -> {"off", "working", "waiting", "failing"} \cup Finished]
  BY DEF TypeOK, Finished, execVars, Start, Authority
<1>6. agent' \in [Tokens -> {"none", "running", "ok", "error"}]
  BY DEF TypeOK, execVars, Start, Authority
<1>7. fx' \in [Tokens -> {"none", "open", "asking", "called"}] /\ rec' \in {"idle", "queued"} /\ faults' \in 0 .. MaxFaults
  BY DEF TypeOK, execVars, Fault, Start, Authority
<1> QED BY <1>1, <1>2, <1>3, <1>4, <1>5, <1>6, <1>7 DEF TypeOK

\* StartRefused keeps every type.
LEMMA StartRefusedType == ASSUME TypeOK, NEW i \in Instances, StartRefused(i) PROVE TypeOK'
<1> USE ScheduleConstants DEF Tokens
<1>1. row' \in Rows
  BY DEF TypeOK, Rows, Plans, Closed, NoPlan, execVars, Goto, StartRefused, CloseAs, Fault
<1>2. pc' \in [Instances -> {"idle", "reclaim", "start", "watch", "retry", "queued"}]
  BY DEF TypeOK, Goto, execVars, StartRefused, CloseAs, Fault
<1>3. tok' \in [Instances -> 0 .. MaxToken] /\ last' \in 0 .. MaxToken
  BY DEF TypeOK, Rows, execVars, StartRefused, CloseAs, Fault
<1>4. plan' \in [Instances -> Plans]
  BY DEF TypeOK, Plans, Closed, NoPlan, execVars, StartRefused, CloseAs, Fault
<1>5. mon' \in [Instances -> {"off", "working", "waiting", "failing"} \cup Finished]
  BY DEF TypeOK, Finished, execVars, StartRefused, CloseAs, Fault
<1>6. agent' \in [Tokens -> {"none", "running", "ok", "error"}]
  BY DEF TypeOK, execVars, StartRefused, CloseAs, Fault
<1>7. fx' \in [Tokens -> {"none", "open", "asking", "called"}] /\ rec' \in {"idle", "queued"} /\ faults' \in 0 .. MaxFaults
  BY DEF TypeOK, execVars, Fault, StartRefused, CloseAs, Fault
<1> QED BY <1>1, <1>2, <1>3, <1>4, <1>5, <1>6, <1>7 DEF TypeOK

\* Interrupted keeps every type.
LEMMA InterruptedType == ASSUME TypeOK, NEW i \in Instances, Interrupted(i) PROVE TypeOK'
<1> USE ScheduleConstants DEF Tokens
<1>1. row' \in Rows
  BY DEF TypeOK, Rows, Plans, Closed, NoPlan, execVars, Goto, Interrupted, CloseAs, Fault
<1>2. pc' \in [Instances -> {"idle", "reclaim", "start", "watch", "retry", "queued"}]
  BY DEF TypeOK, Goto, execVars, Interrupted, CloseAs, Fault
<1>3. tok' \in [Instances -> 0 .. MaxToken] /\ last' \in 0 .. MaxToken
  BY DEF TypeOK, Rows, execVars, Interrupted, CloseAs, Fault
<1>4. plan' \in [Instances -> Plans]
  BY DEF TypeOK, Plans, Closed, NoPlan, execVars, Interrupted, CloseAs, Fault
<1>5. mon' \in [Instances -> {"off", "working", "waiting", "failing"} \cup Finished]
  BY DEF TypeOK, Finished, execVars, Interrupted, CloseAs, Fault
<1>6. agent' \in [Tokens -> {"none", "running", "ok", "error"}]
  BY DEF TypeOK, execVars, Interrupted, CloseAs, Fault
<1>7. fx' \in [Tokens -> {"none", "open", "asking", "called"}] /\ rec' \in {"idle", "queued"} /\ faults' \in 0 .. MaxFaults
  BY DEF TypeOK, execVars, Fault, Interrupted, CloseAs, Fault
<1> QED BY <1>1, <1>2, <1>3, <1>4, <1>5, <1>6, <1>7 DEF TypeOK

\* Cancelled keeps every type.
LEMMA CancelledType == ASSUME TypeOK, NEW i \in Instances, Cancelled(i) PROVE TypeOK'
<1> USE ScheduleConstants DEF Tokens
<1>1. row' \in Rows
  BY DEF TypeOK, Rows, Plans, Closed, NoPlan, execVars, Goto, Cancelled, CloseAs
<1>2. pc' \in [Instances -> {"idle", "reclaim", "start", "watch", "retry", "queued"}]
  BY DEF TypeOK, Goto, execVars, Cancelled, CloseAs
<1>3. tok' \in [Instances -> 0 .. MaxToken] /\ last' \in 0 .. MaxToken
  BY DEF TypeOK, Rows, execVars, Cancelled, CloseAs
<1>4. plan' \in [Instances -> Plans]
  BY DEF TypeOK, Plans, Closed, NoPlan, execVars, Cancelled, CloseAs
<1>5. mon' \in [Instances -> {"off", "working", "waiting", "failing"} \cup Finished]
  BY DEF TypeOK, Finished, execVars, Cancelled, CloseAs
<1>6. agent' \in [Tokens -> {"none", "running", "ok", "error"}]
  BY DEF TypeOK, execVars, Cancelled, CloseAs
<1>7. fx' \in [Tokens -> {"none", "open", "asking", "called"}] /\ rec' \in {"idle", "queued"} /\ faults' \in 0 .. MaxFaults
  BY DEF TypeOK, execVars, Fault, Cancelled, CloseAs
<1> QED BY <1>1, <1>2, <1>3, <1>4, <1>5, <1>6, <1>7 DEF TypeOK

\* Returned keeps every type.
LEMMA ReturnedType == ASSUME TypeOK, NEW i \in Instances, Returned(i) PROVE TypeOK'
<1> USE ScheduleConstants DEF Tokens
<1>1. row' \in Rows
  BY DEF TypeOK, Rows, Plans, Closed, NoPlan, execVars, Goto, Returned, CloseAs
<1>2. pc' \in [Instances -> {"idle", "reclaim", "start", "watch", "retry", "queued"}]
  BY DEF TypeOK, Goto, execVars, Returned, CloseAs
<1>3. tok' \in [Instances -> 0 .. MaxToken] /\ last' \in 0 .. MaxToken
  BY DEF TypeOK, Rows, execVars, Returned, CloseAs
<1>4. plan' \in [Instances -> Plans]
  BY DEF TypeOK, Plans, Closed, NoPlan, execVars, Returned, CloseAs
<1>5. mon' \in [Instances -> {"off", "working", "waiting", "failing"} \cup Finished]
  BY DEF TypeOK, Finished, execVars, Returned, CloseAs
<1>6. agent' \in [Tokens -> {"none", "running", "ok", "error"}]
  BY DEF TypeOK, execVars, Returned, CloseAs
<1>7. fx' \in [Tokens -> {"none", "open", "asking", "called"}] /\ rec' \in {"idle", "queued"} /\ faults' \in 0 .. MaxFaults
  BY DEF TypeOK, execVars, Fault, Returned, CloseAs
<1> QED BY <1>1, <1>2, <1>3, <1>4, <1>5, <1>6, <1>7 DEF TypeOK

\* Retry keeps every type.
LEMMA RetryType == ASSUME TypeOK, NEW i \in Instances, Retry(i) PROVE TypeOK'
<1> USE ScheduleConstants DEF Tokens
<1>1. row' \in Rows
  BY DEF TypeOK, Rows, Plans, Closed, NoPlan, execVars, Goto, Retry
<1>2. pc' \in [Instances -> {"idle", "reclaim", "start", "watch", "retry", "queued"}]
  BY DEF TypeOK, Goto, execVars, Retry
<1>3. tok' \in [Instances -> 0 .. MaxToken] /\ last' \in 0 .. MaxToken
  BY DEF TypeOK, Rows, execVars, Retry
<1>4. plan' \in [Instances -> Plans]
  BY DEF TypeOK, Plans, Closed, NoPlan, execVars, Retry
<1>5. mon' \in [Instances -> {"off", "working", "waiting", "failing"} \cup Finished]
  BY DEF TypeOK, Finished, execVars, Retry
<1>6. agent' \in [Tokens -> {"none", "running", "ok", "error"}]
  BY DEF TypeOK, execVars, Retry
<1>7. fx' \in [Tokens -> {"none", "open", "asking", "called"}] /\ rec' \in {"idle", "queued"} /\ faults' \in 0 .. MaxFaults
  BY DEF TypeOK, execVars, Fault, Retry
<1> QED BY <1>1, <1>2, <1>3, <1>4, <1>5, <1>6, <1>7 DEF TypeOK

\* Finish keeps every type.
LEMMA FinishType == ASSUME TypeOK, NEW i \in Instances, Finish(i) PROVE TypeOK'
<1> USE ScheduleConstants DEF Tokens
<1>1. row' \in Rows
  BY DEF TypeOK, Rows, Plans, Closed, NoPlan, execVars, Goto, Finish, Leave, ClosedRow, Authority, Unlocked
<1>2. pc' \in [Instances -> {"idle", "reclaim", "start", "watch", "retry", "queued"}]
  BY DEF TypeOK, Goto, execVars, Finish, Leave, ClosedRow, Authority, Unlocked
<1>3. tok' \in [Instances -> 0 .. MaxToken] /\ last' \in 0 .. MaxToken
  BY DEF TypeOK, Rows, execVars, Finish, Leave, ClosedRow, Authority, Unlocked
<1>4. plan' \in [Instances -> Plans]
  BY DEF TypeOK, Plans, Closed, NoPlan, execVars, Finish, Leave, ClosedRow, Authority, Unlocked
<1>5. mon' \in [Instances -> {"off", "working", "waiting", "failing"} \cup Finished]
  BY DEF TypeOK, Finished, execVars, Finish, Leave, ClosedRow, Authority, Unlocked
<1>6. agent' \in [Tokens -> {"none", "running", "ok", "error"}]
  BY DEF TypeOK, execVars, Finish, Leave, ClosedRow, Authority, Unlocked
<1>7. fx' \in [Tokens -> {"none", "open", "asking", "called"}] /\ rec' \in {"idle", "queued"} /\ faults' \in 0 .. MaxFaults
  BY DEF TypeOK, execVars, Fault, Finish, Leave, ClosedRow, Authority, Unlocked
<1> QED BY <1>1, <1>2, <1>3, <1>4, <1>5, <1>6, <1>7 DEF TypeOK

\* FinishFails keeps every type.
LEMMA FinishFailsType == ASSUME TypeOK, NEW i \in Instances, FinishFails(i) PROVE TypeOK'
<1>1. row' \in Rows
  BY ClosedRowFacts DEF FinishFails, TypeOK
<1>2. faults' \in 0 .. MaxFaults
  BY ScheduleConstants DEF FinishFails, Fault, TypeOK
<1>3. CASE Leave(i)
  BY <1>1, <1>2, <1>3, LeaveFacts DEF FinishFails, TypeOK
<1>4. CASE Goto(i, "retry") /\ UNCHANGED <<tok, plan, mon>>
  BY <1>1, <1>2, <1>4 DEF FinishFails, TypeOK, Goto
<1> QED BY <1>3, <1>4 DEF FinishFails

\* Crash keeps every type.
LEMMA CrashType == ASSUME TypeOK, NEW i \in Instances, Crash(i) PROVE TypeOK'
<1> USE ScheduleConstants DEF Tokens
<1>1. row' \in Rows
  BY DEF TypeOK, Rows, Plans, Closed, NoPlan, execVars, Goto, Crash, Leave, Fault, NoPlan
<1>2. pc' \in [Instances -> {"idle", "reclaim", "start", "watch", "retry", "queued"}]
  BY DEF TypeOK, Goto, execVars, Crash, Leave, Fault, NoPlan
<1>3. tok' \in [Instances -> 0 .. MaxToken] /\ last' \in 0 .. MaxToken
  BY DEF TypeOK, Rows, execVars, Crash, Leave, Fault, NoPlan
<1>4. plan' \in [Instances -> Plans]
  BY DEF TypeOK, Plans, Closed, NoPlan, execVars, Crash, Leave, Fault, NoPlan
<1>5. mon' \in [Instances -> {"off", "working", "waiting", "failing"} \cup Finished]
  BY DEF TypeOK, Finished, execVars, Crash, Leave, Fault, NoPlan
<1>6. agent' \in [Tokens -> {"none", "running", "ok", "error"}]
  BY DEF TypeOK, execVars, Crash, Leave, Fault, NoPlan
<1>7. fx' \in [Tokens -> {"none", "open", "asking", "called"}] /\ rec' \in {"idle", "queued"} /\ faults' \in 0 .. MaxFaults
  BY DEF TypeOK, execVars, Fault, Crash, Leave, Fault, NoPlan
<1> QED BY <1>1, <1>2, <1>3, <1>4, <1>5, <1>6, <1>7 DEF TypeOK

\* EffectBegin keeps every type.
LEMMA EffectBeginType == ASSUME TypeOK, NEW i \in Instances, EffectBegin(i) PROVE TypeOK'
<1> USE ScheduleConstants DEF Tokens
<1>1. row' \in Rows
  BY DEF TypeOK, Rows, Plans, Closed, NoPlan, execVars, Goto, EffectBegin, Authority
<1>2. pc' \in [Instances -> {"idle", "reclaim", "start", "watch", "retry", "queued"}]
  BY DEF TypeOK, Goto, execVars, EffectBegin, Authority
<1>3. tok' \in [Instances -> 0 .. MaxToken] /\ last' \in 0 .. MaxToken
  BY DEF TypeOK, Rows, execVars, EffectBegin, Authority
<1>4. plan' \in [Instances -> Plans]
  BY DEF TypeOK, Plans, Closed, NoPlan, execVars, EffectBegin, Authority
<1>5. mon' \in [Instances -> {"off", "working", "waiting", "failing"} \cup Finished]
  BY DEF TypeOK, Finished, execVars, EffectBegin, Authority
<1>6. agent' \in [Tokens -> {"none", "running", "ok", "error"}]
  BY DEF TypeOK, execVars, EffectBegin, Authority
<1>7. fx' \in [Tokens -> {"none", "open", "asking", "called"}] /\ rec' \in {"idle", "queued"} /\ faults' \in 0 .. MaxFaults
  BY DEF TypeOK, execVars, Fault, EffectBegin, Authority
<1> QED BY <1>1, <1>2, <1>3, <1>4, <1>5, <1>6, <1>7 DEF TypeOK

\* MonitorFails keeps every type.
LEMMA MonitorFailsType == ASSUME TypeOK, NEW i \in Instances, MonitorFails(i) PROVE TypeOK'
<1> USE ScheduleConstants DEF Tokens
<1>1. row' \in Rows
  BY DEF TypeOK, Rows, Plans, Closed, NoPlan, execVars, Goto, MonitorFails
<1>2. pc' \in [Instances -> {"idle", "reclaim", "start", "watch", "retry", "queued"}]
  BY DEF TypeOK, Goto, execVars, MonitorFails
<1>3. tok' \in [Instances -> 0 .. MaxToken] /\ last' \in 0 .. MaxToken
  BY DEF TypeOK, Rows, execVars, MonitorFails
<1>4. plan' \in [Instances -> Plans]
  BY DEF TypeOK, Plans, Closed, NoPlan, execVars, MonitorFails
<1>5. mon' \in [Instances -> {"off", "working", "waiting", "failing"} \cup Finished]
  BY DEF TypeOK, Finished, execVars, MonitorFails
<1>6. agent' \in [Tokens -> {"none", "running", "ok", "error"}]
  BY DEF TypeOK, execVars, MonitorFails
<1>7. fx' \in [Tokens -> {"none", "open", "asking", "called"}] /\ rec' \in {"idle", "queued"} /\ faults' \in 0 .. MaxFaults
  BY DEF TypeOK, execVars, Fault, MonitorFails
<1> QED BY <1>1, <1>2, <1>3, <1>4, <1>5, <1>6, <1>7 DEF TypeOK

\* Inactive keeps every type.
LEMMA InactiveType == ASSUME TypeOK, NEW i \in Instances, Inactive(i) PROVE TypeOK'
<1> USE ScheduleConstants DEF Tokens
<1>1. row' \in Rows
  BY DEF TypeOK, Rows, Plans, Closed, NoPlan, execVars, Goto, Inactive
<1>2. pc' \in [Instances -> {"idle", "reclaim", "start", "watch", "retry", "queued"}]
  BY DEF TypeOK, Goto, execVars, Inactive
<1>3. tok' \in [Instances -> 0 .. MaxToken] /\ last' \in 0 .. MaxToken
  BY DEF TypeOK, Rows, execVars, Inactive
<1>4. plan' \in [Instances -> Plans]
  BY DEF TypeOK, Plans, Closed, NoPlan, execVars, Inactive
<1>5. mon' \in [Instances -> {"off", "working", "waiting", "failing"} \cup Finished]
  BY DEF TypeOK, Finished, execVars, Inactive
<1>6. agent' \in [Tokens -> {"none", "running", "ok", "error"}]
  BY DEF TypeOK, execVars, Inactive
<1>7. fx' \in [Tokens -> {"none", "open", "asking", "called"}] /\ rec' \in {"idle", "queued"} /\ faults' \in 0 .. MaxFaults
  BY DEF TypeOK, execVars, Fault, Inactive
<1> QED BY <1>1, <1>2, <1>3, <1>4, <1>5, <1>6, <1>7 DEF TypeOK

\* RecordFailure keeps every type.
LEMMA RecordFailureType == ASSUME TypeOK, NEW i \in Instances, RecordFailure(i) PROVE TypeOK'
<1> USE ScheduleConstants DEF Tokens
<1>1. row' \in Rows
  BY DEF TypeOK, Rows, Plans, Closed, NoPlan, execVars, Goto, RecordFailure, Authority
<1>2. pc' \in [Instances -> {"idle", "reclaim", "start", "watch", "retry", "queued"}]
  BY DEF TypeOK, Goto, execVars, RecordFailure, Authority
<1>3. tok' \in [Instances -> 0 .. MaxToken] /\ last' \in 0 .. MaxToken
  BY DEF TypeOK, Rows, execVars, RecordFailure, Authority
<1>4. plan' \in [Instances -> Plans]
  BY DEF TypeOK, Plans, Closed, NoPlan, execVars, RecordFailure, Authority
<1>5. mon' \in [Instances -> {"off", "working", "waiting", "failing"} \cup Finished]
  BY DEF TypeOK, Finished, execVars, RecordFailure, Authority
<1>6. agent' \in [Tokens -> {"none", "running", "ok", "error"}]
  BY DEF TypeOK, execVars, RecordFailure, Authority
<1>7. fx' \in [Tokens -> {"none", "open", "asking", "called"}] /\ rec' \in {"idle", "queued"} /\ faults' \in 0 .. MaxFaults
  BY DEF TypeOK, execVars, Fault, RecordFailure, Authority
<1> QED BY <1>1, <1>2, <1>3, <1>4, <1>5, <1>6, <1>7 DEF TypeOK

\* CallBack keeps every type.
LEMMA CallBackType == ASSUME TypeOK, NEW t \in Tokens, CallBack(t) PROVE TypeOK'
<1> USE ScheduleConstants DEF Tokens
<1>1. row' \in Rows
  BY DEF TypeOK, Rows, Plans, Closed, NoPlan, execVars, Goto, CallBack
<1>2. pc' \in [Instances -> {"idle", "reclaim", "start", "watch", "retry", "queued"}]
  BY DEF TypeOK, Goto, execVars, CallBack
<1>3. tok' \in [Instances -> 0 .. MaxToken] /\ last' \in 0 .. MaxToken
  BY DEF TypeOK, Rows, execVars, CallBack
<1>4. plan' \in [Instances -> Plans]
  BY DEF TypeOK, Plans, Closed, NoPlan, execVars, CallBack
<1>5. mon' \in [Instances -> {"off", "working", "waiting", "failing"} \cup Finished]
  BY DEF TypeOK, Finished, execVars, CallBack
<1>6. agent' \in [Tokens -> {"none", "running", "ok", "error"}]
  BY DEF TypeOK, execVars, CallBack
<1>7. fx' \in [Tokens -> {"none", "open", "asking", "called"}] /\ rec' \in {"idle", "queued"} /\ faults' \in 0 .. MaxFaults
  BY DEF TypeOK, execVars, Fault, CallBack
<1> QED BY <1>1, <1>2, <1>3, <1>4, <1>5, <1>6, <1>7 DEF TypeOK

\* Minted keeps every type.
LEMMA MintedType == ASSUME TypeOK, NEW t \in Tokens, Minted(t) PROVE TypeOK'
<1> USE ScheduleConstants DEF Tokens
<1>1. row' \in Rows
  BY DEF TypeOK, Rows, Plans, Closed, NoPlan, execVars, Goto, Minted, Authority, Queued
<1>2. pc' \in [Instances -> {"idle", "reclaim", "start", "watch", "retry", "queued"}]
  BY DEF TypeOK, Goto, execVars, Minted, Authority, Queued
<1>3. tok' \in [Instances -> 0 .. MaxToken] /\ last' \in 0 .. MaxToken
  BY DEF TypeOK, Rows, execVars, Minted, Authority, Queued
<1>4. plan' \in [Instances -> Plans]
  BY DEF TypeOK, Plans, Closed, NoPlan, execVars, Minted, Authority, Queued
<1>5. mon' \in [Instances -> {"off", "working", "waiting", "failing"} \cup Finished]
  BY DEF TypeOK, Finished, execVars, Minted, Authority, Queued
<1>6. agent' \in [Tokens -> {"none", "running", "ok", "error"}]
  BY DEF TypeOK, execVars, Minted, Authority, Queued
<1>7. fx' \in [Tokens -> {"none", "open", "asking", "called"}] /\ rec' \in {"idle", "queued"} /\ faults' \in 0 .. MaxFaults
  BY DEF TypeOK, execVars, Fault, Minted, Authority, Queued
<1> QED BY <1>1, <1>2, <1>3, <1>4, <1>5, <1>6, <1>7 DEF TypeOK

\* MintRefused keeps every type.
LEMMA MintRefusedType == ASSUME TypeOK, NEW t \in Tokens, MintRefused(t) PROVE TypeOK'
<1> USE ScheduleConstants DEF Tokens
<1>1. row' \in Rows
  BY DEF TypeOK, Rows, Plans, Closed, NoPlan, execVars, Goto, MintRefused, Authority, Queued
<1>2. pc' \in [Instances -> {"idle", "reclaim", "start", "watch", "retry", "queued"}]
  BY DEF TypeOK, Goto, execVars, MintRefused, Authority, Queued
<1>3. tok' \in [Instances -> 0 .. MaxToken] /\ last' \in 0 .. MaxToken
  BY DEF TypeOK, Rows, execVars, MintRefused, Authority, Queued
<1>4. plan' \in [Instances -> Plans]
  BY DEF TypeOK, Plans, Closed, NoPlan, execVars, MintRefused, Authority, Queued
<1>5. mon' \in [Instances -> {"off", "working", "waiting", "failing"} \cup Finished]
  BY DEF TypeOK, Finished, execVars, MintRefused, Authority, Queued
<1>6. agent' \in [Tokens -> {"none", "running", "ok", "error"}]
  BY DEF TypeOK, execVars, MintRefused, Authority, Queued
<1>7. fx' \in [Tokens -> {"none", "open", "asking", "called"}] /\ rec' \in {"idle", "queued"} /\ faults' \in 0 .. MaxFaults
  BY DEF TypeOK, execVars, Fault, MintRefused, Authority, Queued
<1> QED BY <1>1, <1>2, <1>3, <1>4, <1>5, <1>6, <1>7 DEF TypeOK

\* EffectCommit keeps every type.
LEMMA EffectCommitType == ASSUME TypeOK, NEW t \in Tokens, EffectCommit(t) PROVE TypeOK'
<1> USE ScheduleConstants DEF Tokens
<1>1. row' \in Rows
  BY DEF TypeOK, Rows, Plans, Closed, NoPlan, execVars, Goto, EffectCommit, Told
<1>2. pc' \in [Instances -> {"idle", "reclaim", "start", "watch", "retry", "queued"}]
  BY DEF TypeOK, Goto, execVars, EffectCommit, Told
<1>3. tok' \in [Instances -> 0 .. MaxToken] /\ last' \in 0 .. MaxToken
  BY DEF TypeOK, Rows, execVars, EffectCommit, Told
<1>4. plan' \in [Instances -> Plans]
  BY DEF TypeOK, Plans, Closed, NoPlan, execVars, EffectCommit, Told
<1>5. mon' \in [Instances -> {"off", "working", "waiting", "failing"} \cup Finished]
  BY DEF TypeOK, Finished, execVars, EffectCommit, Told
<1>6. agent' \in [Tokens -> {"none", "running", "ok", "error"}]
  BY DEF TypeOK, execVars, EffectCommit, Told
<1>7. fx' \in [Tokens -> {"none", "open", "asking", "called"}] /\ rec' \in {"idle", "queued"} /\ faults' \in 0 .. MaxFaults
  BY DEF TypeOK, execVars, Fault, EffectCommit, Told
<1> QED BY <1>1, <1>2, <1>3, <1>4, <1>5, <1>6, <1>7 DEF TypeOK

\* EffectRollback keeps every type.
LEMMA EffectRollbackType == ASSUME TypeOK, NEW t \in Tokens, EffectRollback(t) PROVE TypeOK'
<1> USE ScheduleConstants DEF Tokens
<1>1. row' \in Rows
  BY DEF TypeOK, Rows, Plans, Closed, NoPlan, execVars, Goto, EffectRollback, Told
<1>2. pc' \in [Instances -> {"idle", "reclaim", "start", "watch", "retry", "queued"}]
  BY DEF TypeOK, Goto, execVars, EffectRollback, Told
<1>3. tok' \in [Instances -> 0 .. MaxToken] /\ last' \in 0 .. MaxToken
  BY DEF TypeOK, Rows, execVars, EffectRollback, Told
<1>4. plan' \in [Instances -> Plans]
  BY DEF TypeOK, Plans, Closed, NoPlan, execVars, EffectRollback, Told
<1>5. mon' \in [Instances -> {"off", "working", "waiting", "failing"} \cup Finished]
  BY DEF TypeOK, Finished, execVars, EffectRollback, Told
<1>6. agent' \in [Tokens -> {"none", "running", "ok", "error"}]
  BY DEF TypeOK, execVars, EffectRollback, Told
<1>7. fx' \in [Tokens -> {"none", "open", "asking", "called"}] /\ rec' \in {"idle", "queued"} /\ faults' \in 0 .. MaxFaults
  BY DEF TypeOK, execVars, Fault, EffectRollback, Told
<1> QED BY <1>1, <1>2, <1>3, <1>4, <1>5, <1>6, <1>7 DEF TypeOK

\* FindStale keeps every type.
LEMMA FindStaleType == ASSUME TypeOK, FindStale PROVE TypeOK'
<1> USE ScheduleConstants DEF Tokens
<1>1. row' \in Rows
  BY DEF TypeOK, Rows, Plans, Closed, NoPlan, execVars, Goto, FindStale
<1>2. pc' \in [Instances -> {"idle", "reclaim", "start", "watch", "retry", "queued"}]
  BY DEF TypeOK, Goto, execVars, FindStale
<1>3. tok' \in [Instances -> 0 .. MaxToken] /\ last' \in 0 .. MaxToken
  BY DEF TypeOK, Rows, execVars, FindStale
<1>4. plan' \in [Instances -> Plans]
  BY DEF TypeOK, Plans, Closed, NoPlan, execVars, FindStale
<1>5. mon' \in [Instances -> {"off", "working", "waiting", "failing"} \cup Finished]
  BY DEF TypeOK, Finished, execVars, FindStale
<1>6. agent' \in [Tokens -> {"none", "running", "ok", "error"}]
  BY DEF TypeOK, execVars, FindStale
<1>7. fx' \in [Tokens -> {"none", "open", "asking", "called"}] /\ rec' \in {"idle", "queued"} /\ faults' \in 0 .. MaxFaults
  BY DEF TypeOK, execVars, Fault, FindStale
<1> QED BY <1>1, <1>2, <1>3, <1>4, <1>5, <1>6, <1>7 DEF TypeOK

\* Reconcile keeps every type.
LEMMA ReconcileType == ASSUME TypeOK, Reconcile PROVE TypeOK'
<1> USE ScheduleConstants DEF Tokens
<1>1. row' \in Rows
  BY DEF TypeOK, Rows, Plans, Closed, NoPlan, execVars, Goto, Reconcile, Unlocked
<1>2. pc' \in [Instances -> {"idle", "reclaim", "start", "watch", "retry", "queued"}]
  BY DEF TypeOK, Goto, execVars, Reconcile, Unlocked
<1>3. tok' \in [Instances -> 0 .. MaxToken] /\ last' \in 0 .. MaxToken
  BY DEF TypeOK, Rows, execVars, Reconcile, Unlocked
<1>4. plan' \in [Instances -> Plans]
  BY DEF TypeOK, Plans, Closed, NoPlan, execVars, Reconcile, Unlocked
<1>5. mon' \in [Instances -> {"off", "working", "waiting", "failing"} \cup Finished]
  BY DEF TypeOK, Finished, execVars, Reconcile, Unlocked
<1>6. agent' \in [Tokens -> {"none", "running", "ok", "error"}]
  BY DEF TypeOK, execVars, Reconcile, Unlocked
<1>7. fx' \in [Tokens -> {"none", "open", "asking", "called"}] /\ rec' \in {"idle", "queued"} /\ faults' \in 0 .. MaxFaults
  BY DEF TypeOK, execVars, Fault, Reconcile, Unlocked
<1> QED BY <1>1, <1>2, <1>3, <1>4, <1>5, <1>6, <1>7 DEF TypeOK

\* Tick keeps every type.
LEMMA TickType == ASSUME TypeOK, Tick PROVE TypeOK'
<1> USE ScheduleConstants DEF Tokens
<1>1. row' \in Rows
  BY DEF TypeOK, Rows, Plans, Closed, NoPlan, execVars, Goto, Tick
<1>2. pc' \in [Instances -> {"idle", "reclaim", "start", "watch", "retry", "queued"}]
  BY DEF TypeOK, Goto, execVars, Tick
<1>3. tok' \in [Instances -> 0 .. MaxToken] /\ last' \in 0 .. MaxToken
  BY DEF TypeOK, Rows, execVars, Tick
<1>4. plan' \in [Instances -> Plans]
  BY DEF TypeOK, Plans, Closed, NoPlan, execVars, Tick
<1>5. mon' \in [Instances -> {"off", "working", "waiting", "failing"} \cup Finished]
  BY DEF TypeOK, Finished, execVars, Tick
<1>6. agent' \in [Tokens -> {"none", "running", "ok", "error"}]
  BY DEF TypeOK, execVars, Tick
<1>7. fx' \in [Tokens -> {"none", "open", "asking", "called"}] /\ rec' \in {"idle", "queued"} /\ faults' \in 0 .. MaxFaults
  BY DEF TypeOK, execVars, Fault, Tick
<1> QED BY <1>1, <1>2, <1>3, <1>4, <1>5, <1>6, <1>7 DEF TypeOK

\* Insert keeps the invariant.
LEMMA InsertInv == ASSUME ScheduleInv, NEW i \in Instances, Insert(i) PROVE ScheduleInv'
<1> USE ScheduleConstants DEF ScheduleInv
<1>1. TypeOK /\ TypeOK'
  BY InsertType
<1>2. EffectsAreFenced'
  BY <1>1 DEF EffectsAreFenced, TypeOK, Rows, Tokens, TokensAreOwn, execVars, Authority, Insert
<1>3. OkMeansDone'
  BY <1>1 DEF OkMeansDone, EffectsAreFenced, TypeOK, Rows, Tokens, TokensAreOwn, execVars, Authority, Goto, Insert
<1>4. TokensAreOwn'
  BY <1>1 DEF TokensAreOwn, EffectsAreFenced, TypeOK, Rows, Tokens, Plans, Finished, execVars, Authority, Goto, Insert
<1> QED BY <1>1, <1>2, <1>3, <1>4

\* FindExpired keeps the invariant.
LEMMA FindExpiredInv == ASSUME ScheduleInv, NEW i \in Instances, FindExpired(i) PROVE ScheduleInv'
<1> USE ScheduleConstants DEF ScheduleInv
<1>1. TypeOK /\ TypeOK'
  BY FindExpiredType
<1>2. EffectsAreFenced'
  BY <1>1 DEF EffectsAreFenced, TypeOK, Rows, Tokens, TokensAreOwn, execVars, Authority, FindExpired
<1>3. OkMeansDone'
  BY <1>1 DEF OkMeansDone, EffectsAreFenced, TypeOK, Rows, Tokens, TokensAreOwn, execVars, Authority, Goto, FindExpired
<1>4. TokensAreOwn'
  BY <1>1 DEF TokensAreOwn, EffectsAreFenced, TypeOK, Rows, Tokens, Plans, Finished, execVars, Authority, Goto, FindExpired
<1> QED BY <1>1, <1>2, <1>3, <1>4

\* Reclaim keeps the invariant.
LEMMA ReclaimInv == ASSUME ScheduleInv, NEW i \in Instances, Reclaim(i) PROVE ScheduleInv'
<1> USE DEF ScheduleInv
<1>1. TypeOK /\ TypeOK'
  BY ReclaimType
<1>2. EffectsAreFenced'
  BY DEF EffectsAreFenced, Reclaim, Unlocked
<1>3. UNCHANGED <<agent, plan, mon, fx, last>> /\ pc[i] = "reclaim" /\ mon[i] = "off"
  BY DEF Reclaim, TokensAreOwn
<1>4. CASE UNCHANGED <<row, tok>> /\ Goto(i, "idle")
  <2>1. OkMeansDone'
    BY <1>3, <1>4 DEF OkMeansDone
  <2>2. TokensAreOwn'
    BY <1>1, <1>3, <1>4 DEF TokensAreOwn, Goto, TypeOK
  <2> QED BY <1>1, <1>2, <2>1, <2>2
<1>5. CASE /\ row.status = "running" /\ row' = [row EXCEPT !.token = row.token + 1, !.lease = "live"]
           /\ tok' = [tok EXCEPT ![i] = row.token + 1]
           /\ Goto(i, "start")
  <2>0. row.token \in Nat /\ \A j \in Instances : tok[j] \in Nat
    BY <1>1, ScheduleConstants DEF TypeOK, Rows
  <2>1. row'.token = row.token + 1 /\ row'.status = "running"
    BY <1>1, <1>5 DEF TypeOK, Rows
  <2>2. tok'[i] = row.token + 1 /\ \A j \in Instances \ {i} : tok'[j] = tok[j] /\ tok[j] <= row.token
    BY <1>1, <1>5 DEF TypeOK, TokensAreOwn
  <2>3. pc'[i] = "start" /\ \A j \in Instances \ {i} : pc'[j] = pc[j]
    BY <1>1, <1>5 DEF TypeOK, Goto
  <2>4. OkMeansDone'
    BY <2>1 DEF OkMeansDone
  <2>5. last \in Nat /\ last <= row.token
    BY <1>1, ScheduleConstants DEF TypeOK, TokensAreOwn
  <2>6. TokensAreOwn'
    BY <1>3, <2>0, <2>1, <2>2, <2>3, <2>5 DEF TokensAreOwn
  <2> QED BY <1>1, <1>2, <2>4, <2>6
<1> QED BY <1>4, <1>5 DEF Reclaim

\* Start keeps the invariant.
LEMMA StartInv == ASSUME ScheduleInv, NEW i \in Instances, Start(i) PROVE ScheduleInv'
<1> USE ScheduleConstants DEF ScheduleInv
<1>1. TypeOK /\ TypeOK'
  BY StartType
<1>2. EffectsAreFenced'
  BY <1>1 DEF EffectsAreFenced, TypeOK, Rows, Tokens, TokensAreOwn, execVars, Authority, Start, Authority
<1>3. OkMeansDone'
  BY <1>1 DEF OkMeansDone, EffectsAreFenced, TypeOK, Rows, Tokens, TokensAreOwn, execVars, Authority, Goto, Start, Authority
<1>4. TokensAreOwn'
  BY <1>1 DEF TokensAreOwn, EffectsAreFenced, TypeOK, Rows, Tokens, Plans, Finished, execVars, Authority, Goto, Start, Authority
<1> QED BY <1>1, <1>2, <1>3, <1>4

\* StartRefused keeps the invariant.
LEMMA StartRefusedInv == ASSUME ScheduleInv, NEW i \in Instances, StartRefused(i) PROVE ScheduleInv'
<1> USE ScheduleConstants DEF ScheduleInv
<1>1. TypeOK /\ TypeOK'
  BY StartRefusedType
<1>2. EffectsAreFenced'
  BY <1>1 DEF EffectsAreFenced, TypeOK, Rows, Tokens, TokensAreOwn, execVars, Authority, StartRefused, CloseAs, Fault
<1>3. OkMeansDone'
  BY <1>1 DEF OkMeansDone, EffectsAreFenced, TypeOK, Rows, Tokens, TokensAreOwn, execVars, Authority, Goto, StartRefused, CloseAs, Fault
<1>4. TokensAreOwn'
  BY <1>1 DEF TokensAreOwn, EffectsAreFenced, TypeOK, Rows, Tokens, Plans, Finished, execVars, Authority, Goto, StartRefused, CloseAs, Fault
<1> QED BY <1>1, <1>2, <1>3, <1>4

\* Interrupted keeps the invariant.
LEMMA InterruptedInv == ASSUME ScheduleInv, NEW i \in Instances, Interrupted(i) PROVE ScheduleInv'
<1> USE ScheduleConstants DEF ScheduleInv
<1>1. TypeOK /\ TypeOK'
  BY InterruptedType
<1>2. EffectsAreFenced'
  BY <1>1 DEF EffectsAreFenced, TypeOK, Rows, Tokens, TokensAreOwn, execVars, Authority, Interrupted, CloseAs, Fault
<1>3. OkMeansDone'
  BY <1>1 DEF OkMeansDone, EffectsAreFenced, TypeOK, Rows, Tokens, TokensAreOwn, execVars, Authority, Goto, Interrupted, CloseAs, Fault
<1>4. TokensAreOwn'
  BY <1>1 DEF TokensAreOwn, EffectsAreFenced, TypeOK, Rows, Tokens, Plans, Finished, execVars, Authority, Goto, Interrupted, CloseAs, Fault
<1> QED BY <1>1, <1>2, <1>3, <1>4

\* Cancelled keeps the invariant.
LEMMA CancelledInv == ASSUME ScheduleInv, NEW i \in Instances, Cancelled(i) PROVE ScheduleInv'
<1> USE ScheduleConstants DEF ScheduleInv
<1>1. TypeOK /\ TypeOK'
  BY CancelledType
<1>2. EffectsAreFenced'
  BY <1>1 DEF EffectsAreFenced, TypeOK, Rows, Tokens, TokensAreOwn, execVars, Authority, Cancelled, CloseAs
<1>3. OkMeansDone'
  BY <1>1 DEF OkMeansDone, EffectsAreFenced, TypeOK, Rows, Tokens, TokensAreOwn, execVars, Authority, Goto, Cancelled, CloseAs
<1>4. TokensAreOwn'
  BY <1>1 DEF TokensAreOwn, EffectsAreFenced, TypeOK, Rows, Tokens, Plans, Finished, execVars, Authority, Goto, Cancelled, CloseAs
<1> QED BY <1>1, <1>2, <1>3, <1>4

\* Returned keeps the invariant.
LEMMA ReturnedInv == ASSUME ScheduleInv, NEW i \in Instances, Returned(i) PROVE ScheduleInv'
<1> USE ScheduleConstants DEF ScheduleInv
<1>1. TypeOK /\ TypeOK'
  BY ReturnedType
<1>2. EffectsAreFenced'
  BY <1>1 DEF EffectsAreFenced, TypeOK, Rows, Tokens, TokensAreOwn, execVars, Authority, Returned, CloseAs
<1>3. OkMeansDone'
  BY <1>1 DEF OkMeansDone, EffectsAreFenced, TypeOK, Rows, Tokens, TokensAreOwn, execVars, Authority, Goto, Returned, CloseAs
<1>4. TokensAreOwn'
  BY <1>1 DEF TokensAreOwn, EffectsAreFenced, TypeOK, Rows, Tokens, Plans, Finished, execVars, Authority, Goto, Returned, CloseAs
<1> QED BY <1>1, <1>2, <1>3, <1>4

\* Retry keeps the invariant.
LEMMA RetryInv == ASSUME ScheduleInv, NEW i \in Instances, Retry(i) PROVE ScheduleInv'
<1> USE ScheduleConstants DEF ScheduleInv
<1>1. TypeOK /\ TypeOK'
  BY RetryType
<1>2. EffectsAreFenced'
  BY <1>1 DEF EffectsAreFenced, TypeOK, Rows, Tokens, TokensAreOwn, execVars, Authority, Retry
<1>3. OkMeansDone'
  BY <1>1 DEF OkMeansDone, EffectsAreFenced, TypeOK, Rows, Tokens, TokensAreOwn, execVars, Authority, Goto, Retry
<1>4. TokensAreOwn'
  BY <1>1 DEF TokensAreOwn, EffectsAreFenced, TypeOK, Rows, Tokens, Plans, Finished, execVars, Authority, Goto, Retry
<1> QED BY <1>1, <1>2, <1>3, <1>4

\* Finish keeps the invariant.
LEMMA FinishInv == ASSUME ScheduleInv, NEW i \in Instances, Finish(i) PROVE ScheduleInv'
<1> USE DEF ScheduleInv
<1>1. TypeOK /\ TypeOK'
  BY FinishType
<1>2. EffectsAreFenced'
  BY DEF EffectsAreFenced, Finish, Unlocked
<1>3. OkMeansDone'
  <2>1. row' = ClosedRow(i) /\ UNCHANGED agent /\ pc[i] = "queued"
    BY DEF Finish
  <2>2. CASE row' = row
    BY <2>1, <2>2 DEF OkMeansDone
  <2>3. CASE Authority(tok[i]) /\ row'.status = plan[i].status
    <3>1. row'.token = tok[i]
      BY <1>1, <2>1, <2>3, ClosedRowFacts DEF Authority
    <3>2. plan[i].status = "ok" => agent[tok[i]] = "ok"
      BY <2>1 DEF TokensAreOwn
    <3> QED BY <2>1, <2>3, <3>1, <3>2 DEF OkMeansDone
  <2> QED BY <1>1, <2>1, <2>2, <2>3, ClosedRowFacts
<1>4. TokensAreOwn'
  <2>1. row'.token = row.token /\ (row'.status = "none" => row.status = "none")
    BY <1>1, ClosedRowFacts DEF Finish
  <2> QED BY <2>1, LeaveOwn DEF Finish
<1> QED BY <1>1, <1>2, <1>3, <1>4

\* FinishFails keeps the invariant.
LEMMA FinishFailsInv == ASSUME ScheduleInv, NEW i \in Instances, FinishFails(i) PROVE ScheduleInv'
<1> USE DEF ScheduleInv
<1>1. TypeOK /\ TypeOK'
  BY FinishFailsType
<1>2. UNCHANGED <<agent, fx, last>> /\ pc[i] = "queued"
  BY DEF FinishFails
<1>3. UNCHANGED row \/ (Unlocked /\ row' = ClosedRow(i))
  BY DEF FinishFails
<1>4. EffectsAreFenced'
  BY <1>2, <1>3 DEF EffectsAreFenced, Unlocked
<1>5. OkMeansDone'
  <2>1. CASE row' = row
    BY <1>2, <2>1 DEF OkMeansDone
  <2>2. CASE row' = ClosedRow(i) /\ Authority(tok[i]) /\ row'.status = plan[i].status
    <3>1. row'.token = tok[i]
      BY <1>1, <2>2, ClosedRowFacts DEF Authority
    <3>2. plan[i].status = "ok" => agent[tok[i]] = "ok"
      BY <1>2 DEF TokensAreOwn
    <3> QED BY <1>2, <2>2, <3>1, <3>2 DEF OkMeansDone
  <2> QED BY <1>1, <1>3, <2>1, <2>2, ClosedRowFacts
<1>6. TokensAreOwn'
  <2>1. row'.token = row.token /\ (row'.status = "none" => row.status = "none")
    BY <1>1, <1>3, ClosedRowFacts
  <2>2. CASE Leave(i)
    BY <1>2, <2>1, <2>2, LeaveOwn
  <2>3. CASE Goto(i, "retry") /\ UNCHANGED <<tok, plan, mon>>
    BY <1>1, <1>2, <2>1, <2>3 DEF TokensAreOwn, Goto, TypeOK
  <2> QED BY <2>2, <2>3 DEF FinishFails
<1> QED BY <1>1, <1>4, <1>5, <1>6

\* Crash keeps the invariant.
LEMMA CrashInv == ASSUME ScheduleInv, NEW i \in Instances, Crash(i) PROVE ScheduleInv'
<1> USE ScheduleConstants DEF ScheduleInv
<1>1. TypeOK /\ TypeOK'
  BY CrashType
<1>2. EffectsAreFenced'
  BY <1>1 DEF EffectsAreFenced, TypeOK, Rows, Tokens, TokensAreOwn, execVars, Authority, Crash, Leave, Fault, NoPlan
<1>3. OkMeansDone'
  BY <1>1 DEF OkMeansDone, EffectsAreFenced, TypeOK, Rows, Tokens, TokensAreOwn, execVars, Authority, Goto, Crash, Leave, Fault, NoPlan
<1>4. TokensAreOwn'
  BY <1>1 DEF TokensAreOwn, EffectsAreFenced, TypeOK, Rows, Tokens, Plans, Finished, execVars, Authority, Goto, Crash, Leave, Fault, NoPlan
<1> QED BY <1>1, <1>2, <1>3, <1>4

\* EffectBegin keeps the invariant.
LEMMA EffectBeginInv == ASSUME ScheduleInv, NEW i \in Instances, EffectBegin(i) PROVE ScheduleInv'
<1> USE DEF ScheduleInv
<1>1. TypeOK /\ TypeOK'
  BY EffectBeginType
<1>2. UNCHANGED <<row, agent, pc, tok, plan, last>> /\ mon[i] = "working" /\ Authority(tok[i])
  BY DEF EffectBegin
<1>3. mon'[i] = "waiting" /\ \A j \in Instances \ {i} : mon'[j] = mon[j]
  BY <1>1 DEF EffectBegin, TypeOK
<1>4. \A t \in Tokens : t # tok[i] => fx'[t] = fx[t]
  BY <1>1 DEF EffectBegin, TypeOK
<1>5. EffectsAreFenced'
  BY <1>2, <1>4 DEF EffectsAreFenced, Authority
<1>6. OkMeansDone'
  BY <1>2 DEF OkMeansDone
<1>7. (pc[i] \in {"watch", "retry", "queued"} /\ plan[i].status # "ok") \/ pc[i] = "watch"
  BY <1>2 DEF TokensAreOwn
<1>8. \A j \in Instances \ {i} : mon[j] # "off" => tok[j] # tok[i] /\ tok[j] \in Tokens
  BY <1>1, <1>2, OwnToken
<1>9. TokensAreOwn'
  BY <1>1, <1>2, <1>3, <1>4, <1>7, <1>8 DEF TokensAreOwn
<1> QED BY <1>1, <1>5, <1>6, <1>9

\* MonitorFails keeps the invariant.
LEMMA MonitorFailsInv == ASSUME ScheduleInv, NEW i \in Instances, MonitorFails(i) PROVE ScheduleInv'
<1> USE ScheduleConstants DEF ScheduleInv
<1>1. TypeOK /\ TypeOK'
  BY MonitorFailsType
<1>2. EffectsAreFenced'
  BY <1>1 DEF EffectsAreFenced, TypeOK, Rows, Tokens, TokensAreOwn, execVars, Authority, MonitorFails
<1>3. OkMeansDone'
  BY <1>1 DEF OkMeansDone, EffectsAreFenced, TypeOK, Rows, Tokens, TokensAreOwn, execVars, Authority, Goto, MonitorFails
<1>4. TokensAreOwn'
  BY <1>1 DEF TokensAreOwn, EffectsAreFenced, TypeOK, Rows, Tokens, Plans, Finished, execVars, Authority, Goto, MonitorFails
<1> QED BY <1>1, <1>2, <1>3, <1>4

\* Inactive keeps the invariant.
LEMMA InactiveInv == ASSUME ScheduleInv, NEW i \in Instances, Inactive(i) PROVE ScheduleInv'
<1> USE ScheduleConstants DEF ScheduleInv
<1>1. TypeOK /\ TypeOK'
  BY InactiveType
<1>2. EffectsAreFenced'
  BY <1>1 DEF EffectsAreFenced, TypeOK, Rows, Tokens, TokensAreOwn, execVars, Authority, Inactive
<1>3. OkMeansDone'
  BY <1>1 DEF OkMeansDone, EffectsAreFenced, TypeOK, Rows, Tokens, TokensAreOwn, execVars, Authority, Goto, Inactive
<1>4. TokensAreOwn'
  BY <1>1 DEF TokensAreOwn, EffectsAreFenced, TypeOK, Rows, Tokens, Plans, Finished, execVars, Authority, Goto, Inactive
<1> QED BY <1>1, <1>2, <1>3, <1>4

\* RecordFailure keeps the invariant.
LEMMA RecordFailureInv == ASSUME ScheduleInv, NEW i \in Instances, RecordFailure(i) PROVE ScheduleInv'
<1> USE DEF ScheduleInv
<1>1. TypeOK /\ TypeOK'
  BY RecordFailureType
<1>2. UNCHANGED <<row, pc, tok, plan, fx>> /\ mon[i] = "failing"
  BY DEF RecordFailure
<1>3. mon'[i] = "failed" /\ \A j \in Instances \ {i} : mon'[j] = mon[j]
  BY <1>1 DEF RecordFailure, TypeOK
<1>4. \A t \in Tokens : t # tok[i] => agent'[t] = agent[t]
  BY <1>1 DEF RecordFailure, TypeOK
<1>5. last' = last \/ (row.token = tok[i] /\ last' = tok[i])
  BY DEF RecordFailure, Authority
<1>6. UNCHANGED agent \/ row.status = "running"
  BY DEF RecordFailure, Authority
<1>7. EffectsAreFenced'
  BY <1>2 DEF EffectsAreFenced
<1>8. OkMeansDone'
  BY <1>2, <1>6 DEF OkMeansDone
<1>9. \A j \in Instances \ {i} : mon[j] # "off" => tok[j] # tok[i] /\ tok[j] \in Tokens
  BY <1>1, <1>2, OwnToken
<1>10. last' <= row.token
  BY <1>1, <1>5, ScheduleConstants DEF TokensAreOwn, TypeOK, Rows
<1>11. TokensAreOwn'
  BY <1>1, <1>2, <1>3, <1>4, <1>9, <1>10 DEF TokensAreOwn
<1> QED BY <1>1, <1>7, <1>8, <1>11

\* CallBack keeps the invariant.
LEMMA CallBackInv == ASSUME ScheduleInv, NEW t \in Tokens, CallBack(t) PROVE ScheduleInv'
<1> USE ScheduleConstants DEF ScheduleInv
<1>1. TypeOK /\ TypeOK'
  BY CallBackType
<1>2. EffectsAreFenced'
  BY <1>1 DEF EffectsAreFenced, TypeOK, Rows, Tokens, TokensAreOwn, execVars, Authority, CallBack
<1>3. OkMeansDone'
  BY <1>1 DEF OkMeansDone, EffectsAreFenced, TypeOK, Rows, Tokens, TokensAreOwn, execVars, Authority, Goto, CallBack
<1>4. TokensAreOwn'
  BY <1>1 DEF TokensAreOwn, EffectsAreFenced, TypeOK, Rows, Tokens, Plans, Finished, execVars, Authority, Goto, CallBack
<1> QED BY <1>1, <1>2, <1>3, <1>4

\* Minted keeps the invariant.
LEMMA MintedInv == ASSUME ScheduleInv, NEW t \in Tokens, Minted(t) PROVE ScheduleInv'
<1> USE ScheduleConstants DEF ScheduleInv
<1>1. TypeOK /\ TypeOK'
  BY MintedType
<1>2. EffectsAreFenced'
  BY <1>1 DEF EffectsAreFenced, TypeOK, Rows, Tokens, TokensAreOwn, execVars, Authority, Minted, Authority, Queued
<1>3. OkMeansDone'
  BY <1>1 DEF OkMeansDone, EffectsAreFenced, TypeOK, Rows, Tokens, TokensAreOwn, execVars, Authority, Goto, Minted, Authority, Queued
<1>4. TokensAreOwn'
  BY <1>1 DEF TokensAreOwn, EffectsAreFenced, TypeOK, Rows, Tokens, Plans, Finished, execVars, Authority, Goto, Minted, Authority, Queued
<1> QED BY <1>1, <1>2, <1>3, <1>4

\* MintRefused keeps the invariant.
LEMMA MintRefusedInv == ASSUME ScheduleInv, NEW t \in Tokens, MintRefused(t) PROVE ScheduleInv'
<1> USE ScheduleConstants DEF ScheduleInv
<1>1. TypeOK /\ TypeOK'
  BY MintRefusedType
<1>2. EffectsAreFenced'
  BY <1>1 DEF EffectsAreFenced, TypeOK, Rows, Tokens, TokensAreOwn, execVars, Authority, MintRefused, Authority, Queued
<1>3. OkMeansDone'
  BY <1>1 DEF OkMeansDone, EffectsAreFenced, TypeOK, Rows, Tokens, TokensAreOwn, execVars, Authority, Goto, MintRefused, Authority, Queued
<1>4. TokensAreOwn'
  BY <1>1 DEF TokensAreOwn, EffectsAreFenced, TypeOK, Rows, Tokens, Plans, Finished, execVars, Authority, Goto, MintRefused, Authority, Queued
<1> QED BY <1>1, <1>2, <1>3, <1>4

\* EffectCommit keeps the invariant.
LEMMA EffectCommitInv == ASSUME ScheduleInv, NEW t \in Tokens, EffectCommit(t) PROVE ScheduleInv'
<1> USE ScheduleConstants DEF ScheduleInv
<1>1. TypeOK /\ TypeOK'
  BY EffectCommitType
<1>2. EffectsAreFenced'
  BY <1>1 DEF EffectsAreFenced, TypeOK, Rows, Tokens, TokensAreOwn, execVars, Authority, EffectCommit, Told
<1>3. OkMeansDone'
  BY <1>1 DEF OkMeansDone, EffectsAreFenced, TypeOK, Rows, Tokens, TokensAreOwn, execVars, Authority, Goto, EffectCommit, Told
<1>4. TokensAreOwn'
  BY <1>1 DEF TokensAreOwn, EffectsAreFenced, TypeOK, Rows, Tokens, Plans, Finished, execVars, Authority, Goto, EffectCommit, Told
<1> QED BY <1>1, <1>2, <1>3, <1>4

\* EffectRollback keeps the invariant.
LEMMA EffectRollbackInv == ASSUME ScheduleInv, NEW t \in Tokens, EffectRollback(t) PROVE ScheduleInv'
<1> USE ScheduleConstants DEF ScheduleInv
<1>1. TypeOK /\ TypeOK'
  BY EffectRollbackType
<1>2. EffectsAreFenced'
  BY <1>1 DEF EffectsAreFenced, TypeOK, Rows, Tokens, TokensAreOwn, execVars, Authority, EffectRollback, Told
<1>3. OkMeansDone'
  BY <1>1 DEF OkMeansDone, EffectsAreFenced, TypeOK, Rows, Tokens, TokensAreOwn, execVars, Authority, Goto, EffectRollback, Told
<1>4. TokensAreOwn'
  BY <1>1 DEF TokensAreOwn, EffectsAreFenced, TypeOK, Rows, Tokens, Plans, Finished, execVars, Authority, Goto, EffectRollback, Told
<1> QED BY <1>1, <1>2, <1>3, <1>4

\* FindStale keeps the invariant.
LEMMA FindStaleInv == ASSUME ScheduleInv, FindStale PROVE ScheduleInv'
<1> USE ScheduleConstants DEF ScheduleInv
<1>1. TypeOK /\ TypeOK'
  BY FindStaleType
<1>2. EffectsAreFenced'
  BY <1>1 DEF EffectsAreFenced, TypeOK, Rows, Tokens, TokensAreOwn, execVars, Authority, FindStale
<1>3. OkMeansDone'
  BY <1>1 DEF OkMeansDone, EffectsAreFenced, TypeOK, Rows, Tokens, TokensAreOwn, execVars, Authority, Goto, FindStale
<1>4. TokensAreOwn'
  BY <1>1 DEF TokensAreOwn, EffectsAreFenced, TypeOK, Rows, Tokens, Plans, Finished, execVars, Authority, Goto, FindStale
<1> QED BY <1>1, <1>2, <1>3, <1>4

\* Reconcile keeps the invariant.
LEMMA ReconcileInv == ASSUME ScheduleInv, Reconcile PROVE ScheduleInv'
<1> USE DEF ScheduleInv
<1>1. TypeOK /\ TypeOK'
  BY ReconcileType
<1>2. UNCHANGED <<pc, tok, plan, mon, fx, last>> /\ Unlocked
  BY DEF Reconcile, execVars
<1>3. EffectsAreFenced'
  BY <1>2 DEF EffectsAreFenced, Unlocked
<1>4. CASE UNCHANGED <<row, agent>>
  BY <1>1, <1>2, <1>3, <1>4 DEF OkMeansDone, TokensAreOwn
<1>5. CASE row' # row \/ agent' # agent
  <2>1. row.status = "running" /\ row' = [row EXCEPT !.status = "error", !.lease = "none"]
    BY <1>5 DEF Reconcile
  <2>2. row'.status = "error" /\ row'.token = row.token
    BY <1>1, <2>1 DEF TypeOK, Rows
  <2>3. \A t \in Tokens : agent[t] = "ok" => agent'[t] = "ok"
    BY <1>1 DEF Reconcile, TypeOK
  <2>4. \A j \in Instances : mon[j] # "off" => tok[j] \in Tokens
    BY <1>1, ScheduleConstants DEF TokensAreOwn, Tokens, TypeOK
  <2>5. OkMeansDone'
    BY <2>2 DEF OkMeansDone
  <2>6. TokensAreOwn'
    BY <1>2, <2>2, <2>3, <2>4 DEF TokensAreOwn
  <2> QED BY <1>1, <1>3, <2>5, <2>6
<1> QED BY <1>4, <1>5

\* Tick keeps the invariant.
LEMMA TickInv == ASSUME ScheduleInv, Tick PROVE ScheduleInv'
<1> USE ScheduleConstants DEF ScheduleInv
<1>1. TypeOK /\ TypeOK'
  BY TickType
<1>2. EffectsAreFenced'
  BY <1>1 DEF EffectsAreFenced, TypeOK, Rows, Tokens, TokensAreOwn, execVars, Authority, Tick
<1>3. OkMeansDone'
  BY <1>1 DEF OkMeansDone, EffectsAreFenced, TypeOK, Rows, Tokens, TokensAreOwn, execVars, Authority, Goto, Tick
<1>4. TokensAreOwn'
  BY <1>1 DEF TokensAreOwn, EffectsAreFenced, TypeOK, Rows, Tokens, Plans, Finished, execVars, Authority, Goto, Tick
<1> QED BY <1>1, <1>2, <1>3, <1>4

\* The initial states satisfy the invariant.
LEMMA InitInv == Init => ScheduleInv
<1> SUFFICES ASSUME Init PROVE ScheduleInv
  OBVIOUS
<1> USE ScheduleConstants
<1>0. row \in Rows
  <2>1. 0 \in 0 .. MaxToken /\ 1 \in 0 .. MaxToken
    OBVIOUS
  <2>2. [status |-> "none", token |-> 0, lease |-> "none", linked |-> FALSE] \in Rows
    BY <2>1 DEF Rows
  <2>3. [status |-> "running", token |-> 1, lease |-> "expired", linked |-> FALSE] \in Rows
    BY <2>1 DEF Rows
  <2> QED BY <2>2, <2>3 DEF Init
<1>1. TypeOK
  BY <1>0 DEF Init, TypeOK, Plans, Closed, NoPlan
<1> QED BY <1>1 DEF Init, ScheduleInv, EffectsAreFenced, OkMeansDone, TokensAreOwn

\* Every step keeps the invariant.
LEMMA NextInv == ScheduleInv /\ [Next]_vars => ScheduleInv'
<1> SUFFICES ASSUME ScheduleInv, [Next]_vars PROVE ScheduleInv'
  OBVIOUS
<1>1. ASSUME NEW i \in Instances, Executor(i) PROVE ScheduleInv'
  BY <1>1, InsertInv, FindExpiredInv, ReclaimInv, StartInv, StartRefusedInv, InterruptedInv, CancelledInv,
     ReturnedInv, RetryInv, FinishInv, FinishFailsInv, CrashInv DEF Executor
<1>2. ASSUME NEW i \in Instances, Monitor(i) PROVE ScheduleInv'
  BY <1>2, EffectBeginInv, MonitorFailsInv, InactiveInv, RecordFailureInv DEF Monitor
<1>3. ASSUME NEW t \in Tokens, Effect(t) PROVE ScheduleInv'
  BY <1>3, CallBackInv, MintedInv, MintRefusedInv, EffectCommitInv, EffectRollbackInv DEF Effect
<1>4. CASE UNCHANGED vars
  BY <1>4 DEF vars, ScheduleInv, TypeOK, EffectsAreFenced, OkMeansDone, TokensAreOwn
<1> QED BY <1>1, <1>2, <1>3, <1>4, FindStaleInv, ReconcileInv, TickInv DEF Next

\* The invariant of the scheduled run: fenced effects, true closes, own tokens.
THEOREM ScheduleInvariant == Spec => []ScheduleInv
BY InitInv, NextInv, PTL DEF Spec

\* While an effect's transaction is open, nobody takes the run over or closes it.
THEOREM EffectsFenced == Spec => []EffectsAreFenced
<1>1. ScheduleInv => EffectsAreFenced
  BY DEF ScheduleInv
<1> QED BY <1>1, ScheduleInvariant, PTL

\* A run closed as ok was finished as ok by the monitor of the closing token.
THEOREM OkIsDone == Spec => []OkMeansDone
<1>1. ScheduleInv => OkMeansDone
  BY DEF ScheduleInv
<1> QED BY <1>1, ScheduleInvariant, PTL

\* Every variable of the scheduled run keeps its type.
THEOREM ScheduleTypes == Spec => []TypeOK
<1>1. ScheduleInv => TypeOK
  BY DEF ScheduleInv
<1> QED BY <1>1, ScheduleInvariant, PTL

-----------------------------------------------------------------------------
(* Refinement. *)

\* Every step of a scheduled run is a step of a fenced run or a stutter.
LEMMA FenceStep == ASSUME ScheduleInv, Next PROVE Fence!Next \/ UNCHANGED Fence!vars
<1> USE ScheduleConstants DEF Fence!Next, Fence!Take, Fence!Write, Fence!Close, Fence!vars
<1>0. row \in Rows /\ TypeOK
  BY DEF ScheduleInv, TypeOK
<1>1. ASSUME NEW i \in Instances, Insert(i) PROVE Fence!Next \/ UNCHANGED Fence!vars
  <2>1. row.status = "none" /\ row.token = 0 /\ row'.status = "running" /\ row'.token = 1 /\ UNCHANGED last
    BY <1>1 DEF Insert, ScheduleInv, TokensAreOwn
  <2> QED BY <2>1
<1>2. ASSUME NEW i \in Instances, Reclaim(i) PROVE Fence!Next \/ UNCHANGED Fence!vars
  <2>1. CASE UNCHANGED row
    BY <1>2, <2>1 DEF Reclaim
  <2>2. CASE row.status = "running" /\ row' = [row EXCEPT !.token = row.token + 1, !.lease = "live"]
    <3>1. row'.status = "running" /\ row'.token = row.token + 1
      BY <1>0, <2>2 DEF Rows
    <3> QED BY <1>2, <2>2, <3>1 DEF Reclaim
  <2> QED BY <1>2, <2>1, <2>2 DEF Reclaim
<1>3. ASSUME NEW i \in Instances, Finish(i) \/ FinishFails(i) PROVE Fence!Next \/ UNCHANGED Fence!vars
  <2>1. UNCHANGED last /\ (row' = row \/ row' = ClosedRow(i))
    BY <1>3 DEF Finish, FinishFails
  <2>2. CASE row' = row
    BY <2>1, <2>2
  <2>3. CASE row' = ClosedRow(i) /\ Authority(tok[i]) /\ row'.status = plan[i].status
    <3>1. row'.token = row.token /\ row.status = "running"
      BY <1>0, <2>3, ClosedRowFacts DEF Authority
    <3>2. plan[i].status \in Closed
      BY <1>0 DEF TypeOK, Plans
    <3> QED BY <2>1, <2>3, <3>1, <3>2 DEF Closed
  <2> QED BY <1>0, <2>1, <2>2, <2>3, ClosedRowFacts
<1>4. ASSUME NEW i \in Instances, RecordFailure(i) PROVE Fence!Next \/ UNCHANGED Fence!vars
  BY <1>4 DEF RecordFailure, Authority
<1>5. ASSUME NEW t \in Tokens, EffectCommit(t) PROVE Fence!Next \/ UNCHANGED Fence!vars
  <2>1. row.status = "running" /\ row.token = t
    BY <1>5 DEF EffectCommit, ScheduleInv, EffectsAreFenced
  <2> QED BY <1>5, <2>1 DEF EffectCommit
<1>6. ASSUME Reconcile PROVE Fence!Next \/ UNCHANGED Fence!vars
  <2>1. CASE UNCHANGED row
    BY <1>6, <2>1 DEF Reconcile
  <2>2. CASE row.status = "running" /\ row' = [row EXCEPT !.status = "error", !.lease = "none"]
    <3>1. row'.status = "error" /\ row'.token = row.token
      BY <1>0, <2>2 DEF Rows
    <3> QED BY <1>6, <2>2, <3>1 DEF Reconcile
  <2> QED BY <1>6, <2>1, <2>2 DEF Reconcile
<1>7. ASSUME Tick PROVE Fence!Next \/ UNCHANGED Fence!vars
  <2>1. row'.status = row.status /\ row'.token = row.token
    BY <1>0, <1>7 DEF Tick, Rows
  <2> QED BY <1>7, <2>1 DEF Tick
<1>8. CASE UNCHANGED <<row, last>>
  BY <1>8
<1>9. ASSUME NEW i \in Instances, Executor(i) \/ Monitor(i) PROVE Fence!Next \/ UNCHANGED Fence!vars
  BY <1>1, <1>2, <1>3, <1>4, <1>8, <1>9 DEF Executor, Monitor, FindExpired, Start, StartRefused, Interrupted,
     Cancelled, Returned, Retry, Crash, EffectBegin, MonitorFails, Inactive
<1>10. ASSUME NEW t \in Tokens, Effect(t) PROVE Fence!Next \/ UNCHANGED Fence!vars
  BY <1>5, <1>8, <1>10 DEF Effect, CallBack, Minted, MintRefused, EffectRollback
<1> QED BY <1>6, <1>7, <1>8, <1>9, <1>10 DEF Next, FindStale

\* A scheduled run implements FencedRun: growing tokens, writes of the current holder
\* only, and a close that is never undone.
THEOREM ScheduleImplements == Spec => ImplementsFencedRun
<1>1. Init => Fence!Init
  BY DEF Init, Fence!Init
<1>2. ScheduleInv /\ [Next]_vars => [Fence!Next]_(Fence!vars)
  <2>1. CASE ScheduleInv /\ Next
    BY <2>1, FenceStep
  <2>2. CASE UNCHANGED vars
    BY <2>2 DEF vars, Fence!vars
  <2> QED BY <2>1, <2>2
<1> QED BY <1>1, <1>2, ScheduleInvariant, PTL DEF Spec, ImplementsFencedRun, Fence!Spec
=============================================================================
