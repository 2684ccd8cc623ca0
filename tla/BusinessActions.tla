--------------------------- MODULE BusinessActions ---------------------------
(***************************************************************************)
(* Supervised external write-back of the control room: execute_item and    *)
(* the transactions it runs (reserve, prepare the attempt, call the other  *)
(* system, record, finalize), beside other callers, edits of the item,     *)
(* expiring reservation leases, lost transactions and dying callers.       *)
(* A contract stands for everything effective_action_key hashes; there is  *)
(* one action_runs row per contract.                                       *)
(***************************************************************************)
EXTENDS Naturals, FiniteSets

CONSTANTS
  Callers,      \* requests being served, in any number of processes
  Contracts,    \* successive business contracts of one item, 1 .. MaxContract
  MaxContract,
  MaxCalls,     \* bound on calls of execute_item
  MaxEdits,     \* bound on edits of the item
  MaxFaults,    \* bound on lost transactions and dying callers
  NoOne

ASSUME ActionConstants ==
  /\ MaxContract \in Nat \ {0}
  /\ Contracts = 1 .. MaxContract
  /\ MaxCalls \in Nat /\ MaxEdits \in Nat /\ MaxFaults \in Nat
  /\ NoOne \notin Callers

VARIABLES
  item,     \* the control_room_items row
  bound,    \* the signed binding of the action is valid
  run,      \* run[k]: the action_runs row of contract k
  lock,     \* who holds the item's row lock across the external call
  pc, seen, mine, answer,   \* a call: step, item it read, lease token, outcome
  effects,  \* effects[k]: changes of the other system made for contract k
  remote,   \* remote[k]: calls of the adapter made for contract k
  used, edits, faults

rowVars  == <<item, bound, run>>
callVars == <<pc, seen, mine, answer>>
extVars  == <<effects, remote>>
budgets  == <<used, edits, faults>>
vars == <<item, bound, run, lock, pc, seen, mine, answer, effects, remote, used, edits, faults>>

ItemStatus == {"open", "approved"}
ExecStatus == {"not_started", "preview_generated", "dry_run_validated", "blocked",
               "failed", "executed"}
Items == [contract : Contracts, status : ItemStatus, exec : ExecStatus]
Runs  == [status : {"none", "pending", "completed", "failed"},
          attempt : {"none", "started", "ambiguous"},
          token : 0 .. MaxCalls,
          live : BOOLEAN,
          projection : {"none", "pending_reconciliation", "completed"}]
Steps == {"idle", "block", "acquire", "prepare", "execute", "remote", "record", "finalize"}
Answers == {"none", "ok", "rejected", "ambiguous", "committed"}

\* An item that has been approved and dry run, and not yet executed.
Init ==
  /\ item = [contract |-> 1, status |-> "approved", exec |-> "dry_run_validated"]
  /\ bound = TRUE
  /\ run = [k \in Contracts |-> [status |-> "none", attempt |-> "none", token |-> 0,
                                 live |-> FALSE, projection |-> "none"]]
  /\ lock = NoOne
  /\ pc = [c \in Callers |-> "idle"]
  /\ seen = [c \in Callers |-> item]
  /\ mine = [c \in Callers |-> 0]
  /\ answer = [c \in Callers |-> "none"]
  /\ effects = [k \in Contracts |-> 0]
  /\ remote = [k \in Contracts |-> 0]
  /\ used = 0 /\ edits = 0 /\ faults = 0

(***************************************************************************)
(* Helpers.                                                                *)
(***************************************************************************)
Contract(c) == seen[c].contract

Goto(c, step) == pc' = [pc EXCEPT ![c] = step]

Fault == faults < MaxFaults /\ faults' = faults + 1

\* Mutant: statements do not wait for the row lock.
Unguarded == TRUE

\* A statement on the item's row waits for the holder of its lock.
Unlocked == lock = NoOne

\* lock_authoritative_business_item: the row is what the caller read.
Unchanged(c) == item = seen[c]

\* require_approved_execution and the lifecycle it rests on.
Approved == item.status = "approved" /\ item.exec = "dry_run_validated"

\* lock_pending_action_reservation: still pending, and still this caller's lease.
Pending(c) == run[Contract(c)].status = "pending"

Holds(c) == Pending(c) /\ run[Contract(c)].token = mine[c]

\* revalidate_authoritative_action and require_authoritative_binding_current.
Revalidated(c) == bound /\ Unchanged(c) /\ Approved /\ Holds(c)

\* reservation_lease_expired, and no attempt that may have reached the other system.
Reclaimable(r) == r.status = "pending" /\ ~r.live /\ r.attempt = "none"

(***************************************************************************)
(* execute_item.                                                           *)
(***************************************************************************)

\* The item is read without a lock; its lifecycle decides whether to go on.
Enter(c) ==
  /\ pc[c] = "idle" /\ bound /\ used < MaxCalls
  /\ used' = used + 1
  /\ seen' = [seen EXCEPT ![c] = item]
  /\ mine' = [mine EXCEPT ![c] = used']   \* uuid4
  /\ answer' = [answer EXCEPT ![c] = "none"]
  /\ Goto(c, CASE item.exec = "dry_run_validated" -> "acquire"
               [] item.exec = "executed" -> "idle"
               [] OTHER -> "block")
  /\ UNCHANGED <<rowVars, lock, extVars, edits, faults>>

\* A refused call leaves its mark on the item, unless the item has moved on.
Block(c) ==
  /\ pc[c] = "block" /\ Unlocked
  /\ item' = IF Unchanged(c) THEN [item EXCEPT !.exec = "blocked"] ELSE item
  /\ Goto(c, "idle")
  /\ UNCHANGED <<bound, run, lock, seen, mine, answer, extVars, budgets>>

\* A new row, or a row whose holder is gone, gets a lease token nobody has had.
Acquirable(c) ==
  /\ bound /\ Unchanged(c) /\ Approved
  /\ run[Contract(c)].status = "none" \/ Reclaimable(run[Contract(c)])

\* Mutant: an expired reservation is reclaimed although its attempt had started.
ReserveOverwriting(c) ==
  /\ pc[c] = "acquire" /\ Unlocked /\ bound /\ Unchanged(c) /\ Approved
  /\ run[Contract(c)].status = "none"
     \/ (run[Contract(c)].status = "pending" /\ ~run[Contract(c)].live)
  /\ run' = [run EXCEPT ![Contract(c)] = [@ EXCEPT !.status = "pending",
               !.token = mine[c], !.live = TRUE, !.attempt = "none"]]
  /\ Goto(c, "prepare")
  /\ UNCHANGED <<item, bound, lock, seen, mine, answer, extVars, budgets>>

Reserve(c) ==
  /\ pc[c] = "acquire" /\ Unlocked /\ Acquirable(c)
  /\ run' = [run EXCEPT ![Contract(c)] =
               [@ EXCEPT !.status = "pending", !.token = mine[c], !.live = TRUE]]
  /\ Goto(c, "prepare")
  /\ UNCHANGED <<item, bound, lock, seen, mine, answer, extVars, budgets>>

\* Anything else is answered from the row, or refused as changed: nothing is written.
AcquireAnswered(c) ==
  /\ pc[c] = "acquire" /\ Unlocked /\ ~Acquirable(c)
  /\ Goto(c, "idle")
  /\ UNCHANGED <<rowVars, lock, seen, mine, answer, extVars, budgets>>

\* mark_remote_attempt_started, after revalidation; its commit may be lost.
Prepare(c) ==
  /\ pc[c] = "prepare" /\ Unlocked /\ Revalidated(c)
  /\ run[Contract(c)].attempt = "none"
  /\ run' = [run EXCEPT ![Contract(c)] = [@ EXCEPT !.attempt = "started", !.live = TRUE]]
  /\ \/ Goto(c, "execute") /\ UNCHANGED faults
     \/ Goto(c, "finalize") /\ Fault
  /\ UNCHANGED <<item, bound, lock, seen, mine, answer, extVars, used, edits>>

\* Revalidation locks everything the external call relies on, until the end of
\* the transaction.
Execute(c) ==
  /\ pc[c] = "execute" /\ Unlocked /\ Revalidated(c)
  /\ run[Contract(c)].attempt = "started"
  /\ lock' = c
  /\ Goto(c, "remote")
  /\ UNCHANGED <<rowVars, seen, mine, answer, extVars, budgets>>

\* item_business_state_changed: the item, the lease or the binding is not what it
\* was. The reservation is left as it is.
StateChanged(c) ==
  /\ pc[c] \in {"prepare", "execute"} /\ Unlocked
  /\ ~bound \/ ~Unchanged(c) \/ (Pending(c) /\ ~Holds(c))
  /\ Goto(c, "idle")
  /\ UNCHANGED <<rowVars, lock, seen, mine, answer, extVars, budgets>>

\* Every other refusal and every failure of the transaction.
Aborted(c) ==
  /\ pc[c] \in {"prepare", "execute"} /\ Unlocked
  /\ \/ bound /\ Unchanged(c) /\ ~Pending(c) /\ UNCHANGED faults
     \/ Fault
  /\ Goto(c, "finalize")
  /\ UNCHANGED <<rowVars, lock, seen, mine, answer, extVars, used, edits>>

\* The adapter: a success, a refusal (perhaps before anything is sent), or an
\* error that does not tell whether the other system has acted.
CallAdapter(c) ==
  /\ pc[c] = "remote" /\ lock = c
  /\ \E a \in {"ok", "rejected", "ambiguous"}, sent, acted \in {0, 1} :
       /\ acted <= sent
       /\ a = "ok" => acted = 1
       /\ a = "rejected" => acted = 0
       /\ answer' = [answer EXCEPT ![c] = a]
       /\ remote' = [remote EXCEPT ![Contract(c)] = @ + sent]
       /\ effects' = [effects EXCEPT ![Contract(c)] = @ + acted]
  /\ Goto(c, "record")
  /\ UNCHANGED <<rowVars, lock, seen, mine, budgets>>

\* Mutant: an ambiguous answer is recorded as a failure.
OutcomeFailed(r, a) == [r EXCEPT !.status = IF a = "ok" THEN "completed" ELSE "failed"]

\* The row after the answer: an ambiguous one is neither completed nor failed.
Outcome(r, a) ==
  CASE a = "ok" -> [r EXCEPT !.status = "completed"]
    [] a = "rejected" -> [r EXCEPT !.status = "failed"]
    [] OTHER -> [r EXCEPT !.attempt = "ambiguous", !.live = TRUE]

\* The outcome and the item's execution status, in the transaction that called.
Record(c) ==
  /\ pc[c] = "record" /\ lock = c
  /\ run' = [run EXCEPT ![Contract(c)] = Outcome(@, answer[c])]
  /\ item' = CASE answer[c] = "ok" -> [item EXCEPT !.exec = "executed"]
               [] answer[c] = "rejected" -> [item EXCEPT !.exec = "failed"]
               [] OTHER -> item
  /\ lock' = NoOne
  /\ \/ Goto(c, "idle") /\ UNCHANGED faults
     \/ Goto(c, "finalize") /\ Fault   \* committed, but the answer is lost
  /\ UNCHANGED <<bound, seen, mine, answer, extVars, used, edits>>

\* The transaction is rolled back after the call. remote_effect_boundary keeps a
\* success in the exception; a failing commit is outside of it.
RecordFails(c) ==
  /\ pc[c] = "record" /\ lock = c /\ Fault
  /\ lock' = NoOne
  /\ \/ answer[c] = "ok" /\ answer' = [answer EXCEPT ![c] = "committed"]
     \/ UNCHANGED answer
  /\ Goto(c, "finalize")
  /\ UNCHANGED <<rowVars, seen, mine, extVars, used, edits>>

(***************************************************************************)
(* finalize_aborted_action_reservation.                                    *)
(***************************************************************************)

\* project_committed_external_effect: the item may still take the effect.
Projectable(k) ==
  /\ item.contract = k /\ item.status = "approved"
  /\ item.exec \in {"dry_run_validated", "executed"}

FinalizeCommitted(c) ==
  /\ pc[c] = "finalize" /\ Unlocked /\ answer[c] = "committed"
  /\ LET k == Contract(c)  ok == Projectable(k) IN
       IF run[k].status = "pending"
       THEN /\ run' = [run EXCEPT ![k] = [@ EXCEPT !.status = "completed",
                 !.projection = IF ok THEN "completed" ELSE "pending_reconciliation"]]
            /\ item' = IF ok THEN [item EXCEPT !.exec = "executed"] ELSE item
       ELSE UNCHANGED <<item, run>>
  /\ Goto(c, "idle")
  /\ UNCHANGED <<bound, lock, seen, mine, answer, extVars, budgets>>

\* Mutant: an aborted reservation is failed, attempted or not.
SettledFailed(r) == [r EXCEPT !.status = "failed"]

\* An attempt that may have reached the other system is never closed as failed.
Settled(r) ==
  CASE r.attempt = "none" -> [r EXCEPT !.status = "failed"]
    [] r.attempt = "started" -> [r EXCEPT !.attempt = "ambiguous", !.live = TRUE]
    [] OTHER -> r

\* Mutant: it waits for a reservation that somebody else has.
FinalizeHeld(c) ==
  /\ pc[c] = "finalize" /\ Unlocked /\ answer[c] # "committed" /\ Holds(c)
  /\ run' = [run EXCEPT ![Contract(c)] = Settled(@)]
  /\ Goto(c, "idle")
  /\ UNCHANGED <<item, bound, lock, seen, mine, answer, extVars, budgets>>

FinalizeAborted(c) ==
  /\ pc[c] = "finalize" /\ Unlocked /\ answer[c] # "committed"
  /\ run' = IF Holds(c) THEN [run EXCEPT ![Contract(c)] = Settled(@)] ELSE run
  /\ Goto(c, "idle")
  /\ UNCHANGED <<item, bound, lock, seen, mine, answer, extVars, budgets>>

\* The caller dies or is cancelled, or its finalization fails: locks are freed,
\* what its transaction did is undone, what the other system did is not.
Crash(c) ==
  /\ pc[c] # "idle" /\ Fault
  /\ Goto(c, "idle")
  /\ lock' = IF lock = c THEN NoOne ELSE lock
  /\ UNCHANGED <<rowVars, seen, mine, answer, extVars, used, edits>>

(***************************************************************************)
(* The rest of the control room, and time.                                 *)
(***************************************************************************)

\* Approval, preview, dry run and a new observation, which starts a new contract.
EditTo(i) ==
  \/ i = [item EXCEPT !.status = "approved"]
  \/ item.exec # "executed"
     /\ \E e \in {"preview_generated", "dry_run_validated", "failed"} :
          i = [item EXCEPT !.exec = e]
  \/ item.contract < MaxContract
     /\ i = [contract |-> item.contract + 1, status |-> "open", exec |-> "not_started"]

Edit ==
  /\ Unlocked /\ edits < MaxEdits /\ edits' = edits + 1
  /\ \E i \in Items : EditTo(i) /\ item' = i
  /\ bound' = (bound \/ item'.contract # item.contract)
  /\ UNCHANGED <<run, lock, callVars, extVars, used, faults>>

\* The binding of this contract expires or is withdrawn.
Lapse ==
  /\ bound /\ edits < MaxEdits /\ edits' = edits + 1
  /\ bound' = FALSE
  /\ UNCHANGED <<item, run, lock, callVars, extVars, used, faults>>

\* Nothing has written the row for RESERVATION_LEASE_SECONDS.
Expire ==
  /\ \E k \in Contracts :
       /\ run[k].status = "pending" /\ run[k].live
       /\ run' = [run EXCEPT ![k].live = FALSE]
  /\ UNCHANGED <<item, bound, lock, callVars, extVars, budgets>>

Step(c) ==
  \/ Block(c) \/ Reserve(c) \/ AcquireAnswered(c) \/ Prepare(c) \/ Execute(c)
  \/ StateChanged(c) \/ Aborted(c) \/ CallAdapter(c) \/ Record(c) \/ RecordFails(c)
  \/ FinalizeCommitted(c) \/ FinalizeAborted(c)

Next == \/ \E c \in Callers : Enter(c) \/ Step(c) \/ Crash(c)
        \/ Edit \/ Lapse \/ Expire

Spec == Init /\ [][Next]_vars

\* A served request goes on: row locks are granted in order, the adapter answers
\* or times out. Edits, expiry and crashes are the environment's.
FairSpec == Spec /\ \A c \in Callers : WF_vars(Step(c))

(***************************************************************************)
(* Properties.                                                             *)
(***************************************************************************)

\* Every variable has its type.
TypeOK ==
  /\ item \in Items /\ bound \in BOOLEAN
  /\ run \in [Contracts -> Runs]
  /\ lock \in Callers \cup {NoOne}
  /\ pc \in [Callers -> Steps]
  /\ seen \in [Callers -> Items]
  /\ mine \in [Callers -> 0 .. MaxCalls]
  /\ answer \in [Callers -> Answers]
  /\ effects \in [Contracts -> Nat] /\ remote \in [Contracts -> Nat]
  /\ used \in 0 .. MaxCalls /\ edits \in 0 .. MaxEdits /\ faults \in 0 .. MaxFaults

\* mark_remote_attempt_started and the reclaim of acquire_action_reservation: for
\* one contract the adapter is called at most once, however leases expire, callers
\* die, answers are lost and calls are repeated.
AtMostOneRemoteCall == \A k \in Contracts : remote[k] <= 1

\* persist_execution_status and project_committed_external_effect: an item says
\* executed only when the contract it carries now has a completed receipt.
ExecutedItemHasReceipt == item.exec = "executed" => run[item.contract].status = "completed"

\* _execute_external_writeback: from revalidation until the outcome is recorded, the
\* item stays the one that was approved and dry run, and the lease stays the caller's.
ApprovalStandsDuringTheCall ==
  \A c \in Callers : pc[c] \in {"remote", "record"} => Unchanged(c) /\ Approved /\ Holds(c)

\* What a receipt says happened did, and a call that may have acted is never closed
\* as failed nor given to another caller.
ReceiptsAreTrue ==
  \A k \in Contracts :
    /\ effects[k] <= remote[k]
    /\ run[k].status = "completed" => effects[k] = 1
    /\ run[k].status = "failed" => effects[k] = 0
    /\ run[k].status = "none" => run[k].attempt = "none"
    /\ run[k].attempt = "none" => remote[k] = 0

\* Lease tokens are never shared, and the row lock is its holder's.
TokensAreUnique ==
  /\ \A c \in Callers : mine[c] <= used
  /\ \A k \in Contracts : run[k].token <= used
  /\ \A c, d \in Callers : c # d /\ mine[c] = mine[d] => mine[c] = 0
  /\ \A c \in Callers : pc[c] # "idle" => mine[c] > 0
  /\ \A c \in Callers : lock = c <=> pc[c] \in {"remote", "record"}

\* What a caller may rely on at each step.
CallerIsRight(c) ==
  LET k == Contract(c) IN
    /\ pc[c] = "acquire" => \A j \in Contracts : run[j].token # mine[c]
    /\ pc[c] = "prepare" /\ Holds(c) => run[k].attempt = "none"
    /\ pc[c] \in {"execute", "remote"} =>
         Holds(c) /\ run[k].attempt = "started" /\ remote[k] = 0
    /\ pc[c] = "record" =>
         /\ run[k].attempt = "started"
         /\ answer[c] = "ok" => effects[k] = 1
         /\ answer[c] = "rejected" => effects[k] = 0
         /\ answer[c] \in {"ok", "rejected", "ambiguous"}
    /\ pc[c] = "finalize" /\ answer[c] = "committed" =>
         Holds(c) /\ run[k].attempt # "none" /\ effects[k] = 1
    /\ answer[c] = "committed" => pc[c] \in {"idle", "finalize"}

CallersAreRight == \A c \in Callers : CallerIsRight(c)

\* The inductive invariant behind the properties above.
ActionInv ==
  /\ TypeOK /\ AtMostOneRemoteCall /\ ExecutedItemHasReceipt
  /\ ApprovalStandsDuringTheCall /\ ReceiptsAreTrue /\ TokensAreUnique /\ CallersAreRight

\* The stage of a contract in the abstract specification.
Stage(r) ==
  CASE r.status # "pending" -> r.status
    [] r.status = "pending" /\ r.attempt = "none" -> "reserved"
    [] OTHER -> "attempted"

Effects == INSTANCE ExternalEffect WITH
             Contracts <- Contracts,
             stage <- [k \in Contracts |-> Stage(run[k])],
             effects <- effects

\* execute_item implements ExternalEffect: one effect per contract, after a durable
\* intention, and a receipt that is written once and is true.
ImplementsExternalEffect == Effects!Spec

\* run_reserved_external_action: every call of execute_item ends.
CallsEnd == \A c \in Callers : pc[c] # "idle" ~> pc[c] = "idle"
=============================================================================
