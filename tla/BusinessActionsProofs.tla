------------------------ MODULE BusinessActionsProofs ------------------------
(***************************************************************************)
(* BusinessActions keeps its inductive invariant and implements            *)
(* ExternalEffect, for any number of callers, contracts, calls and faults. *)
(***************************************************************************)
EXTENDS BusinessActions, TLAPS

\* A row keeps its type when its fields are given values of theirs.
LEMMA RowTypes == ASSUME NEW r \in Runs PROVE
  /\ \A t \in 0 .. MaxCalls :
       [r EXCEPT !.status = "pending", !.token = t, !.live = TRUE] \in Runs
  /\ [r EXCEPT !.attempt = "started", !.live = TRUE] \in Runs
  /\ [r EXCEPT !.live = FALSE] \in Runs
  /\ \A p \in {"completed", "pending_reconciliation"} :
       [r EXCEPT !.status = "completed", !.projection = p] \in Runs
  /\ Settled(r) \in Runs
  /\ \A a \in Answers : Outcome(r, a) \in Runs
BY DEF Runs, Settled, Outcome

\* Every step keeps the types.
LEMMA TypeStep == ASSUME TypeOK, Next PROVE TypeOK'
<1> USE ActionConstants
<1>0. \A c \in Callers : Contract(c) \in Contracts /\ run[Contract(c)] \in Runs
  BY DEF TypeOK, Items, Contract
<1>1. ASSUME NEW c \in Callers, Enter(c) PROVE TypeOK'
  <2>1. used' \in 0 .. MaxCalls
    BY <1>1 DEF Enter, TypeOK
  <2>2. mine' \in [Callers -> 0 .. MaxCalls]
    BY <1>1, <2>1 DEF Enter, TypeOK
  <2>3. pc' \in [Callers -> Steps] /\ answer' \in [Callers -> Answers]
    BY <1>1 DEF Enter, TypeOK, Goto, Steps, Answers
  <2> QED BY <1>1, <2>1, <2>2, <2>3 DEF TypeOK, Enter, rowVars, extVars
<1>2. ASSUME NEW c \in Callers, Step(c) \/ Crash(c) PROVE TypeOK'
  <2>1. pc' \in [Callers -> Steps]
    BY <1>2 DEF TypeOK, Goto, Steps, Step, Block, Reserve, AcquireAnswered, Prepare, Execute, StateChanged,
      Aborted, CallAdapter, Record, RecordFails, FinalizeCommitted, FinalizeAborted, Crash
  <2>2. faults' \in 0 .. MaxFaults
    BY <1>2 DEF TypeOK, Fault, Step, Block, Reserve, AcquireAnswered, Prepare, Execute, StateChanged,
      Aborted, CallAdapter, Record, RecordFails, FinalizeCommitted, FinalizeAborted, Crash, budgets
  <2>3. lock' \in Callers \cup {NoOne}
    BY <1>2 DEF TypeOK, Step, Block, Reserve, AcquireAnswered, Prepare, Execute, StateChanged,
      Aborted, CallAdapter, Record, RecordFails, FinalizeCommitted, FinalizeAborted, Crash
  <2>4. item' \in Items
    <3>1. \A e \in ExecStatus : [item EXCEPT !.exec = e] \in Items
      BY DEF TypeOK, Items
    <3> QED BY <1>2, <3>1 DEF TypeOK, ExecStatus, Step, Block, Reserve, AcquireAnswered, Prepare, Execute,
      StateChanged, Aborted, CallAdapter, Record, RecordFails, FinalizeCommitted, FinalizeAborted, Crash, rowVars
  <2>5. run' \in [Contracts -> Runs]
    <3>1. CASE Reserve(c)
      BY ZenonT(60), <1>0, <3>1, RowTypes DEF TypeOK, Reserve
    <3>2. CASE Prepare(c)
      BY ZenonT(60), <1>0, <3>2, RowTypes DEF TypeOK, Prepare
    <3>3. CASE Record(c)
      BY <1>0, <3>3, RowTypes DEF TypeOK, Record
    <3>4. CASE FinalizeCommitted(c)
      <4>1. run' = run \/ \E p \in {"completed", "pending_reconciliation"} : run' = [run EXCEPT
              ![Contract(c)] = [run[Contract(c)] EXCEPT !.status = "completed", !.projection = p]]
        BY <3>4 DEF FinalizeCommitted
      <4>2. CASE run' = run
        BY <4>2 DEF TypeOK
      <4>3. ASSUME NEW p \in {"completed", "pending_reconciliation"}, run' = [run EXCEPT
              ![Contract(c)] = [run[Contract(c)] EXCEPT !.status = "completed", !.projection = p]]
            PROVE  run' \in [Contracts -> Runs]
        <5>1. [run[Contract(c)] EXCEPT !.status = "completed", !.projection = p] \in Runs
          BY ZenonT(60), <1>0, RowTypes
        <5> QED BY <1>0, <4>3, <5>1 DEF TypeOK
      <4> QED BY <4>1, <4>2, <4>3
    <3>5. CASE FinalizeAborted(c)
      BY <1>0, <3>5, RowTypes DEF TypeOK, FinalizeAborted
    <3>6. CASE UNCHANGED run
      BY <3>6 DEF TypeOK
    <3> QED BY SMTT(60), <1>2, <3>1, <3>2, <3>3, <3>4, <3>5, <3>6 DEF Step, Block, AcquireAnswered, Execute,
      StateChanged, Aborted, CallAdapter, RecordFails, Crash, rowVars
  <2>6. effects' \in [Contracts -> Nat] /\ remote' \in [Contracts -> Nat] /\ answer' \in [Callers -> Answers]
    <3>1. CASE CallAdapter(c)
      BY SMTT(40), <1>0, <3>1 DEF TypeOK, CallAdapter, Answers
    <3>2. CASE RecordFails(c)
      BY <3>2 DEF TypeOK, RecordFails, Answers, extVars
    <3>3. CASE UNCHANGED <<answer, effects, remote>>
      BY <3>3 DEF TypeOK
    <3> QED BY <1>2, <3>1, <3>2, <3>3 DEF Step, Block, Reserve, AcquireAnswered, Prepare, Execute,
      StateChanged, Aborted, Record, FinalizeCommitted, FinalizeAborted, Crash, extVars
  <2>7. UNCHANGED <<bound, seen, mine, used, edits>>
    BY <1>2 DEF Step, Block, Reserve, AcquireAnswered, Prepare, Execute, StateChanged,
      Aborted, CallAdapter, Record, RecordFails, FinalizeCommitted, FinalizeAborted, Crash, rowVars, budgets
  <2> QED BY <2>1, <2>2, <2>3, <2>4, <2>5, <2>6, <2>7 DEF TypeOK
<1>3. ASSUME Edit \/ Lapse PROVE TypeOK'
  <2>1. edits' \in 0 .. MaxEdits /\ item' \in Items
    BY <1>3 DEF Edit, Lapse, TypeOK
  <2>2. bound' \in BOOLEAN
    BY <1>3 DEF Edit, Lapse, TypeOK
  <2> QED BY <1>3, <2>1, <2>2 DEF TypeOK, Edit, Lapse, callVars, extVars
<1>4. ASSUME Expire PROVE TypeOK'
  <2> PICK k \in Contracts : run' = [run EXCEPT ![k].live = FALSE]
    BY <1>4 DEF Expire
  <2>0. run[k] \in Runs
    BY DEF TypeOK
  <2>1. [run[k] EXCEPT !.live = FALSE] \in Runs
    BY <2>0 DEF Runs
  <2>2. run' \in [Contracts -> Runs]
    BY <2>1 DEF TypeOK
  <2> QED BY <1>4, <2>2 DEF TypeOK, Expire, callVars, extVars, budgets
<1> QED BY <1>1, <1>2, <1>3, <1>4 DEF Next

\* Enter keeps the invariant.
LEMMA EnterInv == ASSUME ActionInv, NEW c \in Callers, Enter(c) PROVE ActionInv'
<1>1. TypeOK'
  BY TypeStep DEF ActionInv, Next, Step
<1>2. AtMostOneRemoteCall'
  BY ActionConstants DEF ActionInv, TypeOK, AtMostOneRemoteCall, CallersAreRight, CallerIsRight, Goto, Contract, Enter, rowVars, callVars, extVars, budgets
<1>3. ExecutedItemHasReceipt'
  BY ActionConstants DEF ActionInv, TypeOK, ExecutedItemHasReceipt, ApprovalStandsDuringTheCall, CallersAreRight, CallerIsRight, Approved, Unchanged, Holds, Pending, Contract, Items, Runs, ItemStatus, ExecStatus, Enter, rowVars, callVars, extVars, budgets
<1>4. ApprovalStandsDuringTheCall'
  BY ActionConstants DEF ActionInv, TypeOK, ApprovalStandsDuringTheCall, TokensAreUnique, Approved, Unchanged, Unlocked, Holds, Pending, Contract, Goto, Runs, Enter, rowVars, callVars, extVars, budgets
<1>5. ReceiptsAreTrue'
  BY ActionConstants DEF ActionInv, TypeOK, ReceiptsAreTrue, AtMostOneRemoteCall, CallersAreRight, CallerIsRight, ApprovalStandsDuringTheCall, Holds, Pending, Contract, Runs, Enter, rowVars, callVars, extVars, budgets
<1>6. TokensAreUnique'
  BY ActionConstants DEF ActionInv, TypeOK, TokensAreUnique, Goto, Unlocked, Contract, Runs, Enter, rowVars, callVars, extVars, budgets
<1>7. CallersAreRight'
  <2> SUFFICES ASSUME NEW d \in Callers PROVE CallerIsRight(d)'
    BY DEF CallersAreRight
  <2>1. CASE d = c
    BY <2>1, ActionConstants DEF ActionInv, TypeOK, CallersAreRight, CallerIsRight, ApprovalStandsDuringTheCall, ReceiptsAreTrue, TokensAreUnique, Goto, Unlocked, Holds, Pending, Contract, Runs, Enter, rowVars, callVars, extVars, budgets
  <2>2. CASE d # c
    BY <2>2, ActionConstants DEF ActionInv, TypeOK, CallersAreRight, CallerIsRight, ApprovalStandsDuringTheCall, ReceiptsAreTrue, TokensAreUnique, Goto, Unlocked, Holds, Pending, Contract, Runs, Enter, rowVars, callVars, extVars, budgets
  <2> QED BY <2>1, <2>2
<1> QED BY <1>1, <1>2, <1>3, <1>4, <1>5, <1>6, <1>7 DEF ActionInv

\* Block keeps the invariant.
LEMMA BlockInv == ASSUME ActionInv, NEW c \in Callers, Block(c) PROVE ActionInv'
<1>1. TypeOK'
  BY TypeStep DEF ActionInv, Next, Step
<1>2. AtMostOneRemoteCall'
  BY ActionConstants DEF ActionInv, TypeOK, AtMostOneRemoteCall, CallersAreRight, CallerIsRight, Goto, Contract, Block, rowVars, callVars, extVars, budgets
<1>3. ExecutedItemHasReceipt'
  BY ActionConstants DEF ActionInv, TypeOK, ExecutedItemHasReceipt, ApprovalStandsDuringTheCall, CallersAreRight, CallerIsRight, Approved, Unchanged, Holds, Pending, Contract, Items, Runs, ItemStatus, ExecStatus, Block, rowVars, callVars, extVars, budgets
<1>4. ApprovalStandsDuringTheCall'
  BY ActionConstants DEF ActionInv, TypeOK, ApprovalStandsDuringTheCall, TokensAreUnique, Approved, Unchanged, Unlocked, Holds, Pending, Contract, Goto, Runs, Block, rowVars, callVars, extVars, budgets
<1>5. ReceiptsAreTrue'
  BY ActionConstants DEF ActionInv, TypeOK, ReceiptsAreTrue, AtMostOneRemoteCall, CallersAreRight, CallerIsRight, ApprovalStandsDuringTheCall, Holds, Pending, Contract, Runs, Block, rowVars, callVars, extVars, budgets
<1>6. TokensAreUnique'
  BY ActionConstants DEF ActionInv, TypeOK, TokensAreUnique, Goto, Unlocked, Contract, Runs, Block, rowVars, callVars, extVars, budgets
<1>7. CallersAreRight'
  <2> SUFFICES ASSUME NEW d \in Callers PROVE CallerIsRight(d)'
    BY DEF CallersAreRight
  <2>1. CASE d = c
    BY <2>1, ActionConstants DEF ActionInv, TypeOK, CallersAreRight, CallerIsRight, ApprovalStandsDuringTheCall, ReceiptsAreTrue, TokensAreUnique, Goto, Unlocked, Holds, Pending, Contract, Runs, Block, rowVars, callVars, extVars, budgets
  <2>2. CASE d # c
    BY <2>2, ActionConstants DEF ActionInv, TypeOK, CallersAreRight, CallerIsRight, ApprovalStandsDuringTheCall, ReceiptsAreTrue, TokensAreUnique, Goto, Unlocked, Holds, Pending, Contract, Runs, Block, rowVars, callVars, extVars, budgets
  <2> QED BY <2>1, <2>2
<1> QED BY <1>1, <1>2, <1>3, <1>4, <1>5, <1>6, <1>7 DEF ActionInv

\* Reserve keeps the invariant.
LEMMA ReserveInv == ASSUME ActionInv, NEW c \in Callers, Reserve(c) PROVE ActionInv'
<1>1. TypeOK'
  BY TypeStep DEF ActionInv, Next, Step
<1>2. AtMostOneRemoteCall'
  BY ActionConstants DEF ActionInv, TypeOK, AtMostOneRemoteCall, CallersAreRight, CallerIsRight, Goto, Contract, Reserve, Acquirable, Reclaimable, rowVars, callVars, extVars, budgets
<1>3. ExecutedItemHasReceipt'
  BY ActionConstants DEF ActionInv, TypeOK, ExecutedItemHasReceipt, ApprovalStandsDuringTheCall, CallersAreRight, CallerIsRight, Approved, Unchanged, Holds, Pending, Contract, Items, Runs, ItemStatus, ExecStatus, Reserve, Acquirable, Reclaimable, rowVars, callVars, extVars, budgets
<1>4. ApprovalStandsDuringTheCall'
  BY ActionConstants DEF ActionInv, TypeOK, ApprovalStandsDuringTheCall, TokensAreUnique, Approved, Unchanged, Unlocked, Holds, Pending, Contract, Goto, Runs, Reserve, Acquirable, Reclaimable, rowVars, callVars, extVars, budgets
<1>5. ReceiptsAreTrue'
  BY ActionConstants DEF ActionInv, TypeOK, ReceiptsAreTrue, AtMostOneRemoteCall, CallersAreRight, CallerIsRight, ApprovalStandsDuringTheCall, Holds, Pending, Contract, Runs, Reserve, Acquirable, Reclaimable, rowVars, callVars, extVars, budgets
<1>6. TokensAreUnique'
  BY ActionConstants DEF ActionInv, TypeOK, TokensAreUnique, Goto, Unlocked, Contract, Runs, Reserve, Acquirable, Reclaimable, rowVars, callVars, extVars, budgets
<1>7. CallersAreRight'
  <2> SUFFICES ASSUME NEW d \in Callers PROVE CallerIsRight(d)'
    BY DEF CallersAreRight
  <2>1. CASE d = c
    BY <2>1, ActionConstants DEF ActionInv, TypeOK, CallersAreRight, CallerIsRight, ApprovalStandsDuringTheCall, ReceiptsAreTrue, TokensAreUnique, Goto, Unlocked, Holds, Pending, Contract, Runs, Reserve, Acquirable, Reclaimable, rowVars, callVars, extVars, budgets
  <2>2. CASE d # c
    <3> DEFINE k == Contract(c)
    <3>1. /\ CallerIsRight(d) /\ pc'[d] = pc[d] /\ UNCHANGED <<seen, mine, answer, remote, effects>>
          /\ run[k].status = "none" \/ (run[k].status = "pending" /\ run[k].attempt = "none")
      BY <2>2 DEF ActionInv, TypeOK, CallersAreRight, Reserve, Acquirable, Reclaimable, Goto, extVars
    <3>2. mine[c] # mine[d]
      BY <2>2 DEF ActionInv, TokensAreUnique, Reserve
    <3>3. /\ \A j \in Contracts : j # k => run'[j] = run[j]
          /\ k \in Contracts => run'[k].token = mine[c] /\ run'[k].attempt = run[k].attempt
      BY DEF ActionInv, TypeOK, Reserve, Runs
    <3>4. Contract(d) \in Contracts /\ Contract(d)' = Contract(d)
      BY <3>1 DEF ActionInv, TypeOK, Items, Contract
    <3>5. Holds(d)' => Holds(d) /\ run'[Contract(d)] = run[Contract(d)]
      BY <3>1, <3>2, <3>3, <3>4 DEF Holds, Pending
    <3>6. pc[d] \in {"execute", "remote"} \/ (pc[d] = "finalize" /\ answer[d] = "committed") =>
            Contract(d) # k
      BY <3>1 DEF CallerIsRight, Holds, Pending
    <3>7. pc[d] # "record"
      BY ActionConstants DEF ActionInv, ActionConstants, TokensAreUnique, Reserve, Unlocked
    <3> QED BY <3>1, <3>2, <3>3, <3>4, <3>5, <3>6, <3>7 DEF CallerIsRight, Holds, Pending
  <2> QED BY <2>1, <2>2
<1> QED BY <1>1, <1>2, <1>3, <1>4, <1>5, <1>6, <1>7 DEF ActionInv

\* AcquireAnswered keeps the invariant.
LEMMA AcquireAnsweredInv == ASSUME ActionInv, NEW c \in Callers, AcquireAnswered(c) PROVE ActionInv'
<1>1. TypeOK'
  BY TypeStep DEF ActionInv, Next, Step
<1>2. AtMostOneRemoteCall'
  BY ActionConstants DEF ActionInv, TypeOK, AtMostOneRemoteCall, CallersAreRight, CallerIsRight, Goto, Contract, AcquireAnswered, rowVars, callVars, extVars, budgets
<1>3. ExecutedItemHasReceipt'
  BY ActionConstants DEF ActionInv, TypeOK, ExecutedItemHasReceipt, ApprovalStandsDuringTheCall, CallersAreRight, CallerIsRight, Approved, Unchanged, Holds, Pending, Contract, Items, Runs, ItemStatus, ExecStatus, AcquireAnswered, rowVars, callVars, extVars, budgets
<1>4. ApprovalStandsDuringTheCall'
  BY ActionConstants DEF ActionInv, TypeOK, ApprovalStandsDuringTheCall, TokensAreUnique, Approved, Unchanged, Unlocked, Holds, Pending, Contract, Goto, Runs, AcquireAnswered, rowVars, callVars, extVars, budgets
<1>5. ReceiptsAreTrue'
  BY ActionConstants DEF ActionInv, TypeOK, ReceiptsAreTrue, AtMostOneRemoteCall, CallersAreRight, CallerIsRight, ApprovalStandsDuringTheCall, Holds, Pending, Contract, Runs, AcquireAnswered, rowVars, callVars, extVars, budgets
<1>6. TokensAreUnique'
  BY ActionConstants DEF ActionInv, TypeOK, TokensAreUnique, Goto, Unlocked, Contract, Runs, AcquireAnswered, rowVars, callVars, extVars, budgets
<1>7. CallersAreRight'
  <2> SUFFICES ASSUME NEW d \in Callers PROVE CallerIsRight(d)'
    BY DEF CallersAreRight
  <2>1. CASE d = c
    BY <2>1, ActionConstants DEF ActionInv, TypeOK, CallersAreRight, CallerIsRight, ApprovalStandsDuringTheCall, ReceiptsAreTrue, TokensAreUnique, Goto, Unlocked, Holds, Pending, Contract, Runs, AcquireAnswered, rowVars, callVars, extVars, budgets
  <2>2. CASE d # c
    BY <2>2, ActionConstants DEF ActionInv, TypeOK, CallersAreRight, CallerIsRight, ApprovalStandsDuringTheCall, ReceiptsAreTrue, TokensAreUnique, Goto, Unlocked, Holds, Pending, Contract, Runs, AcquireAnswered, rowVars, callVars, extVars, budgets
  <2> QED BY <2>1, <2>2
<1> QED BY <1>1, <1>2, <1>3, <1>4, <1>5, <1>6, <1>7 DEF ActionInv

\* Prepare keeps the invariant.
LEMMA PrepareInv == ASSUME ActionInv, NEW c \in Callers, Prepare(c) PROVE ActionInv'
<1> DEFINE k == Contract(c)
<1>0. /\ k \in Contracts
      /\ run'[k].status = "pending" /\ run'[k].token = mine[c] /\ run'[k].attempt = "started"
      /\ \A j \in Contracts : j # k => run'[j] = run[j]
      /\ run[k].attempt = "none" /\ run[k].token = mine[c]
  BY DEF ActionInv, TypeOK, Items, Runs, Prepare, Revalidated, Holds, Pending, Contract
<1>1. TypeOK'
  BY TypeStep DEF ActionInv, Next, Step
<1>2. AtMostOneRemoteCall'
  BY <1>0, ActionConstants DEF ActionInv, TypeOK, AtMostOneRemoteCall, CallersAreRight, CallerIsRight, Goto, Contract, Prepare, Revalidated, Fault, rowVars, callVars, extVars, budgets
<1>3. ExecutedItemHasReceipt'
  BY <1>0, ActionConstants DEF ActionInv, TypeOK, ExecutedItemHasReceipt, ApprovalStandsDuringTheCall, CallersAreRight, CallerIsRight, Approved, Unchanged, Holds, Pending, Contract, Items, Runs, ItemStatus, ExecStatus, Prepare, Revalidated, Fault, rowVars, callVars, extVars, budgets
<1>4. ApprovalStandsDuringTheCall'
  BY SMTT(40), <1>0, ActionConstants DEF ActionInv, TypeOK, ApprovalStandsDuringTheCall, TokensAreUnique, Approved, Unchanged, Unlocked, Holds, Pending, Contract, Goto, Runs, Prepare, Revalidated, Fault, rowVars, callVars, extVars, budgets
<1>5. ReceiptsAreTrue'
  BY ZenonT(40), <1>0, ActionConstants DEF ActionInv, TypeOK, ReceiptsAreTrue, AtMostOneRemoteCall, CallersAreRight, CallerIsRight, ApprovalStandsDuringTheCall, Holds, Pending, Contract, Runs, Prepare, Revalidated, Fault, rowVars, callVars, extVars, budgets
<1>6. TokensAreUnique'
  BY <1>0, ActionConstants DEF ActionInv, TypeOK, TokensAreUnique, Goto, Unlocked, Contract, Runs, Prepare, Revalidated, Fault, rowVars, callVars, extVars, budgets
<1>7. CallersAreRight'
  <2> SUFFICES ASSUME NEW d \in Callers PROVE CallerIsRight(d)'
    BY DEF CallersAreRight
  <2>0. /\ UNCHANGED <<seen, mine, answer, effects, remote>> /\ pc[c] = "prepare"
        /\ pc' \in {[pc EXCEPT ![c] = "execute"], [pc EXCEPT ![c] = "finalize"]}
    BY DEF Prepare, Goto, extVars
  <2>1. CASE d = c
    <3>1. remote[k] = 0 /\ answer[c] # "committed" /\ Contract(c)' = k /\ Holds(c)'
      BY <2>0, <1>0 DEF ActionInv, ReceiptsAreTrue, CallersAreRight, CallerIsRight, Contract, Holds, Pending
    <3> QED BY <2>0, <2>1, <1>0, <3>1 DEF ActionInv, TypeOK, CallerIsRight
  <2>2. CASE d # c
    <3>1. /\ CallerIsRight(d) /\ pc'[d] = pc[d]
          /\ pc[d] # "idle" => mine[d] # mine[c]
      BY <2>2, <2>0 DEF ActionInv, TypeOK, CallersAreRight, TokensAreUnique
    <3>2. \A j \in Contracts : run'[j].token = run[j].token
      BY <1>0
    <3>3. /\ Contract(d) \in Contracts /\ Contract(d)' = Contract(d)
      BY <2>0 DEF ActionInv, TypeOK, Items, Contract
    <3>4. pc[d] # "idle" /\ run[Contract(d)].token = mine[d] => run'[Contract(d)] = run[Contract(d)]
      BY <1>0, <3>1, <3>3
    <3>5. pc[d] # "idle" => (Holds(d)' <=> Holds(d))
      BY <2>0, <3>2, <3>3, <3>4 DEF Holds, Pending
    <3>6. pc[d] = "record" => Holds(d)
      BY DEF ActionInv, ApprovalStandsDuringTheCall
    <3> QED BY <2>0, <3>1, <3>2, <3>3, <3>4, <3>5, <3>6 DEF CallerIsRight, Holds
  <2> QED BY <2>1, <2>2
<1> QED BY <1>1, <1>2, <1>3, <1>4, <1>5, <1>6, <1>7 DEF ActionInv

\* Execute keeps the invariant.
LEMMA ExecuteInv == ASSUME ActionInv, NEW c \in Callers, Execute(c) PROVE ActionInv'
<1>1. TypeOK'
  BY TypeStep DEF ActionInv, Next, Step
<1>2. AtMostOneRemoteCall'
  BY ActionConstants DEF ActionInv, TypeOK, AtMostOneRemoteCall, CallersAreRight, CallerIsRight, Goto, Contract, Execute, Revalidated, rowVars, callVars, extVars, budgets
<1>3. ExecutedItemHasReceipt'
  BY ActionConstants DEF ActionInv, TypeOK, ExecutedItemHasReceipt, ApprovalStandsDuringTheCall, CallersAreRight, CallerIsRight, Approved, Unchanged, Holds, Pending, Contract, Items, Runs, ItemStatus, ExecStatus, Execute, Revalidated, rowVars, callVars, extVars, budgets
<1>4. ApprovalStandsDuringTheCall'
  BY ActionConstants DEF ActionInv, TypeOK, ApprovalStandsDuringTheCall, TokensAreUnique, Approved, Unchanged, Unlocked, Holds, Pending, Contract, Goto, Runs, Execute, Revalidated, rowVars, callVars, extVars, budgets
<1>5. ReceiptsAreTrue'
  BY ActionConstants DEF ActionInv, TypeOK, ReceiptsAreTrue, AtMostOneRemoteCall, CallersAreRight, CallerIsRight, ApprovalStandsDuringTheCall, Holds, Pending, Contract, Runs, Execute, Revalidated, rowVars, callVars, extVars, budgets
<1>6. TokensAreUnique'
  BY ActionConstants DEF ActionInv, TypeOK, TokensAreUnique, Goto, Unlocked, Contract, Runs, Execute, Revalidated, rowVars, callVars, extVars, budgets
<1>7. CallersAreRight'
  <2> SUFFICES ASSUME NEW d \in Callers PROVE CallerIsRight(d)'
    BY DEF CallersAreRight
  <2>1. CASE d = c
    BY ZenonT(40), <2>1, ActionConstants DEF ActionInv, TypeOK, CallersAreRight, CallerIsRight, ApprovalStandsDuringTheCall, ReceiptsAreTrue, TokensAreUnique, Goto, Unlocked, Holds, Pending, Contract, Runs, Execute, Revalidated, rowVars, callVars, extVars, budgets
  <2>2. CASE d # c
    BY <2>2, ActionConstants DEF ActionInv, TypeOK, CallersAreRight, CallerIsRight, ApprovalStandsDuringTheCall, ReceiptsAreTrue, TokensAreUnique, Goto, Unlocked, Holds, Pending, Contract, Runs, Execute, Revalidated, rowVars, callVars, extVars, budgets
  <2> QED BY <2>1, <2>2
<1> QED BY <1>1, <1>2, <1>3, <1>4, <1>5, <1>6, <1>7 DEF ActionInv

\* StateChanged keeps the invariant.
LEMMA StateChangedInv == ASSUME ActionInv, NEW c \in Callers, StateChanged(c) PROVE ActionInv'
<1>1. TypeOK'
  BY TypeStep DEF ActionInv, Next, Step
<1>2. AtMostOneRemoteCall'
  BY ActionConstants DEF ActionInv, TypeOK, AtMostOneRemoteCall, CallersAreRight, CallerIsRight, Goto, Contract, StateChanged, rowVars, callVars, extVars, budgets
<1>3. ExecutedItemHasReceipt'
  BY ActionConstants DEF ActionInv, TypeOK, ExecutedItemHasReceipt, ApprovalStandsDuringTheCall, CallersAreRight, CallerIsRight, Approved, Unchanged, Holds, Pending, Contract, Items, Runs, ItemStatus, ExecStatus, StateChanged, rowVars, callVars, extVars, budgets
<1>4. ApprovalStandsDuringTheCall'
  BY ActionConstants DEF ActionInv, TypeOK, ApprovalStandsDuringTheCall, TokensAreUnique, Approved, Unchanged, Unlocked, Holds, Pending, Contract, Goto, Runs, StateChanged, rowVars, callVars, extVars, budgets
<1>5. ReceiptsAreTrue'
  BY ActionConstants DEF ActionInv, TypeOK, ReceiptsAreTrue, AtMostOneRemoteCall, CallersAreRight, CallerIsRight, ApprovalStandsDuringTheCall, Holds, Pending, Contract, Runs, StateChanged, rowVars, callVars, extVars, budgets
<1>6. TokensAreUnique'
  BY ActionConstants DEF ActionInv, TypeOK, TokensAreUnique, Goto, Unlocked, Contract, Runs, StateChanged, rowVars, callVars, extVars, budgets
<1>7. CallersAreRight'
  <2> SUFFICES ASSUME NEW d \in Callers PROVE CallerIsRight(d)'
    BY DEF CallersAreRight
  <2>1. CASE d = c
    BY <2>1, ActionConstants DEF ActionInv, TypeOK, CallersAreRight, CallerIsRight, ApprovalStandsDuringTheCall, ReceiptsAreTrue, TokensAreUnique, Goto, Unlocked, Holds, Pending, Contract, Runs, StateChanged, rowVars, callVars, extVars, budgets
  <2>2. CASE d # c
    BY <2>2, ActionConstants DEF ActionInv, TypeOK, CallersAreRight, CallerIsRight, ApprovalStandsDuringTheCall, ReceiptsAreTrue, TokensAreUnique, Goto, Unlocked, Holds, Pending, Contract, Runs, StateChanged, rowVars, callVars, extVars, budgets
  <2> QED BY <2>1, <2>2
<1> QED BY <1>1, <1>2, <1>3, <1>4, <1>5, <1>6, <1>7 DEF ActionInv

\* Aborted keeps the invariant.
LEMMA AbortedInv == ASSUME ActionInv, NEW c \in Callers, Aborted(c) PROVE ActionInv'
<1>1. TypeOK'
  BY TypeStep DEF ActionInv, Next, Step
<1>2. AtMostOneRemoteCall'
  BY ActionConstants DEF ActionInv, TypeOK, AtMostOneRemoteCall, CallersAreRight, CallerIsRight, Goto, Contract, Aborted, Fault, rowVars, callVars, extVars, budgets
<1>3. ExecutedItemHasReceipt'
  BY ActionConstants DEF ActionInv, TypeOK, ExecutedItemHasReceipt, ApprovalStandsDuringTheCall, CallersAreRight, CallerIsRight, Approved, Unchanged, Holds, Pending, Contract, Items, Runs, ItemStatus, ExecStatus, Aborted, Fault, rowVars, callVars, extVars, budgets
<1>4. ApprovalStandsDuringTheCall'
  BY ActionConstants DEF ActionInv, TypeOK, ApprovalStandsDuringTheCall, TokensAreUnique, Approved, Unchanged, Unlocked, Holds, Pending, Contract, Goto, Runs, Aborted, Fault, rowVars, callVars, extVars, budgets
<1>5. ReceiptsAreTrue'
  BY ActionConstants DEF ActionInv, TypeOK, ReceiptsAreTrue, AtMostOneRemoteCall, CallersAreRight, CallerIsRight, ApprovalStandsDuringTheCall, Holds, Pending, Contract, Runs, Aborted, Fault, rowVars, callVars, extVars, budgets
<1>6. TokensAreUnique'
  BY ActionConstants DEF ActionInv, TypeOK, TokensAreUnique, Goto, Unlocked, Contract, Runs, Aborted, Fault, rowVars, callVars, extVars, budgets
<1>7. CallersAreRight'
  <2> SUFFICES ASSUME NEW d \in Callers PROVE CallerIsRight(d)'
    BY DEF CallersAreRight
  <2>1. CASE d = c
    BY <2>1, ActionConstants DEF ActionInv, TypeOK, CallersAreRight, CallerIsRight, ApprovalStandsDuringTheCall, ReceiptsAreTrue, TokensAreUnique, Goto, Unlocked, Holds, Pending, Contract, Runs, Aborted, Fault, rowVars, callVars, extVars, budgets
  <2>2. CASE d # c
    BY <2>2, ActionConstants DEF ActionInv, TypeOK, CallersAreRight, CallerIsRight, ApprovalStandsDuringTheCall, ReceiptsAreTrue, TokensAreUnique, Goto, Unlocked, Holds, Pending, Contract, Runs, Aborted, Fault, rowVars, callVars, extVars, budgets
  <2> QED BY <2>1, <2>2
<1> QED BY <1>1, <1>2, <1>3, <1>4, <1>5, <1>6, <1>7 DEF ActionInv

\* CallAdapter keeps the invariant.
LEMMA CallAdapterInv == ASSUME ActionInv, NEW c \in Callers, CallAdapter(c) PROVE ActionInv'
<1> DEFINE k == Contract(c)
<1>0. /\ k \in Contracts /\ Holds(c) /\ run[k].attempt = "started"
      /\ remote[k] = 0 /\ effects[k] = 0
  BY DEF ActionInv, TypeOK, Items, CallAdapter, CallersAreRight, CallerIsRight, ReceiptsAreTrue, Contract
<1>b. PICK a \in {"ok", "rejected", "ambiguous"}, sent \in {0, 1}, acted \in {0, 1} :
        /\ acted <= sent /\ (a = "ok" => acted = 1) /\ (a = "rejected" => acted = 0)
        /\ answer' = [answer EXCEPT ![c] = a]
        /\ remote' = [remote EXCEPT ![k] = remote[k] + sent]
        /\ effects' = [effects EXCEPT ![k] = effects[k] + acted]
  BY Zenon DEF CallAdapter
<1>c. remote[k] + sent = sent /\ effects[k] + acted = acted
  BY <1>0
<1>a. /\ acted <= sent /\ (a = "ok" => acted = 1) /\ (a = "rejected" => acted = 0)
      /\ answer' = [answer EXCEPT ![c] = a]
      /\ remote' = [remote EXCEPT ![k] = sent]
      /\ effects' = [effects EXCEPT ![k] = acted]
  BY <1>b, <1>c
<1>1. TypeOK'
  BY TypeStep DEF ActionInv, Next, Step
<1>2. AtMostOneRemoteCall'
  BY <1>0, <1>a, ActionConstants DEF ActionInv, TypeOK, AtMostOneRemoteCall, CallersAreRight, CallerIsRight, Goto, Contract, CallAdapter, rowVars, callVars, extVars, budgets
<1>3. ExecutedItemHasReceipt'
  BY <1>0, <1>a, ActionConstants DEF ActionInv, TypeOK, ExecutedItemHasReceipt, ApprovalStandsDuringTheCall, CallersAreRight, CallerIsRight, Approved, Unchanged, Holds, Pending, Contract, Items, Runs, ItemStatus, ExecStatus, CallAdapter, rowVars, callVars, extVars, budgets
<1>4. ApprovalStandsDuringTheCall'
  BY <1>0, <1>a, ActionConstants DEF ActionInv, TypeOK, ApprovalStandsDuringTheCall, TokensAreUnique, Approved, Unchanged, Unlocked, Holds, Pending, Contract, Goto, Runs, CallAdapter, rowVars, callVars, extVars, budgets
<1>5. ReceiptsAreTrue'
  BY SMTT(60), <1>0, <1>a, ActionConstants DEF ActionInv, TypeOK, ReceiptsAreTrue, AtMostOneRemoteCall, CallersAreRight, CallerIsRight, ApprovalStandsDuringTheCall, Holds, Pending, Contract, Runs, CallAdapter, rowVars, callVars, extVars, budgets
<1>6. TokensAreUnique'
  BY SMTT(40), <1>0, <1>a, ActionConstants DEF ActionInv, TypeOK, TokensAreUnique, Goto, Unlocked, Contract, Runs, CallAdapter, rowVars, callVars, extVars, budgets
<1>7. CallersAreRight'
  <2> SUFFICES ASSUME NEW d \in Callers PROVE CallerIsRight(d)'
    BY DEF CallersAreRight
  <2>0. UNCHANGED <<run, seen, mine>> /\ pc' = [pc EXCEPT ![c] = "record"] /\ pc[c] = "remote"
    BY DEF CallAdapter, Goto, rowVars
  <2>1. CASE d = c
    BY <2>0, <2>1, <1>0, <1>a DEF ActionInv, TypeOK, CallerIsRight, Contract
  <2>2. CASE d # c
    <3>1. /\ CallerIsRight(d) /\ pc'[d] = pc[d] /\ answer'[d] = answer[d]
          /\ pc[d] # "idle" => mine[d] # mine[c]
      BY <2>0, <2>2, <1>a DEF ActionInv, TypeOK, CallersAreRight, TokensAreUnique
    <3>2. /\ Contract(d) \in Contracts /\ Contract(d)' = Contract(d) /\ (Holds(d)' <=> Holds(d))
      BY <2>0 DEF ActionInv, TypeOK, Items, Contract, Holds, Pending
    <3>3. Holds(d) /\ pc[d] # "idle" => Contract(d) # k
      BY <1>0, <3>1 DEF Holds
    <3>4. pc[d] = "record" => Holds(d)
      BY DEF ActionInv, ApprovalStandsDuringTheCall
    <3> QED BY <2>0, <1>0, <1>a, <3>1, <3>2, <3>3, <3>4 DEF ActionInv, TypeOK, CallerIsRight
  <2> QED BY <2>1, <2>2
<1> QED BY <1>1, <1>2, <1>3, <1>4, <1>5, <1>6, <1>7 DEF ActionInv

\* Record keeps the invariant.
LEMMA RecordInv == ASSUME ActionInv, NEW c \in Callers, Record(c) PROVE ActionInv'
<1> DEFINE k == Contract(c)
<1>0. /\ k \in Contracts /\ run[k] \in Runs /\ run[k].attempt = "started"
      /\ answer[c] \in {"ok", "rejected", "ambiguous"}
      /\ run' = [run EXCEPT ![k] = Outcome(run[k], answer[c])]
  BY DEF ActionInv, TypeOK, Items, Record, CallersAreRight, CallerIsRight, Contract
<1>a. /\ run'[k].token = run[k].token /\ run'[k].attempt # "none"
      /\ \A j \in Contracts : j # k => run'[j] = run[j]
  BY <1>0 DEF ActionInv, TypeOK, Outcome, Runs
<1>1. TypeOK'
  BY TypeStep DEF ActionInv, Next, Step
<1>2. AtMostOneRemoteCall'
  BY <1>0, <1>a, ActionConstants DEF ActionInv, TypeOK, AtMostOneRemoteCall, CallersAreRight, CallerIsRight, Goto, Contract, Record, Outcome, Fault, rowVars, callVars, extVars, budgets
<1>3. ExecutedItemHasReceipt'
  BY <1>0, <1>a, ActionConstants DEF ActionInv, TypeOK, ExecutedItemHasReceipt, ApprovalStandsDuringTheCall, CallersAreRight, CallerIsRight, Approved, Unchanged, Holds, Pending, Contract, Items, Runs, ItemStatus, ExecStatus, Record, Outcome, Fault, rowVars, callVars, extVars, budgets
<1>4. ApprovalStandsDuringTheCall'
  BY <1>0, <1>a, ActionConstants DEF ActionInv, TypeOK, ApprovalStandsDuringTheCall, TokensAreUnique, Approved, Unchanged, Unlocked, Holds, Pending, Contract, Goto, Runs, Record, Outcome, Fault, rowVars, callVars, extVars, budgets
<1>5. ReceiptsAreTrue'
  BY SMTT(40), <1>0, <1>a, ActionConstants DEF ActionInv, TypeOK, ReceiptsAreTrue, AtMostOneRemoteCall, CallersAreRight, CallerIsRight, ApprovalStandsDuringTheCall, Holds, Pending, Contract, Runs, Record, Outcome, Fault, rowVars, callVars, extVars, budgets
<1>6. TokensAreUnique'
  <2>1. \A j \in Contracts : run'[j].token = run[j].token
    BY <1>a
  <2>2. /\ UNCHANGED <<mine, used>> /\ lock = c /\ lock' = NoOne /\ pc[c] = "record"
        /\ pc' \in {[pc EXCEPT ![c] = "idle"], [pc EXCEPT ![c] = "finalize"]}
    BY DEF Record, Goto
  <2> QED BY <2>1, <2>2, ActionConstants DEF ActionInv, TypeOK, TokensAreUnique
<1>7. CallersAreRight'
  <2> SUFFICES ASSUME NEW d \in Callers PROVE CallerIsRight(d)'
    BY DEF CallersAreRight
  <2>0. /\ UNCHANGED <<seen, mine, answer, effects, remote>> /\ pc[c] = "record"
        /\ pc' \in {[pc EXCEPT ![c] = "idle"], [pc EXCEPT ![c] = "finalize"]}
    BY DEF Record, Goto, extVars
  <2>1. CASE d = c
    BY <2>0, <2>1, <1>0 DEF ActionInv, TypeOK, CallerIsRight
  <2>2. CASE d # c
    <3>1. /\ CallerIsRight(d) /\ pc'[d] = pc[d]
          /\ pc[d] # "idle" => mine[d] # mine[c]
      BY <2>2, <2>0 DEF ActionInv, TypeOK, CallersAreRight, TokensAreUnique
    <3>2. /\ \A j \in Contracts : run'[j].token = run[j].token
          /\ run[k].token = mine[c]
      BY <1>a, <2>0 DEF ActionInv, ApprovalStandsDuringTheCall, Holds
    <3>3. /\ Contract(d) \in Contracts /\ Contract(d)' = Contract(d)
      BY <2>0 DEF ActionInv, TypeOK, Items, Contract
    <3>4. pc[d] # "idle" /\ run[Contract(d)].token = mine[d] => run'[Contract(d)] = run[Contract(d)]
      BY <1>a, <3>1, <3>2, <3>3
    <3>5. pc[d] # "idle" => (Holds(d)' <=> Holds(d))
      BY <2>0, <3>2, <3>3, <3>4 DEF Holds, Pending
    <3>6. pc[d] = "record" => Holds(d)
      BY DEF ActionInv, ApprovalStandsDuringTheCall
    <3> QED BY <2>0, <3>1, <3>2, <3>3, <3>4, <3>5, <3>6 DEF CallerIsRight, Holds
  <2> QED BY <2>1, <2>2
<1> QED BY <1>1, <1>2, <1>3, <1>4, <1>5, <1>6, <1>7 DEF ActionInv

\* RecordFails keeps the invariant.
LEMMA RecordFailsInv == ASSUME ActionInv, NEW c \in Callers, RecordFails(c) PROVE ActionInv'
<1>1. TypeOK'
  BY TypeStep DEF ActionInv, Next, Step
<1>2. AtMostOneRemoteCall'
  BY ActionConstants DEF ActionInv, TypeOK, AtMostOneRemoteCall, CallersAreRight, CallerIsRight, Goto, Contract, RecordFails, Fault, rowVars, callVars, extVars, budgets
<1>3. ExecutedItemHasReceipt'
  BY ActionConstants DEF ActionInv, TypeOK, ExecutedItemHasReceipt, ApprovalStandsDuringTheCall, CallersAreRight, CallerIsRight, Approved, Unchanged, Holds, Pending, Contract, Items, Runs, ItemStatus, ExecStatus, RecordFails, Fault, rowVars, callVars, extVars, budgets
<1>4. ApprovalStandsDuringTheCall'
  BY ActionConstants DEF ActionInv, TypeOK, ApprovalStandsDuringTheCall, TokensAreUnique, Approved, Unchanged, Unlocked, Holds, Pending, Contract, Goto, Runs, RecordFails, Fault, rowVars, callVars, extVars, budgets
<1>5. ReceiptsAreTrue'
  BY ActionConstants DEF ActionInv, TypeOK, ReceiptsAreTrue, AtMostOneRemoteCall, CallersAreRight, CallerIsRight, ApprovalStandsDuringTheCall, Holds, Pending, Contract, Runs, RecordFails, Fault, rowVars, callVars, extVars, budgets
<1>6. TokensAreUnique'
  BY ActionConstants DEF ActionInv, TypeOK, TokensAreUnique, Goto, Unlocked, Contract, Runs, RecordFails, Fault, rowVars, callVars, extVars, budgets
<1>7. CallersAreRight'
  <2> SUFFICES ASSUME NEW d \in Callers PROVE CallerIsRight(d)'
    BY DEF CallersAreRight
  <2>1. CASE d = c
    BY <2>1, ActionConstants DEF ActionInv, TypeOK, CallersAreRight, CallerIsRight, ApprovalStandsDuringTheCall, ReceiptsAreTrue, TokensAreUnique, Goto, Unlocked, Holds, Pending, Contract, Runs, RecordFails, Fault, rowVars, callVars, extVars, budgets
  <2>2. CASE d # c
    BY <2>2, ActionConstants DEF ActionInv, TypeOK, CallersAreRight, CallerIsRight, ApprovalStandsDuringTheCall, ReceiptsAreTrue, TokensAreUnique, Goto, Unlocked, Holds, Pending, Contract, Runs, RecordFails, Fault, rowVars, callVars, extVars, budgets
  <2> QED BY <2>1, <2>2
<1> QED BY <1>1, <1>2, <1>3, <1>4, <1>5, <1>6, <1>7 DEF ActionInv

\* FinalizeCommitted keeps the invariant.
LEMMA FinalizeCommittedInv == ASSUME ActionInv, NEW c \in Callers, FinalizeCommitted(c) PROVE ActionInv'
<1> DEFINE k == Contract(c)
<1>0. /\ k \in Contracts /\ run[k] \in Runs /\ Holds(c) /\ run[k].attempt # "none"
      /\ effects[k] = 1 /\ item \in Items
  BY DEF ActionInv, TypeOK, Items, FinalizeCommitted, CallersAreRight, CallerIsRight, Contract
<1>d. PICK p \in {"completed", "pending_reconciliation"} :
        run' = [run EXCEPT ![k] = [run[k] EXCEPT !.status = "completed", !.projection = p]]
  BY <1>0 DEF FinalizeCommitted, Holds, Pending
<1>a. /\ run'[k].status = "completed" /\ run'[k].token = mine[c] /\ run'[k].attempt # "none"
      /\ \A j \in Contracts : j # k => run'[j] = run[j]
  BY <1>0, <1>d DEF ActionInv, TypeOK, Runs, Holds
<1>b. /\ item' = item \/ (item' = [item EXCEPT !.exec = "executed"] /\ item.contract = k)
  BY <1>0 DEF FinalizeCommitted, Projectable, Holds, Pending, Contract
<1>c. UNCHANGED <<bound, lock, seen, mine, answer, effects, remote, used, edits, faults>>
      /\ pc' = [pc EXCEPT ![c] = "idle"] /\ pc[c] = "finalize" /\ lock = NoOne
  BY DEF FinalizeCommitted, Goto, Unlocked, extVars, budgets
<1>1. TypeOK'
  BY TypeStep DEF ActionInv, Next, Step
<1>2. AtMostOneRemoteCall'
  BY <1>c DEF ActionInv, AtMostOneRemoteCall
<1>3. ExecutedItemHasReceipt'
  BY <1>0, <1>a, <1>b DEF ActionInv, TypeOK, ExecutedItemHasReceipt, Items
<1>4. ApprovalStandsDuringTheCall'
  BY <1>c, ActionConstants DEF ActionInv, TypeOK, ApprovalStandsDuringTheCall, TokensAreUnique
<1>5. ReceiptsAreTrue'
  BY <1>0, <1>a, <1>c DEF ActionInv, ReceiptsAreTrue
<1>6. TokensAreUnique'
  BY <1>0, <1>a, <1>c DEF ActionInv, TypeOK, TokensAreUnique, Holds
<1>7. CallersAreRight'
  <2> SUFFICES ASSUME NEW d \in Callers PROVE CallerIsRight(d)'
    BY DEF CallersAreRight
  <2>1. CASE d = c
    BY <2>1, <1>c DEF ActionInv, TypeOK, CallersAreRight, CallerIsRight
  <2>2. CASE d # c
    <3>1. /\ CallerIsRight(d) /\ pc'[d] = pc[d]
          /\ pc[d] # "idle" => mine[d] # mine[c]
      BY <2>2, <1>c DEF ActionInv, TypeOK, CallersAreRight, TokensAreUnique
    <3>2. \A j \in Contracts : run'[j].token = run[j].token
      BY <1>0, <1>a DEF Holds
    <3>3. /\ Contract(d) \in Contracts /\ Contract(d)' = Contract(d)
      BY <1>c DEF ActionInv, TypeOK, Items, Contract
    <3>4. Holds(d)' => Holds(d) /\ Contract(d) # k
      BY <1>a, <1>c, <3>2, <3>3 DEF Holds, Pending
    <3>5. Holds(d) /\ pc[d] # "idle" => Contract(d) # k /\ Holds(d)'
      BY <1>0, <1>a, <1>c, <3>1, <3>2, <3>3 DEF Holds, Pending
    <3>6. pc[d] = "record" => Holds(d)
      BY DEF ActionInv, ApprovalStandsDuringTheCall
    <3> QED BY <1>a, <1>c, <3>1, <3>2, <3>3, <3>4, <3>5, <3>6 DEF CallerIsRight
  <2> QED BY <2>1, <2>2
<1> QED BY <1>1, <1>2, <1>3, <1>4, <1>5, <1>6, <1>7 DEF ActionInv

\* FinalizeAborted keeps the invariant.
LEMMA FinalizeAbortedInv == ASSUME ActionInv, NEW c \in Callers, FinalizeAborted(c) PROVE ActionInv'
<1> DEFINE k == Contract(c)
<1>0. /\ k \in Contracts /\ run[k] \in Runs /\ pc[c] = "finalize" /\ answer[c] # "committed"
      /\ UNCHANGED <<item, bound, lock, seen, mine, answer, effects, remote, used, edits, faults>>
      /\ pc' = [pc EXCEPT ![c] = "idle"]
      /\ run' = run \/ (Holds(c) /\ run' = [run EXCEPT ![k] = Settled(run[k])])
  BY DEF ActionInv, TypeOK, Items, FinalizeAborted, Goto, Contract, extVars, budgets
<1>a. /\ run'[k].token = run[k].token
      /\ \A j \in Contracts : j # k => run'[j] = run[j]
  BY ZenonT(60), <1>0 DEF ActionInv, TypeOK, Settled, Runs
<1>b. run[k].token # mine[c] => run' = run
  BY <1>0 DEF Holds
<1>1. TypeOK'
  BY TypeStep DEF ActionInv, Next, Step
<1>2. AtMostOneRemoteCall'
  BY <1>0, <1>a, <1>b, ActionConstants DEF ActionInv, TypeOK, AtMostOneRemoteCall, CallersAreRight, CallerIsRight, Goto, Contract, FinalizeAborted, Settled, rowVars, callVars, extVars, budgets
<1>3. ExecutedItemHasReceipt'
  BY <1>0, <1>a, <1>b, ActionConstants DEF ActionInv, TypeOK, ExecutedItemHasReceipt, ApprovalStandsDuringTheCall, CallersAreRight, CallerIsRight, Approved, Unchanged, Holds, Pending, Contract, Items, Runs, ItemStatus, ExecStatus, FinalizeAborted, Settled, rowVars, callVars, extVars, budgets
<1>4. ApprovalStandsDuringTheCall'
  BY SMTT(40), <1>0, <1>a, <1>b, ActionConstants DEF ActionInv, TypeOK, ApprovalStandsDuringTheCall, TokensAreUnique, Approved, Unchanged, Unlocked, Holds, Pending, Contract, Goto, Runs, FinalizeAborted, Settled, rowVars, callVars, extVars, budgets
<1>5. ReceiptsAreTrue'
  BY SMTT(40), <1>0, <1>a, <1>b, ActionConstants DEF ActionInv, TypeOK, ReceiptsAreTrue, AtMostOneRemoteCall, CallersAreRight, CallerIsRight, ApprovalStandsDuringTheCall, Holds, Pending, Contract, Runs, FinalizeAborted, Settled, rowVars, callVars, extVars, budgets
<1>6. TokensAreUnique'
  BY <1>0, <1>a, <1>b, ActionConstants DEF ActionInv, TypeOK, TokensAreUnique, Goto, Unlocked, Contract, Runs, FinalizeAborted, Settled, rowVars, callVars, extVars, budgets
<1>7. CallersAreRight'
  <2> SUFFICES ASSUME NEW d \in Callers PROVE CallerIsRight(d)'
    BY DEF CallersAreRight
  <2>1. CASE d = c
    BY <2>1, <1>0 DEF ActionInv, TypeOK, CallersAreRight, CallerIsRight
  <2>2. CASE d # c
    <3>1. /\ CallerIsRight(d) /\ pc'[d] = pc[d]
          /\ pc[d] # "idle" => mine[d] # mine[c]
      BY <2>2, <1>0 DEF ActionInv, TypeOK, CallersAreRight, TokensAreUnique
    <3>2. \A j \in Contracts : run'[j].token = run[j].token
      BY <1>0, <1>a
    <3>3. /\ Contract(d) \in Contracts /\ Contract(d)' = Contract(d)
      BY <1>0 DEF ActionInv, TypeOK, Items, Contract
    <3>4. pc[d] # "idle" /\ run[Contract(d)].token = mine[d] => run'[Contract(d)] = run[Contract(d)]
      BY <1>0, <1>a, <1>b, <3>1, <3>3
    <3>5. pc[d] # "idle" => (Holds(d)' <=> Holds(d))
      BY <1>0, <3>2, <3>3, <3>4 DEF Holds, Pending
    <3>6. pc[d] = "record" => Holds(d)
      BY DEF ActionInv, ApprovalStandsDuringTheCall
    <3> QED BY <1>0, <3>1, <3>2, <3>3, <3>4, <3>5, <3>6 DEF CallerIsRight, Holds
  <2> QED BY <2>1, <2>2
<1> QED BY <1>1, <1>2, <1>3, <1>4, <1>5, <1>6, <1>7 DEF ActionInv

\* Crash keeps the invariant.
LEMMA CrashInv == ASSUME ActionInv, NEW c \in Callers, Crash(c) PROVE ActionInv'
<1>1. TypeOK'
  BY TypeStep DEF ActionInv, Next, Step
<1>2. AtMostOneRemoteCall'
  BY ActionConstants DEF ActionInv, TypeOK, AtMostOneRemoteCall, CallersAreRight, CallerIsRight, Goto, Contract, Crash, Fault, rowVars, callVars, extVars, budgets
<1>3. ExecutedItemHasReceipt'
  BY ActionConstants DEF ActionInv, TypeOK, ExecutedItemHasReceipt, ApprovalStandsDuringTheCall, CallersAreRight, CallerIsRight, Approved, Unchanged, Holds, Pending, Contract, Items, Runs, ItemStatus, ExecStatus, Crash, Fault, rowVars, callVars, extVars, budgets
<1>4. ApprovalStandsDuringTheCall'
  BY ActionConstants DEF ActionInv, TypeOK, ApprovalStandsDuringTheCall, TokensAreUnique, Approved, Unchanged, Unlocked, Holds, Pending, Contract, Goto, Runs, Crash, Fault, rowVars, callVars, extVars, budgets
<1>5. ReceiptsAreTrue'
  BY ActionConstants DEF ActionInv, TypeOK, ReceiptsAreTrue, AtMostOneRemoteCall, CallersAreRight, CallerIsRight, ApprovalStandsDuringTheCall, Holds, Pending, Contract, Runs, Crash, Fault, rowVars, callVars, extVars, budgets
<1>6. TokensAreUnique'
  BY ActionConstants DEF ActionInv, TypeOK, TokensAreUnique, Goto, Unlocked, Contract, Runs, Crash, Fault, rowVars, callVars, extVars, budgets
<1>7. CallersAreRight'
  <2> SUFFICES ASSUME NEW d \in Callers PROVE CallerIsRight(d)'
    BY DEF CallersAreRight
  <2>1. CASE d = c
    BY <2>1, ActionConstants DEF ActionInv, TypeOK, CallersAreRight, CallerIsRight, ApprovalStandsDuringTheCall, ReceiptsAreTrue, TokensAreUnique, Goto, Unlocked, Holds, Pending, Contract, Runs, Crash, Fault, rowVars, callVars, extVars, budgets
  <2>2. CASE d # c
    BY <2>2, ActionConstants DEF ActionInv, TypeOK, CallersAreRight, CallerIsRight, ApprovalStandsDuringTheCall, ReceiptsAreTrue, TokensAreUnique, Goto, Unlocked, Holds, Pending, Contract, Runs, Crash, Fault, rowVars, callVars, extVars, budgets
  <2> QED BY <2>1, <2>2
<1> QED BY <1>1, <1>2, <1>3, <1>4, <1>5, <1>6, <1>7 DEF ActionInv

\* Edit keeps the invariant.
LEMMA EditInv == ASSUME ActionInv, Edit PROVE ActionInv'
<1>1. TypeOK'
  BY TypeStep DEF ActionInv, Next
<1>2. AtMostOneRemoteCall'
  BY ActionConstants DEF ActionInv, TypeOK, AtMostOneRemoteCall, CallersAreRight, CallerIsRight, Goto, Contract, Edit, EditTo, rowVars, callVars, extVars, budgets
<1>3. ExecutedItemHasReceipt'
  BY ActionConstants DEF ActionInv, TypeOK, ExecutedItemHasReceipt, ApprovalStandsDuringTheCall, CallersAreRight, CallerIsRight, Approved, Unchanged, Holds, Pending, Contract, Items, Runs, ItemStatus, ExecStatus, Edit, EditTo, rowVars, callVars, extVars, budgets
<1>4. ApprovalStandsDuringTheCall'
  BY ActionConstants DEF ActionInv, TypeOK, ApprovalStandsDuringTheCall, TokensAreUnique, Approved, Unchanged, Unlocked, Holds, Pending, Contract, Goto, Runs, Edit, EditTo, rowVars, callVars, extVars, budgets
<1>5. ReceiptsAreTrue'
  BY ActionConstants DEF ActionInv, TypeOK, ReceiptsAreTrue, AtMostOneRemoteCall, CallersAreRight, CallerIsRight, ApprovalStandsDuringTheCall, Holds, Pending, Contract, Runs, Edit, EditTo, rowVars, callVars, extVars, budgets
<1>6. TokensAreUnique'
  BY ActionConstants DEF ActionInv, TypeOK, TokensAreUnique, Goto, Unlocked, Contract, Runs, Edit, EditTo, rowVars, callVars, extVars, budgets
<1>7. CallersAreRight'
  BY ActionConstants DEF ActionInv, TypeOK, CallersAreRight, CallerIsRight, ApprovalStandsDuringTheCall, ReceiptsAreTrue, TokensAreUnique, Goto, Unlocked, Holds, Pending, Contract, Runs, Edit, EditTo, rowVars, callVars, extVars, budgets
<1> QED BY <1>1, <1>2, <1>3, <1>4, <1>5, <1>6, <1>7 DEF ActionInv

\* Lapse keeps the invariant.
LEMMA LapseInv == ASSUME ActionInv, Lapse PROVE ActionInv'
<1>1. TypeOK'
  BY TypeStep DEF ActionInv, Next
<1>2. AtMostOneRemoteCall'
  BY ActionConstants DEF ActionInv, TypeOK, AtMostOneRemoteCall, CallersAreRight, CallerIsRight, Goto, Contract, Lapse, rowVars, callVars, extVars, budgets
<1>3. ExecutedItemHasReceipt'
  BY ActionConstants DEF ActionInv, TypeOK, ExecutedItemHasReceipt, ApprovalStandsDuringTheCall, CallersAreRight, CallerIsRight, Approved, Unchanged, Holds, Pending, Contract, Items, Runs, ItemStatus, ExecStatus, Lapse, rowVars, callVars, extVars, budgets
<1>4. ApprovalStandsDuringTheCall'
  BY ActionConstants DEF ActionInv, TypeOK, ApprovalStandsDuringTheCall, TokensAreUnique, Approved, Unchanged, Unlocked, Holds, Pending, Contract, Goto, Runs, Lapse, rowVars, callVars, extVars, budgets
<1>5. ReceiptsAreTrue'
  BY ActionConstants DEF ActionInv, TypeOK, ReceiptsAreTrue, AtMostOneRemoteCall, CallersAreRight, CallerIsRight, ApprovalStandsDuringTheCall, Holds, Pending, Contract, Runs, Lapse, rowVars, callVars, extVars, budgets
<1>6. TokensAreUnique'
  BY ActionConstants DEF ActionInv, TypeOK, TokensAreUnique, Goto, Unlocked, Contract, Runs, Lapse, rowVars, callVars, extVars, budgets
<1>7. CallersAreRight'
  BY ActionConstants DEF ActionInv, TypeOK, CallersAreRight, CallerIsRight, ApprovalStandsDuringTheCall, ReceiptsAreTrue, TokensAreUnique, Goto, Unlocked, Holds, Pending, Contract, Runs, Lapse, rowVars, callVars, extVars, budgets
<1> QED BY <1>1, <1>2, <1>3, <1>4, <1>5, <1>6, <1>7 DEF ActionInv

\* Expire keeps the invariant.
LEMMA ExpireInv == ASSUME ActionInv, Expire PROVE ActionInv'
<1>1. TypeOK'
  BY TypeStep DEF ActionInv, Next
<1>2. AtMostOneRemoteCall'
  BY ActionConstants DEF ActionInv, TypeOK, AtMostOneRemoteCall, CallersAreRight, CallerIsRight, Goto, Contract, Expire, rowVars, callVars, extVars, budgets
<1>3. ExecutedItemHasReceipt'
  BY ActionConstants DEF ActionInv, TypeOK, ExecutedItemHasReceipt, ApprovalStandsDuringTheCall, CallersAreRight, CallerIsRight, Approved, Unchanged, Holds, Pending, Contract, Items, Runs, ItemStatus, ExecStatus, Expire, rowVars, callVars, extVars, budgets
<1>4. ApprovalStandsDuringTheCall'
  BY ActionConstants DEF ActionInv, TypeOK, ApprovalStandsDuringTheCall, TokensAreUnique, Approved, Unchanged, Unlocked, Holds, Pending, Contract, Goto, Runs, Expire, rowVars, callVars, extVars, budgets
<1>5. ReceiptsAreTrue'
  BY ActionConstants DEF ActionInv, TypeOK, ReceiptsAreTrue, AtMostOneRemoteCall, CallersAreRight, CallerIsRight, ApprovalStandsDuringTheCall, Holds, Pending, Contract, Runs, Expire, rowVars, callVars, extVars, budgets
<1>6. TokensAreUnique'
  BY ActionConstants DEF ActionInv, TypeOK, TokensAreUnique, Goto, Unlocked, Contract, Runs, Expire, rowVars, callVars, extVars, budgets
<1>7. CallersAreRight'
  BY ActionConstants DEF ActionInv, TypeOK, CallersAreRight, CallerIsRight, ApprovalStandsDuringTheCall, ReceiptsAreTrue, TokensAreUnique, Goto, Unlocked, Holds, Pending, Contract, Runs, Expire, rowVars, callVars, extVars, budgets
<1> QED BY <1>1, <1>2, <1>3, <1>4, <1>5, <1>6, <1>7 DEF ActionInv

\* The initial states satisfy the invariant.
LEMMA InitInv == Init => ActionInv
BY ActionConstants DEF Init, ActionInv, TypeOK, AtMostOneRemoteCall, ExecutedItemHasReceipt,
  ApprovalStandsDuringTheCall, ReceiptsAreTrue, TokensAreUnique, CallersAreRight, CallerIsRight,
  Items, Runs, ItemStatus, ExecStatus, Steps, Answers, Holds, Pending, Contract

\* Every step keeps the invariant.
LEMMA NextInv == ActionInv /\ [Next]_vars => ActionInv'
<1> SUFFICES ASSUME ActionInv, [Next]_vars PROVE ActionInv'
  OBVIOUS
<1>1. ASSUME NEW c \in Callers, Enter(c) \/ Step(c) \/ Crash(c) PROVE ActionInv'
  BY <1>1, EnterInv, BlockInv, ReserveInv, AcquireAnsweredInv, PrepareInv, ExecuteInv, StateChangedInv,
    AbortedInv, CallAdapterInv, RecordInv, RecordFailsInv, FinalizeCommittedInv, FinalizeAbortedInv,
    CrashInv DEF Step
<1>2. ASSUME Edit \/ Lapse \/ Expire PROVE ActionInv'
  BY <1>2, EditInv, LapseInv, ExpireInv
<1>3. CASE UNCHANGED vars
  BY <1>3 DEF vars, ActionInv, TypeOK, AtMostOneRemoteCall, ExecutedItemHasReceipt,
    ApprovalStandsDuringTheCall, ReceiptsAreTrue, TokensAreUnique, CallersAreRight, CallerIsRight,
    Holds, Pending, Contract, Unchanged, Approved
<1> QED BY <1>1, <1>2, <1>3 DEF Next

\* ActionInv holds in every reachable state of the control room's write-back.
THEOREM ActionInvariant == Spec => []ActionInv
BY InitInv, NextInv, PTL DEF Spec

\* The adapter is called at most once per contract, whatever leases, callers and
\* transactions do.
THEOREM AtMostOnce == Spec => []AtMostOneRemoteCall
<1>1. ActionInv => AtMostOneRemoteCall
  BY DEF ActionInv
<1> QED BY <1>1, ActionInvariant, PTL

\* An item that says executed has a completed receipt for the contract it carries.
THEOREM ExecutedIsBacked == Spec => []ExecutedItemHasReceipt
<1>1. ActionInv => ExecutedItemHasReceipt
  BY DEF ActionInv
<1> QED BY <1>1, ActionInvariant, PTL

\* What was approved stays approved while the other system is being called.
THEOREM ApprovalStands == Spec => []ApprovalStandsDuringTheCall
<1>1. ActionInv => ApprovalStandsDuringTheCall
  BY DEF ActionInv
<1> QED BY <1>1, ActionInvariant, PTL

\* Every variable of the write-back keeps its type.
THEOREM ActionTypes == Spec => []TypeOK
<1>1. ActionInv => TypeOK
  BY DEF ActionInv
<1> QED BY <1>1, ActionInvariant, PTL

-----------------------------------------------------------------------------
(* Refinement: stages is the abstract state read off the action_runs rows. *)

stages == [k \in Contracts |-> Stage(run[k])]

\* One row changes, so one contract's stage does.
LEMMA StageStep ==
  ASSUME TypeOK, NEW k \in Contracts, NEW r \in Runs, run' = [run EXCEPT ![k] = r]
  PROVE  stages' = [stages EXCEPT ![k] = Stage(r)]
BY DEF TypeOK, stages

\* A row that keeps its stage, or takes the next one its contract's effects allow,
\* makes an abstract step.
LEMMA StageAdvance ==
  ASSUME TypeOK, NEW k \in Contracts, NEW r \in Runs, run' = [run EXCEPT ![k] = r],
         UNCHANGED effects,
         \/ Stage(r) = Stage(run[k])
         \/ Stage(run[k]) = "none" /\ Stage(r) = "reserved"
         \/ Stage(run[k]) = "reserved" /\ Stage(r) = "attempted"
         \/ Stage(run[k]) = "attempted" /\ effects[k] = 1 /\ Stage(r) = "completed"
         \/ Stage(run[k]) \in {"reserved", "attempted"} /\ effects[k] = 0 /\ Stage(r) = "failed"
  PROVE  Effects!Next \/ UNCHANGED Effects!vars
<1>1. stages' = [stages EXCEPT ![k] = Stage(r)]
  BY StageStep
<1>2. stages[k] = Stage(run[k])
  BY DEF stages
<1>3. CASE Stage(r) = Stage(run[k])
  <2>1. stages' = stages
    BY <1>1, <1>2, <1>3 DEF stages
  <2> QED BY <2>1 DEF Effects!vars, stages
<1>4. CASE Stage(r) # Stage(run[k])
  <2>1. Effects!Advance(k)
    BY <1>1, <1>2, <1>4 DEF Effects!Advance, stages
  <2> QED BY <2>1 DEF Effects!Next
<1> QED BY <1>3, <1>4

\* A step that writes neither a row nor the other system stutters.
LEMMA StageFrame == UNCHANGED <<run, effects>> => UNCHANGED Effects!vars
BY DEF Effects!vars

\* Every step of the write-back is a step of ExternalEffect or a stutter.
LEMMA EffectStep == ASSUME ActionInv, Next PROVE Effects!Next \/ UNCHANGED Effects!vars
<1> USE ActionConstants
<1>0. TypeOK /\ \A c \in Callers : Contract(c) \in Contracts /\ run[Contract(c)] \in Runs
  BY DEF ActionInv, TypeOK, Items, Contract
<1>a. \A c \in Callers : CallerIsRight(c)
  BY DEF ActionInv, CallersAreRight
<1>b. \A k \in Contracts : effects[k] \in Nat /\ effects[k] <= remote[k] /\ remote[k] \in Nat
                           /\ (run[k].attempt = "none" => remote[k] = 0)
  BY DEF ActionInv, TypeOK, ReceiptsAreTrue
<1>1. ASSUME NEW c \in Callers, Reserve(c) PROVE Effects!Next \/ UNCHANGED Effects!vars
  <2> DEFINE k == Contract(c)
             r == [run[k] EXCEPT !.status = "pending", !.token = mine[c], !.live = TRUE]
  <2>1. run' = [run EXCEPT ![k] = r] /\ UNCHANGED effects
    BY <1>1 DEF Reserve, extVars
  <2>2. r \in Runs
    BY <1>0, RowTypes DEF TypeOK
  <2>3. run[k].attempt = "none"
    BY <1>0, <1>1 DEF Reserve, Acquirable, Reclaimable, ActionInv, ReceiptsAreTrue
  <2>4. Stage(r) = "reserved"
    BY <1>0, <2>3 DEF Stage, Runs
  <2>5. Stage(run[k]) \in {"none", "reserved"}
    BY <1>0, <1>1, <2>3 DEF Reserve, Acquirable, Reclaimable, Stage
  <2> HIDE DEF k, r
  <2> QED BY <1>0, <2>1, <2>2, <2>4, <2>5, StageAdvance DEF k
<1>2. ASSUME NEW c \in Callers, Prepare(c) PROVE Effects!Next \/ UNCHANGED Effects!vars
  <2> DEFINE k == Contract(c)
             r == [run[k] EXCEPT !.attempt = "started", !.live = TRUE]
  <2>1. run' = [run EXCEPT ![k] = r] /\ UNCHANGED effects
    BY <1>2 DEF Prepare, extVars
  <2>2. r \in Runs
    BY <1>0, RowTypes
  <2>3. Stage(r) = "attempted" /\ Stage(run[k]) = "reserved"
    BY <1>0, <1>2 DEF Prepare, Revalidated, Holds, Pending, Stage, Runs
  <2> HIDE DEF k, r
  <2> QED BY <1>0, <2>1, <2>2, <2>3, StageAdvance DEF k
<1>3. ASSUME NEW c \in Callers, CallAdapter(c) PROVE Effects!Next \/ UNCHANGED Effects!vars
  <2> DEFINE k == Contract(c)
  <2>1. Holds(c) /\ run[k].attempt = "started" /\ remote[k] = 0
    BY <1>3, <1>a DEF CallAdapter, CallerIsRight
  <2>2. effects[k] = 0
    BY <1>0, <1>b, <2>1
  <2>3. Stage(run[k]) = "attempted"
    BY <2>1 DEF Holds, Pending, Stage
  <2>4. PICK acted \in {0, 1} : effects' = [effects EXCEPT ![k] = @ + acted]
    BY <1>3 DEF CallAdapter
  <2>5. UNCHANGED run
    BY <1>3 DEF CallAdapter, rowVars
  <2>6. CASE acted = 0
    <3>1. effects' = effects
      BY <1>0, <2>2, <2>4, <2>6 DEF TypeOK
    <3> QED BY <2>5, <3>1, StageFrame
  <2>7. CASE acted = 1
    <3>1. effects' = [effects EXCEPT ![k] = 1]
      BY <1>0, <2>2, <2>4, <2>7 DEF TypeOK
    <3>2. Effects!Effect(k)
      BY <1>0, <2>2, <2>3, <2>5, <3>1 DEF Effects!Effect
    <3> QED BY <1>0, <3>2 DEF Effects!Next
  <2> QED BY <2>6, <2>7
<1>4. ASSUME NEW c \in Callers, Record(c) PROVE Effects!Next \/ UNCHANGED Effects!vars
  <2> DEFINE k == Contract(c)
             r == Outcome(run[k], answer[c])
  <2>1. run' = [run EXCEPT ![k] = r] /\ UNCHANGED effects
    BY <1>4 DEF Record, extVars
  <2>2. r \in Runs
    BY <1>0, RowTypes, ActionConstants DEF TypeOK, ActionConstants
  <2>3. /\ run[k].attempt = "started"
        /\ answer[c] = "ok" => effects[k] = 1
        /\ answer[c] = "rejected" => effects[k] = 0
        /\ answer[c] \in {"ok", "rejected", "ambiguous"}
    BY <1>4, <1>a DEF Record, CallerIsRight
  <2>4. run[k].status = "pending"
    BY <1>4 DEF Record, ActionInv, ApprovalStandsDuringTheCall, Holds, Pending
  <2>5. Stage(run[k]) = "attempted"
    BY <2>3, <2>4 DEF Stage
  <2>6. Stage(r) = (CASE answer[c] = "ok" -> "completed"
                      [] answer[c] = "rejected" -> "failed" [] OTHER -> "attempted")
    BY <1>0, <2>3, <2>4 DEF Stage, Outcome, Runs
  <2> HIDE DEF k, r
  <2> QED BY <1>0, <2>1, <2>2, <2>3, <2>5, <2>6, StageAdvance DEF k
<1>5. ASSUME NEW c \in Callers, FinalizeCommitted(c) PROVE Effects!Next \/ UNCHANGED Effects!vars
  <2> DEFINE k == Contract(c)
  <2>1. run[k].status = "pending" /\ run[k].attempt # "none" /\ effects[k] = 1
    BY <1>5, <1>a DEF FinalizeCommitted, CallerIsRight, Holds, Pending
  <2>2. PICK p \in {"completed", "pending_reconciliation"} :
          run' = [run EXCEPT ![k] = [run[k] EXCEPT !.status = "completed", !.projection = p]]
    BY <1>5, <2>1 DEF FinalizeCommitted
  <2> DEFINE r == [run[k] EXCEPT !.status = "completed", !.projection = p]
  <2>3. UNCHANGED effects
    BY <1>5 DEF FinalizeCommitted, extVars
  <2>4. r \in Runs
    BY <1>0, RowTypes
  <2>5. Stage(run[k]) = "attempted" /\ Stage(r) = "completed"
    BY <1>0, <2>1 DEF Stage, Runs
  <2>6. run' = [run EXCEPT ![k] = r]
    BY <2>2
  <2> HIDE DEF k, r
  <2> QED BY <1>0, <2>1, <2>3, <2>4, <2>5, <2>6, StageAdvance DEF k
<1>6. ASSUME NEW c \in Callers, FinalizeAborted(c) PROVE Effects!Next \/ UNCHANGED Effects!vars
  <2> DEFINE k == Contract(c)
             r == Settled(run[k])
  <2>1. UNCHANGED effects
    BY <1>6 DEF FinalizeAborted, extVars
  <2>2. CASE UNCHANGED run
    BY <2>1, <2>2, StageFrame
  <2>3. CASE Holds(c) /\ run' = [run EXCEPT ![k] = r]
    <3>1. r \in Runs
      BY <1>0, RowTypes
    <3>2. run[k].status = "pending"
      BY <2>3 DEF Holds, Pending
    <3>3. CASE run[k].attempt = "none"
      <4>1. Stage(run[k]) = "reserved" /\ Stage(r) = "failed"
        BY <1>0, <3>2, <3>3 DEF Stage, Settled, Runs
      <4>2. effects[k] = 0
        BY <1>0, <1>b, <3>3
      <4> HIDE DEF k, r
      <4> QED BY <1>0, <2>1, <2>3, <3>1, <4>1, <4>2, StageAdvance DEF k
    <3>4. CASE run[k].attempt # "none"
      <4>1. Stage(run[k]) = "attempted" /\ Stage(r) = "attempted"
        BY <1>0, <3>2, <3>4 DEF Stage, Settled, Runs
      <4> HIDE DEF k, r
      <4> QED BY <1>0, <2>1, <2>3, <3>1, <4>1, StageAdvance DEF k
    <3> QED BY SMTT(60), <3>3, <3>4
  <2> QED BY <1>6, <2>2, <2>3 DEF FinalizeAborted
<1>7. ASSUME Expire PROVE Effects!Next \/ UNCHANGED Effects!vars
  <2> PICK k \in Contracts : run' = [run EXCEPT ![k].live = FALSE]
    BY <1>7 DEF Expire
  <2> DEFINE r == [run[k] EXCEPT !.live = FALSE]
  <2>1. run' = [run EXCEPT ![k] = r] /\ UNCHANGED effects
    BY <1>7 DEF Expire, extVars
  <2>2. run[k] \in Runs
    BY <1>0 DEF TypeOK
  <2>3. r \in Runs /\ Stage(r) = Stage(run[k])
    BY <2>2 DEF Runs, Stage
  <2> HIDE DEF r
  <2> QED BY <1>0, <2>1, <2>3, StageAdvance
<1>8. CASE UNCHANGED <<run, effects>>
  BY <1>8, StageFrame
<1> QED BY <1>1, <1>2, <1>3, <1>4, <1>5, <1>6, <1>7, <1>8 DEF Next, Step, Enter, Block, AcquireAnswered,
  Execute, StateChanged, Aborted, RecordFails, Crash, Edit, Lapse, rowVars, extVars

\* execute_item implements ExternalEffect: for every contract one effect at most,
\* after a durable intention, and a receipt written once that is true.
THEOREM WriteBackImplements == Spec => ImplementsExternalEffect
<1>1. Init => Effects!Init
  BY DEF Init, Effects!Init, Stage
<1>2. ActionInv /\ [Next]_vars => [Effects!Next]_(Effects!vars)
  <2>1. CASE ActionInv /\ Next
    BY <2>1, EffectStep
  <2>2. CASE UNCHANGED vars
    BY <2>2, StageFrame DEF vars
  <2> QED BY <2>1, <2>2
<1> QED BY <1>1, <1>2, ActionInvariant, PTL DEF Spec, ImplementsExternalEffect, Effects!Spec
=============================================================================
