---------------------- MODULE StagedPublicationProofs ----------------------
(***************************************************************************)
(* Safety of staged publication for every value of the constants.          *)
(*                                                                         *)
(* The proof separates the database from the workers.  DatabaseNext is all *)
(* that can happen to the publication tables: the SQL functions, the       *)
(* verifier's record, a lost stage table and expiry, in any order and by   *)
(* anyone.  Chain, authority and finality follow from it alone, so they    *)
(* hold even when run_lock's session is lost.  Exactness also needs what a *)
(* worker knows about its own rows (WorkerIsExact), which no other worker  *)
(* can disturb.  SafetyInv is the conjunction.                             *)
(***************************************************************************)
EXTENDS StagedPublication, TLAPS

\* The initial database, workers and environment are well typed.
LEMMA InitType == Init => TypeOK
<1>1. NoBody \in CandBody
  BY DEF NoBody, CandBody, Content
<1>2. QED
  BY <1>1, BaseAssumption, LegacyAssumption, DistinctAssumption, BoundAssumption
  DEF Init, TypeOK, DatabaseType, WorkerType, EnvironmentType, RunStatus,
      CandStatus, Labels, Cands, NoCand, Content

USE DEF vars, dbVars, headVars, runVars, tableVars, candVars, verVars,
        localVars, envVars

\* A step that leaves the database alone keeps its types.
LEMMA DatabaseFrame == DatabaseType /\ UNCHANGED dbVars => DatabaseType'
BY DEF DatabaseType

\* submit_verification_candidate keeps the types of the database: the new
\* candidate's body is well formed.
LEMMA SubmitCandidateType ==
  ASSUME DatabaseType, NEW r \in Runs, NEW d \in Content, NEW c \in Cands,
         SubmitCandidate(r, d, c)
  PROVE  DatabaseType'
<1> DEFINE body == [run |-> r, attempt |-> attempt[r], object |-> d]
<1>1. body \in CandBody
  BY DEF DatabaseType, CandBody
<1>2. CASE UNCHANGED dbVars
  BY <1>2, DatabaseFrame
<1>3. CASE cbody' = [cbody EXCEPT ![c] = body]
  <2>1. cbody' \in [Cands -> CandBody]
    BY <1>1, <1>3 DEF DatabaseType
  <2> HIDE DEF body
  <2>2. QED
    BY <1>3, <2>1 DEF DatabaseType, SubmitCandidate, CandStatus
<1>4. QED
  BY <1>2, <1>3 DEF SubmitCandidate

\* mark_prepared keeps the types of the database.
LEMMA MarkPreparedType ==
  ASSUME DatabaseType, NEW r \in Runs, NEW d \in Content, MarkPrepared(r, d)
  PROVE  DatabaseType'
<1>1. PICK c \in Usable(r, d) : /\ consumed' = consumed \cup {c}
                               /\ evidence' = [evidence EXCEPT ![r] = c]
  BY DEF MarkPrepared
<1>2. c \in Cands
  BY <1>1 DEF Usable, AttestationsOf
<1>3. staged' \in [Runs -> BOOLEAN]
  BY Zenon DEF MarkPrepared, DatabaseType
<1>4. QED
  BY <1>1, <1>2, <1>3 DEF DatabaseType, MarkPrepared, RunStatus

\* publish_materialization keeps the types of the database.
LEMMA PublishMaterializationType ==
  ASSUME DatabaseType, NEW r \in Runs, PublishMaterialization(r)
  PROVE  DatabaseType'
BY DEF DatabaseType, PublishMaterialization, RunStatus, Content

\* quarantine_prepared keeps the types of the database.
LEMMA QuarantinePreparedType ==
  ASSUME DatabaseType, NEW r \in Runs, QuarantinePrepared(r)
  PROVE  DatabaseType'
BY DistinctAssumption DEF DatabaseType, QuarantinePrepared, AttestationsOf, RunStatus, Content

\* reopen_prepared_materialization keeps the types of the database.
LEMMA ReopenPreparedType ==
  ASSUME DatabaseType, NEW r \in Runs, ReopenPrepared(r)
  PROVE  DatabaseType'
BY DEF DatabaseType, ReopenPrepared, AttestationsOf, RunStatus, CandStatus

\* abandon_materialization keeps the types of the database.
LEMMA AbandonMaterializationType ==
  ASSUME DatabaseType, NEW r \in Runs, AbandonMaterialization(r)
  PROVE  DatabaseType'
BY ZenonT(60) DEF DatabaseType, AbandonMaterialization, AttestationsOf, RunStatus, Content

\* A worker's own step keeps the types of what workers hold in Python.
LEMMA WorkerTypeStep ==
  ASSUME TypeOK, NEW p \in Publishers, Resolve(p) \/ Worker(p)
  PROVE  WorkerType'
<1> USE DEF TypeOK, WorkerType, At, Goto, Labels
<1>1. CASE Resolve(p)
  BY <1>1 DEF Resolve, EnvironmentType
<1>2. CASE ReadHead(p)
  BY <1>2 DEF ReadHead, Replay, Identify
<1>3. CASE AcquireLock(p)
  BY <1>3 DEF AcquireLock
<1>4. CASE Reserve(p)
  BY <1>4 DEF Reserve, ReserveConflict, ReserveNew, ReserveRetry,
              ReserveExisting, FirstStep
<1>5. CASE StageGold(p)
  BY <1>5 DEF StageGold, Rows, Content, Data
<1>6. CASE Upload(p)
  BY <1>6 DEF Upload, Rows, Content, Data
<1>7. CASE AssertInputs(p)
  BY <1>7 DEF AssertInputs
<1>8. CASE Submit(p)
  BY <1>8 DEF Submit, Failure
<1>9. CASE Mark(p)
  BY <1>9 DEF Mark, Failure
<1>10. CASE CheckObject(p)
  BY <1>10 DEF CheckObject
<1>11. CASE CheckPrepared(p)
  BY <1>11 DEF CheckPrepared
<1>12. CASE Publish(p)
  BY <1>12 DEF Publish, PublishFailure
<1>13. CASE Quarantine(p)
  BY <1>13 DEF Quarantine
<1>14. CASE Reopen(p)
  BY ZenonT(60), <1>14 DEF Reopen, DatabaseType
<1>15. CASE SettleReopen(p)
  BY <1>15 DEF SettleReopen
<1>16. CASE RecheckObject(p)
  BY <1>16 DEF RecheckObject
<1>17. CASE RebuildGoldStage(p)
  BY <1>17 DEF RebuildGoldStage
<1>18. CASE Cleanup(p)
  BY <1>18 DEF Cleanup
<1>19. CASE Discard(p)
  BY <1>19 DEF Discard
<1>20. CASE Fail(p)
  BY <1>20 DEF Fail
<1>21. CASE Abandon(p)
  BY <1>21 DEF Abandon
<1>22. CASE Unlock(p)
  BY <1>22, BaseAssumption DEF Unlock, Forget, Content, NoCand
<1>23. QED
  BY <1>1, <1>2, <1>3, <1>4, <1>5, <1>6, <1>7, <1>8, <1>9, <1>10, <1>11,
     <1>12, <1>13, <1>14, <1>15, <1>16, <1>17, <1>18, <1>19, <1>20, <1>21,
     <1>22 DEF Worker

-----------------------------------------------------------------------------
(* The database changes only through the SQL functions, a lost stage table and
   the passing of time. *)

DatabaseNext ==
  \/ UNCHANGED dbVars
  \/ \E p \in Publishers, r \in Runs : ReserveNew(p, r) \/ ReserveRetry(p, r)
  \/ \E r \in Runs, d \in Content : CreateGoldStage(r, d)
  \/ \E p \in Publishers, c \in Cands :
       /\ At(p, "submit") /\ run[p] \in Runs /\ built[p] \in Content
       /\ SubmitCandidate(run[p], built[p], c)
  \/ \E p \in Publishers, c \in Cands : VerifierRecord(p, c)
  \/ \E r \in Runs, d \in Content : MarkAccepted(r, d) /\ MarkPrepared(r, d)
  \/ \E r \in Runs :
       \/ PublishOutcome(r) = "published" /\ PublishMaterialization(r)
       \/ QuarantinePrepared(r)
       \/ Reopenable(r) /\ ReopenPrepared(r)
       \/ AbandonMaterialization(r)
       \/ LoseStage(r)
  \/ \E c \in Cands : Expire(c)

\* Whatever a worker does, the database sees one of the SQL functions, or
\* nothing.
LEMMA WorkerOnDatabase ==
  ASSUME TypeOK, NEW p \in Publishers, Resolve(p) \/ Worker(p)
  PROVE  DatabaseNext
<1>1. pc[p] \notin {"idle", "head"} => run[p] \in Runs
  BY DEF TypeOK, WorkerType
<1>2. built[p] \in Content /\ input[p] \in Nat
  BY DEF TypeOK, WorkerType
<1>3. CASE \/ Resolve(p) \/ ReadHead(p) \/ AcquireLock(p) \/ Upload(p)
           \/ AssertInputs(p) \/ CheckObject(p) \/ CheckPrepared(p)
           \/ RecheckObject(p) \/ Cleanup(p) \/ Fail(p) \/ Unlock(p)
  BY <1>3 DEF Resolve, ReadHead, AcquireLock, Upload, AssertInputs,
     CheckObject, CheckPrepared, RecheckObject, Cleanup, Fail, Unlock,
     DatabaseNext
<1>4. CASE Reserve(p)
  BY <1>1, <1>4 DEF Reserve, ReserveConflict, ReserveExisting, At, DatabaseNext
<1>5. CASE StageGold(p)
  <2>1. Rows(input[p]) \in Content
    BY <1>2 DEF Rows, Content, Data
  <2>2. QED
    BY <1>1, <1>5, <2>1 DEF StageGold, At, DatabaseNext
<1>6. CASE Submit(p)
  BY <1>1, <1>2, <1>6 DEF Submit, At, DatabaseNext
<1>7. CASE Mark(p)
  BY <1>1, <1>2, <1>7 DEF Mark, At, DatabaseNext
<1>8. CASE Publish(p)
  BY <1>1, <1>8 DEF Publish, At, DatabaseNext
<1>9. CASE Quarantine(p)
  BY <1>1, <1>9 DEF Quarantine, At, DatabaseNext
<1>10. CASE Reopen(p)
  BY <1>1, <1>10 DEF Reopen, At, DatabaseNext
<1>11. CASE SettleReopen(p)
  BY <1>1, <1>11 DEF SettleReopen, At, DatabaseNext
<1>12. CASE RebuildGoldStage(p)
  BY <1>1, <1>2, <1>12 DEF RebuildGoldStage, At, DatabaseNext
<1>13. CASE Discard(p) \/ Abandon(p)
  BY <1>1, <1>13 DEF Discard, Abandon, At, DatabaseNext
<1>14. QED
  BY <1>3, <1>4, <1>5, <1>6, <1>7, <1>8, <1>9, <1>10, <1>11, <1>12, <1>13
  DEF Worker

\* The same of every step of the system: what the database goes through is
\* DatabaseNext, which mentions no lock and no worker.
LEMMA NextOnDatabase == TypeOK /\ [Next]_vars => DatabaseNext
<1> SUFFICES ASSUME TypeOK, [Next]_vars PROVE DatabaseNext
  OBVIOUS
<1>1. CASE \E p \in Publishers : Resolve(p) \/ Worker(p)
  BY <1>1, WorkerOnDatabase
<1>2. CASE Verifier
  BY <1>2 DEF Verifier, VerifierLoad, DatabaseNext
<1>3. CASE Faults
  <2>1. CASE \E p \in Publishers : PublishReplyLost(p)
    BY <2>1 DEF PublishReplyLost, At, TypeOK, WorkerType, DatabaseNext
  <2>2. CASE \/ \E p \in Publishers : VerifyTimeout(p) \/ Crash(p)
             \/ \E r \in Runs : LoseLock(r)
             \/ \E o \in stored : LoseObject(o[1], o[2])
             \/ ChangeSource \/ VerifierCrash
    BY <2>2 DEF VerifyTimeout, Crash, LoseLock, LoseObject, ChangeSource,
       VerifierCrash, DatabaseNext
  <2>3. CASE \/ \E r \in Runs : LoseStage(r)
             \/ \E c \in Cands : Expire(c)
    BY <2>3 DEF DatabaseNext
  <2>4. QED
    BY <1>3, <2>1, <2>2, <2>3 DEF Faults
<1>4. CASE UNCHANGED vars
  BY <1>4 DEF DatabaseNext
<1>5. QED
  BY <1>1, <1>2, <1>3, <1>4 DEF Next, Terminating

\* Every SQL function keeps the types of the database.
LEMMA DatabaseTypeStep == DatabaseType /\ DatabaseNext => DatabaseType'
<1> SUFFICES ASSUME DatabaseType, DatabaseNext PROVE DatabaseType'
  OBVIOUS
<1>1. CASE UNCHANGED dbVars
  BY <1>1, DatabaseFrame
<1>2. CASE \E p \in Publishers, r \in Runs : ReserveNew(p, r) \/ ReserveRetry(p, r)
  <2>1. PICK p \in Publishers, r \in Runs : ReserveNew(p, r) \/ ReserveRetry(p, r)
    BY <1>2
  <2>2. CASE ReserveNew(p, r)
    BY <2>2 DEF ReserveNew, DatabaseType, RunStatus
  <2>3. CASE ReserveRetry(p, r)
    BY <2>3 DEF ReserveRetry, AttestationsOf, DatabaseType, RunStatus, Content
  <2>4. QED
    BY <2>1, <2>2, <2>3
<1>3. CASE \E r \in Runs, d \in Content : CreateGoldStage(r, d)
  BY <1>3 DEF CreateGoldStage, DatabaseType
<1>4. CASE \E p \in Publishers, c \in Cands : VerifierRecord(p, c)
  BY <1>4 DEF VerifierRecord, DatabaseType, CandStatus
<1>5. CASE \/ \E r \in Runs : LoseStage(r)
           \/ \E c \in Cands : Expire(c)
  BY <1>5 DEF LoseStage, Expire, DatabaseType, Content
<1>6. QED
  BY <1>1, <1>2, <1>3, <1>4, <1>5, SubmitCandidateType, MarkPreparedType,
     PublishMaterializationType, QuarantinePreparedType, ReopenPreparedType,
     AbandonMaterializationType DEF DatabaseNext

\* The verifier's answer moves the waiting worker to a known position.
LEMMA AnswerType ==
  ASSUME TypeOK, NEW p \in Publishers, NEW c \in Cands, NEW ok \in BOOLEAN,
         Answer(p, c, ok), UNCHANGED localVars
  PROVE  WorkerType'
BY DEF TypeOK, WorkerType, Answer, At, Failure, Labels

\* Steps of the verifier and faults keep the types of what workers hold.
LEMMA OthersWorkerType ==
  ASSUME TypeOK, Verifier \/ Faults \/ UNCHANGED vars
  PROVE  WorkerType'
<1>1. CASE Verifier
  <2>1. PICK p \in Publishers, c \in Cands : VerifierLoad(p, c) \/ VerifierRecord(p, c)
    BY <1>1 DEF Verifier
  <2>2. CASE VerifierLoad(p, c)
    BY <2>2, AnswerType DEF VerifierLoad, TypeOK, WorkerType
  <2>3. CASE VerifierRecord(p, c)
    <3>1. Attestable(c) \in BOOLEAN
      BY Zenon DEF Attestable
    <3>2. QED
      BY <2>3, <3>1, AnswerType DEF VerifierRecord
  <2>4. QED
    BY <2>1, <2>2, <2>3
<1>2. CASE Faults
  <2> USE DEF TypeOK, WorkerType, At, Goto, Labels
  <2>1. CASE \E p \in Publishers : VerifyTimeout(p)
    BY <2>1 DEF VerifyTimeout, Failure
  <2>2. CASE \E p \in Publishers : PublishReplyLost(p)
    BY <2>2 DEF PublishReplyLost, PublishFailure
  <2>3. CASE \E p \in Publishers : Crash(p)
    BY <2>3, BaseAssumption DEF Crash, Forget, Content, NoCand
  <2>4. CASE VerifierCrash
    BY <2>4 DEF VerifierCrash, Failure
  <2>5. CASE UNCHANGED <<pc, localVars>>
    BY <2>5
  <2>6. QED
    BY <1>2, <2>1, <2>2, <2>3, <2>4, <2>5
    DEF Faults, LoseLock, LoseStage, LoseObject, Expire, ChangeSource
<1>3. CASE UNCHANGED vars
  BY <1>3 DEF TypeOK, WorkerType
<1>4. QED
  BY <1>1, <1>2, <1>3

\* Spending a budget leaves every budget a natural number.
LEMMA SpendType ==
  ASSUME EnvironmentType, NEW k \in FaultKinds, Spend(k)
  PROVE  budget' \in [FaultKinds -> Nat]
BY DEF EnvironmentType, Spend

\* Every step keeps the types of locks, requests, inputs, objects and budgets.
LEMMA EnvironmentTypeStep == TypeOK /\ [Next]_vars => EnvironmentType'
<1> SUFFICES ASSUME TypeOK, [Next]_vars PROVE EnvironmentType'
  OBVIOUS
<1> USE DEF TypeOK, EnvironmentType
<1>1. ASSUME NEW p \in Publishers, Resolve(p) \/ Worker(p)
      PROVE  EnvironmentType'
  <2>1. pc[p] \notin {"idle", "head"} => run[p] \in Runs
    BY DEF WorkerType
  <2>2. CASE Resolve(p)
    BY <2>2 DEF Resolve, Spend, FaultKinds
  <2>3. CASE AcquireLock(p)
    BY <2>1, <2>3 DEF AcquireLock, At
  <2>4. CASE Upload(p)
    BY <2>1, <2>4 DEF Upload, At, Rows, Content, Data, WorkerType
  <2>5. CASE Submit(p)
    BY <2>5 DEF Submit
  <2>6. CASE Mark(p)
    BY <2>6 DEF Mark, Spend, FaultKinds
  <2>7. CASE Reopen(p)
    BY <2>7 DEF Reopen, Spend, FaultKinds
  <2>8. CASE Unlock(p)
    BY <2>8 DEF Unlock, ReleaseBy
  <2>9. CASE \/ ReadHead(p) \/ Reserve(p) \/ StageGold(p) \/ AssertInputs(p)
             \/ CheckObject(p) \/ CheckPrepared(p) \/ Publish(p) \/ Quarantine(p)
             \/ SettleReopen(p) \/ RecheckObject(p) \/ RebuildGoldStage(p)
             \/ Cleanup(p) \/ Discard(p) \/ Fail(p) \/ Abandon(p)
    BY <2>9 DEF ReadHead, Reserve, StageGold, AssertInputs, CheckObject,
       CheckPrepared, Publish, Quarantine, SettleReopen, RecheckObject,
       RebuildGoldStage, Cleanup, Discard, Fail, Abandon
  <2>10. QED
    BY <1>1, <2>2, <2>3, <2>4, <2>5, <2>6, <2>7, <2>8, <2>9 DEF Worker
<1>2. CASE Verifier
  BY <1>2 DEF Verifier, VerifierLoad, VerifierRecord
<1>3. CASE Faults
  <2>1. CASE \E p \in Publishers : VerifyTimeout(p) \/ PublishReplyLost(p) \/ Crash(p)
    <3>1. PICK p \in Publishers : VerifyTimeout(p) \/ PublishReplyLost(p) \/ Crash(p)
      BY <2>1
    <3>2. CASE VerifyTimeout(p) \/ PublishReplyLost(p)
      <4>1. Spend("timeout") \/ Spend("reply_lost")
        BY <3>2 DEF VerifyTimeout, PublishReplyLost
      <4>2. budget' \in [FaultKinds -> Nat]
        BY <4>1, SpendType DEF FaultKinds
      <4>3. QED
        BY <3>2, <4>2 DEF VerifyTimeout, PublishReplyLost
    <3>3. CASE Crash(p)
      BY <3>3, SpendType DEF Crash, FaultKinds, ReleaseBy
    <3>4. QED
      BY <3>1, <3>2, <3>3
  <2>2. CASE \E r \in Runs : LoseLock(r) \/ LoseStage(r)
    BY <2>2 DEF LoseLock, LoseStage, Spend, FaultKinds
  <2>3. CASE \E o \in stored : LoseObject(o[1], o[2])
    BY <2>3 DEF LoseObject, Spend, FaultKinds
  <2>4. CASE (\E c \in Cands : Expire(c)) \/ ChangeSource
    BY <2>4 DEF Expire, ChangeSource, Spend, FaultKinds
  <2>5. CASE VerifierCrash
    BY <2>5, SpendType DEF VerifierCrash, FaultKinds
  <2>6. QED
    BY <1>3, <2>1, <2>2, <2>3, <2>4, <2>5 DEF Faults
<1>4. CASE UNCHANGED vars
  BY <1>4
<1>5. QED
  BY <1>1, <1>2, <1>3, <1>4 DEF Next, Terminating

\* Type correctness is inductive.
LEMMA TypeStep == TypeOK /\ [Next]_vars => TypeOK'
<1> SUFFICES ASSUME TypeOK, [Next]_vars PROVE TypeOK'
  OBVIOUS
<1>1. DatabaseType'
  BY NextOnDatabase, DatabaseTypeStep DEF TypeOK
<1>2. WorkerType'
  BY WorkerTypeStep, OthersWorkerType DEF Next, Terminating
<1>3. EnvironmentType'
  BY EnvironmentTypeStep
<1>4. QED
  BY <1>1, <1>2, <1>3 DEF TypeOK

\* Types: in every reachable state the columns of the publication tables hold
\* values of their CHECK domains, and every position, lock, request and object
\* of the Python side names a run that exists.
THEOREM TypeCorrect == Spec => []TypeOK
BY InitType, TypeStep, PTL DEF Spec

-----------------------------------------------------------------------------
(* The chain of receipts.  Only publish_materialization touches it. *)

\* No SQL function but publish_materialization touches head, generation and
\* receipts.
LEMMA ChainFrame ==
  ASSUME DatabaseNext,
         ~ \E r \in Runs : PublishOutcome(r) = "published" /\ PublishMaterialization(r)
  PROVE  UNCHANGED headVars
BY DEF DatabaseNext, ReserveNew, ReserveRetry, CreateGoldStage,
   SubmitCandidate, VerifierRecord, MarkPrepared, QuarantinePrepared,
   ReopenPrepared, AbandonMaterialization, LoseStage, Expire

\* What publish_materialization has tested by the time it publishes.
LEMMA PublishedOutcome ==
  ASSUME NEW r \in Runs, PublishOutcome(r) = "published"
  PROVE  /\ receiptGen[r] = 0
         /\ status[r] = "prepared"
         /\ Authorized(r)
         /\ head = ExpectedOf[r]
BY DEF PublishOutcome

\* The compare-and-swap on the head keeps the receipts one chain.
LEMMA ChainStep ==
  ASSUME TypeOK, PublishedChain, DatabaseNext
  PROVE  PublishedChain'
<1>1. CASE \E r \in Runs : PublishOutcome(r) = "published" /\ PublishMaterialization(r)
  <2>1. PICK r \in Runs : PublishOutcome(r) = "published" /\ PublishMaterialization(r)
    BY <1>1
  <2>2. receiptGen[r] = 0 /\ head = ExpectedOf[r]
    BY <2>1, PublishedOutcome
  <2>3. head' = r /\ gen' = gen + 1 /\ receiptGen' = [receiptGen EXCEPT ![r] = gen + 1]
    BY <2>1 DEF PublishMaterialization
  <2>4. r # Base /\ BaseGen \in Nat
    BY BaseAssumption
  <2>5. \A s \in Runs : ExpectedOf[s] \in Runs \cup {Base}
    BY IdentityAssumption
  <2>6. QED
    BY <2>2, <2>3, <2>4, <2>5
    DEF PublishedChain, HasReceipt, TypeOK, DatabaseType
<1>2. CASE UNCHANGED headVars
  BY <1>2 DEF PublishedChain, HasReceipt
<1>3. QED
  BY <1>1, <1>2, ChainFrame

-----------------------------------------------------------------------------
(* Evidence and attestations *)

\* Only attestations are consumed, and evidence only ever cites a consumed
\* attestation of its own run.
LEMMA EvidenceStep ==
  ASSUME TypeOK, EvidenceIsConsumed, DatabaseNext
  PROVE  EvidenceIsConsumed'
<1> USE DEF EvidenceIsConsumed, TypeOK, DatabaseType
<1>1. CASE \E p \in Publishers, c \in Cands : SubmitCandidate(run[p], built[p], c)
  BY <1>1 DEF SubmitCandidate, Overdue
<1>2. CASE \E p \in Publishers, c \in Cands : VerifierRecord(p, c)
  BY <1>2 DEF VerifierRecord
<1>3. CASE \E r \in Runs, d \in Content : MarkAccepted(r, d) /\ MarkPrepared(r, d)
  BY <1>3 DEF MarkPrepared, Usable, AttestationsOf
<1>4. CASE \E r \in Runs : Reopenable(r) /\ ReopenPrepared(r)
  BY <1>4 DEF ReopenPrepared, NoCand
<1>5. CASE \E r \in Runs : QuarantinePrepared(r)
  BY <1>5 DEF QuarantinePrepared, NoCand
<1>6. CASE UNCHANGED <<consumed, cstatus, evidence, cbody>>
  BY <1>6
<1>7. QED
  BY <1>1, <1>2, <1>3, <1>4, <1>5, <1>6
  DEF DatabaseNext, ReserveNew, ReserveRetry, CreateGoldStage,
      PublishMaterialization, AbandonMaterialization, LoseStage, Expire

\* No function but publish_materialization gives a run a receipt, and none
\* touches what stands behind the receipt of a published run.
LEMMA PublishedFrame ==
  ASSUME TypeOK, PublishedAuthority, EvidenceIsConsumed, DatabaseNext,
         NEW s \in Runs, HasReceipt(s)
  PROVE  /\ status'[s] = status[s]
         /\ attempt'[s] = attempt[s]
         /\ object'[s] = object[s]
         /\ evidence'[s] = evidence[s]
         /\ receiptGen'[s] = receiptGen[s]
         /\ receiptObject'[s] = receiptObject[s]
         /\ gold'[s] = gold[s]
         /\ evidence[s] \in consumed' \ invalidated'
         /\ cstatus'[evidence[s]] = "attested"
         /\ cbody'[evidence[s]] = cbody[evidence[s]]
<1>1. /\ status[s] = "published"
      /\ evidence[s] \in Cands
      /\ evidence[s] \in consumed
      /\ evidence[s] \notin invalidated
      /\ cstatus[evidence[s]] = "attested"
      /\ cbody[evidence[s]].run = s
  <2>1. /\ status[s] = "published"
        /\ evidence[s] \in consumed \ invalidated
        /\ cstatus[evidence[s]] = "attested"
        /\ cbody[evidence[s]] = [run |-> s, attempt |-> attempt[s],
                                 object |-> receiptObject[s]]
    BY DEF PublishedAuthority
  <2>2. QED
    BY <2>1 DEF TypeOK, DatabaseType
<1> USE <1>1 DEF TypeOK, DatabaseType
<1>2. CASE UNCHANGED dbVars
  BY <1>2
<1>3. CASE \E p \in Publishers, r \in Runs : ReserveNew(p, r) \/ ReserveRetry(p, r)
  BY <1>3 DEF ReserveNew, ReserveRetry, Retryable, AttestationsOf
<1>4. CASE \E r \in Runs, d \in Content : CreateGoldStage(r, d)
  BY <1>4 DEF CreateGoldStage
<1>5. CASE \E p \in Publishers, b \in Cands : SubmitCandidate(run[p], built[p], b)
  BY <1>5 DEF SubmitCandidate, Overdue
<1>6. CASE \E p \in Publishers, b \in Cands : VerifierRecord(p, b)
  BY <1>6 DEF VerifierRecord
<1>7. CASE \E r \in Runs, d \in Content : MarkAccepted(r, d) /\ MarkPrepared(r, d)
  BY <1>7 DEF MarkAccepted, MarkPrepared
<1>8. CASE \E r \in Runs : PublishOutcome(r) = "published" /\ PublishMaterialization(r)
  BY <1>8, PublishedOutcome DEF PublishMaterialization, HasReceipt
<1>9. CASE \E r \in Runs : QuarantinePrepared(r)
  BY <1>9 DEF QuarantinePrepared, AttestationsOf
<1>10. CASE \E r \in Runs : Reopenable(r) /\ ReopenPrepared(r)
  BY <1>10 DEF Reopenable, ReopenPrepared, AttestationsOf
<1>11. CASE \E r \in Runs : AbandonMaterialization(r)
  BY <1>11 DEF AbandonMaterialization, AttestationsOf
<1>12. CASE \/ \E r \in Runs : LoseStage(r)
            \/ \E b \in Cands : Expire(b)
  BY <1>12 DEF LoseStage, Expire
<1>13. QED
  BY <1>2, <1>3, <1>4, <1>5, <1>6, <1>7, <1>8, <1>9, <1>10, <1>11, <1>12
  DEF DatabaseNext

\* A receipt keeps its authority through every SQL function.
LEMMA AuthorityStep ==
  ASSUME TypeOK, PublishedAuthority, EvidenceIsConsumed, DatabaseNext
  PROVE  PublishedAuthority'
<1> SUFFICES ASSUME NEW s \in Runs, HasReceipt(s)'
             PROVE  /\ status'[s] = "published"
                    /\ evidence'[s] \in consumed' \ invalidated'
                    /\ cstatus'[evidence'[s]] = "attested"
                    /\ cbody'[evidence'[s]] =
                         [run |-> s, attempt |-> attempt'[s],
                          object |-> receiptObject'[s]]
  BY DEF PublishedAuthority
<1>1. CASE HasReceipt(s)
  BY <1>1, PublishedFrame DEF PublishedAuthority
<1>2. CASE ~ HasReceipt(s)
  <2>1. PICK r \in Runs : PublishOutcome(r) = "published" /\ PublishMaterialization(r)
    BY <1>2, ChainFrame DEF HasReceipt
  <2>2. r = s
    BY <1>2, <2>1 DEF PublishMaterialization, HasReceipt, TypeOK, DatabaseType
  <2>3. Authorized(s)
    BY <2>1, <2>2, PublishedOutcome
  <2>4. evidence[s] \in consumed => cstatus[evidence[s]] = "attested"
    BY DEF EvidenceIsConsumed
  <2>5. QED
    BY <2>1, <2>2, <2>3, <2>4
    DEF PublishMaterialization, Authorized, TypeOK, DatabaseType
<1>3. QED
  BY <1>1, <1>2

-----------------------------------------------------------------------------
(* Exactness: from the inputs a worker resolved to the object it publishes *)

\* A receipt is never withdrawn.
LEMMA ReceiptsStay ==
  ASSUME TypeOK, DatabaseNext, NEW r \in Runs, HasReceipt(r)
  PROVE  HasReceipt(r)'
<1>1. CASE \E s \in Runs : PublishOutcome(s) = "published" /\ PublishMaterialization(s)
  BY <1>1 DEF PublishMaterialization, HasReceipt, TypeOK, DatabaseType
<1>2. CASE UNCHANGED headVars
  BY <1>2 DEF HasReceipt
<1>3. QED
  BY <1>1, <1>2, ChainFrame

\* What was published has been a candidate, hence is exact.
LEMMA PublishedIsExact ==
  ASSUME TypeOK, PublishedAuthority, CandidatesAreExact,
         NEW r \in Runs, HasReceipt(r)
  PROVE  /\ receiptObject[r] = InputOf[r]
         /\ InputOf[r] <= source
         /\ Ahead(r)
<1>1. /\ evidence[r] \in Cands
      /\ cstatus[evidence[r]] = "attested"
      /\ cbody[evidence[r]] = [run |-> r, attempt |-> attempt[r],
                               object |-> receiptObject[r]]
  BY DEF PublishedAuthority, TypeOK, DatabaseType
<1>2. /\ cbody[evidence[r]].run = r
      /\ cbody[evidence[r]].object = receiptObject[r]
  BY <1>1
<1>3. QED
  BY <1>1, <1>2 DEF CandidatesAreExact

\* The inputs only move forward.
LEMMA SourceMonotone ==
  ASSUME TypeOK, [Next]_vars
  PROVE  source' = source \/ (source' = source + 1 /\ ChangeSource)
<1>1. ASSUME NEW p \in Publishers, Resolve(p) \/ Worker(p)
      PROVE  source' = source
  BY <1>1 DEF Worker, Resolve, ReadHead, AcquireLock, Reserve, StageGold, Upload,
     AssertInputs, Submit, Mark, CheckObject, CheckPrepared, Publish,
     Quarantine, Reopen, SettleReopen, RecheckObject, RebuildGoldStage,
     Cleanup, Discard, Fail, Abandon, Unlock
<1>2. CASE Verifier
  BY <1>2 DEF Verifier, VerifierLoad, VerifierRecord
<1>3. CASE Faults
  BY <1>3 DEF Faults, VerifyTimeout, PublishReplyLost, Crash, LoseLock,
     VerifierCrash, LoseStage, LoseObject, Expire, ChangeSource
<1>4. CASE UNCHANGED vars
  BY <1>4
<1>5. QED
  BY <1>1, <1>2, <1>3, <1>4 DEF Next, Terminating

\* Only exact rows become candidates: submit is reached with the inputs confirmed.
LEMMA CandidatesStep ==
  ASSUME TypeOK, CandidatesAreExact, WorkersAreExact, DatabaseNext,
         source' = source \/ source' = source + 1
  PROVE  CandidatesAreExact'
<1>1. CASE \E p \in Publishers, c \in Cands :
             /\ At(p, "submit") /\ run[p] \in Runs /\ built[p] \in Content
             /\ SubmitCandidate(run[p], built[p], c)
  <2>1. PICK p \in Publishers, c \in Cands :
             /\ At(p, "submit") /\ run[p] \in Runs
             /\ SubmitCandidate(run[p], built[p], c)
    BY <1>1
  <2>2. /\ built[p] = InputOf[run[p]] /\ InputOf[run[p]] <= source
        /\ Ahead(run[p])
    BY <2>1 DEF WorkersAreExact, WorkerIsExact, At, Proving
  <2>3. InputOf \in [Runs -> Nat]
    BY IdentityAssumption
  <2>4. SUFFICES ASSUME NEW b \in Cands, cstatus'[b] # "none"
                 PROVE  /\ cbody'[b].run \in Runs
                        /\ cbody'[b].object = InputOf[cbody'[b].run]
                        /\ InputOf[cbody'[b].run] <= source'
                        /\ Ahead(cbody'[b].run)
    BY DEF CandidatesAreExact, Ahead
  <2>5. source \in Nat /\ cbody \in [Cands -> CandBody]
    BY DEF TypeOK, DatabaseType, EnvironmentType
  <2>6. CASE b = c /\ cstatus[c] = "none"
    <3>1. cbody'[b] = [run |-> run[p], attempt |-> attempt[run[p]],
                       object |-> built[p]]
      BY <2>1, <2>4, <2>5, <2>6 DEF SubmitCandidate
    <3>2. cbody'[b].run = run[p] /\ cbody'[b].object = built[p]
      BY <3>1
    <3>3. QED
      BY <2>1, <2>2, <2>3, <2>5, <3>2
  <2>7. CASE cbody'[b] = cbody[b] /\ cstatus[b] # "none"
    BY <2>3, <2>5, <2>7 DEF CandidatesAreExact
  <2>8. QED
    BY <2>1, <2>4, <2>5, <2>6, <2>7 DEF SubmitCandidate, Overdue
<1>2. CASE /\ UNCHANGED cbody
           /\ \A c \in Cands : cstatus'[c] # "none" => cstatus[c] # "none"
  <2>1. InputOf \in [Runs -> Nat]
    BY IdentityAssumption
  <2>2. QED
    BY <1>2, <2>1 DEF CandidatesAreExact, Ahead, TypeOK, EnvironmentType
<1>3. CASE UNCHANGED <<cbody, cstatus>>
  BY <1>2, <1>3
<1>4. CASE \E p \in Publishers, c \in Cands : VerifierRecord(p, c)
  BY <1>2, <1>4 DEF VerifierRecord, Attestable, TypeOK, DatabaseType
<1>5. CASE \E r \in Runs : ReopenPrepared(r)
  BY <1>2, <1>5 DEF ReopenPrepared
<1>6. QED
  BY <1>1, <1>3, <1>4, <1>5
  DEF DatabaseNext, ReserveNew, ReserveRetry, CreateGoldStage, MarkPrepared,
      PublishMaterialization, QuarantinePrepared, AbandonMaterialization,
      LoseStage, Expire

\* A worker that does not move keeps what it knows: receipts stay and the
\* inputs only move forward.
LEMMA WorkerFrame ==
  ASSUME TypeOK, DatabaseNext, NEW q \in Publishers, WorkerIsExact(q),
         source' = source \/ source' = source + 1,
         pc'[q] = pc[q], run'[q] = run[q], input'[q] = input[q],
         built'[q] = built[q]
  PROVE  WorkerIsExact(q)'
<1>1. /\ pc[q] \in Building \cup Proving => run[q] \in Runs
      /\ input[q] \in Nat /\ source \in Nat
  BY DEF TypeOK, WorkerType, EnvironmentType, Building, Proving
<1>2. InputOf \in [Runs -> Nat] /\ ExpectedOf \in [Runs -> Runs \cup {Base}]
  BY IdentityAssumption
<1>3. pc[q] \in Building /\ ExpectedOf[run[q]] # Base =>
        HasReceipt(ExpectedOf[run[q]])'
  BY <1>1, <1>2, ReceiptsStay DEF WorkerIsExact
<1>4. QED
  BY <1>1, <1>2, <1>3 DEF WorkerIsExact, HasReceipt, Ahead

\* A worker whose new position is outside the ones the invariant speaks of.
LEMMA WorkerLeaves ==
  ASSUME TypeOK, NEW p \in Publishers, WorkerIsExact(p), UNCHANGED <<source, input>>,
         pc[p] # "idle", pc'[p] \notin Building \cup Proving
  PROVE  WorkerIsExact(p)'
BY DEF WorkerIsExact, Building, Proving

\* A worker that goes on building, or that goes on proving, the same rows.
LEMMA WorkerGoesOn ==
  ASSUME TypeOK, DatabaseNext, NEW p \in Publishers, WorkerIsExact(p),
         UNCHANGED <<source, run, input, built>>, pc[p] # "idle",
         \/ pc[p] \in Building /\ pc'[p] \in {"reserve", "stage"}
         \/ pc[p] \in Building /\ pc'[p] = "upload" /\ Layer # "gold"
         \/ pc[p] \in Proving /\ pc'[p] \in Proving
         \/ pc'[p] \notin Building \cup Proving
  PROVE  WorkerIsExact(p)'
<1>1. CASE pc'[p] \notin Building \cup Proving
  BY <1>1, WorkerLeaves
<1>2. CASE pc[p] \in Proving /\ pc'[p] \in Proving
  BY <1>2 DEF WorkerIsExact, Building, Proving, Ahead
<1>3. CASE \/ pc[p] \in Building /\ pc'[p] \in {"reserve", "stage"}
           \/ pc[p] \in Building /\ pc'[p] = "upload" /\ Layer # "gold"
  <2>1. run[p] \in Runs
    BY <1>3 DEF TypeOK, WorkerType, Building
  <2>2. ExpectedOf[run[p]] # Base => HasReceipt(ExpectedOf[run[p]])'
    BY <1>3, <2>1, ReceiptsStay, IdentityAssumption DEF WorkerIsExact
  <2>3. QED
    BY <1>3, <2>2 DEF WorkerIsExact, HasReceipt, Building, Proving
<1>4. QED
  BY <1>1, <1>2, <1>3

\* A worker's own step keeps what the invariant says of it.
LEMMA OwnStep ==
  ASSUME SafetyInv, DatabaseNext, NEW p \in Publishers, Resolve(p) \/ Worker(p)
  PROVE  WorkerIsExact(p)'
<1> USE DEF SafetyInv
<1>1. WorkerIsExact(p)
  BY DEF WorkersAreExact
<1>2. /\ pc[p] \in Labels /\ pc \in [Publishers -> Labels]
      /\ input \in [Publishers -> Nat] /\ built \in [Publishers -> Content]
      /\ run \in [Publishers -> Runs \cup {Base}]
      /\ pc[p] \notin {"idle", "head"} => run[p] \in Runs
      /\ source \in Nat
  BY DEF TypeOK, WorkerType, EnvironmentType
<1>3. InputOf \in [Runs -> Nat] /\ ExpectedOf \in [Runs -> Runs \cup {Base}]
  BY IdentityAssumption
<1> USE <1>1, <1>2 DEF At, Goto
<1>4. CASE Resolve(p)
  BY <1>4 DEF Resolve, WorkerIsExact, Building, Proving
<1>5. CASE ReadHead(p)
  <2>1. CASE Replay(p)
    BY <1>5, <2>1 DEF ReadHead, Replay, WorkerIsExact, Building, Proving
  <2>2. CASE Identify(p)
    <3>1. PICK r \in Runs : /\ ExpectedOf[r] = head /\ InputOf[r] = input[p]
                            /\ run' = [run EXCEPT ![p] = r]
      BY <2>2 DEF Identify
    <3>2. head # Base => HasReceipt(head) /\ InputOf[head] # input[p]
      BY <2>2 DEF Identify, PublishedChain
    <3>3. QED
      BY <1>5, <2>2, <3>1, <3>2
      DEF ReadHead, Identify, WorkerIsExact, HasReceipt, Building, Proving
  <2>3. QED
    BY <1>5, <2>1, <2>2 DEF ReadHead
<1>6. CASE AcquireLock(p)
  BY <1>6, WorkerGoesOn DEF AcquireLock, Building
<1>7. CASE Reserve(p)
  <2>1. /\ pc'[p] \in {"fail", "stage", "upload", "check_prepared", "unlock"}
        /\ pc'[p] = "upload" => Layer # "gold"
    BY <1>7, LayerAssumption DEF Reserve, ReserveConflict, ReserveNew, ReserveRetry,
       ReserveExisting, FirstStep
  <2>2. pc[p] = "reserve" /\ UNCHANGED <<source, run, input, built>>
    BY <1>7 DEF Reserve
  <2>3. QED
    BY <2>1, <2>2, WorkerGoesOn DEF Building, Proving
<1>8. CASE StageGold(p)
  BY <1>3, <1>8, WorkerLeaves
  DEF StageGold, CreateGoldStage, Rows, WorkerIsExact, HasReceipt, Building,
      Proving
<1>9. CASE Upload(p)
  BY <1>3, <1>9
  DEF Upload, Rows, WorkerIsExact, HasReceipt, Building, Proving
<1>10. CASE AssertInputs(p)
  <2>1. CASE pc'[p] = "submit"
    <3>1. InputsUnchanged(p)
      BY <1>10, <2>1 DEF AssertInputs
    <3>2. ExpectedOf[run[p]] # Base => InputOf[ExpectedOf[run[p]]] <= source
      BY <1>3, <1>10, PublishedIsExact DEF AssertInputs, WorkerIsExact, Building
    <3>3. QED
      BY <1>3, <1>10, <2>1, <3>1, <3>2
      DEF AssertInputs, InputsUnchanged, WorkerIsExact, Building, Proving, Ahead
  <2>2. CASE pc'[p] # "submit"
    BY <1>10, <2>2, WorkerLeaves DEF AssertInputs, Building, Proving
  <2>3. QED
    BY <2>1, <2>2
<1>11. CASE Reopen(p)
  <2>1. CASE pc'[p] = "recheck"
    <3>1. Reopenable(run[p]) /\ built'[p] = object[run[p]]
      BY <1>11, <2>1 DEF Reopen
    <3>2. /\ evidence[run[p]] \in consumed /\ cbody[evidence[run[p]]].run = run[p]
          /\ evidence[run[p]] \in Cands
          /\ cstatus[evidence[run[p]]] = "attested"
      BY <1>11, <3>1
      DEF Reopen, Reopenable, EvidenceIsConsumed, NoCand, Cands
    <3>3. QED
      BY <1>11, <2>1, <3>1, <3>2
      DEF Reopen, Reopenable, CandidatesAreExact, WorkerIsExact, Building,
          Proving, Ahead
  <2>2. CASE pc'[p] # "recheck"
    BY <1>11, <2>2, WorkerLeaves DEF Reopen, Building, Proving
  <2>3. QED
    BY <2>1, <2>2
<1>12. CASE Submit(p) \/ Mark(p) \/ CheckObject(p) \/ RecheckObject(p)
            \/ RebuildGoldStage(p)
  BY <1>12, WorkerGoesOn
  DEF Submit, Mark, CheckObject, RecheckObject, RebuildGoldStage, Failure,
      Building, Proving
<1>13. CASE CheckPrepared(p) \/ Publish(p) \/ Quarantine(p) \/ SettleReopen(p)
            \/ Cleanup(p) \/ Discard(p) \/ Fail(p) \/ Abandon(p)
  BY <1>13, WorkerLeaves
  DEF CheckPrepared, Publish, PublishFailure, Quarantine, SettleReopen,
      Cleanup, Discard, Fail, Abandon, Building, Proving
<1>14. CASE Unlock(p)
  BY <1>14 DEF Unlock, WorkerIsExact, Building, Proving
<1>15. QED
  BY <1>4, <1>5, <1>6, <1>7, <1>8, <1>9, <1>10, <1>11, <1>12, <1>13, <1>14
  DEF Worker

\* A worker's step leaves what every other worker keeps alone.
LEMMA WorkersAreSeparate ==
  ASSUME TypeOK, NEW p \in Publishers, Resolve(p) \/ Worker(p),
         NEW q \in Publishers, q # p
  PROVE  /\ pc'[q] = pc[q] /\ run'[q] = run[q]
         /\ input'[q] = input[q] /\ built'[q] = built[q] /\ cand'[q] = cand[q]
<1> USE DEF TypeOK, WorkerType, Goto
<1>1. CASE Resolve(p) \/ ReadHead(p) \/ AcquireLock(p) \/ Reserve(p)
  BY <1>1 DEF Resolve, ReadHead, Replay, Identify, AcquireLock, Reserve,
     ReserveConflict, ReserveNew, ReserveRetry, ReserveExisting
<1>2. CASE StageGold(p) \/ Upload(p) \/ AssertInputs(p) \/ Submit(p) \/ Mark(p)
  BY <1>2 DEF StageGold, Upload, AssertInputs, Submit, Mark
<1>3. CASE CheckObject(p) \/ CheckPrepared(p) \/ Publish(p) \/ Quarantine(p)
  BY <1>3 DEF CheckObject, CheckPrepared, Publish, PublishFailure, Quarantine
<1>4. CASE Reopen(p) \/ SettleReopen(p) \/ RecheckObject(p) \/ RebuildGoldStage(p)
  BY <1>4 DEF Reopen, SettleReopen, RecheckObject, RebuildGoldStage
<1>5. CASE Cleanup(p) \/ Discard(p) \/ Fail(p) \/ Abandon(p) \/ Unlock(p)
  BY <1>5 DEF Cleanup, Discard, Fail, Abandon, Unlock, Forget
<1>6. QED
  BY <1>1, <1>2, <1>3, <1>4, <1>5 DEF Worker

\* Every step keeps what the invariant says of all workers.
LEMMA WorkersStep ==
  ASSUME SafetyInv, [Next]_vars, DatabaseNext
  PROVE  WorkersAreExact'
<1> SUFFICES ASSUME NEW q \in Publishers PROVE WorkerIsExact(q)'
  BY DEF WorkersAreExact
<1>1. TypeOK /\ WorkerIsExact(q)
  BY DEF SafetyInv, WorkersAreExact
<1>2. source' = source \/ source' = source + 1
  BY <1>1, SourceMonotone
<1>3. CASE \E p \in Publishers : Resolve(p) \/ Worker(p)
  BY <1>1, <1>2, <1>3, OwnStep, WorkersAreSeparate, WorkerFrame
<1>4. CASE UNCHANGED <<run, input, built>> /\ pc'[q] = pc[q]
  BY <1>1, <1>2, <1>4, WorkerFrame
<1>5. CASE Verifier
  <2>1. PICK p \in Publishers, c \in Cands : VerifierLoad(p, c) \/ VerifierRecord(p, c)
    BY <1>5 DEF Verifier
  <2>2. UNCHANGED <<run, input, built, source>>
    BY <2>1 DEF VerifierLoad, VerifierRecord
  <2>3. CASE pc'[q] # pc[q]
    <3>1. pc[q] = "verify" /\ pc'[q] \in {"mark", "fail", "cleanup"}
      BY <1>1, <2>1, <2>3
      DEF VerifierLoad, VerifierRecord, Answer, Failure, At, TypeOK, WorkerType
    <3>2. QED
      BY <1>1, <2>2, <3>1, WorkerGoesOn DEF Building, Proving
  <2>4. QED
    BY <1>4, <2>2, <2>3
<1>6. CASE Faults
  <2>1. CASE \E p \in Publishers : VerifyTimeout(p) \/ PublishReplyLost(p)
    <3>1. UNCHANGED <<run, input, built, source>>
      BY <2>1 DEF VerifyTimeout, PublishReplyLost
    <3>2. CASE pc'[q] # pc[q]
      <4>1. /\ pc[q] \in {"verify", "publish"}
            /\ pc'[q] \in {"fail", "cleanup", "reopen", "quarantine"}
        BY <1>1, <2>1, <3>2 DEF VerifyTimeout, PublishReplyLost,
           PublishFailure, Failure, At, Goto, TypeOK, WorkerType
      <4>2. QED
        BY <1>1, <3>1, <4>1, WorkerLeaves DEF Building, Proving
    <3>3. QED
      BY <1>4, <3>1, <3>2
  <2>2. CASE \E p \in Publishers : Crash(p)
    <3>1. PICK p \in Publishers : Crash(p)
      BY <2>2
    <3>2. CASE p = q
      BY <1>1, <3>1, <3>2 DEF Crash, Goto, TypeOK, WorkerType, WorkerIsExact,
         Building, Proving
    <3>3. CASE p # q
      BY <1>1, <1>2, <3>1, <3>3, WorkerFrame
      DEF Crash, Goto, Forget, TypeOK, WorkerType
    <3>4. QED
      BY <3>2, <3>3
  <2>3. CASE VerifierCrash
    <3>1. UNCHANGED <<run, input, built, source>>
      BY <2>3 DEF VerifierCrash
    <3>2. CASE pc'[q] # pc[q]
      <4>1. pc[q] = "verify" /\ pc'[q] \in {"fail", "cleanup"}
        BY <1>1, <2>3, <3>2 DEF VerifierCrash, Failure, At
      <4>2. QED
        BY <1>1, <3>1, <4>1, WorkerLeaves DEF Building, Proving
    <3>3. QED
      BY <1>4, <3>1, <3>2
  <2>4. QED
    BY <1>4, <1>6, <2>1, <2>2, <2>3
    DEF Faults, LoseLock, LoseStage, LoseObject, Expire, ChangeSource
<1>7. CASE UNCHANGED vars
  BY <1>4, <1>7
<1>8. QED
  BY <1>3, <1>5, <1>6, <1>7 DEF Next, Terminating

-----------------------------------------------------------------------------
(* Whoever waits is waited on by somebody who can still act *)

\* A step of one worker, the loss of a publish reply included.
Step(p) == Resolve(p) \/ Worker(p) \/ PublishReplyLost(p)

\* A worker enters run_lock only through pg_advisory_lock, and inside it stays
\* on its run; only entering and leaving change the locks.
LEMMA LockPath ==
  ASSUME TypeOK, NEW p \in Publishers, Step(p)
  PROVE  \/ AcquireLock(p)
         \/ ReleaseBy(p) /\ pc'[p] = "idle"
         \/ lock' = lock /\ pc[p] \notin Locked /\ pc'[p] \in {"head", "lock", "idle"}
         \/ lock' = lock /\ pc[p] \in Locked /\ pc'[p] \in Locked /\ run' = run
<1> USE DEF TypeOK, WorkerType, At, Goto, Locked, Labels
<1>1. CASE Resolve(p) \/ ReadHead(p)
  BY <1>1 DEF Resolve, ReadHead, Replay, Identify
<1>2. CASE AcquireLock(p)
  BY <1>2
<1>3. CASE Unlock(p)
  BY <1>3 DEF Unlock
<1>4. CASE Reserve(p) \/ StageGold(p) \/ Upload(p) \/ AssertInputs(p) \/ Submit(p)
           \/ Mark(p) \/ CheckObject(p) \/ CheckPrepared(p) \/ Publish(p)
           \/ Quarantine(p) \/ PublishReplyLost(p)
  BY <1>4 DEF Reserve, StageGold, Upload, AssertInputs, Submit, Mark, CheckObject,
     CheckPrepared, Publish, Quarantine, PublishReplyLost, PublishFailure,
     ReserveConflict, ReserveNew, ReserveRetry, ReserveExisting, FirstStep, Failure
<1>5. CASE Reopen(p) \/ SettleReopen(p) \/ RecheckObject(p) \/ RebuildGoldStage(p)
           \/ Cleanup(p) \/ Discard(p) \/ Fail(p) \/ Abandon(p)
  BY <1>5 DEF Reopen, SettleReopen, RecheckObject, RebuildGoldStage, Cleanup,
     Discard, Fail, Abandon
<1>6. QED
  BY <1>1, <1>2, <1>3, <1>4, <1>5 DEF Step, Worker

\* A worker's step leaves what every other worker keeps alone.
LEMMA Separate ==
  ASSUME TypeOK, NEW p \in Publishers, Step(p), NEW q \in Publishers, q # p
  PROVE  /\ pc'[q] = pc[q] /\ run'[q] = run[q] /\ built'[q] = built[q]
         /\ cand'[q] = cand[q]
<1>1. CASE PublishReplyLost(p)
  BY <1>1 DEF PublishReplyLost, PublishFailure, Goto, TypeOK, WorkerType
<1>2. QED
  BY <1>1, WorkersAreSeparate DEF Step

\* Where the verifier and the faults may move a worker.
LEMMA OthersMove ==
  ASSUME TypeOK, Verifier \/ Faults \/ UNCHANGED vars, NEW q \in Publishers,
         \A p \in Publishers : ~ PublishReplyLost(p)
  PROVE  \/ pc'[q] = pc[q] /\ run'[q] = run[q] /\ built'[q] = built[q]
         \/ /\ pc[q] = "verify" /\ pc'[q] \in {"mark", "fail", "cleanup"}
            /\ UNCHANGED <<run, built>>
         \/ pc'[q] = "idle"
<1> USE DEF TypeOK, WorkerType, At, Goto
<1>1. CASE Verifier
  BY <1>1 DEF Verifier, VerifierLoad, VerifierRecord, Answer, Failure
<1>2. CASE \E p \in Publishers : VerifyTimeout(p)
  BY <1>2 DEF VerifyTimeout, Failure
<1>3. CASE \E p \in Publishers : Crash(p)
  BY <1>3 DEF Crash, Forget
<1>4. CASE VerifierCrash
  BY <1>4 DEF VerifierCrash, Failure
<1>5. CASE UNCHANGED <<pc, run, built>>
  BY <1>5
<1>6. QED
  BY <1>1, <1>2, <1>3, <1>4, <1>5
  DEF Faults, LoseLock, LoseStage, LoseObject, Expire, ChangeSource

\* A lock belongs to a worker inside run_lock, whether or not it can be lost.
LEMMA OwnersStep ==
  ASSUME TypeOK, WaitsAreOwed, [Next]_vars, NEW r \in Runs, lock'[r] # NoOne
  PROVE  pc'[lock'[r]] \in Locked /\ run'[lock'[r]] = r
<1>1. /\ lock \in [Runs -> Publishers \cup {NoOne}]
      /\ \A p \in Publishers : lock[r] = p => pc[p] \in Locked /\ run[p] = r
  BY DistinctAssumption DEF TypeOK, EnvironmentType, WaitsAreOwed
<1>2. ASSUME NEW p \in Publishers, Step(p)
      PROVE  pc'[lock'[r]] \in Locked /\ run'[lock'[r]] = r
  <2>1. CASE AcquireLock(p)
    <3>1. pc[p] = "lock" /\ pc'[p] = "reserve" /\ run' = run /\ run[p] \in Runs
      BY <2>1 DEF AcquireLock, At, Goto, TypeOK, WorkerType
    <3>2. CASE r = run[p]
      BY <1>1, <2>1, <3>1, <3>2 DEF AcquireLock, Locked, Labels
    <3>3. CASE r # run[p]
      <4>1. lock'[r] = lock[r] /\ lock[r] \in Publishers
        BY <1>1, <2>1, <3>3 DEF AcquireLock
      <4>2. lock[r] # p
        BY <1>1, <3>1 DEF Locked
      <4>3. QED
        BY <1>1, <1>2, <4>1, <4>2, Separate
    <3>4. QED
      BY <3>2, <3>3
  <2>2. CASE ReleaseBy(p)
    <3>1. lock[r] # p /\ lock'[r] = lock[r] /\ lock[r] \in Publishers
      BY <1>1, <2>2 DEF ReleaseBy
    <3>2. QED
      BY <1>1, <1>2, <3>1, Separate
  <2>3. CASE lock' = lock
    <3>1. lock[r] \in Publishers /\ pc[lock[r]] \in Locked /\ run[lock[r]] = r
      BY <1>1, <2>3
    <3>2. CASE lock[r] = p
      <4>1. pc'[p] \in Locked /\ run' = run
        BY <1>2, <2>3, <3>1, <3>2, LockPath DEF AcquireLock, ReleaseBy, At, Locked
      <4>2. QED
        BY <2>3, <3>1, <3>2, <4>1
    <3>3. CASE lock[r] # p
      BY <1>2, <2>3, <3>1, <3>3, Separate
    <3>4. QED
      BY <3>2, <3>3
  <2>4. QED
    BY <1>2, <2>1, <2>2, <2>3, LockPath
<1>3. ASSUME Verifier \/ Faults \/ UNCHANGED vars,
             \A p \in Publishers : ~ PublishReplyLost(p)
      PROVE  pc'[lock'[r]] \in Locked /\ run'[lock'[r]] = r
  <2>1. lock'[r] = lock[r] /\ \A p \in Publishers : Crash(p) => lock[r] # p
    BY <1>1, <1>3 DEF Verifier, VerifierLoad, VerifierRecord, Faults, VerifyTimeout,
       Crash, ReleaseBy, LoseLock, VerifierCrash, LoseStage, LoseObject, Expire,
       ChangeSource
  <2>2. lock[r] \in Publishers /\ pc[lock[r]] \in Locked /\ run[lock[r]] = r
    BY <1>1, <2>1
  <2>3. CASE \E p \in Publishers : Crash(p)
    <3>1. PICK p \in Publishers : Crash(p)
      BY <2>3
    <3>2. lock[r] # p
      BY <2>1, <3>1
    <3>3. pc'[lock[r]] = pc[lock[r]] /\ run'[lock[r]] = run[lock[r]]
      BY <2>2, <3>1, <3>2 DEF Crash, Goto, Forget, TypeOK, WorkerType
    <3>4. QED
      BY <2>1, <2>2, <3>3
  <2>4. CASE ~ \E p \in Publishers : Crash(p)
    <3>1. run' = run
      BY <1>3, <2>4 DEF Verifier, VerifierLoad, VerifierRecord, Faults,
         VerifyTimeout, LoseLock, VerifierCrash, LoseStage, LoseObject, Expire,
         ChangeSource
    <3>2. pc'[lock[r]] # "idle"
      BY <1>3, <2>2, <2>4 DEF Verifier, VerifierLoad, VerifierRecord, Answer,
         Failure, Goto, At, Faults, VerifyTimeout, LoseLock, VerifierCrash,
         LoseStage, LoseObject, Expire, ChangeSource, Locked, TypeOK, WorkerType
    <3>3. QED
      BY <1>3, <2>1, <2>2, <3>1, <3>2, OthersMove DEF Locked, Labels
  <2>5. QED
    BY <2>3, <2>4
<1>4. QED
  BY <1>2, <1>3 DEF Next, Terminating, Step

\* The answer to a worker's request is never dropped while the worker waits.
LEMMA RequestsStep ==
  ASSUME TypeOK, WaitsAreOwed, [Next]_vars
  PROVE  /\ \A q \in Publishers : pc'[q] = "verify" =>
              <<q, cand'[q]>> \in requests' \cup serving'
         /\ \A x, y \in serving' : x = y
<1>1. /\ \A q \in Publishers : pc[q] = "verify" =>
             <<q, cand[q]>> \in requests \cup serving
      /\ \A x, y \in serving : x = y
      /\ pc \in [Publishers -> Labels] /\ cand \in [Publishers -> Cands \cup {NoCand}]
  BY DEF WaitsAreOwed, TypeOK, WorkerType
<1>2. ASSUME NEW p \in Publishers, Step(p)
      PROVE  /\ \A q \in Publishers : pc'[q] = "verify" =>
                  <<q, cand'[q]>> \in requests' \cup serving'
             /\ serving' = serving
  <2>1. serving' = serving /\ requests \subseteq requests'
    BY <1>2 DEF Step, Worker, Resolve, ReadHead, AcquireLock, Reserve, StageGold,
       Upload, AssertInputs, Submit, Mark, CheckObject, CheckPrepared, Publish,
       Quarantine, Reopen, SettleReopen, RecheckObject, RebuildGoldStage,
       Cleanup, Discard, Fail, Abandon, Unlock, PublishReplyLost
  <2>2. pc'[p] = "verify" => Submit(p) /\ <<p, cand'[p]>> \in requests'
    <3> USE <1>1 DEF At, Goto
    <3>1. CASE Submit(p)
      BY <3>1 DEF Submit, Failure
    <3>2. CASE Resolve(p) \/ ReadHead(p) \/ AcquireLock(p) \/ Reserve(p)
               \/ StageGold(p) \/ Upload(p) \/ AssertInputs(p) \/ Mark(p)
      BY <3>2 DEF Resolve, ReadHead, Replay, Identify, AcquireLock, Reserve,
         ReserveConflict, ReserveNew, ReserveRetry, ReserveExisting, FirstStep,
         StageGold, Upload, AssertInputs, Mark, Failure
    <3>3. CASE CheckObject(p) \/ CheckPrepared(p) \/ Publish(p) \/ Quarantine(p)
               \/ Reopen(p) \/ SettleReopen(p) \/ RecheckObject(p)
      BY <3>3 DEF CheckObject, CheckPrepared, Publish, PublishFailure, Quarantine,
         Reopen, SettleReopen, RecheckObject
    <3>4. CASE RebuildGoldStage(p) \/ Cleanup(p) \/ Discard(p) \/ Fail(p)
               \/ Abandon(p) \/ Unlock(p) \/ PublishReplyLost(p)
      BY <3>4 DEF RebuildGoldStage, Cleanup, Discard, Fail, Abandon, Unlock,
         PublishReplyLost, PublishFailure
    <3>5. QED
      BY <1>2, <3>1, <3>2, <3>3, <3>4 DEF Step, Worker
  <2>3. ASSUME NEW q \in Publishers, q # p, pc'[q] = "verify"
        PROVE  <<q, cand'[q]>> \in requests' \cup serving'
    BY <1>1, <1>2, <2>1, <2>3, Separate
  <2>4. QED
    BY <2>1, <2>2, <2>3
<1>3. ASSUME NEW p \in Publishers, NEW c \in Cands,
             VerifierLoad(p, c) \/ VerifierRecord(p, c),
             NEW q \in Publishers, pc'[q] = "verify"
      PROVE  /\ <<q, cand'[q]>> \in requests' \cup serving'
             /\ \A x, y \in serving' : x = y
  <2>1. /\ pc[q] = "verify" /\ cand' = cand
        /\ Answer(p, c, TRUE) \/ Answer(p, c, FALSE) => <<q, cand[q]>> # <<p, c>>
    BY <1>1, <1>3 DEF VerifierLoad, VerifierRecord, Answer, Failure, At
  <2>2. <<q, cand[q]>> \in requests \cup serving
    BY <1>1, <2>1
  <2>3. CASE VerifierLoad(p, c)
    BY <2>1, <2>2, <2>3 DEF VerifierLoad
  <2>4. CASE VerifierRecord(p, c)
    <3>1. Answer(p, c, TRUE) \/ Answer(p, c, FALSE)
      BY <2>4 DEF VerifierRecord, Attestable, Answer
    <3>2. QED
      BY <1>1, <2>1, <2>2, <2>4, <3>1 DEF VerifierRecord
  <2>5. QED
    BY <1>3, <2>3, <2>4
<1>4. ASSUME Verifier PROVE \A x, y \in serving' : x = y
  BY <1>4 DEF Verifier, VerifierLoad, VerifierRecord
<1>5. CASE Faults /\ ~ \E p \in Publishers : Step(p)
  <2>1. CASE VerifierCrash
    BY <1>1, <2>1 DEF VerifierCrash, At, Failure
  <2>2. CASE \E p \in Publishers : VerifyTimeout(p) \/ Crash(p)
    BY <1>1, <2>2 DEF VerifyTimeout, Crash, Forget, Goto, Failure
  <2>3. CASE UNCHANGED <<pc, cand, requests, serving>>
    BY <1>1, <2>3
  <2>4. QED
    BY <1>5, <2>1, <2>2, <2>3 DEF Faults, Step, LoseLock, LoseStage, LoseObject,
       Expire, ChangeSource
<1>6. CASE UNCHANGED vars
  BY <1>1, <1>6
<1>7. CASE \E p \in Publishers : Step(p)
  BY <1>1, <1>2, <1>7
<1>8. CASE Verifier
  BY <1>3, <1>4, <1>8 DEF Verifier
<1>9. QED
  BY <1>5, <1>6, <1>7, <1>8 DEF Next, Terminating, Step

\* Every step leaves everybody's wait owed by somebody.
LEMMA WaitsStep ==
  ASSUME TypeOK, WaitsAreOwed, [Next]_vars
  PROVE  WaitsAreOwed'
BY OwnersStep, RequestsStep DEF WaitsAreOwed, Locked

-----------------------------------------------------------------------------
\* The inductive invariant holds initially.
LEMMA SafetyInit == Init => SafetyInv
<1> SUFFICES ASSUME Init PROVE SafetyInv
  OBVIOUS
<1>1. TypeOK
  BY InitType
<1>2. PublishedChain /\ PublishedAuthority
  BY BaseAssumption DEF Init, PublishedChain, PublishedAuthority, HasReceipt
<1>3. CandidatesAreExact /\ EvidenceIsConsumed
  BY DEF Init, CandidatesAreExact, EvidenceIsConsumed
<1>4. WorkersAreExact
  BY DEF Init, WorkersAreExact, WorkerIsExact, Building, Proving
<1>5. WaitsAreOwed
  BY DEF Init, WaitsAreOwed
<1>6. QED
  BY <1>1, <1>2, <1>3, <1>4, <1>5 DEF SafetyInv

\* Every step preserves the inductive invariant, with or without the lock.
LEMMA SafetyStep == SafetyInv /\ [Next]_vars => SafetyInv'
<1> SUFFICES ASSUME SafetyInv, [Next]_vars PROVE SafetyInv'
  OBVIOUS
<1>1. TypeOK /\ DatabaseNext
  BY NextOnDatabase DEF SafetyInv
<1>2. TypeOK'
  BY <1>1, TypeStep
<1>3. PublishedChain'
  BY <1>1, ChainStep DEF SafetyInv
<1>4. PublishedAuthority'
  BY <1>1, AuthorityStep DEF SafetyInv
<1>5. EvidenceIsConsumed'
  BY <1>1, EvidenceStep DEF SafetyInv
<1>6. CandidatesAreExact'
  BY <1>1, CandidatesStep, SourceMonotone DEF SafetyInv
<1>7. WorkersAreExact'
  BY <1>1, WorkersStep
<1>8. WaitsAreOwed'
  BY <1>1, WaitsStep DEF SafetyInv
<1>9. QED
  BY <1>2, <1>3, <1>4, <1>5, <1>6, <1>7, <1>8 DEF SafetyInv

\* The inductive invariant holds in every reachable state, for any number of
\* workers, runs, candidates and faults, a lost lock included.
THEOREM SafetyInvariant == Spec => []SafetyInv
BY SafetyInit, SafetyStep, PTL DEF Spec

\* The safety half of "every call returns": in every reachable state a worker
\* that waits for a run's lock waits for a worker inside run_lock, and one that
\* waits for the verifier has its request queued or being served, through
\* crashes of workers and of the verifier, timeouts and lost locks.
THEOREM WaitsOwed == Spec => []WaitsAreOwed
BY SafetyInvariant, PTL DEF SafetyInv

\* The receipts of a scope form one chain whose last link is the head: the
\* compare-and-swap of publish_materialization is enough, without run_lock.
THEOREM ChainCorrect == Spec => []PublishedChain
BY SafetyInvariant, PTL DEF SafetyInv

\* A published run keeps the attestation, attempt and object it was published
\* under, whatever retries, late attestations and recoveries do.
THEOREM AuthorityCorrect == Spec => []PublishedAuthority
BY SafetyInvariant, PTL DEF SafetyInv

\* A published object was computed from the inputs its run's identity names
\* alone: _assert_inputs_unchanged after the upload is enough.
THEOREM ObjectsAreExact == Spec => []PublishedObjectIsExact
<1>1. SafetyInv => PublishedObjectIsExact
  BY PublishedIsExact DEF SafetyInv, PublishedObjectIsExact
<1>2. QED
  BY <1>1, SafetyInvariant, PTL

\* A stale worker never publishes over a head built from newer inputs.
THEOREM InputsAdvance == Spec => []PublishedInputsAdvance
<1>1. SafetyInv => PublishedInputsAdvance
  BY PublishedIsExact DEF SafetyInv, PublishedInputsAdvance, Ahead
<1>2. QED
  BY <1>1, SafetyInvariant, PTL

\* What stands behind a receipt never changes again, and the head moves one
\* generation at a time.
THEOREM Finality == Spec => PublicationIsFinal
<1>1. SafetyInv /\ [Next]_vars =>
        [/\ \A r \in Runs : HasReceipt(r) =>
              /\ receiptGen'[r] = receiptGen[r]
              /\ receiptObject'[r] = receiptObject[r]
              /\ object'[r] = object[r]
              /\ attempt'[r] = attempt[r]
              /\ evidence'[r] = evidence[r]
              /\ gold'[r] = gold[r]
         /\ head' # head => gen' = gen + 1]_vars
  <2> SUFFICES ASSUME SafetyInv, [Next]_vars
               PROVE  /\ \A r \in Runs : HasReceipt(r) =>
                           /\ receiptGen'[r] = receiptGen[r]
                           /\ receiptObject'[r] = receiptObject[r]
                           /\ object'[r] = object[r]
                           /\ attempt'[r] = attempt[r]
                           /\ evidence'[r] = evidence[r]
                           /\ gold'[r] = gold[r]
                      /\ head' # head => gen' = gen + 1
    OBVIOUS
  <2>1. DatabaseNext
    BY NextOnDatabase DEF SafetyInv
  <2>2. head' # head => gen' = gen + 1
    BY <2>1, ChainFrame DEF PublishMaterialization
  <2>3. QED
    BY <2>1, <2>2, PublishedFrame DEF SafetyInv
<1>2. QED
  BY <1>1, SafetyInvariant, PTL DEF Spec, PublicationIsFinal

\* Staged publication implements the abstract chain of module Publication:
\* every step of the workers, the verifier and the environment either publishes
\* one run on top of the head it was built against or leaves the chain alone.
THEOREM Refinement == Spec => ImplementsPublication
<1>1. Init => Chain!Init
  BY DEF Init, Chain!Init
<1>2. SafetyInv /\ [Next]_vars => [Chain!Next]_(Chain!chain)
  <2> SUFFICES ASSUME SafetyInv, [Next]_vars
               PROVE  [Chain!Next]_(Chain!chain)
    OBVIOUS
  <2>1. DatabaseNext
    BY NextOnDatabase DEF SafetyInv
  <2>2. CASE \E r \in Runs : PublishOutcome(r) = "published" /\ PublishMaterialization(r)
    BY <2>2, PublishedOutcome DEF PublishMaterialization, Chain!Next, Chain!Publish
  <2>3. CASE UNCHANGED headVars
    BY <2>3 DEF Chain!chain
  <2>4. QED
    BY <2>1, <2>2, <2>3, ChainFrame
<1>3. QED
  BY <1>1, <1>2, SafetyInvariant, PTL DEF Spec, ImplementsPublication, Chain!Spec

-----------------------------------------------------------------------------
(* How long a call can take *)

\* One worker's part of CallsAdvance.
Advances(p) ==
  \/ pc'[p] = pc[p] /\ recovering'[p] = recovering[p]
  \/ pc[p] = "idle" /\ pc'[p] = "head"
  \/ StepsLeft(p)' < StepsLeft(p)

\* One worker's part of RecoversOnce, after a step.
StillOnce(p) ==
  /\ recovering'[p] => pc'[p] \in Recovery
  /\ pc'[p] \in {"recheck", "rebuild"} => recovering'[p]

\* A worker's own step brings it closer to its return; the one that enters the
\* second way through verification does so with recovering set.
LEMMA OwnAdvance ==
  ASSUME TypeOK, RecoversOnce, NEW p \in Publishers, Step(p)
  PROVE  Advances(p) /\ StillOnce(p)
<1> USE DEF TypeOK, WorkerType, At, Goto, Advances, StillOnce, StepsLeft
<1>1. /\ pc[p] \notin Recovery => ~ recovering[p]
      /\ pc[p] \in {"recheck", "rebuild"} => recovering[p]
  BY DEF RecoversOnce
<1>2. CASE Resolve(p) \/ ReadHead(p) \/ AcquireLock(p)
  BY <1>1, <1>2 DEF Resolve, ReadHead, Replay, Identify, AcquireLock, Recovery
<1>3. CASE Reserve(p)
  BY <1>1, <1>3 DEF Reserve, ReserveConflict, ReserveNew, ReserveRetry,
     ReserveExisting, FirstStep, Recovery
<1>4. CASE StageGold(p) \/ Upload(p) \/ AssertInputs(p) \/ CheckObject(p)
           \/ CheckPrepared(p)
  BY <1>1, <1>4 DEF StageGold, Upload, AssertInputs, CheckObject, CheckPrepared,
     Recovery
<1>5. CASE Submit(p) \/ Mark(p)
  BY <1>5 DEF Submit, Mark, Failure, Recovery
<1>6. CASE Publish(p) \/ PublishReplyLost(p)
  <2>1. /\ pc[p] = "publish" /\ recovering' = recovering
        /\ \/ pc'[p] \in {"unlock", "quarantine", "fail"}
           \/ pc'[p] = "reopen" /\ ~ recovering[p]
    BY <1>6 DEF Publish, PublishReplyLost, PublishFailure
  <2>2. QED
    BY <2>1 DEF Recovery
<1>7. CASE Quarantine(p) \/ SettleReopen(p) \/ Cleanup(p) \/ Discard(p)
           \/ Fail(p) \/ Abandon(p)
  BY <1>7 DEF Quarantine, SettleReopen, Cleanup, Discard, Fail, Abandon, Recovery
<1>8. CASE Reopen(p)
  BY <1>1, <1>8 DEF Reopen, Recovery
<1>9. CASE RecheckObject(p) \/ RebuildGoldStage(p)
  BY <1>1, <1>9 DEF RecheckObject, RebuildGoldStage, Recovery
<1>10. CASE Unlock(p)
  BY <1>10 DEF Unlock, Forget, Recovery
<1>11. QED
  BY <1>2, <1>3, <1>4, <1>5, <1>6, <1>7, <1>8, <1>9, <1>10 DEF Step, Worker

\* A worker's step leaves the mark of every other worker's recovery alone.
LEMMA RecoveringFrame ==
  ASSUME TypeOK, NEW p \in Publishers, Step(p), NEW q \in Publishers, q # p
  PROVE  recovering'[q] = recovering[q]
<1>1. CASE Reopen(p)
  BY <1>1 DEF Reopen, TypeOK, WorkerType
<1>2. CASE Unlock(p)
  BY <1>2 DEF Unlock, Forget, TypeOK, WorkerType
<1>3. CASE ~ Reopen(p) /\ ~ Unlock(p)
  BY <1>3 DEF Step, Worker, Resolve, ReadHead, AcquireLock, Reserve, StageGold,
     Upload, AssertInputs, Submit, Mark, CheckObject, CheckPrepared, Publish,
     Quarantine, SettleReopen, RecheckObject, RebuildGoldStage, Cleanup, Discard,
     Fail, Abandon, PublishReplyLost, localVars
<1>4. QED
  BY <1>1, <1>2, <1>3

\* Every step brings every worker closer to its return or leaves it where it is.
LEMMA AdvanceStep ==
  ASSUME TypeOK, RecoversOnce, [Next]_vars, NEW q \in Publishers
  PROVE  Advances(q) /\ StillOnce(q)
<1> USE DEF TypeOK, WorkerType, At, Goto, Advances, StillOnce
<1>1. CASE pc'[q] = pc[q] /\ recovering'[q] = recovering[q]
  BY <1>1 DEF RecoversOnce
<1>2. CASE \E p \in Publishers : Step(p)
  <2>1. PICK p \in Publishers : Step(p)
    BY <1>2
  <2>2. CASE p = q
    BY <2>1, <2>2, OwnAdvance
  <2>3. CASE p # q
    BY <1>1, <2>1, <2>3, Separate, RecoveringFrame
  <2>4. QED
    BY <2>2, <2>3
<1>3. CASE pc[q] = "verify" /\ pc'[q] \in {"mark", "fail", "cleanup"} /\ recovering' = recovering
  BY <1>3 DEF StepsLeft, Recovery
<1>4. CASE Verifier
  BY <1>1, <1>3, <1>4 DEF Verifier, VerifierLoad, VerifierRecord, Answer, Failure,
     localVars
<1>5. CASE \E p \in Publishers : VerifyTimeout(p)
  BY <1>1, <1>3, <1>5 DEF VerifyTimeout, Failure, localVars
<1>6. CASE VerifierCrash
  BY <1>1, <1>3, <1>6 DEF VerifierCrash, Failure, localVars
<1>7. CASE \E p \in Publishers : Crash(p)
  <2>1. PICK p \in Publishers : Crash(p)
    BY <1>7
  <2>2. CASE p = q
    BY <2>1, <2>2 DEF Crash, Forget, StepsLeft, Labels
  <2>3. CASE p # q
    BY <1>1, <2>1, <2>3 DEF Crash, Forget
  <2>4. QED
    BY <2>2, <2>3
<1>8. CASE UNCHANGED <<pc, recovering>>
  BY <1>1, <1>8
<1>9. QED
  BY <1>2, <1>4, <1>5, <1>6, <1>7, <1>8
  DEF Next, Terminating, Faults, Step, LoseLock, LoseStage, LoseObject, Expire,
      ChangeSource, localVars, vars

\* A call of materialize() recovers at most once: no worker reopens a run while
\* it is recovering one.
THEOREM OneRecovery == Spec => []RecoversOnce
<1>1. Init => RecoversOnce
  BY DEF Init, RecoversOnce
<1>2. TypeOK /\ RecoversOnce /\ [Next]_vars => RecoversOnce'
  BY AdvanceStep DEF RecoversOnce, StillOnce, Recovery
<1>3. QED
  BY <1>1, <1>2, TypeCorrect, PTL DEF Spec

\* The other safety half of "every call returns": from its resolution on, a call
\* takes at most StepsLeft steps whatever workers, verifier and faults do, since
\* each of them lowers it and none ever raises it before the call has returned.
THEOREM CallsOnlyAdvance == Spec => CallsAdvance
<1>1. TypeOK /\ RecoversOnce /\ [Next]_vars =>
        [\A p \in Publishers :
           \/ pc'[p] = pc[p] /\ recovering'[p] = recovering[p]
           \/ pc[p] = "idle" /\ pc'[p] = "head"
           \/ StepsLeft(p)' < StepsLeft(p)]_vars
  BY AdvanceStep DEF Advances
<1>2. QED
  BY <1>1, TypeCorrect, OneRecovery, PTL DEF Spec, CallsAdvance
=============================================================================
