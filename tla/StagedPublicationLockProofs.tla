-------------------- MODULE StagedPublicationLockProofs --------------------
(***************************************************************************)
(* What staged publication owes to run_lock, for every value of the        *)
(* constants and every behaviour in which no connection that holds a run's *)
(* lock drops (LockKept).                                                  *)
(*                                                                         *)
(* A worker reads its run's status in one transaction and acts on it in    *)
(* the next.  LockIsHeld makes the workers inside run_lock work on         *)
(* different runs, so that a step touches no run but its worker's (Touch)  *)
(* and what another worker knows stays true (KnowsFrame).  What is left is *)
(* one case per action, about the run and the worker that moves.           *)
(***************************************************************************)
EXTENDS StagedPublicationProofs

USE DEF vars, dbVars, headVars, runVars, tableVars, candVars, verVars,
        localVars, envVars

\* What a worker knows of its run.
WorkerKnows(p) == StatusIsKnown(p) /\ StageIsKnown(p)

\* Evidence and prepared rows of one run.
RunIsWhole(r) ==
  /\ evidence[r] # NoCand <=> status[r] \in {"prepared", "published"}
  /\ PreparedIsWhole(r)

\* The invariant, by its parts.
LEMMA LockByParts ==
  LockInv <=> /\ LockIsHeld
              /\ \A p \in Publishers : WorkerKnows(p)
              /\ \A r \in Runs : RunIsWhole(r)
              /\ GoldRowsAreAttested
BY DEF LockInv, WorkerKnows, RunIsWhole, EvidenceFollowsStatus

-----------------------------------------------------------------------------
(* Mutual exclusion *)

\* Two workers inside run_lock work on different runs.
LEMMA Exclusion ==
  ASSUME LockIsHeld, NEW p \in Publishers, NEW q \in Publishers, p # q,
         pc[p] \in Locked, pc[q] \in Locked
  PROVE  run[p] # run[q]
BY DEF LockIsHeld

\* A worker's own step keeps the lock of every worker inside run_lock.
LEMMA LockWorkerStep ==
  ASSUME TypeOK, LockIsHeld, NEW p \in Publishers, Step(p)
  PROVE  LockIsHeld'
<1> SUFFICES ASSUME NEW q \in Publishers, pc'[q] \in Locked
             PROVE  lock'[run'[q]] = q
  BY DEF LockIsHeld, Locked
<1>1. /\ lock \in [Runs -> Publishers \cup {NoOne}]
      /\ \A o \in Publishers : pc[o] \in Locked \cup {"lock"} => run[o] \in Runs
  BY DEF TypeOK, EnvironmentType, WorkerType, Locked
<1>2. CASE q = p
  <2>1. CASE AcquireLock(p)
    BY <1>1, <1>2, <2>1 DEF AcquireLock, At, Locked
  <2>2. CASE lock' = lock /\ pc[p] \in Locked /\ run' = run
    BY <1>2, <2>2 DEF LockIsHeld
  <2>3. QED
    BY <1>2, <2>1, <2>2, LockPath DEF Locked
<1>3. CASE q # p
  <2>1. pc[q] \in Locked /\ run'[q] = run[q] /\ lock[run[q]] = q /\ run[q] \in Runs
    BY <1>1, <1>3, Separate DEF LockIsHeld
  <2>2. q # NoOne
    BY DistinctAssumption
  <2>3. CASE AcquireLock(p)
    BY <1>1, <2>1, <2>2, <2>3 DEF AcquireLock
  <2>4. CASE ReleaseBy(p)
    BY <1>3, <2>1, <2>4 DEF ReleaseBy
  <2>5. QED
    BY <2>1, <2>3, <2>4, LockPath
<1>4. QED
  BY <1>2, <1>3

\* Neither the verifier nor a fault but a lost lock takes a lock from a worker
\* that goes on.
LEMMA LockOthersStep ==
  ASSUME TypeOK, LockIsHeld, Verifier \/ Faults \/ UNCHANGED vars,
         \A p \in Publishers : ~ PublishReplyLost(p),
         \A r \in Runs : ~ LoseLock(r)
  PROVE  LockIsHeld'
<1> SUFFICES ASSUME NEW q \in Publishers, pc'[q] \in Locked
             PROVE  lock'[run'[q]] = q
  BY DEF LockIsHeld, Locked
<1>1. pc[q] \in Locked /\ run'[q] = run[q] /\ run[q] \in Runs
  BY OthersMove DEF Locked, Labels, TypeOK, WorkerType
<1>2. lock[run[q]] = q
  BY <1>1 DEF LockIsHeld
<1>3. CASE UNCHANGED lock
  BY <1>1, <1>2, <1>3
<1>4. CASE \E p \in Publishers : Crash(p)
  <2>1. PICK p \in Publishers : Crash(p)
    BY <1>4
  <2>2. p # q
    BY <2>1 DEF Crash, Goto, Locked, TypeOK, WorkerType
  <2>3. QED
    BY <1>1, <1>2, <2>1, <2>2 DEF Crash, ReleaseBy
<1>5. QED
  BY <1>3, <1>4 DEF Verifier, VerifierLoad, VerifierRecord, Faults, VerifyTimeout,
     VerifierCrash, LoseStage, LoseObject, Expire, ChangeSource

-----------------------------------------------------------------------------
(* A step touches no run but its worker's *)

\* What the invariant reads of run r is not changed, its stage table at most
\* lost.
Untouched(r) ==
  /\ status'[r] = status[r]
  /\ evidence'[r] = evidence[r]
  /\ object'[r] = object[r]
  /\ stage'[r] \in {stage[r], NoData}

\* Every SQL function a worker calls is given the worker's own run.
LEMMA Touch ==
  ASSUME TypeOK, NEW p \in Publishers, Step(p), NEW r \in Runs, r # run[p]
  PROVE  Untouched(r)
<1> USE DEF TypeOK, DatabaseType, WorkerType, Untouched
<1>1. pc[p] \notin {"idle", "head"} => run[p] \in Runs
  OBVIOUS
<1>2. CASE UNCHANGED dbVars
  BY <1>2
<1>3. CASE Reserve(p)
  BY <1>1, <1>2, <1>3 DEF Reserve, ReserveConflict, ReserveNew, ReserveRetry,
     ReserveExisting, At
<1>4. CASE StageGold(p) \/ RebuildGoldStage(p)
  BY <1>1, <1>2, <1>4 DEF StageGold, RebuildGoldStage, CreateGoldStage, At
<1>5. CASE Submit(p)
  BY <1>1, <1>2, <1>5 DEF Submit, SubmitCandidate, At
<1>6. CASE Mark(p)
  BY <1>1, <1>2, <1>6 DEF Mark, MarkPrepared, At
<1>7. CASE Publish(p) \/ PublishReplyLost(p)
  BY <1>1, <1>2, <1>7 DEF Publish, PublishReplyLost, PublishMaterialization, At
<1>8. CASE Quarantine(p) \/ SettleReopen(p)
  BY <1>1, <1>2, <1>8 DEF Quarantine, SettleReopen, QuarantinePrepared, At
<1>9. CASE Reopen(p)
  BY <1>1, <1>2, <1>9 DEF Reopen, ReopenPrepared, At
<1>10. CASE Discard(p) \/ Abandon(p)
  BY <1>1, <1>2, <1>10 DEF Discard, Abandon, AbandonMaterialization, At
<1>11. CASE \/ Resolve(p) \/ ReadHead(p) \/ AcquireLock(p) \/ Upload(p)
            \/ AssertInputs(p) \/ CheckObject(p) \/ CheckPrepared(p)
            \/ RecheckObject(p) \/ Cleanup(p) \/ Fail(p) \/ Unlock(p)
  BY <1>2, <1>11 DEF Resolve, ReadHead, AcquireLock, Upload, AssertInputs,
     CheckObject, CheckPrepared, RecheckObject, Cleanup, Fail, Unlock
<1>12. QED
  BY <1>3, <1>4, <1>5, <1>6, <1>7, <1>8, <1>9, <1>10, <1>11 DEF Step, Worker

\* A step outside run_lock touches no run at all.
LEMMA TouchOutside ==
  ASSUME TypeOK, NEW p \in Publishers, Step(p), pc[p] \notin Locked
  PROVE  UNCHANGED dbVars
BY DEF Step, Worker, Resolve, ReadHead, AcquireLock, Reserve, StageGold, Upload,
   AssertInputs, Submit, Mark, CheckObject, CheckPrepared, Publish, Quarantine,
   Reopen, SettleReopen, RecheckObject, RebuildGoldStage, Cleanup, Discard,
   Fail, Abandon, Unlock, PublishReplyLost, At, Locked, Labels

\* Neither the verifier nor a fault touches a run, except for its stage table.
LEMMA TouchOthers ==
  ASSUME TypeOK, Verifier \/ Faults \/ UNCHANGED vars,
         \A p \in Publishers : ~ PublishReplyLost(p), NEW r \in Runs
  PROVE  Untouched(r)
<1>1. CASE \E s \in Runs : LoseStage(s)
  BY <1>1 DEF LoseStage, Untouched, TypeOK, DatabaseType
<1>2. CASE UNCHANGED <<status, evidence, object, stage>>
  BY <1>2 DEF Untouched
<1>3. QED
  BY <1>1, <1>2 DEF Verifier, VerifierLoad, VerifierRecord, Faults, VerifyTimeout,
     Crash, VerifierCrash, LoseLock, LoseObject, Expire, ChangeSource

\* The attestation a run's evidence cites keeps its body.
LEMMA EvidenceBody ==
  ASSUME TypeOK, EvidenceIsConsumed, DatabaseNext, NEW r \in Runs,
         evidence[r] # NoCand
  PROVE  cbody'[evidence[r]] = cbody[evidence[r]]
<1>1. evidence[r] \in Cands /\ cstatus[evidence[r]] = "attested"
  BY DEF TypeOK, DatabaseType, EvidenceIsConsumed
<1>2. CASE \E p \in Publishers, c \in Cands : SubmitCandidate(run[p], built[p], c)
  BY <1>1, <1>2 DEF SubmitCandidate, TypeOK, DatabaseType
<1>3. CASE UNCHANGED cbody
  BY <1>3
<1>4. QED
  BY <1>2, <1>3 DEF DatabaseNext, ReserveNew, ReserveRetry, CreateGoldStage,
     VerifierRecord, MarkPrepared, PublishMaterialization, QuarantinePrepared,
     ReopenPrepared, AbandonMaterialization, LoseStage, Expire

\* A run that is not touched stays whole.
LEMMA WholeFrame ==
  ASSUME TypeOK, EvidenceIsConsumed, DatabaseNext, NEW r \in Runs, RunIsWhole(r),
         Untouched(r)
  PROVE  RunIsWhole(r)'
<1>1. evidence[r] # NoCand => cbody'[evidence[r]] = cbody[evidence[r]]
  BY EvidenceBody
<1>2. QED
  BY <1>1 DEF RunIsWhole, PreparedIsWhole, Untouched

\* A worker that does not move and whose run is not touched knows what it knew.
LEMMA KnowsFrame ==
  ASSUME NEW q \in Publishers, WorkerKnows(q), pc'[q] = pc[q], run'[q] = run[q],
         built'[q] = built[q], pc[q] \in Locked => Untouched(run[q])
  PROVE  WorkerKnows(q)'
BY DEF WorkerKnows, StatusIsKnown, StageIsKnown, Reserving, Locked, Labels,
   Untouched
-----------------------------------------------------------------------------
(* The worker that moves, and its run *)

\* A worker that enters a position at which nothing is known of its run.
LEMMA KnowsNothing ==
  ASSUME NEW p \in Publishers,
         pc'[p] \in {"idle", "head", "lock", "reserve", "quarantine", "cleanup",
                     "fail", "unlock"}
  PROVE  WorkerKnows(p)'
BY DEF WorkerKnows, StatusIsKnown, StageIsKnown, Reserving

\* A worker that keeps building the rows of a reserved run.
LEMMA KnowsReserved ==
  ASSUME NEW p \in Publishers, WorkerKnows(p), pc[p] \in Reserving,
         pc'[p] \in Reserving \ {"stage"}, UNCHANGED <<run, status>>,
         Layer = "gold" => stage'[run[p]] \in {built'[p], NoData}
  PROVE  WorkerKnows(p)'
BY DEF WorkerKnows, StatusIsKnown, StageIsKnown, Reserving

\* No receipt stands behind a run that is only prepared, and it is not the head.
LEMMA PreparedIsUnpublished ==
  ASSUME SafetyInv, NEW r \in Runs, status[r] = "prepared"
  PROVE  NotPublished(r)
<1>1. ~ HasReceipt(r)
  BY DEF SafetyInv, PublishedAuthority
<1>2. head # r
  BY <1>1, BaseAssumption DEF SafetyInv, PublishedChain
<1>3. QED
  BY <1>1, <1>2 DEF HasReceipt, NotPublished

\* A prepared run can always be reopened.
LEMMA PreparedIsReopenable ==
  ASSUME SafetyInv, NEW r \in Runs, RunIsWhole(r), status[r] = "prepared"
  PROVE  Reopenable(r)
<1>1. evidence[r] \in Cands
  BY DEF RunIsWhole, SafetyInv, TypeOK, DatabaseType
<1>2. QED
  BY <1>1, PreparedIsUnpublished DEF RunIsWhole, PreparedIsWhole, Reopenable

\* reserve_materialization.
LEMMA ReserveKnows ==
  ASSUME SafetyInv, NEW p \in Publishers, WorkerKnows(p), RunIsWhole(run[p]),
         Reserve(p)
  PROVE  WorkerKnows(p)' /\ RunIsWhole(run[p])'
<1>1. run[p] \in Runs /\ run' = run
  BY DEF Reserve, At, SafetyInv, TypeOK, WorkerType
<1>2. /\ pc \in [Publishers -> Labels] /\ status \in [Runs -> RunStatus]
  BY DEF SafetyInv, TypeOK, WorkerType, DatabaseType
<1>3. CASE ReserveConflict(p, run[p])
  BY <1>1, <1>2, <1>3, KnowsNothing
  DEF ReserveConflict, Goto, RunIsWhole, PreparedIsWhole
<1>4. CASE ReserveNew(p, run[p]) \/ ReserveRetry(p, run[p])
  <2>1. /\ status'[run[p]] = "reserved" /\ UNCHANGED <<evidence, run>>
        /\ status[run[p]] \notin {"prepared", "published"}
        /\ pc'[p] = FirstStep
    BY <1>1, <1>2, <1>4 DEF ReserveNew, ReserveRetry, Retryable, Goto
  <2>2. QED
    BY <2>1, LayerAssumption
    DEF FirstStep, RunIsWhole, PreparedIsWhole, WorkerKnows, StatusIsKnown,
        StageIsKnown, Reserving
<1>5. CASE ReserveExisting(p, run[p])
  BY <1>1, <1>2, <1>5, LayerAssumption
  DEF ReserveExisting, Goto, FirstStep, RunIsWhole, PreparedIsWhole,
      WorkerKnows, StatusIsKnown, StageIsKnown, Reserving
<1>6. QED
  BY <1>3, <1>4, <1>5 DEF Reserve

\* create_gold_stage, and the same in a recovery.
LEMMA StageKnows ==
  ASSUME SafetyInv, NEW p \in Publishers, WorkerKnows(p), RunIsWhole(run[p]),
         StageGold(p) \/ RebuildGoldStage(p)
  PROVE  WorkerKnows(p)' /\ RunIsWhole(run[p])'
<1>1. /\ run[p] \in Runs /\ run' = run /\ pc[p] \in {"stage", "rebuild"}
      /\ status[run[p]] = "reserved"
  BY DEF StageGold, RebuildGoldStage, At, SafetyInv, TypeOK, WorkerType,
     WorkerKnows, StatusIsKnown, Reserving
<1>2. /\ pc \in [Publishers -> Labels] /\ stage \in [Runs -> Content]
      /\ built \in [Publishers -> Content]
  BY DEF SafetyInv, TypeOK, WorkerType, DatabaseType
<1>3. UNCHANGED <<status, evidence>>
  BY DEF StageGold, RebuildGoldStage, CreateGoldStage
<1>4. RunIsWhole(run[p])'
  BY <1>1, <1>3 DEF RunIsWhole, PreparedIsWhole
<1>5. CASE pc'[p] = "cleanup"
  BY <1>4, <1>5, KnowsNothing
<1>6. CASE pc'[p] # "cleanup"
  <2>1. pc'[p] \in {"upload", "submit"} /\ stage'[run[p]] = built'[p]
    BY <1>1, <1>2, <1>6 DEF StageGold, RebuildGoldStage, CreateGoldStage, Goto
  <2>2. QED
    BY <1>1, <1>3, <1>4, <2>1, KnowsReserved DEF Reserving
<1>7. QED
  BY <1>5, <1>6

\* The upload, the check of the inputs, the candidate and the reopened object:
\* the worker goes on, or fails.
LEMMA BuildKnows ==
  ASSUME SafetyInv, NEW p \in Publishers, WorkerKnows(p), RunIsWhole(run[p]),
         Upload(p) \/ AssertInputs(p) \/ Submit(p) \/ RecheckObject(p)
  PROVE  WorkerKnows(p)' /\ RunIsWhole(run[p])'
<1>1. /\ run[p] \in Runs /\ run' = run
      /\ pc[p] \in {"upload", "assert", "submit", "recheck"}
      /\ status[run[p]] = "reserved"
  BY DEF Upload, AssertInputs, Submit, RecheckObject, At, SafetyInv, TypeOK,
     WorkerType, WorkerKnows, StatusIsKnown, Reserving
<1>2. UNCHANGED <<status, evidence, stage>>
  BY DEF Upload, AssertInputs, Submit, SubmitCandidate, RecheckObject
<1>3. RunIsWhole(run[p])'
  BY <1>1, <1>2 DEF RunIsWhole, PreparedIsWhole
<1>4. pc \in [Publishers -> Labels] /\ built \in [Publishers -> Content]
  BY DEF SafetyInv, TypeOK, WorkerType
<1>5. pc'[p] \in {"assert", "submit", "verify", "rebuild", "fail", "cleanup"}
  BY <1>4 DEF Upload, AssertInputs, Submit, RecheckObject, Failure, Goto
<1>6. CASE pc'[p] \in {"fail", "cleanup"}
  BY <1>3, <1>6, KnowsNothing
<1>7. CASE pc'[p] \in {"assert", "submit", "verify", "rebuild"}
  <2>1. Layer = "gold" => built' = built
    BY <1>4 DEF Upload, AssertInputs, Submit, RecheckObject
  <2>2. Layer = "gold" => stage[run[p]] \in {built[p], NoData}
    BY <1>1 DEF WorkerKnows, StageIsKnown, Reserving
  <2>3. QED
    BY <1>1, <1>2, <1>3, <1>7, <2>1, <2>2, KnowsReserved DEF Reserving
<1>8. QED
  BY <1>5, <1>6, <1>7

\* mark_prepared: the stage table it counted holds the rows of the object.
LEMMA MarkKnows ==
  ASSUME SafetyInv, NEW p \in Publishers, WorkerKnows(p), RunIsWhole(run[p]),
         Mark(p)
  PROVE  WorkerKnows(p)' /\ RunIsWhole(run[p])'
<1>1. /\ run[p] \in Runs /\ run' = run /\ pc[p] = "mark"
      /\ pc \in [Publishers -> Labels]
      /\ pc'[p] \in {"publish", "check", "fail", "cleanup"}
  BY DEF Mark, Failure, At, Goto, SafetyInv, TypeOK, WorkerType
<1>2. CASE MarkAccepted(run[p], built[p]) /\ MarkPrepared(run[p], built[p])
  <2> DEFINE r == run[p]
             d == built[p]
  <2>1. PICK c \in Usable(r, d) : evidence' = [evidence EXCEPT ![r] = c]
    BY <1>2 DEF MarkPrepared
  <2>2. c \in Cands /\ c # NoCand /\ cbody[c].object = d
    BY <2>1 DEF Usable, AttestationsOf, Cands, NoCand
  <2>3. /\ evidence'[r] = c /\ object'[r] = d /\ status'[r] = "prepared"
        /\ stage' = stage /\ cbody' = cbody
    BY <1>1, <1>2, <2>1 DEF MarkPrepared, SafetyInv, TypeOK, DatabaseType
  <2>4. Layer = "gold" => stage[r] \in {d, NoData}
    BY <1>1 DEF WorkerKnows, StageIsKnown, Reserving
  <2>5. RunIsWhole(r)'
    BY <1>1, <2>2, <2>3, <2>4 DEF RunIsWhole, PreparedIsWhole
  <2>6. WorkerKnows(p)'
    BY <1>1, <2>3 DEF WorkerKnows, StatusIsKnown, StageIsKnown, Reserving
  <2>7. QED
    BY <2>5, <2>6
<1>3. CASE UNCHANGED dbVars
  <2>1. RunIsWhole(run[p])'
    BY <1>1, <1>3 DEF RunIsWhole, PreparedIsWhole
  <2>2. pc'[p] \in {"fail", "cleanup"}
    BY <1>1, <1>3 DEF Mark, MarkAccepted, MarkPrepared, Failure, Goto, SafetyInv,
       TypeOK, DatabaseType, Usable, AttestationsOf, Cands, NoCand
  <2>3. QED
    BY <2>1, <2>2, KnowsNothing
<1>4. QED
  BY <1>2, <1>3 DEF Mark

\* The checks of a prepared object.
LEMMA CheckKnows ==
  ASSUME SafetyInv, NEW p \in Publishers, WorkerKnows(p), RunIsWhole(run[p]),
         CheckObject(p) \/ CheckPrepared(p)
  PROVE  WorkerKnows(p)' /\ RunIsWhole(run[p])'
<1>1. run' = run /\ UNCHANGED dbVars /\ status[run[p]] = "prepared"
  BY DEF CheckObject, CheckPrepared, At, WorkerKnows, StatusIsKnown
<1>2. pc'[p] \in {"publish", "fail", "reopen"}
  BY DEF CheckObject, CheckPrepared, Goto, SafetyInv, TypeOK, WorkerType
<1>3. QED
  BY <1>1, <1>2 DEF RunIsWhole, PreparedIsWhole, WorkerKnows, StatusIsKnown,
     StageIsKnown, Reserving

\* publish_materialization, whether or not its reply arrives.
LEMMA PublishKnows ==
  ASSUME SafetyInv, NEW p \in Publishers, WorkerKnows(p), RunIsWhole(run[p]),
         Publish(p) \/ PublishReplyLost(p)
  PROVE  WorkerKnows(p)' /\ RunIsWhole(run[p])'
<1>1. /\ run[p] \in Runs /\ run' = run /\ status[run[p]] = "prepared"
  BY DEF Publish, PublishReplyLost, At, SafetyInv, TypeOK, WorkerType,
     WorkerKnows, StatusIsKnown
<1>2. pc'[p] \in {"unlock", "quarantine", "reopen", "fail"}
  BY DEF Publish, PublishReplyLost, PublishFailure, Goto, SafetyInv, TypeOK,
     WorkerType
<1>3. /\ status'[run[p]] \in {"prepared", "published"}
      /\ RunIsWhole(run[p])'
  <2>1. CASE PublishMaterialization(run[p])
    BY <1>1, <2>1 DEF PublishMaterialization, RunIsWhole, PreparedIsWhole,
       SafetyInv, TypeOK, DatabaseType
  <2>2. CASE UNCHANGED dbVars
    BY <1>1, <2>2 DEF RunIsWhole, PreparedIsWhole
  <2>3. QED
    BY <2>1, <2>2 DEF Publish, PublishReplyLost
<1>4. QED
  BY <1>1, <1>2, <1>3 DEF WorkerKnows, StatusIsKnown, StageIsKnown, Reserving

\* quarantine_prepared leaves no evidence behind.
LEMMA QuarantineKeepsWhole ==
  ASSUME SafetyInv, NEW r \in Runs, RunIsWhole(r), QuarantinePrepared(r)
  PROVE  RunIsWhole(r)'
BY DEF QuarantinePrepared, RunIsWhole, PreparedIsWhole, SafetyInv, TypeOK,
   DatabaseType

\* The quarantine of a loser or of a run that cannot be published.
LEMMA QuarantineKnows ==
  ASSUME SafetyInv, NEW p \in Publishers, RunIsWhole(run[p]), Quarantine(p)
  PROVE  WorkerKnows(p)' /\ RunIsWhole(run[p])'
<1>1. run[p] \in Runs /\ run' = run /\ pc'[p] = "fail"
  BY DEF Quarantine, At, Goto, SafetyInv, TypeOK, WorkerType
<1>2. QED
  BY <1>1, QuarantineKeepsWhole, KnowsNothing DEF Quarantine, RunIsWhole,
     PreparedIsWhole

\* reopen_prepared_materialization succeeds on every prepared run, and hands the
\* worker the object whose rows the stage table holds.
LEMMA ReopenKnows ==
  ASSUME SafetyInv, NEW p \in Publishers, WorkerKnows(p), RunIsWhole(run[p]),
         Reopen(p)
  PROVE  WorkerKnows(p)' /\ RunIsWhole(run[p])'
<1>1. /\ run[p] \in Runs /\ run' = run
      /\ status[run[p]] \in {"prepared", "published"}
      /\ pc \in [Publishers -> Labels] /\ built \in [Publishers -> Content]
  BY DEF Reopen, At, SafetyInv, TypeOK, WorkerType, WorkerKnows, StatusIsKnown
<1>2. CASE Reopenable(run[p])
  <2>1. ReopenPrepared(run[p]) /\ pc'[p] \in {"recheck", "fail"}
    BY <1>1, <1>2 DEF Reopen, Goto
  <2>2. /\ status'[run[p]] = "reserved" /\ evidence'[run[p]] = NoCand
        /\ stage' = stage
    BY <1>1, <2>1 DEF ReopenPrepared, SafetyInv, TypeOK, DatabaseType
  <2>3. RunIsWhole(run[p])'
    BY <1>1, <2>2 DEF RunIsWhole, PreparedIsWhole
  <2>4. CASE pc'[p] = "recheck"
    <3>1. built'[p] = object[run[p]]
      BY <1>1, <1>2, <2>4 DEF Reopen, Goto
    <3>2. Layer = "gold" => stage[run[p]] \in {object[run[p]], NoData}
      BY <1>2 DEF RunIsWhole, PreparedIsWhole, Reopenable
    <3>3. QED
      BY <1>1, <2>2, <2>3, <2>4, <3>1, <3>2
      DEF WorkerKnows, StatusIsKnown, StageIsKnown, Reserving
  <2>5. QED
    BY <2>1, <2>3, <2>4, KnowsNothing
<1>3. CASE ~ Reopenable(run[p])
  <2>1. status[run[p]] = "published"
    BY <1>1, <1>3, PreparedIsReopenable
  <2>2. pc'[p] = "settle" /\ UNCHANGED dbVars
    BY <1>1, <1>3 DEF Reopen, Goto
  <2>3. QED
    BY <1>1, <2>1, <2>2 DEF RunIsWhole, PreparedIsWhole, WorkerKnows,
       StatusIsKnown, StageIsKnown, Reserving
<1>4. QED
  BY <1>2, <1>3

\* _settle_failed_reopen never reaches its quarantine.
LEMMA SettleKnows ==
  ASSUME SafetyInv, NEW p \in Publishers, WorkerKnows(p), RunIsWhole(run[p]),
         SettleReopen(p)
  PROVE  WorkerKnows(p)' /\ RunIsWhole(run[p])'
<1>1. status[run[p]] = "published"
  BY DEF SettleReopen, At, WorkerKnows, StatusIsKnown
<1>2. run' = run /\ pc'[p] = "unlock" /\ UNCHANGED dbVars
  BY <1>1 DEF SettleReopen, Goto, SafetyInv, TypeOK, WorkerType
<1>3. QED
  BY <1>2, KnowsNothing DEF RunIsWhole, PreparedIsWhole

\* The failure handlers abandon only runs that are not prepared.
LEMMA FailureKnows ==
  ASSUME SafetyInv, NEW p \in Publishers, WorkerKnows(p), RunIsWhole(run[p]),
         Cleanup(p) \/ Discard(p) \/ Fail(p) \/ Abandon(p)
  PROVE  WorkerKnows(p)' /\ RunIsWhole(run[p])'
<1>1. /\ run[p] \in Runs /\ run' = run /\ pc \in [Publishers -> Labels]
  BY DEF Cleanup, Discard, Fail, Abandon, At, SafetyInv, TypeOK, WorkerType
<1>2. CASE Cleanup(p) \/ Fail(p)
  BY <1>1, <1>2 DEF Cleanup, Fail, Goto, RunIsWhole, PreparedIsWhole,
     WorkerKnows, StatusIsKnown, StageIsKnown, Reserving
<1>3. CASE Discard(p) \/ Abandon(p)
  <2>1. status[run[p]] # "prepared" /\ AbandonMaterialization(run[p])
    BY <1>3 DEF Discard, Abandon, At, WorkerKnows, StatusIsKnown
  <2>2. pc'[p] \in {"fail", "unlock"}
    BY <1>1, <1>3 DEF Discard, Abandon, Goto
  <2>3. RunIsWhole(run[p])'
    BY <1>1, <2>1 DEF AbandonMaterialization, RunIsWhole, PreparedIsWhole,
       SafetyInv, TypeOK, DatabaseType
  <2>4. QED
    BY <2>2, <2>3, KnowsNothing
<1>4. QED
  BY <1>2, <1>3

\* Inside run_lock, the worker that moves keeps what is known of it and its run.
LEMMA OwnKnows ==
  ASSUME SafetyInv, NEW p \in Publishers, WorkerKnows(p), RunIsWhole(run[p]),
         Step(p), pc[p] \in Locked
  PROVE  WorkerKnows(p)' /\ (RunIsWhole(run[p])' \/ UNCHANGED dbVars)
<1>1. CASE Resolve(p) \/ ReadHead(p) \/ AcquireLock(p)
  BY <1>1 DEF Resolve, ReadHead, AcquireLock, At, Locked
<1>2. CASE Unlock(p)
  <2>1. UNCHANGED dbVars /\ pc'[p] = "idle"
    BY <1>2 DEF Unlock, Goto, SafetyInv, TypeOK, WorkerType
  <2>2. QED
    BY <2>1, KnowsNothing
<1>3. QED
  BY <1>1, <1>2, ReserveKnows, StageKnows, BuildKnows, MarkKnows, CheckKnows,
     PublishKnows, QuarantineKnows, ReopenKnows, SettleKnows, FailureKnows
  DEF Step, Worker

\* Outside run_lock a worker knows nothing of a run, before and after its step.
LEMMA OutsideKnows ==
  ASSUME TypeOK, NEW p \in Publishers, Step(p), pc[p] \notin Locked
  PROVE  WorkerKnows(p)'
<1>1. CASE Resolve(p) \/ ReadHead(p) \/ AcquireLock(p)
  <2>1. pc'[p] \in {"idle", "head", "lock", "reserve"}
    BY <1>1 DEF Resolve, ReadHead, Replay, Identify, AcquireLock, Goto, TypeOK,
       WorkerType
  <2>2. QED
    BY <2>1, KnowsNothing
<1>2. QED
  BY <1>1 DEF Step, Worker, Reserve, StageGold, Upload, AssertInputs, Submit,
     Mark, CheckObject, CheckPrepared, Publish, Quarantine, Reopen,
     SettleReopen, RecheckObject, RebuildGoldStage, Cleanup, Discard, Fail,
     Abandon, Unlock, PublishReplyLost, At, Locked, Labels

-----------------------------------------------------------------------------
(* All workers and all runs *)

\* A worker's step keeps what every worker knows.
LEMMA KnowsWorkerStep ==
  ASSUME SafetyInv, LockInv, NEW p \in Publishers, Step(p), NEW q \in Publishers
  PROVE  WorkerKnows(q)'
<1>1. /\ TypeOK /\ LockIsHeld /\ WorkerKnows(q)
      /\ \A r \in Runs : RunIsWhole(r)
      /\ \A o \in Publishers : pc[o] \in Locked => run[o] \in Runs
  BY LockByParts DEF SafetyInv, TypeOK, WorkerType, Locked
<1>2. CASE q = p
  BY <1>1, <1>2, OwnKnows, OutsideKnows
<1>3. CASE q # p
  <2>1. pc[q] \in Locked => Untouched(run[q])
    <3> SUFFICES ASSUME pc[q] \in Locked PROVE Untouched(run[q])
      OBVIOUS
    <3>1. CASE pc[p] \in Locked
      BY <1>1, <1>3, <3>1, Exclusion, Touch
    <3>2. CASE pc[p] \notin Locked
      BY <1>1, <3>2, TouchOutside DEF Untouched
    <3>3. QED
      BY <3>1, <3>2
  <2>2. QED
    BY <1>1, <1>3, <2>1, Separate, KnowsFrame
<1>4. QED
  BY <1>2, <1>3

\* A worker's step keeps every run whole.
LEMMA WholeWorkerStep ==
  ASSUME SafetyInv, LockInv, DatabaseNext, NEW p \in Publishers, Step(p),
         NEW r \in Runs
  PROVE  RunIsWhole(r)'
<1>1. /\ TypeOK /\ EvidenceIsConsumed /\ RunIsWhole(r) /\ WorkerKnows(p)
  BY LockByParts DEF SafetyInv
<1>2. CASE Untouched(r)
  BY <1>1, <1>2, WholeFrame
<1>3. CASE UNCHANGED dbVars
  BY <1>2, <1>3 DEF Untouched
<1>4. CASE pc[p] \in Locked /\ run[p] = r
  <2>1. CASE run' = run
    BY <1>1, <1>3, <1>4, <2>1, OwnKnows DEF RunIsWhole, PreparedIsWhole
  <2>2. CASE run' # run
    <3>1. Unlock(p)
      BY <1>4, <2>2 DEF Step, Worker, Resolve, ReadHead, AcquireLock, Reserve,
         StageGold, Upload, AssertInputs, Submit, Mark, CheckObject,
         CheckPrepared, Publish, Quarantine, Reopen, SettleReopen,
         RecheckObject, RebuildGoldStage, Cleanup, Discard, Fail, Abandon,
         PublishReplyLost, At, Locked
    <3>2. QED
      BY <1>3, <3>1 DEF Unlock
  <2>3. QED
    BY <2>1, <2>2
<1>5. QED
  BY <1>1, <1>2, <1>3, <1>4, Touch, TouchOutside

\* What readers of the head's gold relation and of the public relation see is
\* the object of the receipt: publish_materialization moves a stage table that
\* holds it, and nothing else writes either relation.
LEMMA GoldStep ==
  ASSUME SafetyInv, LockInv, DatabaseNext
  PROVE  GoldRowsAreAttested'
<1> SUFFICES ASSUME Layer = "gold", head' # Base
             PROVE  gold'[head'] = receiptObject'[head'] /\ public' = receiptObject'[head']
  BY DEF GoldRowsAreAttested
<1>1. CASE \E r \in Runs : PublishOutcome(r) = "published" /\ PublishMaterialization(r)
  <2>1. PICK r \in Runs : PublishOutcome(r) = "published" /\ PublishMaterialization(r)
    BY <1>1
  <2>2. status[r] = "prepared" /\ stage[r] # NoData
    BY <2>1 DEF PublishOutcome
  <2>3. stage[r] = object[r]
    BY <2>2 DEF LockInv, PreparedIsWhole
  <2>4. QED
    BY <2>1, <2>3 DEF PublishMaterialization, SafetyInv, TypeOK, DatabaseType
<1>2. CASE ~ \E r \in Runs : PublishOutcome(r) = "published" /\ PublishMaterialization(r)
  <2>1. UNCHANGED headVars
    BY <1>2, ChainFrame
  <2>2. public' = public
    BY <1>2 DEF DatabaseNext, ReserveNew, ReserveRetry, CreateGoldStage,
       SubmitCandidate, VerifierRecord, MarkPrepared, QuarantinePrepared,
       ReopenPrepared, AbandonMaterialization, LoseStage, Expire
  <2>3. head \in Runs /\ HasReceipt(head)
    BY <2>1 DEF SafetyInv, TypeOK, DatabaseType, PublishedChain
  <2>4. gold'[head] = gold[head]
    BY <2>3, PublishedFrame DEF SafetyInv
  <2>5. QED
    BY <2>1, <2>2, <2>4 DEF LockInv, GoldRowsAreAttested
<1>3. QED
  BY <1>1, <1>2

\* Nobody holds a lock, and no run exists, before the first call.
LEMMA LockInit == Init => LockInv
<1> SUFFICES ASSUME Init PROVE LockInv
  OBVIOUS
<1>1. LockIsHeld /\ \A p \in Publishers : WorkerKnows(p)
  BY DEF Init, LockIsHeld, Locked, WorkerKnows, StatusIsKnown, StageIsKnown,
     Reserving
<1>2. \A r \in Runs : RunIsWhole(r)
  BY DEF Init, RunIsWhole, PreparedIsWhole
<1>3. GoldRowsAreAttested
  BY DEF Init, GoldRowsAreAttested
<1>4. QED
  BY <1>1, <1>2, <1>3, LockByParts

\* Every step that does not lose a lock preserves the invariant.
LEMMA LockStep ==
  SafetyInv /\ LockInv /\ [Next]_vars /\ [\A r \in Runs : ~ LoseLock(r)]_vars
    => LockInv'
<1> SUFFICES ASSUME SafetyInv, LockInv, [Next]_vars,
                    [\A r \in Runs : ~ LoseLock(r)]_vars
             PROVE  LockInv'
  OBVIOUS
<1>1. TypeOK /\ DatabaseNext /\ EvidenceIsConsumed
  BY NextOnDatabase DEF SafetyInv
<1>2. /\ LockIsHeld /\ \A p \in Publishers : WorkerKnows(p)
      /\ \A r \in Runs : RunIsWhole(r)
  BY LockByParts
<1>3. GoldRowsAreAttested'
  BY <1>1, GoldStep
<1>4. CASE \E p \in Publishers : Step(p)
  <2>1. LockIsHeld'
    BY <1>1, <1>2, <1>4, LockWorkerStep
  <2>2. \A q \in Publishers : WorkerKnows(q)'
    BY <1>4, KnowsWorkerStep
  <2>3. \A r \in Runs : RunIsWhole(r)'
    BY <1>1, <1>4, WholeWorkerStep
  <2>4. QED
    BY <1>3, <2>1, <2>2, <2>3 DEF LockInv, WorkerKnows, RunIsWhole,
       EvidenceFollowsStatus
<1>5. CASE ~ \E p \in Publishers : Step(p)
  <2>1. /\ Verifier \/ Faults \/ UNCHANGED vars
        /\ \A p \in Publishers : ~ PublishReplyLost(p)
    BY <1>5 DEF Next, Terminating, Step
  <2>2. \A r \in Runs : Untouched(r)
    BY <1>1, <2>1, TouchOthers
  <2>3. LockIsHeld'
    <3>1. CASE UNCHANGED vars
      BY <1>2, <3>1 DEF LockIsHeld
    <3>2. CASE \A r \in Runs : ~ LoseLock(r)
      BY <1>1, <1>2, <2>1, <3>2, LockOthersStep
    <3>3. QED
      BY <3>1, <3>2
  <2>4. ASSUME NEW q \in Publishers PROVE WorkerKnows(q)'
    <3>1. pc[q] \in Locked => run[q] \in Runs
      BY <1>1 DEF TypeOK, WorkerType, Locked
    <3>2. CASE pc'[q] = pc[q] /\ run'[q] = run[q] /\ built'[q] = built[q]
      BY <1>2, <2>2, <3>1, <3>2, KnowsFrame
    <3>3. CASE /\ pc[q] = "verify" /\ pc'[q] = "mark"
               /\ UNCHANGED <<run, built>>
      <4>1. Untouched(run[q]) /\ WorkerKnows(q)
        BY <1>2, <2>2, <3>1, <3>3 DEF Locked, Labels
      <4>2. QED
        BY <3>3, <4>1 DEF WorkerKnows, StatusIsKnown, StageIsKnown, Reserving,
           Untouched
    <3>4. CASE pc'[q] \in {"fail", "cleanup", "idle"}
      BY <3>4, KnowsNothing
    <3>5. QED
      BY <1>1, <2>1, <3>2, <3>3, <3>4, OthersMove
  <2>5. \A r \in Runs : RunIsWhole(r)'
    BY <1>1, <1>2, <2>2, WholeFrame
  <2>6. QED
    BY <1>3, <2>3, <2>4, <2>5 DEF LockInv, WorkerKnows, RunIsWhole,
       EvidenceFollowsStatus
<1>6. QED
  BY <1>4, <1>5

-----------------------------------------------------------------------------
\* While no lock is lost, the workers exclude each other from a run, act on a
\* status that is still the one they read, and keep evidence, stage tables and
\* published rows together: the invariant holds in every reachable state.
THEOREM LockInvariant == Spec /\ LockKept => []LockInv
BY LockInit, LockStep, SafetyInvariant, PTL DEF Spec, LockKept

\* The head's gold relation and the public rows are the attested object, as long
\* as no lock is lost, although mark_prepared compares row counts only.
THEOREM GoldRowsCorrect == Spec /\ LockKept => []GoldRowsAreAttested
<1>1. LockInv => GoldRowsAreAttested
  BY DEF LockInv
<1>2. QED
  BY <1>1, LockInvariant, PTL

\* Evidence exists exactly while a run is prepared or published, as long as no
\* lock is lost: no failure handler abandons a prepared run.
THEOREM EvidenceCorrect == Spec /\ LockKept => []EvidenceFollowsStatus
<1>1. LockInv => EvidenceFollowsStatus
  BY DEF LockInv
<1>2. QED
  BY <1>1, LockInvariant, PTL

\* A reopening fails only because the run was published after all, as long as no
\* lock is lost: the quarantine in _settle_failed_reopen is never reached.
THEOREM ReopenCorrect == Spec /\ LockKept => []ReopenFailsOnlyWhenPublished
<1>1. LockInv => ReopenFailsOnlyWhenPublished
  BY DEF LockInv, StatusIsKnown, ReopenFailsOnlyWhenPublished
<1>2. QED
  BY <1>1, LockInvariant, PTL

-----------------------------------------------------------------------------
(* Instances without the fault keep the lock. *)

\* A budget that is used up stays used up.
LEMMA BudgetStays ==
  ASSUME TypeOK, [Next]_vars, budget["lock_loss"] = 0
  PROVE  budget'["lock_loss"] = 0 /\ \A r \in Runs : ~ LoseLock(r)
<1>1. budget \in [FaultKinds -> Nat]
  BY DEF TypeOK, EnvironmentType
<1>2. ASSUME NEW k \in FaultKinds, Spend(k)
      PROVE  budget'["lock_loss"] = 0
  BY <1>1, <1>2 DEF Spend, FaultKinds
<1>3. \A r \in Runs : ~ LoseLock(r)
  BY DEF LoseLock, Spend
<1>4. budget' = budget \/ \E k \in FaultKinds : Spend(k)
  <2>1. CASE \E p \in Publishers : Resolve(p) \/ Worker(p)
    BY <2>1 DEF Worker, Resolve, ReadHead, AcquireLock, Reserve, StageGold, Upload,
       AssertInputs, Submit, Mark, CheckObject, CheckPrepared, Publish,
       Quarantine, Reopen, SettleReopen, RecheckObject, RebuildGoldStage,
       Cleanup, Discard, Fail, Abandon, Unlock, FaultKinds
  <2>2. CASE Verifier
    BY <2>2 DEF Verifier, VerifierLoad, VerifierRecord
  <2>3. CASE Faults
    BY <2>3 DEF Faults, VerifyTimeout, PublishReplyLost, Crash, LoseLock,
       VerifierCrash, LoseStage, LoseObject, Expire, ChangeSource, FaultKinds
  <2>4. CASE UNCHANGED vars
    BY <2>4
  <2>5. QED
    BY <2>1, <2>2, <2>3, <2>4 DEF Next, Terminating
<1>5. QED
  BY <1>2, <1>3, <1>4

\* LockKept holds of every behaviour of an instance whose budget of lost locks
\* is zero, such as those of the runs that check the properties above.
THEOREM LockKeptWithoutLosses ==
  ASSUME MaxFaults["lock_loss"] = 0
  PROVE  Spec => LockKept
<1>1. Init => budget["lock_loss"] = 0
  BY DEF Init
<1>2. TypeOK /\ budget["lock_loss"] = 0 /\ [Next]_vars =>
        /\ (budget["lock_loss"] = 0)'
        /\ [\A r \in Runs : ~ LoseLock(r)]_vars
  BY BudgetStays
<1>3. QED
  BY <1>1, <1>2, TypeCorrect, PTL DEF Spec, LockKept

=============================================================================
