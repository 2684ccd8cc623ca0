------------------------- MODULE StagedPublication -------------------------
(***************************************************************************)
(* Staged publication of one scope (tenant, workspace, dataset, layer) by  *)
(* the refinement service: refinement/app/staged_publication_engine.py,    *)
(* publication_*.py and the SQL functions under infra/init_gold.           *)
(*                                                                         *)
(* Publishers are materialize() calls of the service's workers; each SQL   *)
(* function call is one transaction and so one step, and everything a      *)
(* worker keeps in Python between two calls is lost in a crash.  The       *)
(* publication verifier is a separate process that serves one request at   *)
(* a time.  The environment changes the inputs, loses objects and stage    *)
(* tables, lets attestations expire and drops connections, each within a   *)
(* named budget.                                                           *)
(***************************************************************************)
EXTENDS Naturals

CONSTANTS
  Publishers,  \* workers that may materialize the dataset
  Runs,        \* run identities: uuid5 of the scope, the input and contract
               \*   digests and the expected head (PublicationIdentity.build)
  Base,        \* the head before any staged run: none, or the legacy run
  BaseGen,     \* the generation of Base: 0 for none, 1 for a legacy run
  Legacy,      \* the legacy rows the upgrade copied into the scope's public
               \*   relation; NoData without a legacy run
  ExpectedOf,  \* the expected head a run's identity was built from
  InputOf,     \* the input and contract digests it was built from, as the
               \*   version of the sources they describe
  MaxCands,    \* bound on the verification candidates ever submitted
  NoData,      \* no rows: a missing table, a NULL object
  Torn,        \* rows computed from two versions of the inputs
  NoOne,       \* nobody holds the lock
  Layer,       \* "silver" or "gold"
  RowCount,    \* number of rows of a materialization
  Shape,       \* its column types
  Recurring,   \* materialize() is called again and again; otherwise the
               \*   calls are bounded by a budget too
  MaxFaults    \* budget of every kind of fault and of environment events

FaultKinds == {"start", "source", "crash", "lock_loss", "reply_lost",
               "timeout", "verifier_crash", "object_loss", "stage_loss", "expiry"}

Data == Nat \cup {Torn}
Content == Data \cup {NoData}

\* Verification candidates in the order of their submission.  An attestation
\* has the id of the candidate it attests.
Cands == 1..MaxCands
NoCand == 0

ASSUME LayerAssumption == Layer \in {"silver", "gold"}
ASSUME BaseAssumption == Base \notin Runs /\ BaseGen \in {0, 1}
\* The upgrade gives only gold scopes a legacy run, and only if they have rows.
ASSUME LegacyAssumption ==
  /\ Legacy \in Content
  /\ BaseGen = 1 <=> Legacy # NoData
  /\ BaseGen = 1 => Layer = "gold"
ASSUME IdentityAssumption ==
  /\ ExpectedOf \in [Runs -> Runs \cup {Base}]
  /\ InputOf \in [Runs -> Nat]
  /\ \A r, s \in Runs :
       ExpectedOf[r] = ExpectedOf[s] /\ InputOf[r] = InputOf[s] => r = s
ASSUME DistinctAssumption ==
  /\ NoOne \notin Publishers
  /\ Torn \notin Nat
  /\ NoData \notin Data
ASSUME BoundAssumption == MaxCands \in Nat /\ MaxFaults \in [FaultKinds -> Nat]
ASSUME RecurringAssumption == Recurring \in BOOLEAN
ASSUME ContentAssumption ==
  /\ DOMAIN RowCount = DOMAIN Shape
  /\ Torn \in DOMAIN Shape
  /\ Legacy # NoData => Legacy \in DOMAIN Shape

VARIABLES
  (* dataset_publication_heads and materialization_receipts *)
  head, gen, receiptGen, receiptObject,
  (* materialization_runs; recovery says whether recovery_reason is set,
     staged whether staging_table is *)
  status, attempt, object, staged, recovery,
  (* materialization_evidence: the attestation it cites, or NoCand *)
  evidence,
  (* the run's table in omega_publication_stage, then in
     omega_publication_gold, and the scope's rows in the public relation *)
  stage, gold, public,
  (* materialization_verification_candidates and materialization_attestations *)
  cstatus, cbody, live, consumed, invalidated,
  (* session advisory lock of each run *)
  lock,
  (* the verifier: requests on its socket, and the one it is serving *)
  requests, serving,
  (* each worker's position and what it keeps in Python *)
  pc, run, input, built, cand, recovering, restage,
  (* version of the inputs, objects in the lake, remaining budgets *)
  source, stored, budget

headVars  == <<head, gen, receiptGen, receiptObject>>
runVars   == <<status, attempt, object, staged, recovery, evidence>>
tableVars == <<stage, gold, public>>
candVars  == <<cstatus, cbody, live, consumed, invalidated>>
dbVars    == <<headVars, runVars, tableVars, candVars>>
verVars   == <<requests, serving>>
localVars == <<run, input, built, cand, recovering, restage>>
envVars   == <<source, stored, budget>>
vars      == <<dbVars, verVars, lock, pc, localVars, envVars>>

RunStatus == {"absent", "reserved", "prepared", "published", "failed",
              "recoverable_failed"}
CandStatus == {"none", "pending", "attested", "expired"}
Labels == {"idle", "head", "lock", "reserve", "stage", "upload", "assert",
           "submit", "verify", "mark", "check", "check_prepared", "publish",
           "quarantine", "reopen", "settle", "recheck", "rebuild", "cleanup",
           "discard", "fail", "abandon", "unlock"}

CandBody == [run : Runs \cup {Base}, attempt : Nat, object : Content]
NoBody == [run |-> Base, attempt |-> 0, object |-> NoData]

Init ==
  /\ head = Base /\ gen = BaseGen
  /\ receiptGen = [r \in Runs |-> 0]
  /\ receiptObject = [r \in Runs |-> NoData]
  /\ status = [r \in Runs |-> "absent"]
  /\ attempt = [r \in Runs |-> 0]
  /\ object = [r \in Runs |-> NoData]
  /\ staged = [r \in Runs |-> FALSE]
  /\ recovery = [r \in Runs |-> FALSE]
  /\ evidence = [r \in Runs |-> NoCand]
  /\ stage = [r \in Runs |-> NoData]
  /\ gold = [r \in Runs |-> NoData]
  /\ public = Legacy
  /\ cstatus = [c \in Cands |-> "none"]
  /\ cbody = [c \in Cands |-> NoBody]
  /\ live = {} /\ consumed = {} /\ invalidated = {}
  /\ lock = [r \in Runs |-> NoOne]
  /\ requests = {} /\ serving = {}
  /\ pc = [p \in Publishers |-> "idle"]
  /\ run = [p \in Publishers |-> Base]
  /\ input = [p \in Publishers |-> 0]
  /\ built = [p \in Publishers |-> NoData]
  /\ cand = [p \in Publishers |-> NoCand]
  /\ recovering = [p \in Publishers |-> FALSE]
  /\ restage = [p \in Publishers |-> FALSE]
  /\ source = 1 /\ stored = {} /\ budget = MaxFaults

-----------------------------------------------------------------------------
(* Helpers *)

Spend(kind) == budget[kind] > 0 /\ budget' = [budget EXCEPT ![kind] = @ - 1]

Goto(p, label) == pc' = [pc EXCEPT ![p] = label]

At(p, label) == pc[p] = label

\* An exception between the reservation and the preparation: run_lock's
\* handler follows it, after _recover_prepared's own during a recovery.
Failure(p) == IF recovering[p] THEN "cleanup" ELSE "fail"

Stored(r, d) == <<r, d>> \in stored

\* What a query over the inputs yields to a worker that resolved them at i.  It
\* is bound to the objects and relations resolved then: a gold relation whose
\* head has moved on reads as empty, a replaced object as something else.
Rows(i) == IF source = i THEN i ELSE Torn

\* The attestations of run r.
AttestationsOf(r) == {c \in Cands : cstatus[c] = "attested" /\ cbody[c].run = r}

\* Attestations mark_prepared accepts for object d of run r.
Usable(r, d) ==
  {c \in AttestationsOf(r) : /\ cbody[c].attempt = attempt[r]
                             /\ cbody[c].object = d
                             /\ c \in live
                             /\ c \notin consumed
                             /\ c \notin invalidated}

\* The evidence and attestation publish_materialization requires.
Authorized(r) ==
  /\ evidence[r] \in Cands
  /\ LET c == evidence[r] IN
       /\ cbody[c] = [run |-> r, attempt |-> attempt[r], object |-> object[r]]
       /\ c \in consumed
       /\ c \notin invalidated
       /\ c \in live

NotPublished(r) == head # r /\ receiptGen[r] = 0

-----------------------------------------------------------------------------
(* materialize(): resolve the inputs, read the head, take the run's lock *)

\* resolve_input_state, before any lock is held.
Resolve(p) ==
  /\ At(p, "idle")
  /\ IF Recurring THEN UNCHANGED budget ELSE Spend("start")
  /\ input' = [input EXCEPT ![p] = source]
  /\ Goto(p, "head")
  /\ UNCHANGED <<dbVars, verVars, lock, run, built, cand, recovering, restage,
                 source, stored>>

\* Mutant: any published head counts as current.
ReplayAnyHead(p) ==
  head # Base /\ Goto(p, "idle") /\ UNCHANGED run

\* The head already has these digests: the result is a replay when its object
\* verifies and an exception when it does not; nothing is kept either way.
Replay(p) ==
  /\ head # Base
  /\ InputOf[head] = input[p]
  /\ Goto(p, "idle")
  /\ UNCHANGED run

\* Otherwise the run's identity is built from the inputs and the head.
Identify(p) ==
  /\ head # Base => InputOf[head] # input[p]
  /\ \E r \in Runs :
       /\ ExpectedOf[r] = head
       /\ InputOf[r] = input[p]
       /\ run' = [run EXCEPT ![p] = r]
  /\ Goto(p, "lock")

ReadHead(p) ==
  /\ At(p, "head")
  /\ Replay(p) \/ Identify(p)
  /\ UNCHANGED <<dbVars, verVars, lock, input, built, cand, recovering,
                 restage, envVars>>

\* Mutant: pg_try_advisory_lock with its result ignored.
AcquireLockUnchecked(p) ==
  /\ At(p, "lock")
  /\ lock' = [lock EXCEPT ![run[p]] = p]
  /\ Goto(p, "reserve")
  /\ UNCHANGED <<dbVars, verVars, localVars, envVars>>

\* run_lock: pg_advisory_lock on a connection of its own.
AcquireLock(p) ==
  /\ At(p, "lock")
  /\ lock[run[p]] = NoOne
  /\ lock' = [lock EXCEPT ![run[p]] = p]
  /\ Goto(p, "reserve")
  /\ UNCHANGED <<dbVars, verVars, localVars, envVars>>

-----------------------------------------------------------------------------
(* reserve_materialization *)

Retryable(r) == status[r] \in {"failed", "recoverable_failed"}

FirstStep == IF Layer = "gold" THEN "stage" ELSE "upload"

ReserveConflict(p, r) ==
  /\ status[r] = "absent" \/ Retryable(r)
  /\ head # ExpectedOf[r]
  /\ Goto(p, "fail")
  /\ UNCHANGED dbVars

ReserveNew(p, r) ==
  /\ status[r] = "absent"
  /\ head = ExpectedOf[r]
  /\ status' = [status EXCEPT ![r] = "reserved"]
  /\ attempt' = [attempt EXCEPT ![r] = 1]
  /\ Goto(p, FirstStep)
  /\ UNCHANGED <<headVars, object, staged, recovery, evidence, tableVars,
                 candVars>>

ReserveRetry(p, r) ==
  /\ Retryable(r)
  /\ head = ExpectedOf[r]
  /\ invalidated' = invalidated \cup AttestationsOf(r)
  /\ status' = [status EXCEPT ![r] = "reserved"]
  /\ staged' = [staged EXCEPT ![r] = FALSE]
  /\ object' = [object EXCEPT ![r] = NoData]
  /\ recovery' = [recovery EXCEPT ![r] = FALSE]
  /\ attempt' = [attempt EXCEPT ![r] = @ + 1]
  /\ Goto(p, FirstStep)
  /\ UNCHANGED <<headVars, evidence, tableVars, cstatus, cbody, live, consumed>>

\* The run exists: what _materialize_locked does follows from its status.
ReserveExisting(p, r) ==
  /\ \/ status[r] = "reserved" /\ Goto(p, FirstStep)
     \/ status[r] = "prepared" /\ Goto(p, "check_prepared")
     \/ status[r] = "published" /\ Goto(p, "unlock")
  /\ UNCHANGED dbVars

Reserve(p) ==
  /\ At(p, "reserve")
  /\ \/ ReserveConflict(p, run[p])
     \/ ReserveNew(p, run[p])
     \/ ReserveRetry(p, run[p])
     \/ ReserveExisting(p, run[p])
  /\ UNCHANGED <<verVars, lock, localVars, envVars>>

-----------------------------------------------------------------------------
(* Building: the stage table, the object, the dependency check *)

\* create_gold_stage and the insertion of the rows, in one transaction.
CreateGoldStage(r, rows) ==
  /\ status[r] = "reserved"
  /\ stage' = [stage EXCEPT ![r] = rows]
  /\ staged' = [staged EXCEPT ![r] = TRUE]
  /\ UNCHANGED <<headVars, status, attempt, object, recovery, evidence, gold,
                 public, candVars>>

StageGold(p) ==
  /\ At(p, "stage")
  /\ \/ /\ CreateGoldStage(run[p], Rows(input[p]))
        /\ built' = [built EXCEPT ![p] = Rows(input[p])]
        /\ Goto(p, "upload")
     \/ /\ status[run[p]] # "reserved"
        /\ Goto(p, "fail")
        /\ UNCHANGED <<dbVars, built>>
  /\ UNCHANGED <<verVars, lock, run, input, cand, recovering, restage, envVars>>

\* _copy_to_parquet and _upload_local_parquet: the object's key is its digest
\* under the run's prefix, so storing it again changes nothing.  A gold object
\* holds the rows read back from the stage, a silver one the query's.
Upload(p) ==
  /\ At(p, "upload")
  /\ LET rows == IF Layer = "gold" THEN built[p] ELSE Rows(input[p]) IN
       /\ built' = [built EXCEPT ![p] = rows]
       /\ stored' = stored \cup {<<run[p], rows>>}
  /\ Goto(p, "assert")
  /\ UNCHANGED <<dbVars, verVars, lock, run, input, cand, recovering, restage,
                 source, budget>>

\* Mutant: the inputs are not resolved again.
InputsAssumedUnchanged(p) == TRUE

InputsUnchanged(p) == source = input[p]

\* _assert_inputs_unchanged, then _verify_parquet_evidence.
AssertInputs(p) ==
  /\ At(p, "assert")
  /\ Goto(p, IF InputsUnchanged(p) /\ Stored(run[p], built[p])
             THEN "submit" ELSE "fail")
  /\ UNCHANGED <<dbVars, verVars, lock, localVars, envVars>>

-----------------------------------------------------------------------------
(* The verification candidate and the verifier *)

\* A pending candidate with the same digest, not yet overdue.
Reusable(r, d) ==
  {c \in Cands : /\ cstatus[c] = "pending"
                 /\ c \in live
                 /\ cbody[c] = [run |-> r, attempt |-> attempt[r], object |-> d]}

\* Overdue candidates of this attempt are marked expired before an insertion.
Overdue(r) ==
  {c \in Cands : /\ cstatus[c] = "pending"
                 /\ c \notin live
                 /\ cbody[c].run = r
                 /\ cbody[c].attempt = attempt[r]}

\* submit_verification_candidate, which returns candidate c.
SubmitCandidate(r, d, c) ==
  \/ c \in Reusable(r, d) /\ UNCHANGED dbVars
  \/ /\ Reusable(r, d) = {}
     /\ cstatus[c] = "none"
     /\ \A b \in Cands : cstatus[b] = "none" => c <= b
     /\ cstatus' = [b \in Cands |-> IF b = c THEN "pending"
                                    ELSE IF b \in Overdue(r) THEN "expired"
                                    ELSE cstatus[b]]
     /\ cbody' = [cbody EXCEPT
                    ![c] = [run |-> r, attempt |-> attempt[r], object |-> d]]
     /\ live' = live \cup {c}
     /\ UNCHANGED <<headVars, runVars, tableVars, consumed, invalidated>>

\* The candidate is submitted and the request sent to the verifier's socket.
Submit(p) ==
  /\ At(p, "submit")
  /\ \/ /\ status[run[p]] = "reserved"
        /\ \E c \in Cands :
             /\ SubmitCandidate(run[p], built[p], c)
             /\ cand' = [cand EXCEPT ![p] = c]
             /\ requests' = requests \cup {<<p, c>>}
        /\ Goto(p, "verify")
     \/ /\ status[run[p]] # "reserved"
        /\ Goto(p, Failure(p))
        /\ UNCHANGED <<dbVars, cand, requests>>
  /\ UNCHANGED <<serving, lock, run, input, built, recovering, restage, envVars>>

\* The verifier's answer reaches the worker if it is still waiting for it.
Answer(p, c, ok) ==
  pc' = IF At(p, "verify") /\ cand[p] = c
        THEN [pc EXCEPT ![p] = IF ok THEN "mark" ELSE Failure(p)]
        ELSE pc

Attestable(c) == cstatus[c] = "pending" /\ c \in live

\* serve() accepts one connection; load_verification_candidate, then the
\* checks of the object against the candidate.
VerifierLoad(p, c) ==
  /\ serving = {}
  /\ <<p, c>> \in requests
  /\ requests' = requests \ {<<p, c>>}
  /\ IF Attestable(c) /\ Stored(cbody[c].run, cbody[c].object)
     THEN serving' = {<<p, c>>} /\ UNCHANGED pc
     ELSE serving' = {} /\ Answer(p, c, FALSE)
  /\ UNCHANGED <<dbVars, lock, localVars, envVars>>

\* record_attestation, whose expiry is the candidate's, and the answer.
VerifierRecord(p, c) ==
  /\ <<p, c>> \in serving
  /\ serving' = {}
  /\ cstatus' = IF Attestable(c) THEN [cstatus EXCEPT ![c] = "attested"]
                ELSE cstatus
  /\ Answer(p, c, Attestable(c))
  /\ UNCHANGED <<headVars, runVars, tableVars, cbody, live, consumed,
                 invalidated, requests, lock, localVars, envVars>>

\* The client gives up after 30 s; the request stays with the verifier.
VerifyTimeout(p) ==
  /\ At(p, "verify")
  /\ Spend("timeout")
  /\ Goto(p, Failure(p))
  /\ UNCHANGED <<dbVars, verVars, lock, localVars, source, stored>>

-----------------------------------------------------------------------------
(* mark_prepared *)

\* The stage table is the run's and has as many rows as the object.
StageMatches(r, d) ==
  Layer = "gold" => /\ staged[r]
                    /\ stage[r] # NoData
                    /\ RowCount[stage[r]] = RowCount[d]

\* A replay of the evidence matches only under the same attestation, which a
\* new one never is: evidence already there is a mismatch.
MarkAccepted(r, d) ==
  /\ status[r] # "published"
  /\ StageMatches(r, d)
  /\ Usable(r, d) # {}
  /\ evidence[r] = NoCand

MarkPrepared(r, d) ==
  /\ \E c \in Usable(r, d) :
       /\ \A b \in Usable(r, d) : b <= c
       /\ consumed' = consumed \cup {c}
       /\ evidence' = [evidence EXCEPT ![r] = c]
  /\ object' = [object EXCEPT ![r] = d]
  /\ status' = [status EXCEPT ![r] = "prepared"]
  /\ staged' = [staged EXCEPT ![r] = (Layer = "gold")]
  /\ UNCHANGED <<headVars, attempt, recovery, tableVars, cstatus, cbody, live,
                 invalidated>>

Mark(p) ==
  /\ At(p, "mark")
  /\ \/ /\ MarkAccepted(run[p], built[p])
        /\ MarkPrepared(run[p], built[p])
        /\ \/ /\ Goto(p, IF recovering[p] THEN "publish" ELSE "check")
              /\ UNCHANGED budget
           \/ /\ Spend("reply_lost")
              /\ Goto(p, Failure(p))
     \/ /\ ~ MarkAccepted(run[p], built[p])
        /\ Goto(p, Failure(p))
        /\ UNCHANGED <<dbVars, budget>>
  /\ UNCHANGED <<verVars, lock, localVars, source, stored>>

\* _verify_prepared_object after a first preparation: its exception leaves the
\* run prepared.
CheckObject(p) ==
  /\ At(p, "check")
  /\ Goto(p, IF Stored(run[p], built[p]) THEN "publish" ELSE "fail")
  /\ UNCHANGED <<dbVars, verVars, lock, localVars, envVars>>

\* The same check on a run found prepared: its exception starts a recovery.
CheckPrepared(p) ==
  /\ At(p, "check_prepared")
  /\ Goto(p, IF Stored(run[p], object[run[p]]) THEN "publish" ELSE "reopen")
  /\ restage' = [restage EXCEPT ![p] = FALSE]
  /\ UNCHANGED <<dbVars, verVars, lock, run, input, built, cand, recovering,
                 envVars>>

-----------------------------------------------------------------------------
(* publish_materialization *)

TypeConflict(r) ==
  public # NoData /\ Shape[public] # Shape[stage[r]]

\* Mutant: the head is not compared with the expected one.
PublishOutcomeWithoutCas(r) ==
  IF receiptGen[r] # 0 THEN "replayed"
  ELSE IF status[r] # "prepared" \/ ~ Authorized(r) THEN "23514"
  ELSE IF Layer = "gold" /\ (~ staged[r] \/ stage[r] = NoData) THEN "55000"
  ELSE "published"

\* The SQLSTATE publish_materialization ends with, in the order of its tests.
PublishOutcome(r) ==
  IF receiptGen[r] # 0 THEN "replayed"
  ELSE IF status[r] # "prepared" \/ ~ Authorized(r) THEN "23514"
  ELSE IF head # ExpectedOf[r] THEN "40001"
  ELSE IF Layer = "silver" THEN "published"
  ELSE IF ~ staged[r] \/ stage[r] = NoData THEN "55000"
  ELSE IF TypeConflict(r) THEN "42804"
  ELSE "published"

\* Mutant: the public rows are written once and not replaced.
PublishKeepingPublicRows(r) ==
  /\ receiptGen' = [receiptGen EXCEPT ![r] = gen + 1]
  /\ receiptObject' = [receiptObject EXCEPT ![r] = object[r]]
  /\ head' = r
  /\ gen' = gen + 1
  /\ status' = [status EXCEPT ![r] = "published"]
  /\ gold' = [gold EXCEPT ![r] = stage[r]]
  /\ stage' = [stage EXCEPT ![r] = NoData]
  /\ public' = IF public = NoData THEN stage[r] ELSE public
  /\ UNCHANGED <<attempt, object, staged, recovery, evidence, candVars>>

\* The head, the receipt, the status and, for gold, the move of the stage into
\* the gold schema and the replacement of the public rows: one transaction.
PublishMaterialization(r) ==
  /\ receiptGen' = [receiptGen EXCEPT ![r] = gen + 1]
  /\ receiptObject' = [receiptObject EXCEPT ![r] = object[r]]
  /\ head' = r
  /\ gen' = gen + 1
  /\ status' = [status EXCEPT ![r] = "published"]
  /\ IF Layer = "gold"
     THEN /\ gold' = [gold EXCEPT ![r] = stage[r]]
          /\ stage' = [stage EXCEPT ![r] = NoData]
          /\ public' = stage[r]
     ELSE UNCHANGED tableVars
  /\ UNCHANGED <<attempt, object, staged, recovery, evidence, candVars>>

Deterministic(sqlstate) == sqlstate \in {"23514", "42804"}

\* Where a failed publish call leads: the loser of the head's compare-and-swap
\* is quarantined; a first failure starts a recovery; a failure after a
\* recovery is settled by _settle_failed_publication.
PublishFailure(p, sqlstate) ==
  /\ Goto(p, IF sqlstate = "40001" THEN "quarantine"
             ELSE IF ~ recovering[p] THEN "reopen"
             ELSE IF Deterministic(sqlstate) THEN "quarantine"
             ELSE "fail")
  /\ restage' = [restage EXCEPT ![p] = (sqlstate = "55000")]

Publish(p) ==
  /\ At(p, "publish")
  /\ LET outcome == PublishOutcome(run[p]) IN
       \/ /\ outcome = "replayed"
          /\ Goto(p, "unlock")
          /\ UNCHANGED <<dbVars, restage>>
       \/ /\ outcome = "published"
          /\ PublishMaterialization(run[p])
          /\ Goto(p, "unlock")
          /\ UNCHANGED restage
       \/ /\ outcome \notin {"replayed", "published"}
          /\ PublishFailure(p, outcome)
          /\ UNCHANGED dbVars
  /\ UNCHANGED <<verVars, lock, run, input, built, cand, recovering, envVars>>

\* The connection drops during the call: the transaction may have committed,
\* and the worker sees an error without an SQLSTATE.
PublishReplyLost(p) ==
  /\ At(p, "publish")
  /\ Spend("reply_lost")
  /\ \/ /\ PublishOutcome(run[p]) = "published"
        /\ PublishMaterialization(run[p])
     \/ UNCHANGED dbVars
  /\ PublishFailure(p, "")
  /\ UNCHANGED <<verVars, lock, run, input, built, cand, recovering, source,
                 stored>>

\* quarantine_prepared: nothing but an exception for a run that is not
\* prepared any more.
QuarantinePrepared(r) ==
  IF status[r] = "prepared" /\ NotPublished(r)
  THEN /\ evidence' = [evidence EXCEPT ![r] = NoCand]
       /\ invalidated' = invalidated \cup AttestationsOf(r)
       /\ stage' = [stage EXCEPT ![r] = IF staged[r] THEN NoData ELSE @]
       /\ status' = [status EXCEPT ![r] = "recoverable_failed"]
       /\ recovery' = [recovery EXCEPT ![r] = TRUE]
       /\ staged' = [staged EXCEPT ![r] = FALSE]
       /\ UNCHANGED <<headVars, attempt, object, gold, public, cstatus, cbody,
                      live, consumed>>
  ELSE UNCHANGED dbVars

Quarantine(p) ==
  /\ At(p, "quarantine")
  /\ QuarantinePrepared(run[p])
  /\ Goto(p, "fail")
  /\ UNCHANGED <<verVars, lock, localVars, envVars>>

-----------------------------------------------------------------------------
(* _recover_prepared *)

\* Mutant: a published run can be reopened.
ReopenableWhenPublished(r) ==
  evidence[r] \in Cands /\ cbody[evidence[r]].object = object[r]

Reopenable(r) ==
  /\ status[r] = "prepared"
  /\ NotPublished(r)
  /\ evidence[r] \in Cands
  /\ cbody[evidence[r]].object = object[r]

\* Mutant: the evidence of the previous attempt is kept.
ReopenKeepingEvidence(r) ==
  /\ invalidated' = invalidated \cup AttestationsOf(r)
  /\ cstatus' = [c \in Cands |->
                   IF cstatus[c] = "pending" /\ cbody[c].run = r
                   THEN "expired" ELSE cstatus[c]]
  /\ status' = [status EXCEPT ![r] = "reserved"]
  /\ attempt' = [attempt EXCEPT ![r] = @ + 1]
  /\ recovery' = [recovery EXCEPT ![r] = TRUE]
  /\ UNCHANGED <<headVars, object, staged, evidence, tableVars, cbody, live,
                 consumed>>

\* reopen_prepared_materialization: a new attempt on the same object.
ReopenPrepared(r) ==
  /\ invalidated' = invalidated \cup AttestationsOf(r)
  /\ cstatus' = [c \in Cands |->
                   IF cstatus[c] = "pending" /\ cbody[c].run = r
                   THEN "expired" ELSE cstatus[c]]
  /\ evidence' = [evidence EXCEPT ![r] = NoCand]
  /\ status' = [status EXCEPT ![r] = "reserved"]
  /\ attempt' = [attempt EXCEPT ![r] = @ + 1]
  /\ recovery' = [recovery EXCEPT ![r] = TRUE]
  /\ UNCHANGED <<headVars, object, staged, tableVars, cbody, live, consumed>>

Reopen(p) ==
  /\ At(p, "reopen")
  /\ \/ /\ Reopenable(run[p])
        /\ ReopenPrepared(run[p])
        /\ \/ /\ Goto(p, "recheck")
              /\ recovering' = [recovering EXCEPT ![p] = TRUE]
              /\ built' = [built EXCEPT ![p] = object[run[p]]]
              /\ UNCHANGED budget
           \/ /\ Spend("reply_lost")
              /\ Goto(p, "fail")
              /\ UNCHANGED <<recovering, built>>
     \/ /\ ~ Reopenable(run[p])
        /\ Goto(p, "settle")
        /\ UNCHANGED <<dbVars, recovering, built, budget>>
  /\ UNCHANGED <<verVars, lock, run, input, cand, restage, source, stored>>

\* _settle_failed_reopen: a run that was published after all is a success.
SettleReopen(p) ==
  /\ At(p, "settle")
  /\ IF status[run[p]] = "published"
     THEN Goto(p, "unlock") /\ UNCHANGED dbVars
     ELSE Goto(p, "fail") /\ QuarantinePrepared(run[p])
  /\ UNCHANGED <<verVars, lock, localVars, envVars>>

\* The reopened object must still verify; a missing stage is rebuilt from it.
RecheckObject(p) ==
  /\ At(p, "recheck")
  /\ Goto(p, IF ~ Stored(run[p], built[p]) THEN "cleanup"
             ELSE IF Layer = "gold" /\ restage[p] THEN "rebuild"
             ELSE "submit")
  /\ UNCHANGED <<dbVars, verVars, lock, localVars, envVars>>

RebuildGoldStage(p) ==
  /\ At(p, "rebuild")
  /\ \/ /\ Stored(run[p], built[p])
        /\ CreateGoldStage(run[p], built[p])
        /\ Goto(p, "submit")
     \/ /\ ~ Stored(run[p], built[p]) \/ status[run[p]] # "reserved"
        /\ Goto(p, "cleanup")
        /\ UNCHANGED dbVars
  /\ UNCHANGED <<verVars, lock, localVars, envVars>>

-----------------------------------------------------------------------------
(* Failure: cleanup of a recovery, then run_lock's handler *)

\* Mutant: a run is abandoned whatever its status.
AbandonPublished(r) ==
  /\ stage' = [stage EXCEPT ![r] = IF staged[r] THEN NoData ELSE @]
  /\ invalidated' = invalidated \cup AttestationsOf(r)
  /\ status' = [status EXCEPT ![r] = IF recovery[r] THEN "recoverable_failed"
                                     ELSE "failed"]
  /\ staged' = [staged EXCEPT ![r] = FALSE]
  /\ UNCHANGED <<headVars, attempt, object, recovery, evidence, gold, public,
                 cstatus, cbody, live, consumed>>

\* abandon_materialization; the evidence of the run is left alone.
AbandonMaterialization(r) ==
  IF status[r] \in {"absent", "published"} \/ head = r
  THEN UNCHANGED dbVars
  ELSE /\ stage' = [stage EXCEPT ![r] = IF staged[r] THEN NoData ELSE @]
       /\ invalidated' = invalidated \cup AttestationsOf(r)
       /\ status' = [status EXCEPT
                       ![r] = IF recovery[r] THEN "recoverable_failed"
                              ELSE "failed"]
       /\ staged' = [staged EXCEPT ![r] = FALSE]
       /\ UNCHANGED <<headVars, attempt, object, recovery, evidence, gold,
                      public, cstatus, cbody, live, consumed>>

\* _recover_prepared reads the status, then abandons unless it is prepared.
Cleanup(p) ==
  /\ At(p, "cleanup")
  /\ Goto(p, IF status[run[p]] = "prepared" THEN "fail" ELSE "discard")
  /\ UNCHANGED <<dbVars, verVars, lock, localVars, envVars>>

Discard(p) ==
  /\ At(p, "discard")
  /\ AbandonMaterialization(run[p])
  /\ Goto(p, "fail")
  /\ UNCHANGED <<verVars, lock, localVars, envVars>>

\* run_lock's handler reads the status, then abandons an unprepared run.
Fail(p) ==
  /\ At(p, "fail")
  /\ Goto(p, IF status[run[p]] \in {"prepared", "published", "recoverable_failed"}
             THEN "unlock" ELSE "abandon")
  /\ UNCHANGED <<dbVars, verVars, lock, localVars, envVars>>

Abandon(p) ==
  /\ At(p, "abandon")
  /\ AbandonMaterialization(run[p])
  /\ Goto(p, "unlock")
  /\ UNCHANGED <<verVars, lock, localVars, envVars>>

\* What a worker holds is gone once it returns or dies.
Forget(p) ==
  /\ run' = [run EXCEPT ![p] = Base]
  /\ input' = [input EXCEPT ![p] = 0]
  /\ built' = [built EXCEPT ![p] = NoData]
  /\ cand' = [cand EXCEPT ![p] = NoCand]
  /\ recovering' = [recovering EXCEPT ![p] = FALSE]
  /\ restage' = [restage EXCEPT ![p] = FALSE]


ReleaseBy(p) == lock' = [r \in Runs |-> IF lock[r] = p THEN NoOne ELSE lock[r]]

Unlock(p) ==
  /\ At(p, "unlock")
  /\ ReleaseBy(p)
  /\ Goto(p, "idle")
  /\ Forget(p)
  /\ UNCHANGED <<dbVars, verVars, envVars>>

-----------------------------------------------------------------------------
(* Faults and the environment *)

\* The worker dies; its connections close, which releases the lock.
Crash(p) ==
  /\ ~ At(p, "idle")
  /\ Spend("crash")
  /\ ReleaseBy(p)
  /\ Goto(p, "idle")
  /\ Forget(p)
  /\ UNCHANGED <<dbVars, verVars, source, stored>>

\* The verifier dies and is started again: its socket's connections close, and
\* every waiting client reads an empty answer.
VerifierCrash ==
  /\ Spend("verifier_crash")
  /\ requests' = {} /\ serving' = {}
  /\ pc' = [p \in Publishers |-> IF At(p, "verify") THEN Failure(p) ELSE pc[p]]
  /\ UNCHANGED <<dbVars, lock, localVars, source, stored>>

\* The idle connection that holds the lock drops while its worker goes on.
LoseLock(r) ==
  /\ lock[r] # NoOne
  /\ Spend("lock_loss")
  /\ lock' = [lock EXCEPT ![r] = NoOne]
  /\ UNCHANGED <<dbVars, verVars, pc, localVars, source, stored>>

ChangeSource ==
  /\ Spend("source")
  /\ source' = source + 1
  /\ UNCHANGED <<dbVars, verVars, lock, pc, localVars, stored>>

LoseObject(r, d) ==
  /\ Stored(r, d)
  /\ Spend("object_loss")
  /\ stored' = stored \ {<<r, d>>}
  /\ UNCHANGED <<dbVars, verVars, lock, pc, localVars, source>>

LoseStage(r) ==
  /\ stage[r] # NoData
  /\ Spend("stage_loss")
  /\ stage' = [stage EXCEPT ![r] = NoData]
  /\ UNCHANGED <<headVars, runVars, gold, public, candVars, verVars, lock, pc,
                 localVars, source, stored>>

\* 15 minutes pass for a candidate and the attestation it became.
Expire(c) ==
  /\ c \in live
  /\ Spend("expiry")
  /\ live' = live \ {c}
  /\ UNCHANGED <<headVars, runVars, tableVars, cstatus, cbody, consumed,
                 invalidated, verVars, lock, pc, localVars, source, stored>>

-----------------------------------------------------------------------------
Worker(p) ==
  \/ ReadHead(p) \/ AcquireLock(p) \/ Reserve(p) \/ StageGold(p) \/ Upload(p)
  \/ AssertInputs(p) \/ Submit(p) \/ Mark(p) \/ CheckObject(p)
  \/ CheckPrepared(p) \/ Publish(p) \/ Quarantine(p) \/ Reopen(p)
  \/ SettleReopen(p) \/ RecheckObject(p) \/ RebuildGoldStage(p) \/ Cleanup(p)
  \/ Discard(p) \/ Fail(p) \/ Abandon(p) \/ Unlock(p)

Verifier ==
  \E p \in Publishers, c \in Cands : VerifierLoad(p, c) \/ VerifierRecord(p, c)

Faults ==
  \/ \E p \in Publishers : VerifyTimeout(p) \/ PublishReplyLost(p) \/ Crash(p)
  \/ \E r \in Runs : LoseLock(r) \/ LoseStage(r)
  \/ \E o \in stored : LoseObject(o[1], o[2])
  \/ \E c \in Cands : Expire(c)
  \/ ChangeSource
  \/ VerifierCrash

\* Every worker has returned and the bound on calls is reached.
Terminating ==
  /\ \A p \in Publishers : At(p, "idle")
  /\ budget["start"] = 0
  /\ UNCHANGED vars

Next ==
  \/ \E p \in Publishers : Resolve(p) \/ Worker(p)
  \/ Verifier
  \/ Faults
  \/ Terminating

Spec == Init /\ [][Next]_vars

\* Worker threads and the verifier's loop run; the scheduler calls materialize
\* again; PostgreSQL grants an advisory lock to its waiters in turn.  Faults
\* and changes of the inputs are never owed.
FairSpec ==
  /\ Spec
  /\ \A p \in Publishers : /\ WF_vars(Resolve(p))
                            /\ WF_vars(Worker(p))
                            /\ SF_vars(AcquireLock(p))
  /\ WF_vars(Verifier)

-----------------------------------------------------------------------------
(* Properties *)

DatabaseType ==
  /\ head \in Runs \cup {Base}
  /\ gen \in Nat
  /\ receiptGen \in [Runs -> Nat]
  /\ receiptObject \in [Runs -> Content]
  /\ status \in [Runs -> RunStatus]
  /\ attempt \in [Runs -> Nat]
  /\ object \in [Runs -> Content]
  /\ staged \in [Runs -> BOOLEAN]
  /\ recovery \in [Runs -> BOOLEAN]
  /\ evidence \in [Runs -> Cands \cup {NoCand}]
  /\ stage \in [Runs -> Content]
  /\ gold \in [Runs -> Content]
  /\ public \in Content
  /\ cstatus \in [Cands -> CandStatus]
  /\ cbody \in [Cands -> CandBody]
  /\ live \subseteq Cands
  /\ consumed \subseteq Cands
  /\ invalidated \subseteq Cands

WorkerType ==
  /\ pc \in [Publishers -> Labels]
  /\ run \in [Publishers -> Runs \cup {Base}]
  /\ \A p \in Publishers : pc[p] \notin {"idle", "head"} => run[p] \in Runs
  /\ input \in [Publishers -> Nat]
  /\ built \in [Publishers -> Content]
  /\ cand \in [Publishers -> Cands \cup {NoCand}]
  /\ recovering \in [Publishers -> BOOLEAN]
  /\ restage \in [Publishers -> BOOLEAN]

EnvironmentType ==
  /\ lock \in [Runs -> Publishers \cup {NoOne}]
  /\ requests \subseteq Publishers \X Cands
  /\ serving \subseteq Publishers \X Cands
  /\ source \in Nat
  /\ stored \subseteq Runs \X Content
  /\ budget \in [FaultKinds -> Nat]

\* The columns have the types and the CHECK domains of the schema, and every
\* worker, lock and request names something that exists.
TypeOK == DatabaseType /\ WorkerType /\ EnvironmentType

HasReceipt(r) == receiptGen[r] # 0

\* The receipts of a scope form one chain: a receipt's generation follows that
\* of the head its run was built against (the base when there is none), no two
\* receipts share a generation, none is skipped, and the head is the run of the
\* last one.
PublishedChain ==
  /\ head = Base => gen = BaseGen
  /\ head # Base => HasReceipt(head) /\ receiptGen[head] = gen
  /\ \A r \in Runs : HasReceipt(r) =>
       /\ receiptGen[r] \in 1..gen
       /\ ExpectedOf[r] = Base => receiptGen[r] = BaseGen + 1
       /\ ExpectedOf[r] # Base =>
            /\ HasReceipt(ExpectedOf[r])
            /\ receiptGen[r] = receiptGen[ExpectedOf[r]] + 1
  /\ \A r, s \in Runs :
       HasReceipt(r) /\ receiptGen[r] = receiptGen[s] => r = s
  /\ \A g \in (BaseGen + 1)..gen : \E r \in Runs : receiptGen[r] = g

\* A published run keeps the authority it was published under: its evidence
\* cites an attestation of its current attempt and of the very object the
\* receipt names, consumed once and never invalidated, whatever other workers,
\* late attestations and recoveries do afterwards.
PublishedAuthority ==
  \A r \in Runs : HasReceipt(r) =>
    /\ status[r] = "published"
    /\ evidence[r] \in consumed \ invalidated
    /\ cstatus[evidence[r]] = "attested"
    /\ cbody[evidence[r]] =
         [run |-> r, attempt |-> attempt[r], object |-> receiptObject[r]]

\* What is published was computed from exactly the inputs the run's identity
\* names, never from a mixture of two versions, although nothing stops the
\* inputs from changing during the build.
PublishedObjectIsExact ==
  \A r \in Runs : HasReceipt(r) => receiptObject[r] = InputOf[r]

\* A worker that resolved its inputs long ago never publishes them over a head
\* built from newer ones.
PublishedInputsAdvance ==
  \A r \in Runs : HasReceipt(r) /\ ExpectedOf[r] # Base =>
    InputOf[ExpectedOf[r]] < InputOf[r]

\* The gold relation of the head and the public rows are the object that was
\* attested, although mark_prepared compares only row counts.  Needs the lock.
GoldRowsAreAttested ==
  Layer = "gold" /\ head # Base =>
    gold[head] = receiptObject[head] /\ public = receiptObject[head]

\* Evidence exists exactly while a run is prepared or published, so a retry
\* never meets evidence of an earlier attempt (a mismatch mark_prepared would
\* report on every retry).  Needs the lock.
EvidenceFollowsStatus ==
  \A r \in Runs :
    evidence[r] # NoCand <=> status[r] \in {"prepared", "published"}

\* The only way a prepared run cannot be reopened is that it was published:
\* _settle_failed_reopen never quarantines.  Needs the lock.
ReopenFailsOnlyWhenPublished ==
  \A p \in Publishers : pc[p] = "settle" => status[run[p]] = "published"

\* A receipt, the object and the attempt behind it, its evidence and its gold
\* relation never change again, and the head moves by one generation at a time.
PublicationIsFinal ==
  [][/\ \A r \in Runs : HasReceipt(r) =>
          /\ receiptGen'[r] = receiptGen[r]
          /\ receiptObject'[r] = receiptObject[r]
          /\ object'[r] = object[r]
          /\ attempt'[r] = attempt[r]
          /\ evidence'[r] = evidence[r]
          /\ gold'[r] = gold[r]
     /\ head' # head => gen' = gen + 1]_vars

\* Staged publication implements the chain of module Publication.
Chain == INSTANCE Publication

ImplementsPublication == Chain!Spec


\* Once the inputs settle and the faults stop, some call publishes them and
\* nothing replaces them: every fault leaves the scope in a state from which a
\* later call succeeds.
HeadCatchesUp == <>[](head # Base /\ InputOf[head] = source)

-----------------------------------------------------------------------------
(* The inductive invariant behind the safety properties.  It holds whether or
   not the lock does: the SQL functions guard what they change. *)

\* A run that was built against a published head has newer inputs than it.
Ahead(r) == ExpectedOf[r] # Base => InputOf[ExpectedOf[r]] < InputOf[r]

\* Only rows computed from the run's own inputs, newer than its expected
\* head's, are ever submitted for verification.
CandidatesAreExact ==
  \A c \in Cands : cstatus[c] # "none" =>
    /\ cbody[c].run \in Runs
    /\ cbody[c].object = InputOf[cbody[c].run]
    /\ InputOf[cbody[c].run] <= source
    /\ Ahead(cbody[c].run)

\* Only attestations are consumed, and evidence cites a consumed one of its run.
EvidenceIsConsumed ==
  /\ \A c \in consumed : cstatus[c] = "attested"
  /\ \A r \in Runs : evidence[r] # NoCand =>
       evidence[r] \in consumed /\ cbody[evidence[r]].run = r

Building == {"lock", "reserve", "stage", "upload", "assert"}
Proving == {"submit", "verify", "mark", "check", "recheck", "rebuild"}

\* What a worker knows while it builds, and once its inputs are confirmed.
WorkerIsExact(p) ==
  /\ pc[p] # "idle" => input[p] <= source
  /\ pc[p] \in Building =>
       /\ input[p] = InputOf[run[p]]
       /\ ExpectedOf[run[p]] # Base =>
            /\ HasReceipt(ExpectedOf[run[p]])
            /\ InputOf[ExpectedOf[run[p]]] # InputOf[run[p]]
  /\ pc[p] = "assert" \/ (pc[p] = "upload" /\ Layer = "gold") =>
       built[p] = input[p] \/ input[p] < source
  /\ pc[p] \in Proving =>
       /\ built[p] = InputOf[run[p]]
       /\ InputOf[run[p]] <= source
       /\ Ahead(run[p])

\* The same of every worker.
WorkersAreExact == \A p \in Publishers : WorkerIsExact(p)

Locked == Labels \ {"idle", "head", "lock"}

\* Whoever waits is waited on by somebody who can still act: a run's lock is held
\* by a worker that is inside run_lock for that run, the request of a worker
\* that waits for an answer is queued or being served, and one is served at a
\* time.
WaitsAreOwed ==
  /\ \A r \in Runs : lock[r] # NoOne => pc[lock[r]] \in Locked /\ run[lock[r]] = r
  /\ \A p \in Publishers : pc[p] = "verify" => <<p, cand[p]>> \in requests \cup serving
  /\ \A x, y \in serving : x = y

\* The inductive invariant: the chain and its authority, exact candidates,
\* workers that only prove what they built from the inputs they resolved, and
\* nobody left waiting for a worker that is gone.
SafetyInv ==
  /\ TypeOK
  /\ PublishedChain
  /\ PublishedAuthority
  /\ CandidatesAreExact
  /\ EvidenceIsConsumed
  /\ WorkersAreExact
  /\ WaitsAreOwed

-----------------------------------------------------------------------------
(* How long a call can take. *)

Recovery == {"recheck", "rebuild", "submit", "verify", "mark", "publish",
             "quarantine", "cleanup", "discard", "fail", "abandon", "unlock"}

\* A worker that has reopened a prepared run is on the way from there to its
\* return: it never reopens a second time.
RecoversOnce ==
  \A p \in Publishers :
    /\ recovering[p] => pc[p] \in Recovery
    /\ pc[p] \in {"recheck", "rebuild"} => recovering[p]

\* The labels a worker can still pass through, at most: from the publication on
\* there is a second way through submit, verify and mark, once.
StepsLeft(p) ==
  LET left == CASE pc[p] = "idle" -> 0
                [] pc[p] = "unlock" -> 1
                [] pc[p] = "abandon" -> 2
                [] pc[p] = "fail" -> 3
                [] pc[p] \in {"discard", "quarantine", "settle"} -> 4
                [] pc[p] = "cleanup" -> 5
                [] pc[p] = "publish" -> 6
                [] pc[p] \in {"check", "check_prepared"} -> 7
                [] pc[p] = "mark" -> 8
                [] pc[p] = "verify" -> 9
                [] pc[p] = "submit" -> 10
                [] pc[p] \in {"rebuild", "assert"} -> 11
                [] pc[p] \in {"recheck", "upload"} -> 12
                [] pc[p] \in {"reopen", "stage"} -> 13
                [] pc[p] = "reserve" -> 14
                [] pc[p] = "lock" -> 15
                [] OTHER -> 16
      first == {"head", "lock", "reserve", "stage", "upload", "assert", "submit",
                "verify", "mark", "check", "check_prepared", "publish"}
  IN IF pc[p] \in first /\ ~ recovering[p] THEN left + 8 ELSE left

\* Whatever else happens, a call that has begun only ever comes closer to its
\* return: retries are left to the next call, and a call that meets a damaged
\* prepared run recovers it once.
CallsAdvance ==
  [][\A p \in Publishers :
       \/ pc'[p] = pc[p] /\ recovering'[p] = recovering[p]
       \/ pc[p] = "idle" /\ pc'[p] = "head"
       \/ StepsLeft(p)' < StepsLeft(p)]_vars

-----------------------------------------------------------------------------
(* The inductive invariant behind the properties that need the lock. *)

\* run_lock's connection never drops while its worker goes on.
LockKept == [][\A r \in Runs : ~ LoseLock(r)]_vars

Reserving == {"stage", "upload", "assert", "submit", "verify", "mark",
              "recheck", "rebuild"}

\* Between run_lock's entry and its exit a worker holds the lock of its run.
LockIsHeld == \A p \in Publishers : pc[p] \in Locked => lock[run[p]] = p

\* What a worker read of its run's status is still true when it acts on it.
StatusIsKnown(p) ==
  /\ pc[p] \in Reserving => status[run[p]] = "reserved"
  /\ pc[p] \in {"check", "check_prepared", "publish"} =>
       status[run[p]] = "prepared"
  /\ pc[p] = "reopen" => status[run[p]] \in {"prepared", "published"}
  /\ pc[p] = "settle" => status[run[p]] = "published"
  /\ pc[p] \in {"discard", "abandon"} => status[run[p]] # "prepared"

\* The stage table of its run holds the rows it built, unless it was lost.
StageIsKnown(p) ==
  Layer = "gold" /\ pc[p] \in Reserving \ {"stage"} =>
    stage[run[p]] \in {built[p], NoData}

\* A prepared run can be reopened, and its stage table holds the rows of its
\* object, unless it was lost.
PreparedIsWhole(r) ==
  status[r] = "prepared" =>
    /\ cbody[evidence[r]].object = object[r]
    /\ Layer = "gold" => stage[r] \in {object[r], NoData}

\* The inductive invariant, beside SafetyInv, while no lock is lost: workers
\* exclude each other from a run, know its status and its stage table, and so
\* keep evidence, prepared rows and published rows together.
LockInv ==
  /\ LockIsHeld
  /\ \A p \in Publishers : StatusIsKnown(p) /\ StageIsKnown(p)
  /\ \A r \in Runs : PreparedIsWhole(r)
  /\ EvidenceFollowsStatus
  /\ GoldRowsAreAttested

=============================================================================
