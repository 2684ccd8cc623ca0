------------------------- MODULE ServiceJobsProofs -------------------------
(***************************************************************************)
(* Safety of the job registry and its clients for any numbers of tasks,    *)
(* keys and jobs, any registry limit and any faults.  The registry changes *)
(* in six ways (a call that only evicts, a call that creates a job, the    *)
(* end of a job's work, a restart, the passing of time, nothing); each of  *)
(* them keeps the parts of ServiceInv that speak of the service alone.     *)
(* The tasks' part follows from what they are answered.                    *)
(***************************************************************************)
EXTENDS ServiceJobs, FiniteSetTheorems, TLAPS

USE DEF jobVars, registryVars, serviceVars, taskVars, vars

-----------------------------------------------------------------------------
(* Eviction *)

\* _evict() drops registered jobs that have finished, and nothing else.
LEMMA EvictedFinished ==
  ASSUME TypeOK, JobsAreConsistent, NEW i \in Evicted
  PROVE  i \in jobs /\ status[i] \in Outcomes
BY DEF Evicted, TypeOK, JobsAreConsistent

\* The keys left after _evict() name jobs left, or nothing.
LEMMA KeysLeftAreRegistered ==
  ASSUME TypeOK, KeysAreConsistent, NEW k \in Keys
  PROVE  /\ KeysLeft[k] \in Ids \cup {NoJob}
         /\ KeysLeft[k] # NoJob => /\ KeysLeft[k] = keys[k]
                                   /\ keys[k] \in jobs \ Evicted
                                   /\ key[keys[k]] = k
         /\ keys[k] \in jobs \ Evicted => KeysLeft[k] = keys[k]
BY DEF KeysLeft, TypeOK, KeysAreConsistent

\* What claim() finds for a key is a job of that key that is still there.
LEMMA CurrentIsRegistered ==
  ASSUME TypeOK, KeysAreConsistent, NEW k \in Keys, Current(k) # NoJob
  PROVE  Current(k) \in jobs \ Evicted /\ Current(k) \in Ids /\ key[Current(k)] = k
BY DEF Current, TypeOK, KeysAreConsistent, Ids, NoJob

\* When claim() creates a job, no job of its key runs, and none that has
\* succeeded is left.
LEMMA NothingToAttachTo ==
  ASSUME TypeOK, JobsAreConsistent, KeysAreConsistent,
         NEW k \in Keys, NEW x \in Targets,
         ~Conflicts(k, x), ~Attachable(k),
         NEW i \in Ids, key[i] = k
  PROVE  status[i] # "running" /\ (status[i] = "succeeded" => i \notin jobs \ Evicted)
<1>1. ASSUME i \in jobs \ Evicted, status[i] # "failed" PROVE FALSE
  <2>1. keys[k] = i
    BY <1>1 DEF KeysAreConsistent
  <2>2. Current(k) = i
    BY <1>1, <2>1 DEF Current
  <2>3. i # NoJob
    BY DEF Ids, NoJob
  <2>4. QED
    BY <1>1, <2>2, <2>3 DEF Conflicts, Attachable
<1>2. status[i] = "running" => i \in jobs \ Evicted
  BY EvictedFinished DEF JobsAreConsistent, Outcomes
<1>3. QED
  BY <1>1, <1>2

\* The registry is finite, and so is what _evict() leaves of it.
LEMMA RegistryIsFinite ==
  ASSUME TypeOK, NEW S, S \subseteq jobs
  PROVE  IsFiniteSet(S) /\ Cardinality(S) \in Nat /\ Cardinality(S) <= Cardinality(jobs)
<1>1. IsFiniteSet(Ids)
  BY BoundAssumption, FS_Interval DEF Ids
<1>2. IsFiniteSet(jobs)
  BY <1>1, FS_Subset DEF TypeOK
<1>3. QED
  BY <1>2, FS_Subset, FS_CardinalityType

\* Jobs in the registry are jobs that were issued, so there are no more of them.
LEMMA RegistryWithinIssued ==
  ASSUME TypeOK, JobsAreConsistent
  PROVE  Cardinality(jobs) <= issued
<1>1. jobs \subseteq 1..issued
  <2>1. SUFFICES ASSUME NEW i \in jobs PROVE i \in 1..issued
    OBVIOUS
  <2>2. i \in Ids /\ issued \in Nat /\ ~(i > issued)
    BY BoundAssumption DEF TypeOK, JobsAreConsistent
  <2>3. QED
    BY <2>2, BoundAssumption DEF Ids
<1>2. IsFiniteSet(1..issued) /\ Cardinality(1..issued) = issued
  BY FS_Interval DEF TypeOK
<1>3. QED
  BY <1>1, <1>2, FS_Subset

\* _evict() drops an unexpired job only from a full registry.
LEMMA DroppedWhenFull ==
  ASSUME TypeOK, JobsAreConsistent, NEW i \in Evicted, i \notin expired
  PROVE  issued >= MaxJobs
<1> DEFINE old == jobs \cap expired
           remaining == {j \in jobs \ old : status[j] \in Outcomes}
<1>1. Cardinality(ahead[i] \cap remaining) < Cardinality(jobs \ old) + 1 - MaxJobs
  BY DEF Evicted
<1>2. Cardinality(ahead[i] \cap remaining) \in Nat
  BY RegistryIsFinite
<1>3. /\ Cardinality(jobs \ old) \in Nat
      /\ Cardinality(jobs \ old) <= Cardinality(jobs)
      /\ Cardinality(jobs) \in Nat
  BY RegistryIsFinite
<1>4. QED
  BY <1>1, <1>2, <1>3, RegistryWithinIssued, BoundAssumption DEF TypeOK

-----------------------------------------------------------------------------
(* What can happen to the service *)

\* A claim() that creates a job.
NewJob(k, x) ==
  /\ ~Conflicts(k, x)
  /\ ~Attachable(k)
  /\ ~Full
  /\ Create(k, x)

ServiceNext ==
  \/ UNCHANGED serviceVars
  \/ EvictOnly
  \/ \E k \in Keys, x \in Targets : NewJob(k, x)
  \/ \E i \in Ids, outcome \in Outcomes : Run(i, outcome)
  \/ Restart
  \/ \E i \in Ids : Expire(i)

\* Every step of the system is one of these for the service.
LEMMA NextOnService == [Next]_vars => ServiceNext
<1>1. ASSUME NEW t \in Tasks, ServePost(t) PROVE ServiceNext
  <2>1. KeyOf[t] \in Keys /\ TargetOf[t] \in Targets
    BY KeyAssumption, TargetAssumption
  <2>2. EvictOnly \/ NewJob(KeyOf[t], TargetOf[t])
    BY <1>1 DEF ServePost, Claim, NewJob
  <2>3. QED
    BY <2>1, <2>2 DEF ServiceNext
<1>2. ASSUME NEW t \in Tasks, ServeGet(t) PROVE ServiceNext
  BY <1>2 DEF ServeGet, ServiceNext
<1>3. ASSUME NEW t \in Tasks,
             \/ PostLost(t) \/ GetLost(t) \/ Accept(t) \/ Settle(t) \/ NextStep(t)
             \/ DeadlinePassed(t) \/ Retry(t)
      PROVE  UNCHANGED serviceVars
  BY <1>3 DEF PostLost, GetLost, Accept, Settle, NextStep, DeadlinePassed, Retry
<1>4. QED
  BY <1>1, <1>2, <1>3 DEF Next, ServiceNext, Finished

\* Only a restart uses up the budget of restarts.
LEMMA RestartsCount ==
  ASSUME TypeOK, [Next]_vars
  PROVE  /\ used' \in [FaultKinds -> Nat]
         /\ used'["restart"] = 0 => used["restart"] = 0 /\ ~Restart
<1>1. ASSUME NEW f \in FaultKinds, Fault(f)
      PROVE  /\ used' \in [FaultKinds -> Nat]
             /\ used'["restart"] = 0 => used["restart"] = 0 /\ f # "restart"
  BY <1>1 DEF Fault, TypeOK, FaultKinds
<1>2. "restart" \in FaultKinds /\ "lost" \in FaultKinds /\ "expiry" \in FaultKinds
  BY DEF FaultKinds
<1>3. CASE Restart
  BY <1>1, <1>2, <1>3 DEF Restart
<1>4. CASE ~Restart
  <2>1. used' = used \/ \E f \in FaultKinds \ {"restart"} : Fault(f)
    BY <1>2, <1>4 DEF Next, ServePost, ServeGet, PostLost, GetLost, Accept, Settle, NextStep,
       DeadlinePassed, Retry, Expire, Run, Finished
  <2>2. QED
    BY <1>1, <1>4, <2>1 DEF TypeOK
<1>5. QED
  BY <1>3, <1>4

-----------------------------------------------------------------------------
(* Types *)

\* The service's variables keep their types.
LEMMA ServiceType ==
  ASSUME TypeOK, KeysAreConsistent, ServiceNext
  PROVE  /\ issued' \in 0..MaxIds
         /\ key' \in [Ids -> Keys \cup {Unset}]
         /\ target' \in [Ids -> Targets \cup {Unset}]
         /\ status' \in [Ids -> Statuses]
         /\ ahead' \in [Ids -> SUBSET Ids]
         /\ expired' \in SUBSET Ids
         /\ jobs' \in SUBSET Ids
         /\ keys' \in [Keys -> Ids \cup {NoJob}]
<1>1. KeysLeft \in [Keys -> Ids \cup {NoJob}]
  BY KeysLeftAreRegistered DEF KeysLeft
<1>2. AheadLeft \in [Ids -> SUBSET Ids]
  BY DEF AheadLeft, TypeOK
<1>3. CASE UNCHANGED serviceVars
  BY <1>3 DEF TypeOK
<1>4. CASE EvictOnly
  BY <1>1, <1>2, <1>4 DEF EvictOnly, TypeOK
<1>5. ASSUME NEW k \in Keys, NEW x \in Targets, NewJob(k, x)
      PROVE  /\ issued' \in 0..MaxIds
             /\ key' \in [Ids -> Keys \cup {Unset}]
             /\ target' \in [Ids -> Targets \cup {Unset}]
             /\ status' \in [Ids -> Statuses]
             /\ ahead' \in [Ids -> SUBSET Ids]
             /\ expired' \in SUBSET Ids
             /\ jobs' \in SUBSET Ids
             /\ keys' \in [Keys -> Ids \cup {NoJob}]
  <2>1. issued + 1 \in Ids /\ issued' = issued + 1
    BY <1>5 DEF NewJob, Create
  <2>2. issued' \in 0..MaxIds
    BY <2>1, BoundAssumption DEF Ids
  <2> DEFINE new == issued + 1
  <2>3. /\ new \in Ids
        /\ key' = [key EXCEPT ![new] = k]
        /\ target' = [target EXCEPT ![new] = x]
        /\ status' = [status EXCEPT ![new] = "running"]
        /\ jobs' = (jobs \ Evicted) \cup {new}
        /\ keys' = [KeysLeft EXCEPT ![k] = new]
        /\ ahead' = AheadLeft
        /\ expired' = expired
    BY <1>5 DEF NewJob, Create
  <2> HIDE DEF new
  <2>4. QED
    BY <1>1, <1>2, <2>2, <2>3 DEF TypeOK, Statuses
<1>6. ASSUME NEW i \in Ids, NEW outcome \in Outcomes, Run(i, outcome)
      PROVE  /\ status' \in [Ids -> Statuses]
             /\ ahead' \in [Ids -> SUBSET Ids]
             /\ UNCHANGED <<issued, key, target, expired, jobs, keys>>
  BY <1>6 DEF Run, TypeOK, Statuses, Outcomes
<1>7. CASE Restart
  BY <1>7 DEF Restart, TypeOK, Statuses
<1>8. ASSUME NEW i \in Ids, Expire(i)
      PROVE  /\ expired' \in SUBSET Ids
             /\ UNCHANGED <<issued, key, target, status, registryVars>>
  BY <1>8 DEF Expire, TypeOK
<1>9. QED
  BY <1>3, <1>4, <1>5, <1>6, <1>7, <1>8 DEF ServiceNext, TypeOK

\* Whatever the service answers is well formed.
LEMMA ReplyType ==
  ASSUME TypeOK, NEW t \in Tasks, NEW code \in Codes,
         NEW i \in Ids \cup {NoJob}, NEW s \in Statuses, Reply(t, code, i, s)
  PROVE  answer' \in [Tasks -> [code : Codes, id : Ids \cup {NoJob}, status : Statuses]]
BY DEF Reply, Answer, TypeOK

\* Every step keeps the types.
LEMMA TypeStep == TypeOK /\ KeysAreConsistent /\ [Next]_vars => TypeOK'
<1> SUFFICES ASSUME TypeOK, KeysAreConsistent, [Next]_vars PROVE TypeOK'
  OBVIOUS
<1>1. ServiceNext
  BY NextOnService
<1> DEFINE TasksType ==
      /\ pc \in [Tasks -> Labels]
      /\ tries \in [Tasks -> Nat]
      /\ resubmits \in [Tasks -> 0..MaxResubmits]
      /\ held \in [Tasks -> Ids \cup {NoJob}]
      /\ seen \in [Tasks -> Statuses]
      /\ answer \in [Tasks -> [code : Codes, id : Ids \cup {NoJob}, status : Statuses]]
<1>2. TasksType
  BY DEF TypeOK
<1>3. NoAnswer \in [code : Codes, id : Ids \cup {NoJob}, status : Statuses]
  BY DEF NoAnswer, Answer, Codes, Statuses
<1>4. ASSUME NEW t \in Tasks, ServePost(t) PROVE TasksType'
  <2>1. \E code \in Codes, i \in Ids \cup {NoJob}, s \in Statuses : Reply(t, code, i, s)
    <3>1. KeyOf[t] \in Keys
      BY KeyAssumption
    <3>2. Current(KeyOf[t]) # NoJob => status[Current(KeyOf[t])] \in Statuses
                                       /\ Current(KeyOf[t]) \in Ids
      BY <3>1, CurrentIsRegistered DEF TypeOK
    <3>3. QED
      BY <1>4, <3>2 DEF ServePost, Claim, Create, Attachable, Codes, Statuses
  <2>2. answer' \in [Tasks -> [code : Codes, id : Ids \cup {NoJob}, status : Statuses]]
    BY <2>1, ReplyType
  <2>3. QED
    BY <1>2, <1>4, <2>2 DEF ServePost, Labels
<1>5. ASSUME NEW t \in Tasks, ServeGet(t) PROVE TasksType'
  <2>1. \E code \in Codes, i \in Ids \cup {NoJob}, s \in Statuses : Reply(t, code, i, s)
    BY <1>5 DEF ServeGet, Codes, Statuses, TypeOK
  <2>2. answer' \in [Tasks -> [code : Codes, id : Ids \cup {NoJob}, status : Statuses]]
    BY <2>1, ReplyType
  <2>3. QED
    BY <1>2, <1>5, <2>2 DEF ServeGet, Labels
<1>6. ASSUME NEW t \in Tasks, GiveUp(t)
      PROVE  /\ pc' \in [Tasks -> Labels]
             /\ resubmits' \in [Tasks -> 0..MaxResubmits]
             /\ held' \in [Tasks -> Ids \cup {NoJob}]
             /\ seen' \in [Tasks -> Statuses]
  BY <1>2, <1>6, BoundAssumption DEF GiveUp, Labels, Statuses
<1>7. ASSUME NEW t \in Tasks, PostLost(t) \/ GetLost(t) PROVE TasksType'
  <2>1. answer' \in [Tasks -> [code : Codes, id : Ids \cup {NoJob}, status : Statuses]]
    BY <1>2, <1>3, <1>7 DEF PostLost, GetLost, NoMoreAnswer
  <2>2. CASE PostLost(t)
    BY <1>2, <1>6, <2>1, <2>2 DEF PostLost
  <2>3. CASE GetLost(t)
    BY <1>2, <2>1, <2>3 DEF GetLost, Labels
  <2>4. QED
    BY <1>7, <2>2, <2>3
<1>8. ASSUME NEW t \in Tasks, Accept(t) \/ NextStep(t) PROVE TasksType'
  <2>1. answer[t].id \in Ids \cup {NoJob} /\ answer[t].status \in Statuses
    BY <1>2
  <2>2. ASSUME Take(t) \/ GiveUp(t) \/ Resubmit(t)
        PROVE  /\ pc' \in [Tasks -> Labels]
               /\ resubmits' \in [Tasks -> 0..MaxResubmits]
               /\ held' \in [Tasks -> Ids \cup {NoJob}]
               /\ seen' \in [Tasks -> Statuses]
    <3>1. CASE Take(t)
      BY <1>2, <2>1, <3>1 DEF Take, Labels
    <3>2. CASE GiveUp(t)
      BY <1>6, <3>2
    <3>3. CASE Resubmit(t)
      BY <1>2, <3>3, BoundAssumption DEF Resubmit, Labels, Statuses
    <3>4. QED
      BY <2>2, <3>1, <3>2, <3>3
  <2>3. QED
    BY <1>2, <1>3, <1>8, <2>2 DEF Accept, NextStep, NoMoreAnswer
<1>9. ASSUME NEW t \in Tasks, Settle(t) \/ DeadlinePassed(t) \/ Retry(t) PROVE TasksType'
  <2>1. CASE GiveUp(t) /\ UNCHANGED <<tries, answer>>
    BY <1>2, <1>6, <2>1
  <2>2. CASE Settle(t) /\ ~GiveUp(t)
    BY <1>2, <2>2 DEF Settle, Labels
  <2>3. CASE Retry(t)
    BY <1>2, <2>3 DEF Retry, Labels
  <2>4. QED
    BY <1>9, <2>1, <2>2, <2>3 DEF Settle, DeadlinePassed
<1>10. ASSUME UNCHANGED taskVars PROVE TasksType'
  BY <1>2, <1>10
<1>11. TasksType'
  BY <1>4, <1>5, <1>7, <1>8, <1>9, <1>10 DEF Next, Run, Expire, Restart, Finished
<1>12. QED
  BY <1>1, <1>11, ServiceType, RestartsCount DEF TypeOK

-----------------------------------------------------------------------------
(* The service's part of the invariant *)

\* What creating a job does, for the lemmas below.
LEMMA CreateFacts ==
  ASSUME TypeOK, JobsAreConsistent, NEW k \in Keys, NEW x \in Targets, Create(k, x)
  PROVE  \E new \in Ids :
           /\ new = issued + 1 /\ issued' = new
           /\ status[new] = "none" /\ new \notin jobs /\ new \notin expired
           /\ key' = [key EXCEPT ![new] = k]
           /\ target' = [target EXCEPT ![new] = x]
           /\ status' = [status EXCEPT ![new] = "running"]
           /\ jobs' = (jobs \ Evicted) \cup {new}
           /\ keys' = [KeysLeft EXCEPT ![k] = new]
           /\ expired' = expired
<1>1. issued + 1 \in Ids /\ issued \in Nat
  BY DEF Create, TypeOK
<1>2. issued + 1 > issued
  BY <1>1
<1>3. status[issued + 1] = "none"
  BY <1>1, <1>2 DEF JobsAreConsistent
<1>4. issued + 1 \notin jobs /\ issued + 1 \notin expired
  BY <1>1, <1>3 DEF JobsAreConsistent, Outcomes
<1>5. QED
  BY <1>1, <1>3, <1>4 DEF Create

\* Every step keeps JobsAreConsistent.
LEMMA JobsStep ==
  ASSUME TypeOK, JobsAreConsistent, KeysAreConsistent, ServiceNext
  PROVE  JobsAreConsistent'
<1>1. CASE UNCHANGED serviceVars
  BY <1>1 DEF JobsAreConsistent
<1>2. CASE EvictOnly
  BY <1>2, EvictedFinished DEF EvictOnly, JobsAreConsistent, Outcomes
<1>3. ASSUME NEW k \in Keys, NEW x \in Targets, NewJob(k, x) PROVE JobsAreConsistent'
  <2>1. PICK new \in Ids :
           /\ new = issued + 1 /\ issued' = new
           /\ status[new] = "none" /\ new \notin jobs /\ new \notin expired
           /\ key' = [key EXCEPT ![new] = k]
           /\ target' = [target EXCEPT ![new] = x]
           /\ status' = [status EXCEPT ![new] = "running"]
           /\ jobs' = (jobs \ Evicted) \cup {new}
           /\ keys' = [KeysLeft EXCEPT ![k] = new]
           /\ expired' = expired
    BY <1>3, CreateFacts DEF NewJob
  <2>2. issued \in Nat /\ \A i \in Ids : i \in Nat
    BY BoundAssumption DEF TypeOK, Ids
  <2>3. ASSUME NEW i \in Ids
        PROVE  /\ i > issued' <=> status'[i] = "none"
               /\ status'[i] = "running" => i \in jobs'
               /\ i \in jobs' => status'[i] \in {"running", "succeeded", "failed"} /\ key'[i] \in Keys
               /\ i \in expired' => status'[i] \in Outcomes
    <3>1. CASE i = new
      BY <2>1, <2>2, <3>1 DEF TypeOK
    <3>2. CASE i # new
      <4>1. status'[i] = status[i] /\ key'[i] = key[i]
        BY <2>1, <3>2 DEF TypeOK
      <4>2. i > issued' <=> i > issued
        BY <2>1, <2>2, <3>2
      <4>3. i \in jobs' <=> i \in jobs \ Evicted
        BY <2>1, <3>2
      <4>4. status[i] = "running" => i \notin Evicted
        BY EvictedFinished DEF Outcomes
      <4>5. QED
        BY <2>1, <4>1, <4>2, <4>3, <4>4 DEF JobsAreConsistent
    <3>3. QED
      BY <3>1, <3>2
  <2>4. ASSUME NEW i \in Ids, NEW j \in Ids, i < j, j <= issued', key'[i] = key'[j]
        PROVE  status'[i] # "running"
    <3>1. i # new /\ i <= issued
      BY <2>1, <2>2, <2>4
    <3>2. status'[i] = status[i] /\ key'[i] = key[i]
      BY <2>1, <3>1 DEF TypeOK
    <3>3. CASE j = new
      <4>1. key[i] = k
        BY <2>1, <2>4, <3>2, <3>3 DEF TypeOK
      <4>2. QED
        BY <1>3, <3>2, <4>1, NothingToAttachTo DEF NewJob
    <3>4. CASE j # new
      <4>1. j <= issued /\ key'[j] = key[j]
        BY <2>1, <2>2, <2>4, <3>4 DEF TypeOK
      <4>2. QED
        BY <2>4, <3>2, <4>1 DEF JobsAreConsistent
    <3>5. QED
      BY <3>3, <3>4
  <2>5. QED
    BY <2>3, <2>4 DEF JobsAreConsistent
<1>4. ASSUME NEW i \in Ids, NEW outcome \in Outcomes, Run(i, outcome)
      PROVE  JobsAreConsistent'
  <2>1. /\ status' = [status EXCEPT ![i] = outcome]
        /\ status[i] = "running"
        /\ UNCHANGED <<issued, key, expired, jobs>>
    BY <1>4 DEF Run
  <2>2. outcome # "none" /\ outcome # "running"
    BY DEF Outcomes
  <2>3. outcome \in {"running", "succeeded", "failed"}
    BY DEF Outcomes
  <2>4. QED
    BY <2>1, <2>2, <2>3 DEF JobsAreConsistent, TypeOK
<1>5. CASE Restart
  BY <1>5 DEF Restart, JobsAreConsistent, TypeOK, Outcomes
<1>6. ASSUME NEW i \in Ids, Expire(i) PROVE JobsAreConsistent'
  BY <1>6 DEF Expire, JobsAreConsistent
<1>7. QED
  BY <1>1, <1>2, <1>3, <1>4, <1>5, <1>6 DEF ServiceNext

\* Every step keeps KeysAreConsistent.
LEMMA KeysStep ==
  ASSUME TypeOK, JobsAreConsistent, KeysAreConsistent, ServiceNext
  PROVE  KeysAreConsistent'
<1>0. \A i \in jobs \ Evicted : status[i] # "failed" => KeysLeft[key[i]] = i
  BY KeysLeftAreRegistered DEF KeysAreConsistent, JobsAreConsistent, TypeOK
<1>1. CASE UNCHANGED serviceVars
  BY <1>1 DEF KeysAreConsistent
<1>2. CASE EvictOnly
  BY <1>0, <1>2, KeysLeftAreRegistered DEF EvictOnly, KeysAreConsistent
<1>3. ASSUME NEW k \in Keys, NEW x \in Targets, NewJob(k, x) PROVE KeysAreConsistent'
  <2>1. PICK new \in Ids :
           /\ new = issued + 1 /\ issued' = new
           /\ status[new] = "none" /\ new \notin jobs /\ new \notin expired
           /\ key' = [key EXCEPT ![new] = k]
           /\ target' = [target EXCEPT ![new] = x]
           /\ status' = [status EXCEPT ![new] = "running"]
           /\ jobs' = (jobs \ Evicted) \cup {new}
           /\ keys' = [KeysLeft EXCEPT ![k] = new]
           /\ expired' = expired
    BY <1>3, CreateFacts DEF NewJob
  <2>2. KeysLeft \in [Keys -> Ids \cup {NoJob}]
    BY KeysLeftAreRegistered DEF KeysLeft
  <2>3. ASSUME NEW q \in Keys, keys'[q] # NoJob
        PROVE  keys'[q] \in jobs' /\ key'[keys'[q]] = q
    <3>1. CASE q = k
      BY <2>1, <2>2, <3>1 DEF TypeOK
    <3>2. CASE q # k
      <4>1. keys'[q] = KeysLeft[q]
        BY <2>1, <2>2, <3>2
      <4>2. keys'[q] = keys[q] /\ keys[q] \in jobs \ Evicted /\ key[keys[q]] = q
        BY <2>3, <4>1, KeysLeftAreRegistered
      <4>3. QED
        BY <2>1, <4>2 DEF TypeOK
    <3>3. QED
      BY <3>1, <3>2
  <2>4. ASSUME NEW i \in jobs', status'[i] # "failed" PROVE keys'[key'[i]] = i
    <3>1. CASE i = new
      BY <2>1, <2>2, <3>1 DEF TypeOK
    <3>2. CASE i # new
      <4>1. i \in jobs \ Evicted /\ i \in Ids
        BY <2>1, <3>2 DEF TypeOK
      <4>2. status'[i] = status[i] /\ key'[i] = key[i]
        BY <2>1, <3>2, <4>1 DEF TypeOK
      <4>3. key[i] \in Keys
        BY <4>1 DEF JobsAreConsistent
      <4>4. key[i] # k
        BY <1>3, <2>4, <4>1, <4>2, NothingToAttachTo DEF NewJob, JobsAreConsistent
      <4>5. QED
        BY <1>0, <2>1, <2>2, <2>4, <4>1, <4>2, <4>3, <4>4
    <3>3. QED
      BY <3>1, <3>2
  <2>5. QED
    BY <2>3, <2>4 DEF KeysAreConsistent
<1>4. ASSUME NEW i \in Ids, NEW outcome \in Outcomes, Run(i, outcome)
      PROVE  KeysAreConsistent'
  BY <1>4 DEF Run, KeysAreConsistent, TypeOK
<1>5. CASE Restart
  BY <1>5 DEF Restart, KeysAreConsistent
<1>6. ASSUME NEW i \in Ids, Expire(i) PROVE KeysAreConsistent'
  BY <1>6 DEF Expire, KeysAreConsistent
<1>7. QED
  BY <1>1, <1>2, <1>3, <1>4, <1>5, <1>6 DEF ServiceNext

\* Every step keeps the registry within its limit.
LEMMA BoundStep ==
  ASSUME TypeOK, JobsAreConsistent, RegistryIsBounded, ServiceNext
  PROVE  RegistryIsBounded'
<1>1. ASSUME jobs' = jobs \ Evicted \/ jobs' = jobs \/ jobs' = {}
      PROVE  RegistryIsBounded'
  <2>1. jobs' \subseteq jobs
    BY <1>1
  <2>2. /\ Cardinality(jobs') \in Nat
        /\ Cardinality(jobs) \in Nat
        /\ Cardinality(jobs') <= Cardinality(jobs)
    BY <2>1, RegistryIsFinite
  <2>3. QED
    BY <2>2, BoundAssumption DEF RegistryIsBounded
<1>2. ASSUME NEW k \in Keys, NEW x \in Targets, NewJob(k, x) PROVE RegistryIsBounded'
  <2>1. PICK new \in Ids : new \notin jobs /\ jobs' = (jobs \ Evicted) \cup {new}
    BY <1>2, CreateFacts DEF NewJob
  <2>2. IsFiniteSet(jobs \ Evicted) /\ Cardinality(jobs \ Evicted) \in Nat
    BY RegistryIsFinite
  <2>3. Cardinality(jobs') = Cardinality(jobs \ Evicted) + 1
    BY <2>1, <2>2, FS_AddElement
  <2>4. Cardinality(jobs \ Evicted) < MaxJobs
    BY <1>2, <2>2, BoundAssumption DEF NewJob, Full
  <2>5. QED
    BY <2>2, <2>3, <2>4, BoundAssumption DEF RegistryIsBounded
<1>3. QED
  BY <1>1, <1>2 DEF ServiceNext, EvictOnly, Run, Restart, Expire

\* Every step keeps DropsAreExplained.
LEMMA DropsStep ==
  ASSUME TypeOK, JobsAreConsistent, KeysAreConsistent, DropsAreExplained, [Next]_vars
  PROVE  DropsAreExplained'
<1> SUFFICES ASSUME NEW i \in Ids, status'[i] = "succeeded", i \notin jobs' \cup expired',
                    used'["restart"] = 0
             PROVE  issued' >= MaxJobs
  BY DEF DropsAreExplained
<1>1. used["restart"] = 0 /\ ~Restart
  BY RestartsCount
<1>2. issued \in Nat /\ MaxJobs \in Nat
  BY BoundAssumption DEF TypeOK
<1>3. ServiceNext
  BY NextOnService
<1>4. CASE UNCHANGED serviceVars
  BY <1>1, <1>4 DEF DropsAreExplained
<1>5. CASE EvictOnly
  <2>1. i \in Evicted \/ i \notin jobs
    BY <1>5 DEF EvictOnly
  <2>2. QED
    BY <1>1, <1>5, <2>1, DroppedWhenFull DEF EvictOnly, DropsAreExplained
<1>6. ASSUME NEW k \in Keys, NEW x \in Targets, NewJob(k, x) PROVE issued' >= MaxJobs
  <2>1. PICK new \in Ids :
           /\ new = issued + 1 /\ issued' = new
           /\ status' = [status EXCEPT ![new] = "running"]
           /\ jobs' = (jobs \ Evicted) \cup {new}
           /\ expired' = expired
    BY <1>6, CreateFacts DEF NewJob
  <2>2. i # new /\ status[i] = "succeeded" /\ (i \in Evicted \/ i \notin jobs)
    BY <2>1 DEF TypeOK
  <2>3. issued >= MaxJobs
    BY <1>1, <2>1, <2>2, DroppedWhenFull DEF DropsAreExplained
  <2>4. QED
    BY <1>2, <2>1, <2>3
<1>7. ASSUME NEW j \in Ids, NEW outcome \in Outcomes, Run(j, outcome) PROVE issued' >= MaxJobs
  BY <1>1, <1>7 DEF Run, TypeOK, JobsAreConsistent, DropsAreExplained
<1>8. ASSUME NEW j \in Ids, Expire(j) PROVE issued' >= MaxJobs
  BY <1>1, <1>8 DEF Expire, DropsAreExplained
<1>9. QED
  BY <1>1, <1>3, <1>4, <1>5, <1>6, <1>7, <1>8 DEF ServiceNext

\* Every step keeps RerunIsExplained.
LEMMA RerunStep ==
  ASSUME TypeOK, JobsAreConsistent, KeysAreConsistent, DropsAreExplained,
         RerunIsExplained, [Next]_vars
  PROVE  RerunIsExplained'
<1> SUFFICES ASSUME NEW i \in Ids, NEW j \in Ids, i < j, key'[i] = key'[j],
                    status'[i] = "succeeded", status'[j] \in {"running", "succeeded"},
                    i \notin expired', ~(used'["restart"] > 0)
             PROVE  j > MaxJobs
  BY DEF RerunIsExplained
<1>1. used["restart"] = 0 /\ ~Restart
  <2>1. used'["restart"] \in Nat
    BY RestartsCount DEF FaultKinds
  <2>2. used'["restart"] = 0
    BY <2>1
  <2>3. QED
    BY <2>2, RestartsCount
<1>2. issued \in Nat /\ MaxJobs \in Nat /\ i \in Nat /\ j \in Nat
  BY BoundAssumption DEF TypeOK, Ids
<1>3. ServiceNext
  BY NextOnService
<1>4. ASSUME status[i] = "succeeded", status[j] \in {"running", "succeeded"},
             key[i] = key[j], i \notin expired
      PROVE  j > MaxJobs
  BY <1>1, <1>4 DEF RerunIsExplained
<1>5. CASE UNCHANGED serviceVars \/ EvictOnly
  BY <1>4, <1>5 DEF EvictOnly
<1>6. ASSUME NEW k \in Keys, NEW x \in Targets, NewJob(k, x) PROVE j > MaxJobs
  <2>1. PICK new \in Ids :
           /\ new = issued + 1
           /\ key' = [key EXCEPT ![new] = k]
           /\ status' = [status EXCEPT ![new] = "running"]
           /\ expired' = expired
    BY <1>6, CreateFacts DEF NewJob
  <2>2. i # new /\ status[i] = "succeeded" /\ key'[i] = key[i]
    BY <2>1 DEF TypeOK
  <2>3. CASE j = new
    <3>1. key[i] = k
      BY <2>1, <2>2, <2>3 DEF TypeOK
    <3>2. i \in Evicted \/ i \notin jobs
      BY <1>6, <2>2, <3>1, NothingToAttachTo DEF NewJob
    <3>3. issued >= MaxJobs
      BY <1>1, <2>1, <2>2, <3>2, DroppedWhenFull DEF DropsAreExplained
    <3>4. QED
      BY <1>2, <2>1, <2>3, <3>3
  <2>4. CASE j # new
    BY <1>4, <2>1, <2>2, <2>4 DEF TypeOK
  <2>5. QED
    BY <2>3, <2>4
<1>7. ASSUME NEW m \in Ids, NEW outcome \in Outcomes, Run(m, outcome) PROVE j > MaxJobs
  <2>1. /\ status' = [status EXCEPT ![m] = outcome]
        /\ status[m] = "running"
        /\ UNCHANGED <<key, expired>>
    BY <1>7 DEF Run
  <2>2. status[j] \in {"running", "succeeded"}
    BY <2>1 DEF TypeOK
  <2>3. j <= issued
    BY <1>2, <2>2 DEF JobsAreConsistent
  <2>4. i # m
    BY <2>1, <2>3 DEF JobsAreConsistent
  <2>5. QED
    BY <1>4, <2>1, <2>2, <2>4 DEF TypeOK
<1>8. ASSUME NEW m \in Ids, Expire(m) PROVE j > MaxJobs
  BY <1>4, <1>8 DEF Expire
<1>9. QED
  BY <1>1, <1>3, <1>5, <1>6, <1>7, <1>8 DEF ServiceNext

-----------------------------------------------------------------------------
(* The tasks' part of the invariant *)

\* What a snapshot says stays true of its job, and work that is over does not
\* start again.
LEMMA SnapshotStable ==
  ASSUME TypeOK, JobsAreConsistent, ServiceNext,
         NEW t \in Tasks, NEW i \in Ids, NEW s, Snapshot(t, i, s)
  PROVE  /\ status'[i] # "none" /\ key'[i] = KeyOf[t] /\ target'[i] = TargetOf[t]
         /\ s = "succeeded" => status'[i] = "succeeded"
         /\ status[i] # "running" => status'[i] # "running"
<1>1. CASE UNCHANGED serviceVars \/ EvictOnly
  BY <1>1 DEF EvictOnly, Snapshot
<1>2. ASSUME NEW k \in Keys, NEW x \in Targets, NewJob(k, x)
      PROVE  status'[i] = status[i] /\ key'[i] = key[i] /\ target'[i] = target[i]
  BY <1>2, CreateFacts DEF NewJob, Snapshot, TypeOK
<1>3. ASSUME NEW m \in Ids, NEW outcome \in Outcomes, Run(m, outcome)
      PROVE  /\ UNCHANGED <<key, target>>
             /\ status'[i] = status[i] \/ (status[i] = "running" /\ status'[i] \in Outcomes)
  BY <1>3 DEF Run, TypeOK
<1>4. CASE Restart
  BY <1>4 DEF Restart, Snapshot, TypeOK
<1>5. ASSUME NEW m \in Ids, Expire(m) PROVE UNCHANGED <<key, target, status>>
  BY <1>5 DEF Expire
<1>6. QED
  BY <1>1, <1>2, <1>3, <1>4, <1>5 DEF ServiceNext, Snapshot, Outcomes

\* A task that does not move stays consistent.
LEMMA TaskFrame ==
  ASSUME TypeOK, JobsAreConsistent, ServiceNext, NEW t \in Tasks, TaskIsConsistent(t),
         pc'[t] = pc[t], held'[t] = held[t], seen'[t] = seen[t], answer'[t] = answer[t]
  PROVE  TaskIsConsistent(t)'
<1>1. ASSUME held[t] # NoJob
      PROVE  /\ status'[held[t]] # "none"
             /\ key'[held[t]] = KeyOf[t] /\ target'[held[t]] = TargetOf[t]
             /\ seen[t] = "succeeded" => status'[held[t]] = "succeeded"
             /\ status[held[t]] # "running" => status'[held[t]] # "running"
  <2>1. held[t] \in Ids /\ Snapshot(t, held[t], seen[t])
    BY <1>1 DEF TypeOK, TaskIsConsistent
  <2>2. QED
    BY <2>1, SnapshotStable
<1>2. ASSUME answer[t].id # NoJob
      PROVE  /\ status'[answer[t].id] # "none"
             /\ key'[answer[t].id] = KeyOf[t] /\ target'[answer[t].id] = TargetOf[t]
             /\ answer[t].status = "succeeded" => status'[answer[t].id] = "succeeded"
  <2>1. answer[t].id \in Ids /\ Snapshot(t, answer[t].id, answer[t].status)
    BY <1>2 DEF TypeOK, TaskIsConsistent
  <2>2. QED
    BY <2>1, SnapshotStable
<1>3. QED
  BY <1>1, <1>2 DEF TaskIsConsistent, Snapshot

\* After a try has ended there is nothing to be consistent about.
LEMMA TaskAtRest ==
  ASSUME NEW t \in Tasks, held'[t] = NoJob, answer'[t] = NoAnswer,
         pc'[t] \in {"failed", "post"}
  PROVE  TaskIsConsistent(t)'
BY DEF TaskIsConsistent, NoAnswer, Answer

\* A POST is answered with a job of the task's key and target, or an error.
LEMMA ServePostConsistent ==
  ASSUME TypeOK, JobsAreConsistent, KeysAreConsistent,
         NEW t \in Tasks, TaskIsConsistent(t), ServePost(t), ServiceNext
  PROVE  TaskIsConsistent(t)'
<1> DEFINE k == KeyOf[t]
           x == TargetOf[t]
<1>1. k \in Keys /\ x \in Targets
  BY KeyAssumption, TargetAssumption
<1>2. pc'[t] = "posted" /\ held'[t] = held[t] /\ seen'[t] = seen[t]
  BY DEF ServePost, TypeOK
<1>3. held'[t] # NoJob => Snapshot(t, held[t], seen[t])'
  <2>1. CASE held[t] # NoJob
    <3>1. held[t] \in Ids /\ Snapshot(t, held[t], seen[t])
      BY <2>1 DEF TypeOK, TaskIsConsistent
    <3>2. /\ status'[held[t]] # "none"
          /\ key'[held[t]] = KeyOf[t] /\ target'[held[t]] = TargetOf[t]
          /\ seen[t] = "succeeded" => status'[held[t]] = "succeeded"
      BY <3>1, SnapshotStable
    <3>3. QED
      BY <1>2, <3>2 DEF Snapshot
  <2>2. QED
    BY <1>2, <2>1
<1>4. CASE \E code \in {409, 503} : Reply(t, code, NoJob, "none")
  <2>1. answer'[t].id = NoJob /\ answer'[t].code \in {409, 503}
    BY <1>4 DEF Reply, Answer, TypeOK
  <2>2. QED
    BY <1>2, <1>3, <2>1 DEF TaskIsConsistent
<1>5. CASE ~Conflicts(k, x) /\ Attachable(k) /\ EvictOnly /\ Reply(t, 202, Current(k), status[Current(k)])
  <2>1. /\ answer'[t].id = Current(k)
        /\ answer'[t].status = status[Current(k)]
        /\ answer'[t].code = 202
    BY <1>5 DEF Reply, Answer, TypeOK
  <2>2. Current(k) \in jobs /\ Current(k) \in Ids /\ key[Current(k)] = k
        /\ target[Current(k)] = x /\ Current(k) # NoJob
    BY <1>1, <1>5, CurrentIsRegistered DEF Attachable, Conflicts
  <2>3. status[Current(k)] # "none"
    BY <2>2 DEF JobsAreConsistent
  <2>4. UNCHANGED <<key, target, status>>
    BY <1>5 DEF EvictOnly
  <2> HIDE DEF k, x
  <2>5. QED
    BY <1>2, <1>3, <2>1, <2>2, <2>3, <2>4 DEF TaskIsConsistent, Snapshot, k, x
<1>6. CASE NewJob(k, x) /\ Reply(t, 202, issued + 1, "running")
  <2>1. PICK new \in Ids :
           /\ new = issued + 1
           /\ key' = [key EXCEPT ![new] = k]
           /\ target' = [target EXCEPT ![new] = x]
           /\ status' = [status EXCEPT ![new] = "running"]
    BY <1>1, <1>6, CreateFacts DEF NewJob
  <2>2. answer'[t].id = new /\ answer'[t].status = "running" /\ answer'[t].code = 202
    BY <1>6, <2>1 DEF Reply, Answer, TypeOK
  <2>3. status'[new] = "running" /\ key'[new] = k /\ target'[new] = x /\ new # NoJob
    BY <2>1 DEF TypeOK, Ids, NoJob
  <2>4. QED
    BY <1>2, <1>3, <2>2, <2>3 DEF TaskIsConsistent, Snapshot
<1>7. QED
  BY <1>4, <1>5, <1>6 DEF ServePost, Claim, NewJob

\* A GET is answered with the job asked for, or 404 if its work is over.
LEMMA ServeGetConsistent ==
  ASSUME TypeOK, JobsAreConsistent, NEW t \in Tasks, TaskIsConsistent(t), ServeGet(t)
  PROVE  TaskIsConsistent(t)'
<1>1. /\ pc'[t] = "got" /\ held'[t] = held[t] /\ seen'[t] = seen[t]
      /\ UNCHANGED <<key, target, status>>
      /\ held[t] # NoJob /\ held[t] \in Ids
  BY DEF ServeGet, EvictOnly, TypeOK, TaskIsConsistent
<1>2. Snapshot(t, held[t], seen[t])
  BY <1>1 DEF TaskIsConsistent
<1>3. CASE held[t] \in jobs \ Evicted
  <2>1. /\ answer'[t].code = 200 /\ answer'[t].id = held[t]
        /\ answer'[t].status = status[held[t]]
    BY <1>3 DEF ServeGet, Reply, Answer, TypeOK
  <2>2. QED
    BY <1>1, <1>2, <2>1 DEF TaskIsConsistent, Snapshot
<1>4. CASE held[t] \notin jobs \ Evicted
  <2>1. answer'[t].code = 404 /\ answer'[t].id = NoJob
    BY <1>4 DEF ServeGet, Reply, Answer, TypeOK
  <2>2. status[held[t]] # "running"
    BY <1>1, <1>4, EvictedFinished DEF JobsAreConsistent, Outcomes
  <2>3. QED
    BY <1>1, <1>2, <2>1, <2>2 DEF TaskIsConsistent, Snapshot
<1>5. QED
  BY <1>3, <1>4

\* A task's own steps keep it consistent.
LEMMA OwnStepConsistent ==
  ASSUME TypeOK, NEW t \in Tasks, TaskIsConsistent(t),
         \/ PostLost(t) \/ GetLost(t) \/ Accept(t) \/ Settle(t) \/ NextStep(t)
         \/ DeadlinePassed(t) \/ Retry(t)
  PROVE  TaskIsConsistent(t)'
<1>1. UNCHANGED serviceVars
  BY DEF PostLost, GetLost, Accept, Settle, NextStep, DeadlinePassed, Retry
<1>2. NoAnswer.id = NoJob /\ NoAnswer.code = 0
  BY DEF NoAnswer, Answer
<1>3. CASE GiveUp(t) \/ Resubmit(t) \/ Retry(t)
  <2>1. held'[t] = NoJob /\ pc'[t] \in {"failed", "post"}
    BY <1>3 DEF GiveUp, Resubmit, Retry, TypeOK, TaskIsConsistent
  <2>2. answer'[t] = NoAnswer
    BY <1>3 DEF PostLost, GetLost, Accept, Settle, NextStep, DeadlinePassed, Retry,
       NoMoreAnswer, TypeOK, TaskIsConsistent
  <2>3. QED
    BY <2>1, <2>2, TaskAtRest
<1>4. CASE Take(t) /\ NoMoreAnswer(t) /\ answer[t].code \in {200, 202}
  <2>1. /\ pc'[t] = "settle" /\ held'[t] = answer[t].id /\ seen'[t] = answer[t].status
        /\ answer'[t] = NoAnswer
    BY <1>4 DEF Take, NoMoreAnswer, TypeOK
  <2>2. QED
    BY <1>1, <1>2, <1>4, <2>1 DEF TaskIsConsistent, Snapshot
<1>5. CASE GetLost(t)
  <2>1. /\ pc'[t] = "settle" /\ held'[t] = held[t] /\ seen'[t] = seen[t]
        /\ answer'[t] = NoAnswer /\ held[t] # NoJob
    BY <1>5 DEF GetLost, NoMoreAnswer, TypeOK, TaskIsConsistent
  <2>2. QED
    BY <1>1, <1>2, <2>1 DEF TaskIsConsistent, Snapshot
<1>6. CASE Settle(t) /\ ~GiveUp(t)
  <2>1. /\ pc'[t] \in {"done", "get"} /\ held'[t] = held[t] /\ seen'[t] = seen[t]
        /\ pc'[t] = "done" => seen[t] = "succeeded"
        /\ answer'[t] = NoAnswer /\ held[t] # NoJob
    BY <1>6 DEF Settle, TypeOK, TaskIsConsistent
  <2>2. QED
    BY <1>1, <1>2, <2>1 DEF TaskIsConsistent, Snapshot
<1>7. QED
  BY <1>3, <1>4, <1>5, <1>6 DEF PostLost, Accept, NextStep, DeadlinePassed

\* Every step keeps TasksAreConsistent: the task that moves by the lemmas above,
\* the others because the service changes no job they know of for the worse.
LEMMA TasksStep ==
  ASSUME TypeOK, JobsAreConsistent, KeysAreConsistent, TasksAreConsistent, [Next]_vars
  PROVE  TasksAreConsistent'
<1>1. ServiceNext
  BY NextOnService
<1>2. SUFFICES ASSUME NEW u \in Tasks PROVE TaskIsConsistent(u)'
  BY DEF TasksAreConsistent
<1>3. TaskIsConsistent(u)
  BY DEF TasksAreConsistent
<1> DEFINE Moves(t) ==
      \/ PostLost(t) \/ GetLost(t) \/ Accept(t) \/ Settle(t) \/ NextStep(t)
      \/ DeadlinePassed(t) \/ Retry(t)
<1>4. ASSUME NEW t \in Tasks, ServePost(t) \/ ServeGet(t) \/ Moves(t), t # u
      PROVE  pc'[u] = pc[u] /\ held'[u] = held[u] /\ seen'[u] = seen[u] /\ answer'[u] = answer[u]
  <2>1. CASE ServePost(t) \/ ServeGet(t)
    BY <1>4, <2>1 DEF ServePost, ServeGet, Claim, Reply, TypeOK
  <2>2. CASE Moves(t)
    <3>1. answer'[u] = answer[u]
      BY <1>4, <2>2 DEF PostLost, GetLost, Accept, Settle, NextStep, DeadlinePassed, Retry,
         NoMoreAnswer, TypeOK
    <3>2. CASE Take(t) \/ GiveUp(t) \/ Resubmit(t)
      BY <1>4, <3>1, <3>2 DEF Take, GiveUp, Resubmit, TypeOK
    <3>3. CASE GetLost(t) \/ Settle(t) \/ Retry(t)
      BY <1>4, <3>1, <3>2, <3>3 DEF GetLost, Settle, Retry, TypeOK
    <3>4. QED
      BY <2>2, <3>2, <3>3 DEF PostLost, Accept, NextStep, DeadlinePassed
  <2>3. QED
    BY <1>4, <2>1, <2>2
<1>5. ASSUME NEW t \in Tasks, ServePost(t) \/ ServeGet(t) \/ Moves(t)
      PROVE  TaskIsConsistent(u)'
  <2>1. CASE t # u
    BY <1>1, <1>3, <1>4, <1>5, <2>1, TaskFrame
  <2>2. CASE t = u
    BY <1>1, <1>3, <1>5, <2>2, ServePostConsistent, ServeGetConsistent, OwnStepConsistent
  <2>3. QED
    BY <2>1, <2>2
<1>6. CASE UNCHANGED taskVars
  BY <1>1, <1>3, <1>6, TaskFrame
<1>7. QED
  BY <1>5, <1>6 DEF Next, Run, Expire, Restart, Finished

-----------------------------------------------------------------------------
(* Theorems *)

\* The initial states satisfy the invariant.
LEMMA InitInv == Init => ServiceInv
<1> SUFFICES ASSUME Init PROVE ServiceInv
  OBVIOUS
<1>1. NoAnswer \in [code : Codes, id : Ids \cup {NoJob}, status : Statuses]
  BY DEF NoAnswer, Answer, Codes, Statuses
<1>2. TypeOK
  BY <1>1, BoundAssumption DEF Init, TypeOK, Statuses, Labels
<1>3. JobsAreConsistent
  BY BoundAssumption DEF Init, JobsAreConsistent, Ids
<1>4. KeysAreConsistent
  BY DEF Init, KeysAreConsistent
<1>5. TasksAreConsistent
  BY DEF Init, TasksAreConsistent, TaskIsConsistent, NoAnswer, Answer
<1>6. DropsAreExplained /\ RerunIsExplained
  BY DEF Init, DropsAreExplained, RerunIsExplained
<1>7. RegistryIsBounded
  BY FS_EmptySet, BoundAssumption DEF Init, RegistryIsBounded
<1>8. QED
  BY <1>2, <1>3, <1>4, <1>5, <1>6, <1>7 DEF ServiceInv

\* Every step keeps the invariant.
LEMMA StepInv == ServiceInv /\ [Next]_vars => ServiceInv'
<1> SUFFICES ASSUME ServiceInv, [Next]_vars PROVE ServiceInv'
  OBVIOUS
<1>1. /\ TypeOK /\ JobsAreConsistent /\ KeysAreConsistent /\ TasksAreConsistent
      /\ DropsAreExplained /\ RegistryIsBounded /\ RerunIsExplained
  BY DEF ServiceInv
<1>2. ServiceNext
  BY NextOnService
<1>3. TypeOK'
  BY <1>1, TypeStep
<1>4. JobsAreConsistent' /\ KeysAreConsistent' /\ RegistryIsBounded'
  BY <1>1, <1>2, JobsStep, KeysStep, BoundStep
<1>5. TasksAreConsistent'
  BY <1>1, TasksStep
<1>6. DropsAreExplained' /\ RerunIsExplained'
  BY <1>1, DropsStep, RerunStep
<1>7. QED
  BY <1>3, <1>4, <1>5, <1>6 DEF ServiceInv

\* The inductive invariant holds in every reachable state.
THEOREM ServiceInvariant == Spec => []ServiceInv
BY InitInv, StepInv, PTL DEF Spec

\* The registry and its clients are type correct.
THEOREM ServiceTypes == Spec => []TypeOK
<1>1. ServiceInv => TypeOK
  BY DEF ServiceInv
<1>2. QED
  BY <1>1, ServiceInvariant, PTL

\* claim() never lets two jobs of a key be live, whatever is evicted, fails,
\* expires or restarts.
THEOREM SingleExecution == Spec => []OneLiveJobPerKey
<1>1. ServiceInv => OneLiveJobPerKey
  <2> SUFFICES ASSUME ServiceInv, NEW i \in Ids, NEW j \in Ids,
                      Live(i), Live(j), key[i] = key[j]
               PROVE  i = j
    BY DEF OneLiveJobPerKey
  <2>1. i \in jobs /\ j \in jobs /\ status[i] # "failed" /\ status[j] # "failed"
    BY DEF ServiceInv, JobsAreConsistent, Live
  <2>2. keys[key[i]] = i /\ keys[key[j]] = j
    BY <2>1 DEF ServiceInv, KeysAreConsistent
  <2>3. QED
    BY <2>2
<1>2. QED
  BY <1>1, ServiceInvariant, PTL

\* The registry never exceeds max_jobs.
THEOREM BoundedRegistry == Spec => []RegistryIsBounded
<1>1. ServiceInv => RegistryIsBounded
  BY DEF ServiceInv
<1>2. QED
  BY <1>1, ServiceInvariant, PTL

\* A second run of a key's work after a success has a cause: restart, expiry or
\* a registry that had filled up.
THEOREM RerunsExplained == Spec => []RerunIsExplained
<1>1. ServiceInv => RerunIsExplained
  BY DEF ServiceInv
<1>2. QED
  BY <1>1, ServiceInvariant, PTL

\* run_service_job returns results of the task's own key and target only.
THEOREM OwnResults == Spec => []ResultIsOwn
<1>1. ServiceInv => ResultIsOwn
  BY DEF ServiceInv, TasksAreConsistent, TaskIsConsistent, Snapshot, ResultIsOwn
<1>2. QED
  BY <1>1, ServiceInvariant, PTL

\* A task never submits again while the job it has given up still runs.
THEOREM ResubmissionsAreSafe == Spec => ResubmitsOnlyEndedJobs
<1> DEFINE Safe == \A t \in Tasks : resubmits'[t] > resubmits[t] => status[held[t]] # "running"
<1>1. ASSUME ServiceInv, [Next]_vars PROVE [Safe]_vars
  <2> SUFFICES ASSUME NEW t \in Tasks, resubmits'[t] > resubmits[t]
               PROVE  status[held[t]] # "running"
    OBVIOUS
  <2>1. TypeOK /\ TaskIsConsistent(t)
    BY <1>1 DEF ServiceInv, TasksAreConsistent
  <2>2. resubmits \in [Tasks -> 0..MaxResubmits] /\ resubmits[t] \in Nat
    BY <2>1, BoundAssumption DEF TypeOK
  <2>3. ASSUME NEW u \in Tasks, GiveUp(u) PROVE FALSE
    BY <2>2, <2>3 DEF GiveUp
  <2>4. resubmits' # resubmits
    BY <2>2
  <2>5. \E u \in Tasks : NextStep(u) /\ answer[u].code = 404 /\ Resubmit(u)
    BY <1>1, <2>3, <2>4 DEF Next, ServePost, ServeGet, PostLost, GetLost, Accept, Settle,
       NextStep, DeadlinePassed, Retry, Run, Expire, Restart, Finished, Take
  <2>6. PICK u \in Tasks : NextStep(u) /\ answer[u].code = 404 /\ Resubmit(u)
    BY <2>5
  <2>7. u = t
    BY <2>2, <2>6 DEF Resubmit
  <2>8. QED
    BY <2>1, <2>6, <2>7 DEF NextStep, TaskIsConsistent
<1>2. QED
  BY <1>1, ServiceInvariant, PTL DEF Spec, ResubmitsOnlyEndedJobs
====
