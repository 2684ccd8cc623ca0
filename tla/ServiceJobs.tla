---------------------------- MODULE ServiceJobs ----------------------------
(***************************************************************************)
(* Long-running requests as jobs: the registry and middleware every        *)
(* service runs (refinement/app/async_jobs.py and its identical copies in  *)
(* the cartridges) and the Airflow client that submits, polls and          *)
(* resubmits (airflow/dags/service_job_client.py).                         *)
(*                                                                         *)
(* The service is one event loop.  A handler runs without interruption     *)
(* from claim() to the snapshot it answers with, so each request is one    *)
(* step of the service; the answer travels and is received in a step of    *)
(* its own, when the snapshot may be out of date.  The registry is in      *)
(* memory and is lost, with the work in progress, when the service         *)
(* restarts.                                                               *)
(***************************************************************************)
EXTENDS Integers, FiniteSets

CONSTANTS
  Tasks,         \* Airflow task processes: tasks, and processes of a task that
                 \*   Airflow took for dead and whose retry runs beside them
  Keys,          \* idempotency keys
  KeyOf,         \* the key of a task, the same for all its tries
  Targets,       \* paths and query strings
  TargetOf,      \* the target of a task, whose digest is the fingerprint
  MaxJobs,       \* MAX_JOBS
  MaxResubmits,  \* MAX_RESUBMITS
  MaxTries,      \* tries Airflow gives a task
  MaxIds,        \* bound on the jobs ever created
  Unset,         \* key and target of a job not yet created
  MaxFaults      \* budget of restarts, lost requests or answers, expiries

FaultKinds == {"restart", "lost", "expiry"}

\* Jobs in the order of their creation; uuid4 never repeats.
Ids == 1..MaxIds
NoJob == 0

ASSUME KeyAssumption == KeyOf \in [Tasks -> Keys]
ASSUME TargetAssumption == TargetOf \in [Tasks -> Targets]
ASSUME UnsetAssumption == Unset \notin Keys \cup Targets
ASSUME BoundAssumption ==
  /\ MaxJobs \in Nat \ {0}
  /\ MaxResubmits \in Nat
  /\ MaxTries \in Nat
  /\ MaxIds \in Nat
  /\ MaxFaults \in [FaultKinds -> Nat]

VARIABLES
  \* The service.  job attributes outlive the registry entry: a task may still
  \* hold a snapshot of a job the registry has dropped.
  issued,      \* jobs created so far
  key, target, \* of a job
  status,      \* of a job; "lost" when a restart killed its work
  ahead,       \* registered jobs that finished before it did: the order of
               \*   finished_at
  expired,     \* finished jobs older than ttl_seconds
  jobs,        \* JobRegistry._jobs
  keys,        \* JobRegistry._keys
  \* The tasks.
  pc, tries, resubmits,
  held,        \* the snapshot a task has: the job's id
  seen,        \*   and the job's status in it
  answer,      \* the answer on its way to a task
  used         \* faults so far

jobVars == <<issued, key, target, status, expired>>
registryVars == <<jobs, keys, ahead>>
serviceVars == <<jobVars, registryVars>>
taskVars == <<pc, tries, resubmits, held, seen, answer>>
vars == <<serviceVars, taskVars, used>>

Outcomes == {"succeeded", "failed"}
Statuses == {"none", "running", "succeeded", "failed", "lost"}
Labels == {"post", "posted", "settle", "get", "got", "done", "failed"}
Codes == {0, 200, 202, 404, 409, 503}
Answer(code, i, s) == [code |-> code, id |-> i, status |-> s]
NoAnswer == Answer(0, NoJob, "none")

Init ==
  /\ issued = 0
  /\ key = [i \in Ids |-> Unset]
  /\ target = [i \in Ids |-> Unset]
  /\ status = [i \in Ids |-> "none"]
  /\ ahead = [i \in Ids |-> {}]
  /\ expired = {}
  /\ jobs = {}
  /\ keys = [k \in Keys |-> NoJob]
  /\ pc = [t \in Tasks |-> "post"]
  /\ tries = [t \in Tasks |-> 1]
  /\ resubmits = [t \in Tasks |-> 0]
  /\ held = [t \in Tasks |-> NoJob]
  /\ seen = [t \in Tasks |-> "none"]
  /\ answer = [t \in Tasks |-> NoAnswer]
  /\ used = [f \in FaultKinds |-> 0]

-----------------------------------------------------------------------------
(* JobRegistry *)

\* Mutant: room for two more.
EvictedEarly ==
  LET old == jobs \cap expired
      remaining == {i \in jobs \ old : status[i] \in Outcomes}
      overflow == Cardinality(jobs \ old) + 2 - MaxJobs
  IN  old \cup {i \in remaining :
                  Cardinality(ahead[i] \cap remaining) < overflow}

\* Mutant: a running job makes room too.
EvictedRunning ==
  LET old == jobs \cap expired
      remaining == jobs \ old
      overflow == Cardinality(jobs \ old) + 1 - MaxJobs
  IN  old \cup {i \in remaining :
                  Cardinality(ahead[i] \cap remaining) < overflow}

\* What _evict() drops: the expired jobs and, to leave room for one more, the
\* jobs that finished first.
Evicted ==
  LET old == jobs \cap expired
      remaining == {i \in jobs \ old : status[i] \in Outcomes}
      overflow == Cardinality(jobs \ old) + 1 - MaxJobs
  IN  old \cup {i \in remaining :
                  Cardinality(ahead[i] \cap remaining) < overflow}

\* Mutant: a key goes with any job of it.
KeysLeftAny ==
  [k \in Keys |-> IF \E i \in Evicted : key[i] = k THEN NoJob ELSE keys[k]]

\* _keys after _evict(): a key goes with the job it names, and stays when a
\* later job of the key has taken it over.
KeysLeft ==
  [k \in Keys |->
     IF \E i \in Evicted : key[i] = k /\ keys[k] = i THEN NoJob ELSE keys[k]]

\* The finishing order of the jobs left after _evict().
AheadLeft ==
  [i \in Ids |-> IF i \in Evicted THEN {} ELSE ahead[i] \ Evicted]

\* The entry claim() finds for a key, NoJob if there is none.
Current(k) ==
  IF keys[k] \in jobs \ Evicted THEN keys[k] ELSE NoJob

\* claim() and start() of a new job.
Create(k, x) ==
  LET i == issued + 1
  IN  /\ i \in Ids
      /\ issued' = i
      /\ key' = [key EXCEPT ![i] = k]
      /\ target' = [target EXCEPT ![i] = x]
      /\ status' = [status EXCEPT ![i] = "running"]
      /\ jobs' = (jobs \ Evicted) \cup {i}
      /\ keys' = [KeysLeft EXCEPT ![k] = i]
      /\ ahead' = AheadLeft
      /\ UNCHANGED expired

\* _evict() in a call that creates no job.
EvictOnly ==
  /\ jobs' = jobs \ Evicted
  /\ keys' = KeysLeft
  /\ ahead' = AheadLeft
  /\ UNCHANGED jobVars

Reply(t, code, i, s) ==
  answer' = [answer EXCEPT ![t] = Answer(code, i, s)]

\* Mutant: the fingerprint is not compared.
ConflictsNever(k, x) == FALSE

\* A key reused for another target.
Conflicts(k, x) == Current(k) # NoJob /\ target[Current(k)] # x

\* Mutant: a finished job is never attached to.
AttachableRunning(k) == Current(k) # NoJob /\ status[Current(k)] = "running"

\* A job to attach to: running or succeeded.
Attachable(k) == Current(k) # NoJob /\ status[Current(k)] # "failed"

\* Every entry is of a running job.
Full == Cardinality(jobs \ Evicted) >= MaxJobs

\* AsyncJobMiddleware._submit.
Claim(t) ==
  LET k == KeyOf[t]
      x == TargetOf[t]
  IN  \/ /\ Conflicts(k, x)
         /\ EvictOnly
         /\ Reply(t, 409, NoJob, "none")
      \/ /\ ~Conflicts(k, x)
         /\ Attachable(k)
         /\ EvictOnly
         /\ Reply(t, 202, Current(k), status[Current(k)])
      \/ /\ ~Conflicts(k, x)
         /\ ~Attachable(k)
         /\ Full
         /\ EvictOnly
         /\ Reply(t, 503, NoJob, "none")
      \/ /\ ~Conflicts(k, x)
         /\ ~Attachable(k)
         /\ ~Full
         /\ Create(k, x)
         /\ Reply(t, 202, issued + 1, "running")

\* A task's POST reaches the service.
ServePost(t) ==
  /\ pc[t] = "post"
  /\ Claim(t)
  /\ pc' = [pc EXCEPT ![t] = "posted"]
  /\ UNCHANGED <<tries, resubmits, held, seen, used>>

\* AsyncJobMiddleware._status: get() evicts before it looks the job up.
ServeGet(t) ==
  /\ pc[t] = "get"
  /\ EvictOnly
  /\ IF held[t] \in jobs \ Evicted
       THEN Reply(t, 200, held[t], status[held[t]])
       ELSE Reply(t, 404, NoJob, "none")
  /\ pc' = [pc EXCEPT ![t] = "got"]
  /\ UNCHANGED <<tries, resubmits, held, seen, used>>

\* _run after the request's own handler has answered or raised.  A handler
\* need never do so.
Run(i, outcome) ==
  /\ status[i] = "running"
  /\ status' = [status EXCEPT ![i] = outcome]
  /\ ahead' = [ahead EXCEPT ![i] = {j \in jobs : status[j] \in Outcomes}]
  /\ UNCHANGED <<issued, key, target, expired, jobs, keys, taskVars, used>>

-----------------------------------------------------------------------------
(* Faults *)

Fault(f) ==
  /\ used[f] < MaxFaults[f]
  /\ used' = [used EXCEPT ![f] = @ + 1]

\* The service process ends and a new one starts.
Restart ==
  /\ Fault("restart")
  /\ jobs # {}
  /\ status' = [i \in Ids |-> IF status[i] = "running" THEN "lost" ELSE status[i]]
  /\ jobs' = {}
  /\ keys' = [k \in Keys |-> NoJob]
  /\ ahead' = [i \in Ids |-> {}]
  /\ UNCHANGED <<issued, key, target, expired, taskVars>>

\* ttl_seconds have passed since a job finished; not before they have for the
\* jobs that finished earlier.
Expire(i) ==
  /\ Fault("expiry")
  /\ i \in jobs \ expired
  /\ status[i] \in Outcomes
  /\ ahead[i] \subseteq expired
  /\ expired' = expired \cup {i}
  /\ UNCHANGED <<issued, key, target, status, registryVars, taskVars>>

\* A try ends with an exception; what the task knew is gone.
GiveUp(t) ==
  /\ pc' = [pc EXCEPT ![t] = "failed"]
  /\ resubmits' = [resubmits EXCEPT ![t] = 0]
  /\ held' = [held EXCEPT ![t] = NoJob]
  /\ seen' = [seen EXCEPT ![t] = "none"]

NoMoreAnswer(t) == answer' = [answer EXCEPT ![t] = NoAnswer]

\* A POST fails in transport, before or after the service handled it; nothing
\* catches the exception.
PostLost(t) ==
  /\ Fault("lost")
  /\ pc[t] \in {"post", "posted"}
  /\ GiveUp(t)
  /\ NoMoreAnswer(t)
  /\ UNCHANGED <<serviceVars, tries>>

\* A GET fails in transport or a proxy answers for the service with 5xx.
\* next_step says "wait" and the task goes on with the snapshot it has.
GetLost(t) ==
  /\ Fault("lost")
  /\ pc[t] \in {"get", "got"}
  /\ pc' = [pc EXCEPT ![t] = "settle"]
  /\ NoMoreAnswer(t)
  /\ UNCHANGED <<serviceVars, tries, resubmits, held, seen>>

-----------------------------------------------------------------------------
(* run_service_job *)

\* A snapshot arrives.
Take(t) ==
  /\ held' = [held EXCEPT ![t] = answer[t].id]
  /\ seen' = [seen EXCEPT ![t] = answer[t].status]
  /\ pc' = [pc EXCEPT ![t] = "settle"]
  /\ UNCHANGED resubmits

\* _Tracker.accept: 202, or raise_for_status.
Accept(t) ==
  /\ pc[t] = "posted"
  /\ \/ answer[t].code = 202 /\ Take(t)
     \/ answer[t].code # 202 /\ GiveUp(t)
  /\ NoMoreAnswer(t)
  /\ UNCHANGED <<serviceVars, tries, used>>

\* _Tracker.settle before the deadline: the result, the job's failure, or
\* another poll.
Settle(t) ==
  /\ pc[t] = "settle"
  /\ \/ /\ seen[t] = "succeeded"
        /\ pc' = [pc EXCEPT ![t] = "done"]
        /\ UNCHANGED <<resubmits, held, seen>>
     \/ /\ seen[t] = "failed"
        /\ GiveUp(t)
     \/ /\ seen[t] = "running"
        /\ pc' = [pc EXCEPT ![t] = "get"]
        /\ UNCHANGED <<resubmits, held, seen>>
  /\ UNCHANGED <<serviceVars, tries, answer, used>>

\* Mutant: the deadline counts only once no resubmission is left.
DeadlineLast(t) ==
  /\ pc[t] = "settle"
  /\ seen[t] = "running"
  /\ resubmits[t] >= MaxResubmits
  /\ GiveUp(t)
  /\ UNCHANGED <<serviceVars, tries, answer, used>>

\* _Tracker.settle from the deadline on, which only a running job is held to.
DeadlinePassed(t) ==
  /\ pc[t] = "settle"
  /\ seen[t] = "running"
  /\ GiveUp(t)
  /\ UNCHANGED <<serviceVars, tries, answer, used>>

\* The job is gone; submit() again under the same key.
Resubmit(t) ==
  /\ resubmits[t] < MaxResubmits
  /\ resubmits' = [resubmits EXCEPT ![t] = @ + 1]
  /\ held' = [held EXCEPT ![t] = NoJob]
  /\ seen' = [seen EXCEPT ![t] = "none"]
  /\ pc' = [pc EXCEPT ![t] = "post"]

\* _Tracker.next_step: "update", "resubmit", or raise_for_status once the
\* resubmissions are used up.
NextStep(t) ==
  /\ pc[t] = "got"
  /\ \/ answer[t].code = 200 /\ Take(t)
     \/ answer[t].code = 404 /\ Resubmit(t)
     \/ answer[t].code = 404 /\ resubmits[t] >= MaxResubmits /\ GiveUp(t)
  /\ NoMoreAnswer(t)
  /\ UNCHANGED <<serviceVars, tries, used>>

\* Airflow starts the next try: a new _Tracker with the same key.
Retry(t) ==
  /\ pc[t] = "failed"
  /\ tries[t] < MaxTries
  /\ tries' = [tries EXCEPT ![t] = @ + 1]
  /\ pc' = [pc EXCEPT ![t] = "post"]
  /\ UNCHANGED <<serviceVars, resubmits, held, seen, answer, used>>

\* The task has its result or no try left.
Over(t) == pc[t] = "done" \/ (pc[t] = "failed" /\ tries[t] >= MaxTries)

Finished == (\A t \in Tasks : Over(t)) /\ UNCHANGED vars

Next ==
  \/ \E t \in Tasks :
       \/ ServePost(t) \/ ServeGet(t)
       \/ PostLost(t) \/ GetLost(t)
       \/ Accept(t) \/ Settle(t) \/ NextStep(t)
       \/ DeadlinePassed(t) \/ Retry(t)
  \/ \E i \in Ids :
       \/ Expire(i)
       \/ \E outcome \in Outcomes : Run(i, outcome)
  \/ Restart
  \/ Finished

Spec == Init /\ [][Next]_vars

\* What moves a task on: its own code, and its requests, which end with an
\* answer or with the client's timeout.
TaskStep(t) ==
  \/ ServePost(t) \/ ServeGet(t)
  \/ PostLost(t) \/ GetLost(t)
  \/ Accept(t) \/ Settle(t) \/ NextStep(t)

\* Tasks run and Airflow schedules the tries a task has left.  The monotonic
\* clock that settle() reads over and over passes the deadline some time.
\* The work of a job need not end, and no fault has to happen.
FairSpec ==
  /\ Spec
  /\ \A t \in Tasks :
       WF_vars(TaskStep(t)) /\ SF_vars(DeadlinePassed(t)) /\ WF_vars(Retry(t))

-----------------------------------------------------------------------------
(* Properties *)

\* Every variable has its type.
TypeOK ==
  /\ issued \in 0..MaxIds
  /\ key \in [Ids -> Keys \cup {Unset}]
  /\ target \in [Ids -> Targets \cup {Unset}]
  /\ status \in [Ids -> Statuses]
  /\ ahead \in [Ids -> SUBSET Ids]
  /\ expired \in SUBSET Ids
  /\ jobs \in SUBSET Ids
  /\ keys \in [Keys -> Ids \cup {NoJob}]
  /\ pc \in [Tasks -> Labels]
  /\ tries \in [Tasks -> Nat]
  /\ resubmits \in [Tasks -> 0..MaxResubmits]
  /\ held \in [Tasks -> Ids \cup {NoJob}]
  /\ seen \in [Tasks -> Statuses]
  /\ answer \in [Tasks -> [code : Codes, id : Ids \cup {NoJob}, status : Statuses]]
  /\ used \in [FaultKinds -> Nat]

\* Work in progress, or the record of a success that can still be attached to.
Live(i) == status[i] = "running" \/ (status[i] = "succeeded" /\ i \in jobs)

\* However many tasks, tries and resubmissions use a key, the service works for
\* it at most once at a time, and never while it has the record of a success:
\* claim() finds every live job through _keys, although a failed job it has
\* replaced is evicted later under the same key.
OneLiveJobPerKey ==
  \A i, j \in Ids : Live(i) /\ Live(j) /\ key[i] = key[j] => i = j

\* The registry never holds more than max_jobs entries, running ones included.
RegistryIsBounded == Cardinality(jobs) <= MaxJobs

\* A task that returns a result returns that of a job that succeeded for its
\* own key and target, although the job may since have been evicted, the
\* snapshot is older than the service's state, and other tasks use the key.
ResultIsOwn ==
  \A t \in Tasks :
    pc[t] = "done" => /\ status[held[t]] = "succeeded"
                      /\ key[held[t]] = KeyOf[t]
                      /\ target[held[t]] = TargetOf[t]

\* A key's work succeeds a second time only if the record of the first success
\* was lost in a restart, was older than ttl_seconds, or made room in a
\* registry that had filled up before the second job was created.
RerunIsExplained ==
  \A i, j \in Ids :
    /\ i < j
    /\ key[i] = key[j]
    /\ status[i] = "succeeded" /\ status[j] \in {"running", "succeeded"}
    => i \in expired \/ used["restart"] > 0 \/ j > MaxJobs

\* A task gives a job up for lost, and submits its request again, only when
\* the work no longer runs: a running job is found by its id until it
\* finishes, at the registry's limit too.
ResubmitsOnlyEndedJobs ==
  [][\A t \in Tasks :
       resubmits'[t] > resubmits[t] => status[held[t]] # "running"]_vars

\* Every task ends, with a result or without a try left, even when the work
\* never does: an unfinished job ends the try at its deadline, and there are
\* only so many resubmissions.
EveryTaskEnds == \A t \in Tasks : <>Over(t)

-----------------------------------------------------------------------------
(* The inductive invariant *)

\* Jobs are issued in order; running ones are registered; what is registered
\* and not running, or expired, has an outcome; a key's work was over when its
\* next job was created.
JobsAreConsistent ==
  /\ \A i \in Ids :
       /\ i > issued <=> status[i] = "none"
       /\ status[i] = "running" => i \in jobs
       /\ i \in jobs => status[i] \in {"running", "succeeded", "failed"} /\ key[i] \in Keys
       /\ i \in expired => status[i] \in Outcomes
  /\ \A i, j \in Ids :
       i < j /\ j <= issued /\ key[i] = key[j] => status[i] # "running"

\* _keys names registered jobs by their keys, and all that have not failed.
KeysAreConsistent ==
  /\ \A k \in Keys : keys[k] # NoJob => keys[k] \in jobs /\ key[keys[k]] = k
  /\ \A i \in jobs : status[i] # "failed" => keys[key[i]] = i

\* A job, possibly dropped, that a task may take a snapshot with status s for.
Snapshot(t, i, s) ==
  /\ status[i] # "none"
  /\ key[i] = KeyOf[t]
  /\ target[i] = TargetOf[t]
  /\ s = "succeeded" => status[i] = "succeeded"

\* What a task holds or is about to get is, or was, true of a job of its own.
TaskIsConsistent(t) ==
  /\ held[t] # NoJob => Snapshot(t, held[t], seen[t])
  /\ answer[t].id # NoJob => Snapshot(t, answer[t].id, answer[t].status)
  /\ answer[t].code \in {200, 202} => answer[t].id # NoJob
  /\ pc[t] \in {"settle", "get", "got"} => held[t] # NoJob
  /\ pc[t] = "done" => held[t] # NoJob /\ seen[t] = "succeeded"
  /\ pc[t] \in {"failed", "post"} => held[t] = NoJob
  /\ pc[t] \notin {"posted", "got"} => answer[t] = NoAnswer
  /\ pc[t] = "got" /\ answer[t].code = 404 => status[held[t]] # "running"
TasksAreConsistent == \A t \in Tasks : TaskIsConsistent(t)

\* A success is dropped unexpired only from a full registry or in a restart.
DropsAreExplained ==
  \A i \in Ids :
    status[i] = "succeeded" /\ i \notin jobs \cup expired /\ used["restart"] = 0
      => issued >= MaxJobs

\* Everything above that does not speak of liveness, made inductive: a live job
\* is found only if _keys never loses it, a snapshot is right only if jobs never
\* change their key and target, and a second run is explained only if every
\* drop is.
ServiceInv ==
  /\ TypeOK
  /\ JobsAreConsistent
  /\ KeysAreConsistent
  /\ TasksAreConsistent
  /\ DropsAreExplained
  /\ RegistryIsBounded
  /\ RerunIsExplained
====
