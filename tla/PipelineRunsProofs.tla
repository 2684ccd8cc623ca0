------------------------- MODULE PipelineRunsProofs -------------------------
(***************************************************************************)
(* Proofs about PipelineRuns, for any runs, entities, limit and watchers.  *)
(* RowSteps says what any step may do to a row, WorldSteps what it may do  *)
(* to Airflow's side and to the request, WatcherSteps what a watcher goes  *)
(* on with; the parts of PipelineInv follow from these three.              *)
(***************************************************************************)
EXTENDS PipelineRuns, FiniteSetTheorems, TLAPS

Statuses == {"none"} \cup Active \cup Ended

\* The status never falls when a writer advances it.
LEMMA Advancing ==
  ASSUME NEW a \in Statuses, NEW b \in Active \cup Ended
  PROVE  /\ Advance(a, b) \in {a, b}
         /\ Advance(a, b) \in Active \cup Ended
         /\ Rank(Advance(a, b)) >= Rank(a)
         /\ Rank(a) \in Nat
  BY DEF Advance, Rank, Statuses, Active, Ended

\* A move writes the status and, of an active row, nothing else.
LEMMA Moving ==
  ASSUME NEW x \in Rows, NEW s \in Active \cup Ended
  PROVE  /\ Moved(x, s) \in Rows
         /\ Moved(x, s).status = s
         /\ Moved(x, s).reason = x.reason
         /\ s \in Active =>
              Moved(x, s).left = x.left /\ Moved(x, s).age = x.age
<1>1. CASE s \in Active
  <2>1. Moved(x, s) = [x EXCEPT !.status = s]
    BY <1>1 DEF Moved
  <2> QED
    BY <1>1, <2>1 DEF Rows, Active
<1>2. CASE s \notin Active
  <2>1. Moved(x, s) = [x EXCEPT !.status = s, !.start = "reserved", !.age = 0,
                                !.left = FALSE]
    BY <1>2 DEF Moved
  <2>2. s \in Ended
    BY <1>2
  <2>3. /\ Moved(x, s).status = s /\ Moved(x, s).reason = x.reason
    BY <2>1 DEF Rows
  <2>4. \A b \in BOOLEAN, n \in 0..2 :
          [x EXCEPT !.status = s, !.start = "reserved", !.age = n, !.left = b]
            \in Rows
    BY <2>2 DEF Rows
  <2>5. Moved(x, s) \in Rows
    <3>1. 0 \in 0..2 /\ FALSE \in BOOLEAN
      OBVIOUS
    <3> QED
      BY <2>1, <2>4, <3>1
  <2> QED
    BY <1>2, <2>3, <2>5
<1> QED
  BY <1>1, <1>2

\* Falling from active to active or ended, what rank allows.
LEMMA Climbing ==
  ASSUME NEW a \in Statuses, NEW b \in Statuses, Rank(b) >= Rank(a)
  PROVE  /\ b \in Active => a \in Active \cup {"none"}
         /\ b = "none" => a = "none"
         /\ a = "failed" => b = "failed"
  BY DEF Rank, Statuses, Active, Ended

\* What a step may do to the row of run r.
RowMoves(r) ==
  /\ row'[r] \in Rows
  /\ Rank(row'[r].status) >= Rank(row[r].status)
  /\ row'[r].status \in {"success", "partial"} =>
       row'[r].status = row[r].status \/ work[r] # "none"
  /\ row'[r].reason = row[r].reason
     \/ /\ row'[r].status = "failed"
        /\ row'[r].reason \in {"stopped", "gone"} => af[r] \in {"failed", "deleted"}
  /\ row'[r].status = "none" => row' [r] = row[r]
  /\ row'[r].status \in Active /\ ~row'[r].left =>
       /\ row'[r].age < 2
       /\ \/ row[r].status \in Active /\ ~row[r].left
          \/ Admitted(r) /\ \A q \in Runs \ {r} : row'[q] = row[q]

\* A row that is left alone moves by RowMoves.
LEMMA Untouched ==
  ASSUME PipelineInv, NEW r \in Runs, row'[r] = row[r]
  PROVE  RowMoves(r)
<1>1. row[r] \in Rows /\ row[r].status \in Statuses
  BY DEF PipelineInv, TypeOK, Rows, Statuses
<1>2. Rank(row[r].status) \in Nat
  BY <1>1 DEF Rank, Statuses, Active, Ended
<1>3. row[r].status \in Active /\ ~row[r].left => row[r].age < 2
  BY DEF PipelineInv, HoldersAreCounted, Holding
<1> QED
  BY <1>1, <1>2, <1>3 DEF RowMoves

\* A save moves a row by RowMoves if a success it reports is backed.
LEMMA Saving ==
  ASSUME PipelineInv, NEW r \in Runs, NEW s \in Active \cup Ended,
         row' = Saved(r, s), row[r].status # "none",
         s \in {"success", "partial"} => work[r] # "none"
  PROVE  \A q \in Runs : RowMoves(q)
<1> DEFINE t == Advance(row[r].status, s)
<1>1. row \in [Runs -> Rows] /\ row[r] \in Rows /\ row[r].status \in Statuses
  BY DEF PipelineInv, TypeOK, Rows, Statuses
<1>2. /\ t \in {row[r].status, s} /\ t \in Active \cup Ended
      /\ Rank(t) >= Rank(row[r].status)
  BY <1>1, Advancing
<1>3. row'[r] = Moved(row[r], t)
  BY <1>1 DEF Saved
<1> HIDE DEF t
<1>4. /\ row'[r] \in Rows /\ row'[r].status = t
      /\ row'[r].reason = row[r].reason
      /\ t \in Active => row'[r].left = row[r].left /\ row'[r].age = row[r].age
  BY <1>1, <1>2, <1>3, Moving
<1>5. t \in Active => row[r].status \in Active
  BY <1>1, <1>2, Climbing DEF Statuses
<1>6. row[r].status \in Active /\ ~row[r].left => row[r].age < 2
  BY DEF PipelineInv, HoldersAreCounted, Holding
<1>7. t # "none"
  BY <1>2 DEF Active, Ended
<1>8. RowMoves(r)
  BY <1>2, <1>4, <1>5, <1>6, <1>7 DEF RowMoves
<1>9. ASSUME NEW q \in Runs, q # r PROVE RowMoves(q)
  <2>1. row'[q] = row[q]
    BY <1>1, <1>9 DEF Saved
  <2> QED
    BY <2>1, <1>9, Untouched
<1> QED
  BY <1>8, <1>9

\* A reservation moves the rows by RowMoves.
LEMMA Reserving ==
  ASSUME PipelineInv, NEW r \in Runs, Reserve(r)
  PROVE  \A q \in Runs : RowMoves(q)
<1>1. row \in [Runs -> Rows] /\ row[r] \in Rows
  BY DEF PipelineInv, TypeOK
<1>2. Admitted(r) /\ \A q \in Runs \ {r} : row'[q] = row[q]
  BY <1>1 DEF Reserve
<1>3. CASE row[r].status # "none"
  <2>1. \A q \in Runs : row'[q] = row[q]
    BY <1>1, <1>3 DEF Reserve
  <2> QED
    BY <2>1, Untouched
<1>4. CASE row[r].status = "none"
  <2>1. row[r] = NoRow
    BY <1>4 DEF PipelineInv, UnreservedIsUnknown
  <2>2. row'[r] = [NoRow EXCEPT !.status = "queued"]
    BY <1>1, <1>4, <2>1 DEF Reserve
  <2>3. /\ row'[r] \in Rows /\ row'[r].status = "queued"
        /\ row'[r].reason = row[r].reason /\ row'[r].age = 0
    <3>1. row'[r] = [row[r] EXCEPT !.status = "queued"]
      BY <2>1, <2>2
    <3>2. row'[r] \in Rows
      BY <1>1, <3>1 DEF Rows, Active
    <3>3. row[r].age = 0
      BY <2>1 DEF NoRow
    <3> QED
      BY <1>1, <3>1, <3>2, <3>3 DEF Rows
  <2>4. Rank(row'[r].status) >= Rank(row[r].status)
    BY <2>3, <1>4 DEF Rank
  <2>5. RowMoves(r)
    BY <2>3, <2>4, <1>2 DEF RowMoves
  <2>6. \A q \in Runs \ {r} : RowMoves(q)
    BY <1>2, Untouched
  <2> QED
    BY <2>5, <2>6
<1> QED
  BY <1>3, <1>4

\* The passing of time moves the rows by RowMoves.
LEMMA Ticking ==
  ASSUME PipelineInv, NEW r \in Runs, Tick(r)
  PROVE  \A q \in Runs : RowMoves(q)
<1>1. row \in [Runs -> Rows] /\ row[r] \in Rows
  BY DEF PipelineInv, TypeOK
<1>2. row[r].age \in {0, 1} /\ row[r].status \in Active
  BY <1>1 DEF Tick, InWindow, Rows
<1>3. row'[r] = [row[r] EXCEPT !.age = @ + 1, !.left = @ \/ row[r].age = 1]
  BY <1>1 DEF Tick
<1>4. /\ row'[r].status = row[r].status /\ row'[r].reason = row[r].reason
      /\ row'[r].age = row[r].age + 1
      /\ row'[r].left = (row[r].left \/ row[r].age = 1)
  BY SMTT(40), <1>1, <1>3 DEF Rows
<1>5. row'[r] \in Rows
  <2>1. (row[r].left \/ row[r].age = 1) \in BOOLEAN
    OBVIOUS
  <2>2. row[r].age + 1 \in 0..2
    BY <1>2
  <2>3. \A b \in BOOLEAN, n \in 0..2 :
          [row[r] EXCEPT !.age = n, !.left = b] \in Rows
    BY <1>1 DEF Rows
  <2> QED
    BY <1>3, <2>1, <2>2, <2>3
<1>6. Rank(row[r].status) \in Nat
  BY <1>2 DEF Rank, Active
<1>7. RowMoves(r)
  <2>1. row'[r].status # "none" /\ row'[r].status \notin {"success", "partial"}
    BY <1>2, <1>4 DEF Active
  <2>2. ~row'[r].left => ~row[r].left /\ row'[r].age < 2
    <3>1. ~row'[r].left => ~row[r].left /\ row[r].age # 1
      BY <1>4, Zenon
    <3>2. row[r].age # 1 => row'[r].age < 2
      BY <1>2, <1>4
    <3> QED
      BY <3>1, <3>2
  <2> QED
    BY <1>2, <1>4, <1>5, <1>6, <2>1, <2>2 DEF RowMoves
<1>8. \A q \in Runs \ {r} : RowMoves(q)
  <2>1. \A q \in Runs \ {r} : row'[q] = row[q]
    BY <1>1 DEF Tick
  <2> QED
    BY <2>1, Untouched
<1> QED
  BY <1>7, <1>8

\* A watcher that is not idle holds a reading of one of the runs.
LEMMA Reading ==
  ASSUME PipelineInv, NEW p \in Watchers, w[p].pc # "idle"
  PROVE  /\ w[p] \in Looks /\ w[p].run \in Runs
         /\ row[w[p].run] \in Rows /\ row[w[p].run].status # "none"
<1>1. w[p] \in {Idle} \cup Looks
  BY DEF PipelineInv, TypeOK
<1>2. w[p] \in Looks
  BY <1>1 DEF Idle
<1>3. w[p].run \in Runs
  BY <1>2 DEF Looks
<1> QED
  BY <1>2, <1>3 DEF PipelineInv, TypeOK, WatchersAreSound

\* The swap of a refresh moves the rows by RowMoves.
LEMMA Syncing ==
  ASSUME PipelineInv, NEW p \in Watchers, Sync(p)
  PROVE  \A q \in Runs : RowMoves(q)
<1> DEFINE r == w[p].run
           seen == w[p].seen
           t == Advance(row[r].status, seen)
<1>1. row \in [Runs -> Rows] /\ w[p].pc = "sync"
  BY DEF PipelineInv, TypeOK, Sync
<1>2. r \in Runs /\ row[r] \in Rows /\ row[r].status # "none"
  BY <1>1, Reading
<1>3. /\ seen \in Active \cup Ended /\ w[p].status \in Active
      /\ seen # "partial"
      /\ seen = "success" => work[r] # "none"
  BY <1>1 DEF PipelineInv, WatchersAreSound, AfStates, Active, Ended
<1>4. CASE ~Matches(w[p])
  <2>1. \A q \in Runs : row'[q] = row[q]
    BY <1>4 DEF Sync
  <2> QED
    BY <2>1, Untouched
<1>5. CASE Matches(w[p])
  <2>1. row[r].status = w[p].status /\ row[r].status \in Active
    BY <1>3, <1>5 DEF Matches
  <2>2. PICK a \in 0..row[r].age :
          row' = [row EXCEPT ![r] =
                    Synced([@ EXCEPT !.status = w[p].status], seen, a)]
    BY <1>5 DEF Sync
  <2>3. [row[r] EXCEPT !.status = w[p].status] = row[r]
    BY <1>2, <2>1 DEF Rows
  <2>4. row'[r] = Synced(row[r], seen, a) /\ \A q \in Runs \ {r} : row'[q] = row[q]
    BY <1>1, <1>2, <2>2, <2>3
  <2>5. /\ t \in {row[r].status, seen} /\ t \in Active \cup Ended
        /\ Rank(t) >= Rank(row[r].status)
    BY <1>2, <1>3, Advancing DEF Rows, Statuses
  <2>6. row[r].status \in Active /\ ~row[r].left => row[r].age < 2
    BY <1>2 DEF PipelineInv, HoldersAreCounted, Holding
  <2> DEFINE y == Moved(row[r], t)
  <2>7. row'[r] = IF y.status \in Active /\ seen = "running"
                     /\ row[r].start = "reserved"
                  THEN [y EXCEPT !.start = "airflow", !.age = a] ELSE y
    BY <2>4 DEF Synced
  <2>8. /\ y \in Rows /\ y.status = t /\ y.reason = row[r].reason
        /\ t \in Active => y.left = row[r].left /\ y.age = row[r].age
    BY <1>2, <2>5, Moving
  <2> HIDE DEF y, t
  <2>9. a \in 0..2 /\ a <= row[r].age /\ row[r].age \in 0..2
    BY <1>2 DEF Rows
  <2>10. /\ row'[r] \in Rows /\ row'[r].status = t
         /\ row'[r].reason = row[r].reason
         /\ t \in Active => row'[r].left = row[r].left
         /\ t \in Active => row'[r].age <= row[r].age
    <3>1. /\ [y EXCEPT !.start = "airflow", !.age = a] \in Rows
          /\ [y EXCEPT !.start = "airflow", !.age = a].status = t
          /\ [y EXCEPT !.start = "airflow", !.age = a].reason = row[r].reason
          /\ [y EXCEPT !.start = "airflow", !.age = a].left = y.left
          /\ [y EXCEPT !.start = "airflow", !.age = a].age = a
      BY <2>8, <2>9 DEF Rows
    <3> QED
      BY <2>7, <2>8, <2>9, <3>1
  <2>11. RowMoves(r)
    <3>2. t # "none"
      BY <2>5 DEF Active, Ended
    <3>3. row'[r].age \in 0..2
      BY <2>10 DEF Rows
    <3>4. t \in {"success", "partial"} => work[r] # "none"
      BY <1>3, <2>1, <2>5 DEF Active
    <3>5. t \in Active /\ ~row[r].left => row'[r].age < 2
      BY <2>1, <2>6, <2>9, <2>10, <3>3
    <3> QED
      BY <1>2, <2>1, <2>5, <2>10, <3>2, <3>4, <3>5 DEF RowMoves
  <2>12. \A q \in Runs \ {r} : RowMoves(q)
    BY <2>4, Untouched
  <2> QED
    BY <2>11, <2>12
<1> QED
  BY <1>4, <1>5

\* The swap of a recovery moves the rows by RowMoves.
LEMMA Closed ==
  ASSUME PipelineInv, NEW p \in Watchers, Close(p)
  PROVE  \A q \in Runs : RowMoves(q)
<1> DEFINE r == w[p].run
           t == Advance(row[r].status, "failed")
<1>1. row \in [Runs -> Rows] /\ w[p].pc \in Closing /\ w[p].pc # "idle"
  BY DEF PipelineInv, TypeOK, Close, Closing
<1>2. r \in Runs /\ row[r] \in Rows /\ row[r].status # "none"
  BY <1>1, Reading
<1>3. w[p].pc \in {"stopped", "gone"} => af[r] \in {"failed", "deleted"}
  BY <1>1 DEF PipelineInv, WatchersAreSound
<1>4. CASE row' = row
  BY <1>4, Untouched
<1>5. CASE row' # row
  <2>1. row' = [row EXCEPT ![r] = [Moved(@, Advance(@.status, "failed"))
                                     EXCEPT !.reason = w[p].pc]]
    BY <1>5 DEF Close
  <2>2. /\ row'[r] = [Moved(row[r], t) EXCEPT !.reason = w[p].pc]
        /\ \A q \in Runs \ {r} : row'[q] = row[q]
    BY <1>1, <1>2, <2>1
  <2>3. t = "failed"
    BY <1>2 DEF Advance, Rank, Rows, Active, Ended
  <2>4. Moved(row[r], t) \in Rows /\ Moved(row[r], t).status = "failed"
    BY <1>2, <2>3, Moving DEF Ended
  <2>5. /\ row'[r] \in Rows /\ row'[r].status = "failed"
        /\ row'[r].reason = w[p].pc
    BY <1>1, <2>2, <2>4 DEF Rows
  <2>6. Rank("failed") >= Rank(row[r].status)
    BY <1>2 DEF Rank, Rows, Active, Ended
  <2>7. RowMoves(r)
    BY <1>3, <2>5, <2>6 DEF RowMoves, Active
  <2>8. \A q \in Runs \ {r} : RowMoves(q)
    BY <2>2, Untouched
  <2> QED
    BY <2>7, <2>8
<1> QED
  BY <1>4, <1>5

\* A step of a watcher that only reads.
Reads(p) == \/ Describe(p) \/ Fetch(p) \/ Refresh(p) \/ Stop(p)
            \/ \E r \in Runs : \/ Look(p, r, "describe") \/ Look(p, r, "refresh")
                               \/ OrphanLook(p, r)

\* Every step is one of a request, of Airflow, of time or of a watcher.
LEMMA Steps ==
  ASSUME Next
  PROVE  \/ \E r \in Runs : Request(r) \/ Airflow(r) \/ Tick(r)
         \/ \E s \in {"up", "down", "paused"} : Switch(s)
         \/ \E p \in Watchers : \/ Reads(p) \/ Sync(p) \/ Patch(p)
                                \/ Close(p) \/ Abandon(p)
  BY DEF Next, Step, Reads

\* Steps that leave the ledger alone.
LEMMA RowsKept ==
  ASSUME PipelineInv, row' = row
  PROVE  \A q \in Runs : RowMoves(q)
  BY Untouched

\* What any step may do to the rows.
LEMMA RowSteps ==
  ASSUME PipelineInv, Next
  PROVE  \A q \in Runs : RowMoves(q)
<1>1. ASSUME NEW r \in Runs, Request(r) PROVE \A q \in Runs : RowMoves(q)
  <2>1. CASE Reserve(r)
    BY <2>1, Reserving
  <2>2. CASE Post(r) \/ PostFails(r) \/ RequestLost(r)
    BY <2>2, RowsKept DEF Post, PostFails, RequestLost
  <2>3. CASE RecordTrigger(r)
    <3>1. row' = Saved(r, req[r]) /\ req[r] \in AfStates
      BY <2>3 DEF RecordTrigger
    <3>2. req[r] \in Active \cup Ended /\ req[r] # "partial" /\ req[r] # "idle"
      BY <3>1 DEF AfStates, Active, Ended
    <3>3. /\ row[r].status # "none"
          /\ req[r] = "success" => work[r] # "none"
      BY <3>2 DEF PipelineInv, UnreservedIsUnknown, ReportsAreBacked
    <3> QED
      BY <3>1, <3>2, <3>3, Saving
  <2> QED
    BY <1>1, <2>1, <2>2, <2>3 DEF Request
<1>2. ASSUME NEW r \in Runs, Airflow(r) PROVE \A q \in Runs : RowMoves(q)
  <2>1. CASE \E s \in Ended : TaskSave(r, s)
    <3>1. PICK s \in Ended : TaskSave(r, s)
      BY <2>1
    <3>2. row' = Saved(r, s) /\ work[r] = "active"
      BY <3>1 DEF TaskSave
    <3>3. row[r].status # "none"
      BY <3>2 DEF PipelineInv, UnreservedIsUnknown
    <3>4. work[r] # "none"
      BY <3>2
    <3> QED
      BY <3>2, <3>3, <3>4, Saving
  <2>2. CASE row' = row
    BY <2>2, RowsKept
  <2> QED
    BY <1>2, <2>1, <2>2
    DEF Airflow, AfStart, TaskStart, TaskEnd, Quieten, Delete, AfFinish
<1>3. ASSUME NEW s \in {"up", "down", "paused"}, Switch(s)
      PROVE  \A q \in Runs : RowMoves(q)
  BY <1>3, RowsKept DEF Switch
<1>4. ASSUME NEW p \in Watchers, Reads(p) \/ Patch(p) \/ Abandon(p)
      PROVE  \A q \in Runs : RowMoves(q)
  <2>1. row' = row
    BY <1>4 DEF Reads, Describe, Fetch, Refresh, Stop, Look, OrphanLook, Patch,
                Abandon
  <2> QED
    BY SMTT(60), <2>1, RowsKept
<1> QED
  BY <1>1, <1>2, <1>3, <1>4, Steps, Ticking, Syncing, Closed

\* What a step may do to Airflow's side of run r and to its request.
WorldMoves(r) ==
  /\ af[r] \in {"failed", "deleted"} => af'[r] \in {"failed", "deleted"}
  /\ af[r] # "absent" => af'[r] # "absent"
  /\ work[r] # "none" => work'[r] # "none"
  /\ req'[r] = "success" \/ af'[r] = "success" => work[r] # "none"
  /\ req'[r] = "reserved" => af'[r] # "deleted"
  /\ row'[r].status = "none" =>
       req'[r] = "idle" /\ af'[r] = "absent" /\ work'[r] = "none"

\* A run whose Airflow side and request are left alone moves by WorldMoves.
LEMMA Apart ==
  ASSUME PipelineInv, NEW r \in Runs, RowMoves(r),
         af'[r] = af[r], work'[r] = work[r], req'[r] = req[r]
  PROVE  WorldMoves(r)
  BY SMTT(60) DEF WorldMoves, RowMoves, PipelineInv, UnreservedIsUnknown,
         ReportsAreBacked, PendingIsNotDeleted

\* What any step may do to Airflow's side and to the requests.
LEMMA WorldSteps ==
  ASSUME PipelineInv, Next
  PROVE  \A q \in Runs : WorldMoves(q)
<1>0. /\ \A q \in Runs : RowMoves(q)
      /\ row \in [Runs -> Rows]
      /\ af \in [Runs -> {"absent", "deleted"} \cup AfStates]
      /\ work \in [Runs -> {"none", "active", "ended"}]
      /\ req \in [Runs -> {"idle", "reserved", "done"} \cup AfStates]
  BY RowSteps DEF PipelineInv, TypeOK
<1>1. \A r \in Runs :
        /\ row'[r].status = "none" => row[r].status = "none"
        /\ row[r].status = "none" =>
             req[r] = "idle" /\ af[r] = "absent" /\ work[r] = "none"
        /\ req[r] = "success" \/ af[r] = "success" => work[r] # "none"
        /\ req[r] = "reserved" => af[r] # "deleted"
  BY <1>0 DEF RowMoves, PipelineInv, UnreservedIsUnknown, ReportsAreBacked,
              PendingIsNotDeleted
<1>2. ASSUME NEW r \in Runs, Request(r) PROVE \A q \in Runs : WorldMoves(q)
  <2>1. \A q \in Runs \ {r} :
          af'[q] = af[q] /\ work'[q] = work[q] /\ req'[q] = req[q]
    BY <1>0, <1>2 DEF Request, Reserve, Post, PostFails, RecordTrigger,
                      RequestLost, Created
  <2>2. CASE Reserve(r)
    <3>1. /\ af' = af /\ work' = work /\ req'[r] = "reserved"
          /\ af[r] # "deleted"
      BY <1>0, <2>2 DEF Reserve
    <3>2. row'[r].status # "none"
      BY <1>0, <2>2 DEF Reserve, Rows
    <3> QED
      BY <1>0, <1>1, <2>1, <3>1, <3>2, Apart DEF WorldMoves
  <2>3. CASE Post(r) \/ PostFails(r)
    <3>1. /\ work' = work /\ req[r] = "reserved"
          /\ af'[r] = af[r] \/ (af[r] = "absent" /\ af'[r] = "queued")
          /\ req'[r] = "failed" \/ req'[r] = af'[r]
      <4>1. Created(r)[r] = IF af[r] = "absent" THEN "queued" ELSE af[r]
        BY <1>0 DEF Created
      <4>2. CASE Post(r)
        <5>1. af' = Created(r) /\ req'[r] = Created(r)[r] /\ req[r] = "reserved"
              /\ work' = work
          BY <1>0, <4>2 DEF Post, Answer
        <5> QED
          BY <4>1, <5>1
      <4>3. CASE PostFails(r)
        <5>1. af' \in {af, Created(r)} /\ req'[r] = "failed"
              /\ req[r] = "reserved" /\ work' = work
          BY <1>0, <4>3 DEF PostFails
        <5> QED
          BY <4>1, <5>1
      <4> QED
        BY <2>3, <4>2, <4>3
    <3>2. WorldMoves(r)
      BY <1>1, <3>1 DEF WorldMoves
    <3> QED
      BY <1>0, <2>1, <3>2, Apart
  <2>4. CASE RecordTrigger(r) \/ RequestLost(r)
    <3>1. af' = af /\ work' = work /\ req'[r] = "done" /\ req[r] # "idle"
      BY <1>0, <2>4 DEF RecordTrigger, RequestLost, AfStates
    <3>2. WorldMoves(r)
      BY <1>1, <3>1 DEF WorldMoves
    <3> QED
      BY <1>0, <2>1, <3>2, Apart
  <2> QED
    BY <1>2, <2>2, <2>3, <2>4 DEF Request
<1>3. ASSUME NEW r \in Runs, Airflow(r) PROVE \A q \in Runs : WorldMoves(q)
  <2>1. /\ req' = req
        /\ \A q \in Runs \ {r} : af'[q] = af[q] /\ work'[q] = work[q]
    BY <1>0, <1>3 DEF Airflow, AfStart, TaskStart, TaskSave, TaskEnd, Quieten,
                      Delete, AfFinish
  <2>2. \/ af'[r] = af[r] /\ work'[r] = work[r]
        \/ af[r] = "queued" /\ af'[r] = "running" /\ work'[r] = work[r]
        \/ af[r] = "running" /\ af'[r] = af[r] /\ work'[r] = "active"
        \/ af'[r] = af[r] /\ work[r] = "active" /\ work'[r] = "ended"
        \/ /\ af[r] \in AfStates /\ af'[r] = "deleted" /\ work'[r] = work[r]
           /\ req[r] # "reserved"
        \/ /\ af[r] = "running" /\ work[r] = "ended" /\ work'[r] = work[r]
           /\ af'[r] \in {"success", "failed"}
    BY <1>0, <1>3 DEF Airflow, AfStart, TaskStart, TaskSave, TaskEnd, Quieten,
                      Delete, AfFinish
  <2>3. WorldMoves(r)
    BY <1>1, <2>1, <2>2 DEF WorldMoves, AfStates
  <2> QED
    BY <1>0, <2>1, <2>3, Apart
<1>4. ASSUME NEW p \in Watchers, Patch(p) PROVE \A q \in Runs : WorldMoves(q)
  <2> DEFINE r == w[p].run
  <2>1. w[p].pc = "patch" /\ req' = req /\ work' = work
    BY <1>4 DEF Patch
  <2>2. r \in Runs /\ af[r] # "absent"
    BY <2>1, Reading DEF PipelineInv, WatchersAreSound
  <2>3. /\ \A q \in Runs \ {r} : af'[q] = af[q]
        /\ \/ af'[r] = af[r] \/ af'[r] = "failed"
    BY <1>0, <1>4, <2>2 DEF Patch
  <2>4. WorldMoves(r)
    BY <1>1, <2>1, <2>2, <2>3 DEF WorldMoves
  <2> QED
    BY <1>0, <2>1, <2>3, <2>4, Apart
<1>5. CASE af' = af /\ work' = work /\ req' = req
  BY <1>0, <1>5, Apart
<1> QED
  BY ZenonT(60), <1>2, <1>3, <1>4, <1>5, Steps
  DEF Tick, Switch, Reads, Describe, Fetch, Refresh, Stop, Look, OrphanLook,
      Sync, Close, Abandon, World

\* What WatchersAreSound says of one watcher.
Sound(p) ==
  w[p].pc # "idle" =>
    /\ row[w[p].run].status # "none"
    /\ w[p].pc \notin {"stop", "patch"} => w[p].status \in Active
    /\ w[p].pc \in {"stop", "patch"} =>
         w[p].seen \in Active /\ af[w[p].run] # "absent"
    /\ w[p].pc = "sync" => w[p].seen \in AfStates
    /\ w[p].pc = "sync" /\ w[p].seen = "success" => work[w[p].run] # "none"
    /\ w[p].pc \in {"stopped", "gone"} => af[w[p].run] \in {"failed", "deleted"}

\* What a watcher knows of a run stays so while the watcher stands still.
LEMMA Standing ==
  ASSUME PipelineInv, Next, NEW p \in Watchers, w'[p] = w[p]
  PROVE  Sound(p)' /\ w'[p] \in {Idle} \cup Looks
<1>1. Sound(p) /\ w[p] \in {Idle} \cup Looks
  BY DEF PipelineInv, TypeOK, WatchersAreSound, Sound
<1>2. CASE w[p].pc = "idle"
  BY <1>1, <1>2 DEF Sound
<1>3. CASE w[p].pc # "idle"
  <2> DEFINE r == w[p].run
  <2>1. r \in Runs /\ row[r] \in Rows /\ row[r].status # "none"
    BY <1>3, Reading
  <2>2. RowMoves(r) /\ WorldMoves(r)
    BY <2>1, RowSteps, WorldSteps
  <2>3. row'[r].status # "none"
    BY <2>1, <2>2 DEF RowMoves
  <2>4. /\ af[r] \in {"failed", "deleted"} => af'[r] \in {"failed", "deleted"}
        /\ af[r] # "absent" => af'[r] # "absent"
        /\ work[r] # "none" => work'[r] # "none"
    BY <2>2 DEF WorldMoves
  <2> QED
    BY <1>1, <1>3, <2>3, <2>4 DEF Sound
<1> QED
  BY <1>2, <1>3

\* An idle watcher has nothing to be wrong about.
LEMMA Idling ==
  ASSUME NEW p \in Watchers, w'[p] = Idle
  PROVE  Sound(p)' /\ w'[p] \in {Idle} \cup Looks
  BY DEF Sound, Idle

\* What a step of watcher p leaves it with.
LEMMA Watching ==
  ASSUME PipelineInv, Next, NEW p \in Watchers,
         Reads(p) \/ Sync(p) \/ Patch(p) \/ Close(p) \/ Abandon(p)
  PROVE  /\ Sound(p)' /\ w'[p] \in {Idle} \cup Looks
         /\ \A q \in Watchers \ {p} : w'[q] = w[q]
         /\ w' = [w EXCEPT ![p] = w'[p]]
<1>0. /\ w \in [Watchers -> {Idle} \cup Looks] /\ row \in [Runs -> Rows]
      /\ af \in [Runs -> {"absent", "deleted"} \cup AfStates]
  BY DEF PipelineInv, TypeOK
<1>1. \E x : w' = [w EXCEPT ![p] = x]
  BY DEF Reads, Sync, Patch, Close, Abandon, Describe, Fetch, Refresh, Stop,
         Look, OrphanLook, Goes
<1>2. /\ \A q \in Watchers \ {p} : w'[q] = w[q]
      /\ w' = [w EXCEPT ![p] = w'[p]]
  BY <1>0, <1>1
<1>3. CASE w'[p] = Idle
  BY <1>2, <1>3, Idling
<1>4. ASSUME NEW r \in Runs, NEW to \in {"describe", "refresh"}, Look(p, r, to)
      PROVE  Sound(p)' /\ w'[p] \in {Idle} \cup Looks
  <2>1. /\ w'[p] = [Idle EXCEPT !.pc = to, !.run = r, !.status = row[r].status,
                          !.start = row[r].start, !.old = row[r].age > 0]
        /\ row' = row /\ row[r].status \in Active /\ row[r] \in Rows
    BY <1>0, <1>4 DEF Look, Goes
  <2>2. /\ w'[p].pc = to /\ w'[p].run = r /\ w'[p].status = row[r].status
    BY <2>1 DEF Idle
  <2>3. \A b \in BOOLEAN :
          [Idle EXCEPT !.pc = to, !.run = r, !.status = row[r].status,
                       !.start = row[r].start, !.old = b] \in Looks
    BY <2>1 DEF Idle, Looks, Rows
  <2>4. (row[r].age > 0) \in BOOLEAN
    OBVIOUS
  <2>5. w'[p] \in Looks
    BY <2>1, <2>3, <2>4
  <2> QED
    BY <2>1, <2>2, <2>5 DEF Sound, Active
<1>5. ASSUME NEW r \in Runs, OrphanLook(p, r)
      PROVE  Sound(p)' /\ w'[p] \in {Idle} \cup Looks
  <2>1. /\ w'[p] = [Idle EXCEPT !.pc = "stop", !.run = r, !.seen = af[r],
                          !.status = row[r].status, !.start = row[r].start]
        /\ row' = row /\ af' = af /\ row[r].status \in Ended /\ row[r] \in Rows
        /\ af[r] \in Active
    BY <1>0, <1>5 DEF OrphanLook, Goes, World
  <2>2. /\ w'[p].pc = "stop" /\ w'[p].run = r /\ w'[p].seen = af[r]
    BY <2>1 DEF Idle
  <2>3. w'[p] \in Looks
    BY <2>1 DEF Idle, Looks, Rows, AfStates, Active, Ended
  <2> QED
    BY <2>1, <2>2, <2>3 DEF Sound, Active, Ended
<1>6. CASE Describe(p) \/ Fetch(p) \/ Refresh(p) \/ Stop(p) \/ Patch(p)
  <2> DEFINE r == w[p].run
             x == w[p]
  <2>1. x.pc \in {"describe", "fetch", "refresh", "stop", "patch"}
    BY <1>6 DEF Describe, Fetch, Refresh, Stop, Patch
  <2>2. /\ x \in Looks /\ r \in Runs /\ row[r] \in Rows
        /\ row[r].status # "none" /\ x.pc # "idle"
    BY <2>1, Reading
  <2>3. /\ x.pc \notin {"stop", "patch"} => x.status \in Active
        /\ x.pc \in {"stop", "patch"} => x.seen \in Active /\ af[r] # "absent"
    BY <2>2 DEF PipelineInv, WatchersAreSound
  <2>4. row' = row /\ work' = work
    BY <1>6 DEF Describe, Fetch, Refresh, Stop, Patch, World
  <2>5. CASE Describe(p)
    <3>1. PICK d \in {"paused", "down", "busy", "free"} :
            w'[p] = [x EXCEPT !.pc = "fetch", !.dag = d]
      <4>1. sched \in {"up", "down", "paused"}
        BY DEF PipelineInv, TypeOK
      <4> QED
        BY <1>0, <2>5, <4>1 DEF Describe, Goes
    <3>2. w'[p] \in Looks /\ w'[p].pc = "fetch" /\ w'[p].run = r
          /\ w'[p].status = x.status
      BY <2>2, <3>1 DEF Looks
    <3>3. x.pc = "describe"
      BY <2>5 DEF Describe
    <3> QED
      BY <1>2, <2>2, <2>3, <2>4, <3>2, <3>3 DEF Sound
  <2>6. CASE Fetch(p)
    <3> DEFINE v == Verdict(x)
               e == IF v = "stop" THEN af[r] ELSE "none"
    <3>1. v \in {"refresh", "missing", "stop", "idle"}
      BY DEF Verdict
    <3>2. v = "stop" => af[r] \in Active
      BY DEF Verdict, Pending, Active
    <3>3. w'[p] = IF v = "idle" THEN Idle
                  ELSE [x EXCEPT !.pc = v, !.dag = "none", !.old = FALSE,
                                 !.seen = e]
      BY <1>0, <2>6 DEF Fetch, Goes
    <3>4. af' = af /\ x.pc = "fetch"
      BY <2>6 DEF Fetch, World
    <3>5. e \in {"none"} \cup AfStates
      BY <3>2 DEF Active, AfStates
    <3>6. af[r] \in Active => af[r] # "absent"
      BY DEF Active
    <3>7. v = "stop" => e = af[r]
      OBVIOUS
    <3> HIDE DEF v, e
    <3>8. CASE v # "idle"
      <4>1. /\ w'[p].pc = v /\ w'[p].run = r /\ w'[p].status = x.status
            /\ w'[p].seen = e
        BY <2>2, <3>3, <3>8 DEF Looks
      <4>2. \A b \in BOOLEAN :
              [x EXCEPT !.pc = v, !.dag = "none", !.old = b, !.seen = e] \in Looks
        BY <2>2, <3>1, <3>5, <3>8 DEF Looks, Closing
      <4>3. w'[p] \in Looks
        BY <3>3, <3>8, <4>2
      <4> QED
        BY <1>2, <2>2, <2>3, <2>4, <3>1, <3>2, <3>4, <3>6, <3>7, <4>1, <4>3 DEF Sound
    <3> QED
      BY <1>3, <3>3, <3>8
  <2>7. CASE Refresh(p)
    <3>1. x.pc = "refresh" /\ af' = af
      BY <2>7 DEF Refresh, World
    <3>2. \/ w'[p] = Idle
          \/ w'[p] = [x EXCEPT !.pc = "sync", !.seen = af[r]] /\ af[r] \in AfStates
      BY <1>0, <2>7 DEF Refresh, Goes
    <3>3. CASE w'[p] = [x EXCEPT !.pc = "sync", !.seen = af[r]]
               /\ af[r] \in AfStates
      <4>1. /\ w'[p] \in Looks /\ w'[p].pc = "sync" /\ w'[p].run = r
            /\ w'[p].status = x.status /\ w'[p].seen = af[r]
        BY <2>2, <3>3 DEF Looks
      <4>2. af[r] = "success" => work[r] # "none"
        BY <2>2 DEF PipelineInv, ReportsAreBacked
      <4> QED
        BY <1>2, <2>2, <2>3, <2>4, <3>1, <3>3, <4>1, <4>2 DEF Sound
    <3> QED
      BY <1>3, <3>2, <3>3
  <2>8. CASE Stop(p)
    <3>1. x.pc = "stop" /\ af' = af
      BY <2>8 DEF Stop, World
    <3>2. \/ w'[p] = Idle
          \/ w'[p] = [x EXCEPT !.pc = "patch"]
          \/ /\ w'[p] = [x EXCEPT !.pc = "gone"] /\ af[r] = "deleted"
             /\ x.status \in Active
      BY <1>0, <2>8 DEF Stop, Goes
    <3>3. \A pc \in {"patch", "gone"} :
            /\ [x EXCEPT !.pc = pc] \in Looks
            /\ [x EXCEPT !.pc = pc].pc = pc
            /\ [x EXCEPT !.pc = pc].run = r
            /\ [x EXCEPT !.pc = pc].status = x.status
            /\ [x EXCEPT !.pc = pc].seen = x.seen
      BY <2>2 DEF Looks, Closing
    <3>4. CASE w'[p] = [x EXCEPT !.pc = "patch"]
      BY <1>2, <2>2, <2>3, <2>4, <3>1, <3>3, <3>4 DEF Sound
    <3>5. CASE /\ w'[p] = [x EXCEPT !.pc = "gone"] /\ af[r] = "deleted"
               /\ x.status \in Active
      BY <1>2, <2>2, <2>3, <2>4, <3>1, <3>3, <3>5 DEF Sound
    <3> QED
      BY <1>3, <3>2, <3>4, <3>5
  <2>9. CASE Patch(p)
    <3>1. \/ w'[p] = Idle
          \/ /\ w'[p] = [x EXCEPT !.pc = "stopped"] /\ x.status \in Active
             /\ af'[r] = "failed"
      BY <1>0, <2>2, <2>9 DEF Patch, Goes
    <3>2. /\ [x EXCEPT !.pc = "stopped"] \in Looks
          /\ [x EXCEPT !.pc = "stopped"].pc = "stopped"
          /\ [x EXCEPT !.pc = "stopped"].run = r
          /\ [x EXCEPT !.pc = "stopped"].status = x.status
      BY <2>2 DEF Looks, Closing
    <3>3. CASE /\ w'[p] = [x EXCEPT !.pc = "stopped"] /\ x.status \in Active
               /\ af'[r] = "failed"
      BY <1>2, <2>2, <2>4, <3>2, <3>3 DEF Sound
    <3> QED
      BY <1>3, <3>1, <3>3
  <2> QED
    BY <1>2, <1>6, <2>5, <2>6, <2>7, <2>8, <2>9
<1>7. CASE Sync(p) \/ Close(p) \/ Abandon(p)
  <2>1. w'[p] = Idle
    BY <1>0, <1>7 DEF Sync, Close, Abandon, Goes
  <2> QED
    BY <1>3, <2>1
<1> QED
  BY <1>2, <1>4, <1>5, <1>6, <1>7 DEF Reads

\* A step of anyone else than the watchers leaves them where they are.
LEMMA WatchersStay ==
  ASSUME Next, ~ \E p \in Watchers : \/ Reads(p) \/ Sync(p) \/ Patch(p)
                                    \/ Close(p) \/ Abandon(p)
  PROVE  w' = w
  BY Steps DEF Request, Airflow, Tick, Switch, Reserve, Post, PostFails,
     RecordTrigger, RequestLost, AfStart, TaskStart, TaskSave, TaskEnd, Quieten,
     Delete, AfFinish

\* What any step leaves the watchers with.
LEMMA WatcherSteps ==
  ASSUME PipelineInv, Next
  PROVE  WatchersAreSound' /\ w' \in [Watchers -> {Idle} \cup Looks]
<1>1. w \in [Watchers -> {Idle} \cup Looks]
  BY DEF PipelineInv, TypeOK
<1>2. ASSUME NEW p \in Watchers,
             Reads(p) \/ Sync(p) \/ Patch(p) \/ Close(p) \/ Abandon(p)
      PROVE  (\A q \in Watchers : Sound(q)') /\ w' \in [Watchers -> {Idle} \cup Looks]
  <2>1. /\ Sound(p)' /\ w'[p] \in {Idle} \cup Looks
        /\ \A q \in Watchers \ {p} : w'[q] = w[q]
        /\ w' = [w EXCEPT ![p] = w'[p]]
    BY <1>2, Watching
  <2>2. \A q \in Watchers \ {p} : Sound(q)'
    BY <2>1, Standing
  <2> QED
    BY <1>1, <2>1, <2>2
<1>3. CASE w' = w
  <2>1. \A q \in Watchers : Sound(q)'
    BY <1>3, Standing
  <2> QED
    BY <1>1, <1>3, <2>1 DEF WatchersAreSound, Sound
<1> QED
  BY <1>2, <1>3, WatchersStay DEF WatchersAreSound, Sound

\* The ledger stays a ledger.
LEMMA RowTypes ==
  ASSUME PipelineInv, Next
  PROVE  row' \in [Runs -> Rows]
<1>1. row \in [Runs -> Rows] /\ \A r \in Runs : row'[r] \in Rows
  BY SMTT(60), RowSteps DEF PipelineInv, TypeOK, RowMoves
<1>2. row' = row \/ \E r \in Runs : \E x : row' = [row EXCEPT ![r] = x]
  <2>1. ASSUME NEW p \in Watchers, Sync(p) \/ Close(p)
        PROVE  row' = row \/ \E r \in Runs : \E x : row' = [row EXCEPT ![r] = x]
    <3>1. w[p].pc # "idle"
      BY <2>1 DEF Sync, Close, Closing
    <3>2. w[p].run \in Runs
      BY <3>1, Reading
    <3> QED
      BY <2>1, <3>2 DEF Sync, Close
  <2>2. ASSUME NEW r \in Runs, Request(r) \/ Airflow(r) \/ Tick(r)
        PROVE  row' = row \/ \E x : row' = [row EXCEPT ![r] = x]
    <3>1. CASE Reserve(r)
      BY <3>1 DEF Reserve
    <3>2. CASE RecordTrigger(r)
      BY <3>2 DEF RecordTrigger, Saved
    <3>3. CASE \E s \in Ended : TaskSave(r, s)
      BY <3>3 DEF TaskSave, Saved
    <3>4. CASE Tick(r)
      <4>1. row' = [row EXCEPT ![r].age = @ + 1, ![r].left = @ \/ row[r].age = 1]
        BY <3>4 DEF Tick
      <4>2. row' = [row EXCEPT ![r] = row'[r]]
        BY <1>1, <4>1
      <4> QED
        BY <4>2
    <3> QED
      BY <2>2, <3>1, <3>2, <3>3, <3>4
      DEF Request, Post, PostFails, RequestLost, Airflow, AfStart, TaskStart,
          TaskEnd, Quieten, Delete, AfFinish
  <2> QED
    BY <2>1, <2>2, Steps
    DEF Switch, Reads, Describe, Fetch, Refresh, Stop, Look, OrphanLook, Patch,
        Abandon
<1> QED
  BY <1>1, <1>2

\* The rest of the state keeps its types.
LEMMA WorldTypes ==
  ASSUME PipelineInv, Next
  PROVE  /\ req' \in [Runs -> {"idle", "reserved", "done"} \cup AfStates]
         /\ af' \in [Runs -> {"absent", "deleted"} \cup AfStates]
         /\ work' \in [Runs -> {"none", "active", "ended"}]
         /\ quiet' \in [Runs -> BOOLEAN]
         /\ sched' \in {"up", "down", "paused"}
         /\ faults' \in 0..MaxFaults
<1>0. /\ req \in [Runs -> {"idle", "reserved", "done"} \cup AfStates]
      /\ af \in [Runs -> {"absent", "deleted"} \cup AfStates]
      /\ work \in [Runs -> {"none", "active", "ended"}]
      /\ quiet \in [Runs -> BOOLEAN]
      /\ sched \in {"up", "down", "paused"}
      /\ faults \in 0..MaxFaults
  BY DEF PipelineInv, TypeOK
<1>1. faults' \in 0..MaxFaults
  <2>1. Fault => faults' \in 0..MaxFaults
    BY <1>0, FaultsAreBounded DEF Fault
  <2> QED
    BY ZenonT(60), <1>0, <2>1, Steps
    DEF Request, Reserve, Post, PostFails, RecordTrigger, RequestLost, Airflow,
        AfStart, TaskStart, TaskSave, TaskEnd, Quieten, Delete, AfFinish, Tick,
        Switch, Reads, Describe, Fetch, Refresh, Stop, Look, OrphanLook, Sync,
        Patch, Close, Abandon, World
<1>2. quiet' \in [Runs -> BOOLEAN]
  <2>1. quiet' = quiet \/ \E r \in Runs, b \in BOOLEAN :
                            quiet' = [quiet EXCEPT ![r] = b]
    <3>1. ASSUME NEW p \in Watchers, Patch(p)
          PROVE  quiet' = quiet \/ \E r \in Runs : quiet' = [quiet EXCEPT ![r] = FALSE]
      <4>1. w[p].run \in Runs
        BY <3>1, Reading DEF Patch
      <4> QED
        BY <3>1, <4>1 DEF Patch
    <3> QED
      BY <3>1, Steps
      DEF Request, Reserve, Post, PostFails, RecordTrigger, RequestLost, Airflow,
          AfStart, TaskStart, TaskSave, TaskEnd, Quieten, Delete, AfFinish, Tick,
          Switch, Reads, Describe, Fetch, Refresh, Stop, Look, OrphanLook, Sync,
          Close, Abandon, World
  <2> QED
    BY <1>0, <2>1
<1>3. ASSUME NEW r \in Runs, Request(r)
      PROVE  /\ req' \in [Runs -> {"idle", "reserved", "done"} \cup AfStates]
             /\ af' \in [Runs -> {"absent", "deleted"} \cup AfStates]
             /\ work' = work /\ sched' = sched
  <2>1. Created(r) \in [Runs -> {"absent", "deleted"} \cup AfStates]
    BY <1>0 DEF Created, AfStates
  <2>2. CASE Post(r)
    <3>1. req[r] = "reserved" /\ row[r].status # "none"
      BY <2>2 DEF Post, PipelineInv, UnreservedIsUnknown
    <3>2. Created(r)[r] = IF af[r] = "absent" THEN "queued" ELSE af[r]
      BY <1>0 DEF Created
    <3>3. af[r] # "deleted"
      BY <3>1 DEF PipelineInv, PendingIsNotDeleted
    <3>4. Created(r)[r] \in AfStates
      BY <1>0, <3>2, <3>3 DEF AfStates
    <3> QED
      BY <1>0, <2>1, <2>2, <3>4 DEF Post, Answer
  <2> QED
    BY <1>0, <1>3, <2>1, <2>2
    DEF Request, Reserve, PostFails, RecordTrigger, RequestLost, AfStates
<1>4. ASSUME NEW r \in Runs, Airflow(r)
      PROVE  /\ req' = req /\ sched' = sched
             /\ af' \in [Runs -> {"absent", "deleted"} \cup AfStates]
             /\ work' \in [Runs -> {"none", "active", "ended"}]
  BY <1>0, <1>4 DEF Airflow, AfStart, TaskStart, TaskSave, TaskEnd, Quieten,
                    Delete, AfFinish, AfStates
<1>5. ASSUME NEW p \in Watchers, Patch(p)
      PROVE  /\ req' = req /\ sched' = sched /\ work' = work
             /\ af' \in [Runs -> {"absent", "deleted"} \cup AfStates]
  BY <1>0, <1>5 DEF Patch, AfStates
<1> QED
  BY ZenonT(60), <1>0, <1>1, <1>2, <1>3, <1>4, <1>5, Steps
  DEF Tick, Switch, Reads, Describe, Fetch, Refresh, Stop, Look, OrphanLook,
      Sync, Close, Abandon, World

\* The count of a reservation bounds the runs that hold a slot.
LEMMA Bounded ==
  ASSUME PipelineInv, Next
  PROVE  ActiveBounded'
<1>0. /\ \A r \in Runs : RowMoves(r)
      /\ Cardinality(Holding) <= MaxActive
      /\ \A q, r \in Holding : Entity[q] = Entity[r] => q = r
      /\ \A r \in Holding : InWindow(r)
  BY RowSteps DEF PipelineInv, ActiveBounded, HoldersAreCounted, InWindow, Holding
<1>1. \A r \in Holding' :
        r \in Holding \/ (Admitted(r) /\ \A q \in Runs \ {r} : row'[q] = row[q])
  BY <1>0 DEF Holding, RowMoves
<1>2. /\ IsFiniteSet(Holding) /\ Cardinality(Holding) \in Nat
      /\ Holding \subseteq Runs /\ Holding' \subseteq Runs
  <2>1. Holding \subseteq Runs /\ Holding' \subseteq Runs
    BY DEF Holding
  <2> QED
    BY <2>1, RunsAreFinite, FS_Subset, FS_CardinalityType
<1>3. CASE Holding' \subseteq Holding
  <2>1. Cardinality(Holding') <= Cardinality(Holding) /\ Cardinality(Holding') \in Nat
    BY <1>2, <1>3, FS_Subset, FS_CardinalityType
  <2>2. Cardinality(Holding') <= MaxActive
    BY <1>0, <1>2, <2>1, LimitIsNatural
  <2>3. \A q, r \in Holding' : Entity[q] = Entity[r] => q = r
    BY <1>0, <1>3
  <2> QED
    BY <2>2, <2>3 DEF ActiveBounded
<1>4. CASE ~(Holding' \subseteq Holding)
  <2>1. PICK r \in Holding' : r \notin Holding
    BY <1>4
  <2>2. Admitted(r) /\ \A q \in Runs \ {r} : row'[q] = row[q]
    BY <1>1, <2>1
  <2>3. \A q \in Holding' : q # r => q \in Holding
    BY <2>2, <1>2 DEF Holding
  <2>4. Holding' \subseteq Holding \cup {r}
    BY <2>3
  <2> DEFINE Counted == {q \in Runs : InWindow(q)}
  <2>5. Holding \subseteq Counted /\ Counted \subseteq Runs
    BY <1>0, <1>2
  <2>6. Cardinality(Counted) < MaxActive /\ \A q \in Counted : Entity[q] # Entity[r]
    BY <2>2 DEF Admitted
  <2> HIDE DEF Counted
  <2>7. IsFiniteSet(Counted) /\ Cardinality(Counted) \in Nat
    BY <2>5, RunsAreFinite, FS_Subset, FS_CardinalityType
  <2>8. Cardinality(Holding) <= Cardinality(Counted)
    BY <2>5, <2>7, FS_Subset
  <2>9. /\ IsFiniteSet(Holding \cup {r})
        /\ Cardinality(Holding \cup {r}) = Cardinality(Holding) + 1
    BY <1>2, <2>1, FS_AddElement
  <2>10. /\ Cardinality(Holding') <= Cardinality(Holding \cup {r})
         /\ Cardinality(Holding') \in Nat
    <3>1. IsFiniteSet(Holding')
      BY <2>4, <2>9, FS_Subset
    <3> QED
      BY <2>4, <2>9, <3>1, FS_Subset, FS_CardinalityType
  <2>11. Cardinality(Holding') <= MaxActive
    BY <1>2, <2>6, <2>7, <2>8, <2>9, <2>10, LimitIsNatural
  <2>12. \A q, t \in Holding' : Entity[q] = Entity[t] => q = t
    BY <1>0, <2>3, <2>5, <2>6
  <2> QED
    BY <2>11, <2>12 DEF ActiveBounded
<1> QED
  BY <1>3, <1>4

\* PipelineInv holds of the initial states.
LEMMA Initial ==
  ASSUME Init
  PROVE  PipelineInv
<1>1. /\ \A r \in Runs : row[r] = NoRow /\ req[r] = "idle" /\ af[r] = "absent"
                         /\ work[r] = "none"
      /\ \A p \in Watchers : w[p] = Idle
  BY DEF Init
<1>2. NoRow \in Rows
  <2>1. 0 \in 0..2 /\ FALSE \in BOOLEAN
    OBVIOUS
  <2>2. \A b \in BOOLEAN : [status |-> "none", start |-> "reserved", age |-> 0,
                             left |-> b, reason |-> "none"] \in Rows
    BY <2>1 DEF Rows
  <2> QED
    BY <2>1, <2>2 DEF NoRow
<1>3. /\ NoRow.status = "none" /\ NoRow.reason = "none" /\ Idle.pc = "idle"
  BY DEF NoRow, Idle
<1>4. quiet \in [Runs -> BOOLEAN]
  BY DEF Init
<1>5. TypeOK
  BY <1>2, <1>4, FaultsAreBounded DEF Init, TypeOK, AfStates
<1>6. Holding = {}
  BY <1>1, <1>3 DEF Holding, Active
<1>7. ActiveBounded /\ HoldersAreCounted
  <2>1. Cardinality(Holding) <= MaxActive
    BY <1>6, FS_EmptySet, LimitIsNatural
  <2> QED
    BY <1>6, <2>1 DEF ActiveBounded, HoldersAreCounted
<1> QED
  BY <1>1, <1>3, <1>5, <1>7
  DEF PipelineInv, SuccessIsBacked, RecoveryIsFinal, StoppedBeforeClosed,
      UnreservedIsUnknown, ReportsAreBacked, PendingIsNotDeleted,
      WatchersAreSound

\* Every step preserves PipelineInv.
LEMMA Preserved ==
  ASSUME PipelineInv, Next
  PROVE  PipelineInv'
<1>0. \A r \in Runs : RowMoves(r) /\ WorldMoves(r)
  BY RowSteps, WorldSteps
<1>1. TypeOK'
  BY RowTypes, WorldTypes, WatcherSteps DEF TypeOK
<1>2. \A r \in Runs : row[r] \in Rows /\ row[r].status \in Statuses
                      /\ row'[r].status \in Statuses
  BY <1>0 DEF PipelineInv, TypeOK, RowMoves, Rows, Statuses
<1>3. SuccessIsBacked'
  BY <1>0 DEF PipelineInv, SuccessIsBacked, RowMoves, WorldMoves
<1>4. RecoveryIsFinal'
  <2>1. ASSUME NEW r \in Runs, row'[r].reason # "none"
        PROVE  row'[r].status = "failed"
    <3>1. CASE row'[r].reason = row[r].reason
      <4>1. row[r].status = "failed"
        BY <2>1, <3>1 DEF PipelineInv, RecoveryIsFinal
      <4>2. Rank(row'[r].status) >= Rank(row[r].status)
        BY <1>0 DEF RowMoves
      <4> QED
        BY <1>2, <4>1, <4>2, Climbing
    <3> QED
      BY <1>0, <3>1 DEF RowMoves
  <2> QED
    BY <2>1 DEF RecoveryIsFinal
<1>5. StoppedBeforeClosed'
  BY <1>0 DEF PipelineInv, StoppedBeforeClosed, RowMoves, WorldMoves
<1>6. UnreservedIsUnknown'
  <2>1. ASSUME NEW r \in Runs, row'[r].status = "none"
        PROVE  row'[r] = NoRow
    <3>1. row'[r] = row[r]
      BY <1>0, <2>1 DEF RowMoves
    <3> QED
      BY <2>1, <3>1 DEF PipelineInv, UnreservedIsUnknown
  <2> QED
    BY <1>0, <2>1 DEF UnreservedIsUnknown, WorldMoves
<1>7. ReportsAreBacked' /\ PendingIsNotDeleted'
  BY <1>0 DEF ReportsAreBacked, PendingIsNotDeleted, WorldMoves
<1>8. HoldersAreCounted'
  BY <1>0 DEF HoldersAreCounted, Holding, RowMoves
<1> QED
  BY <1>1, <1>3, <1>4, <1>5, <1>6, <1>7, <1>8, Bounded, WatcherSteps
  DEF PipelineInv

\* Stuttering steps preserve PipelineInv.
LEMMA Stuttering ==
  ASSUME PipelineInv, UNCHANGED vars
  PROVE  PipelineInv'
  BY DEF vars, PipelineInv, TypeOK, SuccessIsBacked, RecoveryIsFinal,
     StoppedBeforeClosed, ActiveBounded, UnreservedIsUnknown, ReportsAreBacked,
     PendingIsNotDeleted, HoldersAreCounted, Holding, WatchersAreSound

\* The ledger, its requests and its watchers agree in every reachable state.
THEOREM PipelineInvariant == Spec => []PipelineInv
<1>1. PipelineInv /\ [Next]_vars => PipelineInv'
  BY Preserved, Stuttering
<1> QED
  BY <1>1, Initial, PTL DEF Spec

\* The ledger, Airflow's side and the watchers keep their types.
THEOREM PipelineTypes == Spec => []TypeOK
<1>1. PipelineInv => TypeOK
  BY DEF PipelineInv
<1> QED
  BY <1>1, PipelineInvariant, PTL

\* Whoever writes a run's row, its status never falls (status_transitions).
THEOREM StatusNeverFalls == Spec => StatusClimbs
<1>1. ASSUME PipelineInv, [Next]_vars
      PROVE  [\A r \in Runs : Rank(row'[r].status) >= Rank(row[r].status)]_row
  <2>1. CASE Next
    BY <1>1, <2>1, RowSteps DEF RowMoves
  <2>2. CASE UNCHANGED vars
    BY <2>2 DEF vars
  <2> QED
    BY <1>1, <2>1, <2>2
<1> QED
  BY <1>1, PipelineInvariant, PTL DEF Spec, StatusClimbs

\* A run closed as stalled was stopped, or gone, in Airflow before.
THEOREM StoppedFirst == Spec => []StoppedBeforeClosed
<1>1. PipelineInv => StoppedBeforeClosed
  BY DEF PipelineInv
<1> QED
  BY <1>1, PipelineInvariant, PTL

\* What a recovery wrote stays, whoever writes the row later.
THEOREM RecoveryFinal == Spec => []RecoveryIsFinal
<1>1. PipelineInv => RecoveryIsFinal
  BY DEF PipelineInv
<1> QED
  BY <1>1, PipelineInvariant, PTL

\* A run is reported as done only if its task was executed.
THEOREM SuccessBacked == Spec => []SuccessIsBacked
<1>1. PipelineInv => SuccessIsBacked
  BY DEF PipelineInv
<1> QED
  BY <1>1, PipelineInvariant, PTL

\* Reservations bound the active runs, in all and of one entity.
THEOREM SlotsBounded == Spec => []ActiveBounded
<1>1. PipelineInv => ActiveBounded
  BY DEF PipelineInv
<1> QED
  BY <1>1, PipelineInvariant, PTL
=============================================================================
