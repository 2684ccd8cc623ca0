------------------------- MODULE DatasetRefreshProofs -------------------------
(***************************************************************************)
(* DatasetRefresh keeps its inductive invariant and every slot implements  *)
(* FencedRun, for any plan, any number of tries and any number of faults.  *)
(***************************************************************************)
EXTENDS DatasetRefresh, FiniteSetTheorems, TLAPS

\* The steps of a try by what they do to its slot: it closes it and goes on or fails,
\* or it ends without touching it.
Closing(t) ==
  /\ Holding(t)
  /\ \E status \in {"failed", "skipped"} \cup Durable :
       /\ Finished(t, status)
       /\ status \in Durable => Answer(t) = status /\ pc[t] = "asked"
       /\ \/ Raise(t)
          \/ \E class \in Classes \ {"none"} : Advance(t, class) /\ (class \in Durable => class = status)
  /\ UNCHANGED <<job, cur, xcom>>

Quitting(t) ==
  /\ pc[t] \in {"item", "held", "asked"}
  /\ Goto(t, "raised") \/ Goto(t, "dead")
  /\ UNCHANGED <<slot, job, cur, pos, tok, res, xcom>>

Elsewhere == UNCHANGED <<slot, job, cur, pc, pos, tok, res, xcom>>

\* Every step is of one of these kinds.
LEMMA Kinds == ASSUME Next PROVE
  \/ \E t \in Try : Reserve(t) \/ Reuse(t) \/ Invoke(t) \/ End(t) \/ Closing(t) \/ Quitting(t)
  \/ \E d \in Items : Expire(d) \/ \E k \in Try : JobEnds(d, k)
  \/ StartTry \/ Elsewhere
<1>1. ASSUME NEW t \in Try, AlreadyActive(t) \/ Die(t) PROVE Quitting(t)
  BY <1>1 DEF AlreadyActive, Die, Working, Raise, Quitting
<1>2. ASSUME NEW t \in Try, NEW status \in {"failed", "skipped"} \cup Durable, Holding(t),
             NEW class \in Classes \ {"none"}, Conclude(t, status, class),
             status \in Durable => Answer(t) = status /\ pc[t] = "asked",
             class \in Durable => class = status
      PROVE Closing(t) \/ Quitting(t)
  BY <1>2 DEF Conclude, NotFinished, Raise, Closing, Quitting, Holding
<1>3. ASSUME NEW t \in Try, Holding(t), FailClosed(t) PROVE Closing(t) \/ Quitting(t)
  BY <1>3 DEF FailClosed, NotFinished, Raise, Closing, Quitting, Durable, Holding
<1>4. ASSUME NEW t \in Try, Skip(t) PROVE Closing(t) \/ Quitting(t)
  BY <1>2, <1>4 DEF Skip, Holding, Classes, Durable
<1>5. ASSUME NEW t \in Try, Absent(t) PROVE Closing(t) \/ Quitting(t)
  BY <1>2, <1>5 DEF Absent, Holding, Classes, Durable
<1>6. ASSUME NEW t \in Try, Failed(t) PROVE Closing(t) \/ Quitting(t)
  BY <1>2, <1>6 DEF Failed, Holding, Classes, Durable
<1>7. ASSUME NEW t \in Try, Published(t) PROVE Closing(t) \/ Quitting(t)
  <2>1. Answer(t) \in Durable /\ Holding(t) /\ Conclude(t, Answer(t), Answer(t)) /\ pc[t] = "asked"
    BY <1>7 DEF Published, Holding
  <2>2. Answer(t) \in Classes \ {"none"}
    BY <2>1 DEF Classes, Durable
  <2> QED BY <1>2, <2>1, <2>2
<1>8. ASSUME NEW t \in Try, PublishedAsFailed(t) PROVE Closing(t)
  <2>1. "failed" \in Classes \ {"none"} /\ "failed" \notin Durable
    BY DEF Classes, Durable
  <2> QED BY <1>8, <2>1 DEF PublishedAsFailed, Closing, Holding
<1>9. ASSUME NEW t \in Try, NoContext(t) \/ Rejected(t) PROVE Closing(t) \/ Quitting(t)
  BY <1>3, <1>9 DEF NoContext, Rejected, Holding
<1>10. ASSUME NEW t \in Try, GiveUp(t) PROVE Elsewhere
  BY <1>10 DEF GiveUp, Elsewhere, tryVars
<1>11. ASSUME Record PROVE Elsewhere
  BY <1>11 DEF Record, RecordStart, RecordOpen, Trigger, TriggerFails, RecordFinal, Elsewhere, tryVars
<1> QED BY <1>1, <1>4, <1>5, <1>6, <1>7, <1>8, <1>9, <1>10, <1>11 DEF Next, Step

\* What stays the same, and what record_run alone changes.
LEMMA Frame == ASSUME TypeOK, Next PROVE
  /\ lenient' = lenient /\ lost' \in SUBSET Try
  /\ faults' = faults \/ (faults' = faults + 1 /\ faults < MaxFaults)
  /\ faults' \in 0 .. MaxFaults /\ faults' >= faults
  /\ UNCHANGED recVars \/ (Record /\ UNCHANGED <<slot, xcom>>)
<1>1. faults \in 0 .. MaxFaults /\ MaxFaults \in Nat /\ lost \in SUBSET Try
  BY RefreshConstants DEF TypeOK
<1> DEFINE F == /\ lenient' = lenient /\ lost' \in SUBSET Try
                /\ faults' = faults \/ (faults' = faults + 1 /\ faults < MaxFaults)
                /\ UNCHANGED recVars \/ (Record /\ UNCHANGED <<slot, xcom>>)
<1>2. ASSUME NEW t \in Try, NEW s, NEW c, Conclude(t, s, c) PROVE F
  BY <1>1, <1>2 DEF Conclude, NotFinished, Fault
<1>3. ASSUME NEW t \in Try, FailClosed(t) PROVE F
  BY <1>1, <1>3 DEF FailClosed, NotFinished, Fault
<1>4. ASSUME NEW t \in Try, Skip(t) \/ NoContext(t) \/ Published(t) \/ Rejected(t) \/ Absent(t) \/ Failed(t) PROVE F
  BY <1>2, <1>3, <1>4 DEF Skip, NoContext, Published, Rejected, Absent, Failed
<1>5. ASSUME NEW t \in Try, Reserve(t) \/ Reuse(t) \/ AlreadyActive(t) \/ Invoke(t) \/ PublishedAsFailed(t) \/ End(t) PROVE F
  BY <1>1, <1>5 DEF Reserve, Reuse, AlreadyActive, Invoke, PublishedAsFailed, End, Fault
<1>6. ASSUME NEW t \in Try, Die(t) \/ GiveUp(t) PROVE F
  BY <1>1, <1>6 DEF Die, GiveUp, Fault
<1>7. ASSUME NEW d \in Items, Expire(d) \/ \E k \in Try : JobEnds(d, k) PROVE F
  BY <1>1, <1>7 DEF Expire, JobEnds
<1>8. ASSUME StartTry PROVE F
  BY <1>1, <1>8 DEF StartTry
<1>9. ASSUME Record PROVE F
  BY <1>1, <1>9 DEF Record, RecordStart, RecordOpen, Trigger, TriggerFails, RecordFinal, Fault
<1>10. F
  BY <1>4, <1>5, <1>6, <1>7, <1>8, <1>9 DEF Next, Step
<1>11. faults' \in 0 .. MaxFaults /\ faults' >= faults
  BY <1>1, <1>10
<1> QED BY <1>10, <1>11

\* A set of tries has a natural size, which grows with the set.
LEMMA Sizes == ASSUME NEW A \in SUBSET Try, NEW B \in SUBSET Try, A \subseteq B PROVE
  /\ Cardinality(A) \in Nat /\ Cardinality(B) \in Nat
  /\ Cardinality(A) <= Cardinality(B) /\ Cardinality(B) <= MaxTries
  /\ \A t \in B \ A : Cardinality(A) + 1 <= Cardinality(B)
<1>1. IsFiniteSet(Try) /\ Cardinality(Try) = MaxTries
  BY FS_Interval, RefreshConstants DEF Try
<1>2. IsFiniteSet(B) /\ Cardinality(B) <= MaxTries
  BY <1>1, FS_Subset
<1>3. IsFiniteSet(A) /\ Cardinality(A) <= Cardinality(B)
  BY <1>2, FS_Subset
<1>4. Cardinality(A) \in Nat /\ Cardinality(B) \in Nat
  BY <1>2, <1>3, FS_CardinalityType
<1>5. ASSUME NEW t \in B \ A PROVE Cardinality(A) + 1 <= Cardinality(B)
  <2>1. A \cup {t} \in SUBSET B
    OBVIOUS
  <2>2. Cardinality(A \cup {t}) <= Cardinality(B)
    BY <1>2, <2>1, FS_Subset
  <2>3. Cardinality(A \cup {t}) = Cardinality(A) + 1
    BY <1>3, FS_AddElement
  <2> QED BY <2>2, <2>3
<1> QED BY <1>2, <1>3, <1>4, <1>5

\* How a step of one try changes its own variables; it changes no other's.
LEMMA TryTypes == ASSUME TypeOK, NEW t \in Try PROVE
  /\ slot \in [Items -> Slots] /\ pos[t] \in 1 .. N + 1 /\ N \in Nat /\ MaxTries \in Nat
  /\ \A s : Goto(t, s) => pc'[t] = s /\ \A u \in Try \ {t} : pc'[u] = pc[u]
  /\ Raise(t) => pc'[t] = "raised" /\ (\A u \in Try \ {t} : pc'[u] = pc[u]) /\ UNCHANGED <<pos, tok, res>>
  /\ \A c : Advance(t, c) =>
       /\ pc'[t] = "item" /\ pos'[t] = pos[t] + 1 /\ tok' = tok
       /\ \A d \in Items : res'[t][d] = IF d = pos[t] THEN c ELSE res[t][d]
       /\ \A u \in Try \ {t} : pc'[u] = pc[u] /\ pos'[u] = pos[u] /\ res'[u] = res[u]
BY RefreshConstants DEF TypeOK, Goto, Raise, Advance

\* What a closed slot is, and that the others stay as they were.
LEMMA FinishedFacts == ASSUME TypeOK, NEW t \in Try, pos[t] \in Items, NEW status, Finished(t, status) PROVE
  /\ slot[pos[t]] \in Slots
  /\ slot'[pos[t]].status = status /\ slot'[pos[t]].token = slot[pos[t]].token /\ slot'[pos[t]].live = FALSE
  /\ slot[pos[t]].status = "running" /\ slot[pos[t]].token = tok[t]
  /\ \A d \in Items \ {pos[t]} : slot'[d] = slot[d]
  /\ status \in {"failed", "skipped"} \cup Durable => slot' \in [Items -> Slots]
<1>1. slot \in [Items -> Slots] /\ slot[pos[t]] \in Slots
  BY DEF TypeOK
<1> DEFINE new == [slot[pos[t]] EXCEPT !.status = status, !.live = FALSE]
<1>2. new.status = status /\ new.token = slot[pos[t]].token /\ new.live = FALSE
  BY <1>1 DEF Slots
<1>3. status \in {"failed", "skipped"} \cup Durable => new \in Slots
  BY <1>1 DEF Slots
<1>4. slot' = [slot EXCEPT ![pos[t]] = new]
  BY DEF Finished
<1>5. slot'[pos[t]] = new /\ \A d \in Items \ {pos[t]} : slot'[d] = slot[d]
  BY <1>1, <1>4
<1>6. status \in {"failed", "skipped"} \cup Durable => slot' \in [Items -> Slots]
  BY <1>1, <1>3, <1>4
<1>7. slot[pos[t]].status = "running" /\ slot[pos[t]].token = tok[t]
  BY DEF Finished, Holds
<1> HIDE DEF new
<1> QED BY <1>1, <1>2, <1>5, <1>6, <1>7

\* What a reservation does to the slot and to its try.
LEMMA ReserveFacts == ASSUME TypeOK, NEW t \in Try, Reserve(t) PROVE
  /\ pos[t] \in Items /\ pc[t] = "item" /\ pc'[t] \in {"held", "raised"}
  /\ slot[pos[t]].status \notin Durable /\ slot[pos[t]].token \in Nat
  /\ slot' = [slot EXCEPT ![pos[t]] = [status |-> "running", token |-> slot[pos[t]].token + 1, live |-> TRUE]]
  /\ slot'[pos[t]].status = "running" /\ slot'[pos[t]].token = slot[pos[t]].token + 1
  /\ \A d \in Items \ {pos[t]} : slot'[d] = slot[d]
  /\ tok' = [tok EXCEPT ![t] = slot[pos[t]].token + 1] /\ tok'[t] = slot[pos[t]].token + 1
  /\ \A u \in Try \ {t} : pc'[u] = pc[u] /\ tok'[u] = tok[u]
  /\ UNCHANGED <<job, cur, pos, res, xcom>>
<1>1. pos[t] \in Items
  BY RefreshConstants DEF TypeOK, Reserve, Items
<1>2. slot[pos[t]] \in Slots
  BY <1>1 DEF TypeOK
<1>3. slot[pos[t]].token \in Nat
  BY <1>2, RefreshConstants DEF Slots
<1> QED BY <1>1, <1>3 DEF Reserve, Free, TypeOK, Goto

\* An expiry changes no status and no token.
LEMMA ExpireFacts == ASSUME TypeOK, NEW d \in Items, Expire(d) PROVE
  /\ slot' \in [Items -> Slots]
  /\ \A e \in Items : slot'[e].status = slot[e].status /\ slot'[e].token = slot[e].token
  /\ UNCHANGED <<job, cur, pc, pos, tok, res, xcom>>
<1>1. slot \in [Items -> Slots]
  BY DEF TypeOK
<1>2. [slot[d] EXCEPT !.live = FALSE] \in Slots
  BY <1>1 DEF Slots
<1>3. slot' = [slot EXCEPT ![d] = [slot[d] EXCEPT !.live = FALSE]]
  BY DEF Expire
<1>4. [slot[d] EXCEPT !.live = FALSE].status = slot[d].status /\ [slot[d] EXCEPT !.live = FALSE].token = slot[d].token
  BY <1>1 DEF Slots
<1>5. UNCHANGED <<job, cur, pc, pos, tok, res, xcom>>
  BY DEF Expire, tryVars
<1> QED BY <1>1, <1>2, <1>3, <1>4, <1>5

\* A try closes only the slot it holds, under its own token, and never as running.
LEMMA ClosingFacts == ASSUME TypeOK, Reservations, NEW t \in Try, Closing(t) PROVE
  /\ pos[t] \in Items /\ slot' \in [Items -> Slots]
  /\ slot[pos[t]].status = "running" /\ slot[pos[t]].token = tok[t]
  /\ slot'[pos[t]].token = slot[pos[t]].token /\ slot'[pos[t]].status # "running"
  /\ slot'[pos[t]].status \in Durable => job[pos[t]][tok[t]] = slot'[pos[t]].status
  /\ \A d \in Items \ {pos[t]} : slot'[d] = slot[d]
  /\ \/ Raise(t)
     \/ \E c \in Classes \ {"none"} : Advance(t, c) /\ (c \in Durable => c = slot'[pos[t]].status)
  /\ pc'[t] \in {"raised", "item"} /\ \A u \in Try \ {t} : pc'[u] = pc[u] /\ pos'[u] = pos[u] /\ res'[u] = res[u]
  /\ UNCHANGED <<job, cur, tok, xcom>>
<1>1. pos[t] \in Items
  BY RefreshConstants DEF TypeOK, Closing, Reservations, Items
<1>2. PICK s \in {"failed", "skipped"} \cup Durable :
        /\ Finished(t, s) /\ (s \in Durable => Answer(t) = s)
        /\ Raise(t) \/ \E c \in Classes \ {"none"} : Advance(t, c) /\ (c \in Durable => c = s)
  BY DEF Closing
<1>3. s # "running"
  BY DEF Durable
<1>4. /\ slot'[pos[t]].status = s /\ slot'[pos[t]].token = slot[pos[t]].token
      /\ slot[pos[t]].status = "running" /\ slot[pos[t]].token = tok[t]
      /\ \A d \in Items \ {pos[t]} : slot'[d] = slot[d]
      /\ slot' \in [Items -> Slots]
  BY <1>1, <1>2, FinishedFacts
<1>5. s \in Durable => job[pos[t]][tok[t]] = s
  BY <1>2 DEF Answer
<1>6. /\ pc'[t] \in {"raised", "item"} /\ tok' = tok
      /\ \A u \in Try \ {t} : pc'[u] = pc[u] /\ pos'[u] = pos[u] /\ res'[u] = res[u]
  BY <1>2, TryTypes
<1> QED BY <1>1, <1>2, <1>3, <1>4, <1>5, <1>6 DEF Closing

\* A step at a time: the tries that came past a reservation remain, and a slot's token
\* grows only with them.
LEMMA ReservationsStep == ASSUME TypeOK, Reservations, Next PROVE Reservations'
<1> USE RefreshConstants DEF Items
<1>0. \A t \in Try : pos[t] \in 1 .. N + 1 /\ cur \in 0 .. MaxTries /\ t \in Nat
  BY DEF TypeOK, Try
<1>T. pc \in [Try -> {"idle", "item", "held", "asked", "raised", "done", "dead"}] /\ pos \in [Try -> 1 .. N + 1]
  BY DEF TypeOK
<1> DEFINE Grows == \A d \in Items : Reached(d) \subseteq Reached(d)' /\ slot'[d].token = slot[d].token
           Rest == /\ \A t \in Try : t > cur' => pc'[t] = "idle"
                   /\ \A t \in Try : pc'[t] \in {"held", "asked"} => pos'[t] <= N
<1>1. ASSUME Grows, Rest PROVE Reservations'
  <2>1. ASSUME NEW d \in Items PROVE slot'[d].token <= Cardinality(Reached(d)')
    <3>1. Reached(d) \in SUBSET Try /\ Reached(d)' \in SUBSET Try
      BY DEF Reached
    <3>2. Cardinality(Reached(d)) \in Nat /\ Cardinality(Reached(d)') \in Nat /\ Cardinality(Reached(d)) <= Cardinality(Reached(d)')
      BY <1>1, <3>1, Sizes
    <3>3. slot[d].token \in Nat
      BY DEF TypeOK, Slots
    <3> QED BY <1>1, <3>2, <3>3 DEF Reservations
  <2> QED BY <1>1, <2>1 DEF Reservations, Holding
<1>2. ASSUME NEW t \in Try, Reserve(t) PROVE Reservations'
  <2>0. /\ pos[t] \in Items /\ pc[t] = "item" /\ pc'[t] \in {"held", "raised"}
        /\ slot'[pos[t]].token = slot[pos[t]].token + 1
        /\ \A d \in Items \ {pos[t]} : slot'[d] = slot[d]
        /\ \A u \in Try \ {t} : pc'[u] = pc[u]
        /\ pos' = pos /\ cur' = cur
    BY <1>2, ReserveFacts
  <2>1. \A d \in Items : Reached(d) \subseteq Reached(d)'
    BY <2>0 DEF Reached
  <2>2. t \in Reached(pos[t])' \ Reached(pos[t])
    BY <1>0, <2>0 DEF Reached
  <2>3. ASSUME NEW d \in Items PROVE slot'[d].token <= Cardinality(Reached(d)')
    <3>1. Reached(d) \in SUBSET Try /\ Reached(d)' \in SUBSET Try
      BY DEF Reached
    <3>2. /\ Cardinality(Reached(d)) \in Nat /\ Cardinality(Reached(d)') \in Nat
          /\ Cardinality(Reached(d)) <= Cardinality(Reached(d)')
          /\ \A u \in Reached(d)' \ Reached(d) : Cardinality(Reached(d)) + 1 <= Cardinality(Reached(d)')
      BY <2>1, <3>1, Sizes
    <3>3. slot[d].token \in Nat /\ slot[d].token <= Cardinality(Reached(d))
      BY DEF TypeOK, Slots, Reservations
    <3>4. CASE d = pos[t]
      BY <2>0, <2>2, <3>2, <3>3, <3>4
    <3>5. CASE d # pos[t]
      BY <2>0, <3>2, <3>3, <3>5
    <3> QED BY <3>4, <3>5
  <2>4. Rest
    BY <1>0, <2>0 DEF Reservations, Holding
  <2> QED BY <2>3, <2>4 DEF Reservations, Holding
<1>3. ASSUME NEW t \in Try, Reuse(t) PROVE Grows /\ Rest
  <2>1. \E c : Advance(t, c)
    BY <1>3 DEF Reuse
  <2>2. pc'[t] = "item" /\ pos'[t] = pos[t] + 1 /\ \A u \in Try \ {t} : pc'[u] = pc[u] /\ pos'[u] = pos[u]
    BY <2>1, TryTypes
  <2>3. UNCHANGED <<slot, cur>> /\ pc[t] = "item"
    BY <1>3 DEF Reuse
  <2> QED BY SMTT(40), <1>0, <2>2, <2>3 DEF Reached, Reservations, Holding
<1>4. ASSUME NEW t \in Try, Invoke(t) PROVE Grows /\ Rest
  <2>1. pc'[t] = "asked" /\ pc[t] = "held" /\ UNCHANGED <<slot, cur, pos>> /\ \A u \in Try \ {t} : pc'[u] = pc[u]
    BY <1>4, TryTypes DEF Invoke
  <2> QED BY <1>0, <2>1 DEF Reached, Reservations, Holding
<1>5. ASSUME NEW t \in Try, End(t) PROVE Grows /\ Rest
  <2>1. pc'[t] \in {"raised", "done"} /\ pc[t] = "item" /\ UNCHANGED <<slot, cur, pos>> /\ \A u \in Try \ {t} : pc'[u] = pc[u]
    BY <1>5, TryTypes DEF End
  <2> QED BY <1>0, <2>1 DEF Reached, Reservations, Holding
<1>6. ASSUME NEW t \in Try, Closing(t) PROVE Grows /\ Rest
  <2>1. Holding(t) /\ cur' = cur /\ \A d \in Items : slot'[d].token = slot[d].token
    BY <1>6, ClosingFacts DEF Closing
  <2>2. \A u \in Try \ {t} : pc'[u] = pc[u] /\ pos'[u] = pos[u]
    BY <1>6, ClosingFacts
  <2>3. (pc'[t] = "raised" /\ pos'[t] = pos[t]) \/ (pc'[t] = "item" /\ pos'[t] = pos[t] + 1)
    BY <1>6, ClosingFacts, TryTypes
  <2> QED BY <1>0, <2>1, <2>2, <2>3 DEF Reached, Reservations, Holding
<1>7. ASSUME NEW t \in Try, Quitting(t) PROVE Grows /\ Rest
  <2>1. pc[t] # "idle" /\ pc'[t] \in {"raised", "dead"} /\ UNCHANGED <<slot, cur, pos>> /\ \A u \in Try \ {t} : pc'[u] = pc[u]
    BY <1>7, TryTypes DEF Quitting
  <2> QED BY <1>0, <2>1 DEF Reached, Reservations, Holding
<1>8. ASSUME NEW d \in Items, Expire(d) \/ \E k \in Try : JobEnds(d, k) PROVE Grows /\ Rest
  <2>1. UNCHANGED <<pc, pos, cur>> /\ \A e \in Items : slot'[e].token = slot[e].token
    BY <1>8, ExpireFacts DEF JobEnds, tryVars
  <2> QED BY <2>1 DEF Reached, Reservations, Holding
<1>9. ASSUME StartTry PROVE Grows /\ Rest
  <2>1. cur + 1 \in Try /\ cur' = cur + 1 /\ UNCHANGED <<slot, pos>> /\ pc' = [pc EXCEPT ![cur + 1] = "item"]
    BY <1>9 DEF StartTry, Goto, TypeOK, Try
  <2>2. pc[cur + 1] = "idle"
    BY <1>0, <2>1 DEF Reservations
  <2>3. pc'[cur + 1] = "item" /\ \A u \in Try \ {cur + 1} : pc'[u] = pc[u]
    BY <1>T, <2>1
  <2> QED BY <1>0, <2>1, <2>2, <2>3 DEF Reached, Reservations, Holding
<1>10. ASSUME Elsewhere PROVE Grows /\ Rest
  BY <1>10 DEF Elsewhere, Reached, Reservations, Holding
<1> HIDE DEF Grows, Rest
<1> QED BY <1>1, <1>2, <1>3, <1>4, <1>5, <1>6, <1>7, <1>8, <1>9, <1>10, Kinds

\* No two tries hold one token of a slot, and the latest holder finds it running.
LEMMA FencingStep == ASSUME TypeOK, Reservations, Fencing, Next PROVE Fencing'
<1> USE DEF Holding
<1>0. ASSUME NEW t \in Try, pc[t] \in {"held", "asked"} PROVE
        pos[t] \in Items /\ tok[t] \in Nat /\ slot[pos[t]].token \in Nat
  BY <1>0, RefreshConstants DEF TypeOK, Reservations, Items, Slots
<1> DEFINE Kept == \A t \in Try : pc'[t] \in {"held", "asked"} =>
               pc[t] \in {"held", "asked"} /\ pos'[t] = pos[t] /\ tok'[t] = tok[t]
           Same == \A d \in Items : slot'[d].token = slot[d].token /\ slot'[d].status = slot[d].status
<1>1. ASSUME Kept, Same PROVE Fencing'
  BY <1>0, <1>1 DEF Fencing
<1>2. ASSUME NEW t \in Try, Reserve(t) PROVE Fencing'
  <2>1. /\ pos[t] \in Items /\ slot[pos[t]].token \in Nat
        /\ slot'[pos[t]].status = "running" /\ slot'[pos[t]].token = slot[pos[t]].token + 1
        /\ \A d \in Items \ {pos[t]} : slot'[d] = slot[d]
        /\ tok'[t] = slot[pos[t]].token + 1 /\ pos' = pos
        /\ \A u \in Try \ {t} : pc'[u] = pc[u] /\ tok'[u] = tok[u]
    BY <1>2, ReserveFacts
  <2>2. ASSUME NEW u \in Try \ {t}, pc[u] \in {"held", "asked"} PROVE
          /\ tok[u] \in 1 .. slot'[pos[u]].token
          /\ tok[u] = slot'[pos[u]].token => slot'[pos[u]].status = "running"
          /\ pos[u] = pos[t] => tok[u] # slot[pos[t]].token + 1
    <3>1. tok[u] \in 1 .. slot[pos[u]].token /\ (tok[u] = slot[pos[u]].token => slot[pos[u]].status = "running")
      BY <2>2 DEF Fencing
    <3>2. pos[u] \in Items /\ tok[u] \in Nat /\ slot[pos[u]].token \in Nat
      BY <1>0, <2>2
    <3>3. CASE pos[u] = pos[t]
      BY <2>1, <3>1, <3>2, <3>3
    <3>4. CASE pos[u] # pos[t]
      BY <2>1, <3>1, <3>2, <3>4
    <3> QED BY <3>3, <3>4
  <2>3. ASSUME NEW u \in Try, NEW v \in Try, pc'[u] \in {"held", "asked"}, pc'[v] \in {"held", "asked"},
               pos[u] = pos[v], tok'[u] = tok'[v]
        PROVE u = v
    <3>1. CASE u # t /\ v # t
      BY <2>1, <2>3, <3>1 DEF Fencing
    <3>2. CASE u = t /\ v # t
      BY <2>1, <2>2, <2>3, <3>2
    <3>3. CASE u # t /\ v = t
      BY <2>1, <2>2, <2>3, <3>3
    <3> QED BY <3>1, <3>2, <3>3
  <2>4. \A u \in Try : pc'[u] \in {"held", "asked"} =>
          /\ tok'[u] \in 1 .. slot'[pos[u]].token
          /\ tok'[u] = slot'[pos[u]].token => slot'[pos[u]].status = "running"
    BY <2>1, <2>2
  <2> QED BY <2>1, <2>3, <2>4 DEF Fencing
<1>3. ASSUME NEW t \in Try, Closing(t) PROVE Fencing'
  <2>1. /\ pos[t] \in Items /\ slot[pos[t]].token = tok[t] /\ slot'[pos[t]].token = slot[pos[t]].token
        /\ \A d \in Items \ {pos[t]} : slot'[d] = slot[d]
        /\ pc'[t] \in {"raised", "item"} /\ \A u \in Try \ {t} : pc'[u] = pc[u] /\ pos'[u] = pos[u]
        /\ tok' = tok /\ pc[t] \in {"held", "asked"}
    BY <1>3, ClosingFacts DEF Closing
  <2>2. ASSUME NEW u \in Try, pc'[u] \in {"held", "asked"} PROVE
          /\ u # t /\ pc[u] \in {"held", "asked"} /\ pos'[u] = pos[u]
          /\ tok[u] \in 1 .. slot'[pos[u]].token
          /\ tok[u] = slot'[pos[u]].token => slot'[pos[u]].status = "running"
    <3>1. u # t /\ pc[u] \in {"held", "asked"} /\ pos'[u] = pos[u]
      BY <2>1, <2>2
    <3>2. tok[u] \in 1 .. slot[pos[u]].token /\ (tok[u] = slot[pos[u]].token => slot[pos[u]].status = "running")
      BY <3>1 DEF Fencing
    <3>3. CASE pos[u] = pos[t]
      <4>1. tok[u] # tok[t]
        BY <2>1, <3>1, <3>3 DEF Fencing
      <4> QED BY <2>1, <3>1, <3>2, <3>3, <4>1
    <3>4. CASE pos[u] # pos[t]
      BY <1>0, <2>1, <3>1, <3>2, <3>4
    <3> QED BY <3>1, <3>3, <3>4
  <2> QED BY <2>1, <2>2 DEF Fencing
<1>4. ASSUME NEW t \in Try, Reuse(t) PROVE Kept /\ Same
  <2>1. \E c : Advance(t, c)
    BY <1>4 DEF Reuse
  <2>2. pc'[t] = "item" /\ tok' = tok /\ \A u \in Try \ {t} : pc'[u] = pc[u] /\ pos'[u] = pos[u]
    BY <2>1, TryTypes
  <2> QED BY <1>4, <2>2 DEF Reuse
<1>5. ASSUME NEW t \in Try, Invoke(t) PROVE Kept /\ Same
  <2>1. pc'[t] = "asked" /\ pc[t] = "held" /\ UNCHANGED <<slot, pos, tok>> /\ \A u \in Try \ {t} : pc'[u] = pc[u]
    BY <1>5, TryTypes DEF Invoke
  <2> QED BY <2>1
<1>6. ASSUME NEW t \in Try, End(t) \/ Quitting(t) PROVE Kept /\ Same
  <2>1. pc'[t] \in {"raised", "done", "dead"} /\ UNCHANGED <<slot, pos, tok>> /\ \A u \in Try \ {t} : pc'[u] = pc[u]
    BY <1>6, TryTypes DEF End, Quitting
  <2> QED BY <2>1
<1>7. ASSUME NEW d \in Items, Expire(d) \/ \E k \in Try : JobEnds(d, k) PROVE Kept /\ Same
  BY <1>7, ExpireFacts DEF JobEnds, tryVars
<1>8. ASSUME StartTry PROVE Kept /\ Same
  <2>1. pc \in [Try -> {"idle", "item", "held", "asked", "raised", "done", "dead"}]
    BY DEF TypeOK
  <2> QED BY <1>8, <2>1 DEF StartTry, Goto
<1>9. ASSUME Elsewhere PROVE Kept /\ Same
  BY <1>9 DEF Elsewhere
<1> HIDE DEF Kept, Same
<1> QED BY <1>1, <1>2, <1>3, <1>4, <1>5, <1>6, <1>7, <1>8, <1>9, Kinds

\* A durable result stays.
LEMMA DurableStays == ASSUME TypeOK, Reservations, Next, NEW d \in Items, slot[d].status \in Durable
  PROVE slot'[d].status = slot[d].status
<1>1. ASSUME NEW t \in Try, Reserve(t) PROVE slot'[d].status = slot[d].status
  BY <1>1, ReserveFacts
<1>2. ASSUME NEW t \in Try, Closing(t) PROVE slot'[d].status = slot[d].status
  <2>1. "running" \notin Durable
    BY DEF Durable
  <2> QED BY <1>2, <2>1, ClosingFacts
<1>3. ASSUME NEW e \in Items, Expire(e) PROVE slot'[d].status = slot[d].status
  BY <1>3, ExpireFacts
<1> QED BY <1>1, <1>2, <1>3, Kinds DEF Reuse, Invoke, End, Quitting, JobEnds, StartTry, Elsewhere

\* A durable result keeps the answer of the job it came from.
LEMMA BackedStep == ASSUME TypeOK, Reservations, Fencing, DurableIsBacked, Next PROVE DurableIsBacked'
<1>0. "running" \notin Durable /\ "asked" \notin Durable
  BY DEF Durable
<1>1. ASSUME NEW t \in Try, Reserve(t) PROVE DurableIsBacked'
  <2>1. /\ slot'[pos[t]].status = "running" /\ job' = job
        /\ \A d \in Items \ {pos[t]} : slot'[d] = slot[d]
    BY <1>1, ReserveFacts
  <2> QED BY <1>0, <2>1 DEF DurableIsBacked
<1>2. ASSUME NEW t \in Try, Closing(t) PROVE DurableIsBacked'
  <2>1. /\ slot'[pos[t]].status \in Durable => job[pos[t]][tok[t]] = slot'[pos[t]].status
        /\ slot'[pos[t]].token = tok[t] /\ job' = job
        /\ \A d \in Items \ {pos[t]} : slot'[d] = slot[d]
    BY <1>2, ClosingFacts
  <2> QED BY <2>1 DEF DurableIsBacked
<1>3. ASSUME NEW t \in Try, Invoke(t) PROVE DurableIsBacked'
  <2>1. slot' = slot /\ Holding(t) /\ job' = [job EXCEPT ![pos[t]][tok[t]] = "asked"]
    BY <1>3 DEF Invoke, Holding
  <2>2. job \in [Items -> [Try -> {"none", "asked"} \cup Answers]]
    BY DEF TypeOK
  <2>3. ASSUME NEW d \in Items, slot[d].status \in Durable PROVE job'[d][slot[d].token] = job[d][slot[d].token]
    <3>1. ~(d = pos[t] /\ slot[d].token = tok[t])
      BY <1>0, <2>1, <2>3 DEF Fencing
    <3> QED BY <2>1, <2>2, <3>1
  <2> QED BY <2>1, <2>3 DEF DurableIsBacked
<1>4. ASSUME NEW d \in Items, Expire(d) PROVE DurableIsBacked'
  BY <1>4, ExpireFacts DEF DurableIsBacked
<1>5. ASSUME NEW d \in Items, NEW k \in Try, JobEnds(d, k) PROVE DurableIsBacked'
  <2>1. job \in [Items -> [Try -> {"none", "asked"} \cup Answers]]
    BY DEF TypeOK
  <2>2. PICK a \in Answers : job' = [job EXCEPT ![d][k] = a]
    BY <1>5 DEF JobEnds
  <2>3. slot' = slot /\ job[d][k] = "asked"
    BY <1>5 DEF JobEnds
  <2>4. ASSUME NEW e \in Items, slot[e].status \in Durable PROVE job'[e][slot[e].token] = slot[e].status
    <3>1. job[e][slot[e].token] = slot[e].status
      BY <2>4 DEF DurableIsBacked
    <3>2. ~(e = d /\ slot[e].token = k)
      BY <1>0, <2>3, <2>4, <3>1
    <3> QED BY <2>1, <2>2, <3>1, <3>2
  <2> QED BY <2>3, <2>4 DEF DurableIsBacked
<1>6. CASE UNCHANGED <<slot, job>>
  BY <1>6 DEF DurableIsBacked
<1> QED BY <1>1, <1>2, <1>3, <1>4, <1>5, <1>6, Kinds DEF Reuse, End, Quitting, StartTry, Elsewhere

\* Results and the pushed result keep their slots.
LEMMA ClaimsStep == ASSUME TypeOK, Reservations, ClaimsAreDurable, Next PROVE ClaimsAreDurable'
<1>0. \A d \in Items : slot[d].status \in Durable => slot'[d].status = slot[d].status
  BY DurableStays
<1> DEFINE Claims == \A t \in Try, d \in Items : res'[t][d] \in Durable => res'[t][d] = res[t][d] \/ slot'[d].status = res'[t][d]
           Pushed == \A d \in Items : xcom'[d] \in Durable => xcom'[d] = xcom[d] \/ \E t \in Try : xcom'[d] = res[t][d]
<1>1. ASSUME Claims, Pushed PROVE ClaimsAreDurable'
  BY <1>0, <1>1 DEF ClaimsAreDurable
<1>2. ASSUME NEW t \in Try, Closing(t) PROVE Claims /\ Pushed
  <2>1. xcom' = xcom /\ \A u \in Try \ {t} : res'[u] = res[u]
    BY <1>2, ClosingFacts
  <2>2. CASE Raise(t)
    BY <2>1, <2>2 DEF Raise
  <2>3. ASSUME NEW c \in Classes, Advance(t, c), c \in Durable => c = slot'[pos[t]].status PROVE Claims
    <3>1. \A d \in Items : res'[t][d] = IF d = pos[t] THEN c ELSE res[t][d]
      BY <2>3, TryTypes
    <3> QED BY <2>1, <2>3, <3>1
  <2> QED BY <1>2, <2>1, <2>2, <2>3, ClosingFacts
<1>3. ASSUME NEW t \in Try, Reuse(t) PROVE Claims /\ Pushed
  <2>1. Advance(t, slot[pos[t]].status) /\ slot' = slot /\ xcom' = xcom
    BY <1>3 DEF Reuse
  <2>2. /\ \A d \in Items : res'[t][d] = IF d = pos[t] THEN slot[pos[t]].status ELSE res[t][d]
        /\ \A u \in Try \ {t} : res'[u] = res[u]
    BY <2>1, TryTypes
  <2> QED BY <2>1, <2>2
<1>4. ASSUME NEW t \in Try, End(t) PROVE Claims /\ Pushed
  BY <1>4 DEF End
<1>5. ASSUME StartTry PROVE Claims /\ Pushed
  <2>1. "none" \notin Durable
    BY DEF Durable
  <2> QED BY <1>5, <2>1 DEF StartTry, NoResult
<1>6. ASSUME UNCHANGED <<res, xcom>> PROVE Claims /\ Pushed
  BY <1>6
<1> HIDE DEF Claims, Pushed
<1> QED BY <1>1, <1>2, <1>3, <1>4, <1>5, <1>6, Kinds, ReserveFacts, ExpireFacts
         DEF Invoke, Quitting, JobEnds, Elsewhere, tryVars

\* A try leaves no dataset behind without a result.
LEMMA ProgressStep == ASSUME TypeOK, Reservations, Progress, Next PROVE Progress'
<1> USE RefreshConstants DEF Items
<1>0. \A t \in Try : pos[t] \in 1 .. N + 1
  BY DEF TypeOK
<1>1. ASSUME NEW t \in Try, NEW c, c # "none", Advance(t, c) PROVE Progress'
  <2>1. /\ pos'[t] = pos[t] + 1
        /\ \A d \in Items : res'[t][d] = IF d = pos[t] THEN c ELSE res[t][d]
        /\ \A u \in Try \ {t} : pos'[u] = pos[u] /\ res'[u] = res[u]
    BY <1>1, TryTypes
  <2> QED BY <1>0, <1>1, <2>1 DEF Progress
<1>2. ASSUME NEW t \in Try, Closing(t) PROVE Progress'
  <2>1. CASE Raise(t)
    BY <2>1 DEF Raise, Progress
  <2> QED BY <1>1, <1>2, <2>1 DEF Closing
<1>3. ASSUME NEW t \in Try, Reuse(t) PROVE Progress'
  BY <1>1, <1>3 DEF Reuse, Durable
<1>4. CASE UNCHANGED <<pos, res>>
  BY <1>4 DEF Progress
<1> QED BY <1>2, <1>3, <1>4, Kinds DEF Reserve, Invoke, End, Quitting, Expire, JobEnds, StartTry, Elsewhere, tryVars

\* A dataset is asked for only when its inputs were concluded without a failure.
LEMMA InputsStep == ASSUME TypeOK, Reservations, Progress, InputsAreSound, Next PROVE InputsAreSound'
<1> DEFINE Kept == \A t \in Try : pc'[t] = "asked" => pc[t] = "asked" /\ pos'[t] = pos[t] /\ res'[t] = res[t]
<1>1. ASSUME Kept PROVE InputsAreSound'
  BY <1>1 DEF InputsAreSound
<1>2. ASSUME NEW t \in Try, Invoke(t) PROVE InputsAreSound'
  <2>1. pc[t] = "held" /\ ~Blocked(t) /\ UNCHANGED <<pos, res>> /\ \A u \in Try \ {t} : pc'[u] = pc[u]
    BY <1>2, TryTypes DEF Invoke
  <2>2. pos[t] \in Items
    BY <2>1, RefreshConstants DEF TypeOK, Reservations, Holding, Items
  <2>3. ASSUME NEW u \in Upstreams[pos[t]] \cap Items PROVE res[t][u] \in Durable \cup {"absent"}
    <3>1. u < pos[t]
      BY <2>2, <2>3, RefreshConstants
    <3>2. res[t][u] # "none" /\ res[t][u] \in Classes
      BY <2>3, <3>1 DEF Progress, TypeOK
    <3>3. res[t][u] \notin {"failed", "blocked"}
      BY <2>1, <2>3 DEF Blocked, FailureChain
    <3> QED BY <3>2, <3>3 DEF Classes
  <2> QED BY <2>1, <2>3 DEF InputsAreSound
<1>3. ASSUME NEW t \in Try, Closing(t) PROVE Kept
  BY <1>3, ClosingFacts
<1>4. ASSUME NEW t \in Try, Reuse(t) PROVE Kept
  <2>1. \E c : Advance(t, c)
    BY <1>4 DEF Reuse
  <2> QED BY <2>1, TryTypes
<1>5. ASSUME NEW t \in Try, End(t) \/ Quitting(t) PROVE Kept
  <2>1. pc'[t] \in {"raised", "done", "dead"} /\ UNCHANGED <<pos, res>> /\ \A u \in Try \ {t} : pc'[u] = pc[u]
    BY <1>5, TryTypes DEF End, Quitting
  <2> QED BY <2>1
<1>6. ASSUME NEW t \in Try, Reserve(t) PROVE Kept
  <2>1. pc'[t] \in {"held", "raised"} /\ UNCHANGED <<pos, res>> /\ \A u \in Try \ {t} : pc'[u] = pc[u]
    BY <1>6, ReserveFacts
  <2> QED BY <2>1
<1>7. ASSUME StartTry PROVE Kept
  <2>1. pc \in [Try -> {"idle", "item", "held", "asked", "raised", "done", "dead"}]
    BY DEF TypeOK
  <2> QED BY <1>7, <2>1 DEF StartTry, Goto
<1>8. ASSUME UNCHANGED <<pc, pos, res>> PROVE Kept
  BY <1>8
<1> HIDE DEF Kept
<1> QED BY <1>1, <1>2, <1>3, <1>4, <1>5, <1>6, <1>7, <1>8, Kinds DEF Expire, JobEnds, Elsewhere, tryVars

\* What the counts of a pushed result say.
LEMMA Counts == ASSUME NEW x \in [Items -> Classes], NEW C PROVE
  /\ Count(x, C) \in Nat
  /\ Count(x, C) = 0 <=> \A d \in Items : x[d] \notin C
<1> DEFINE S == {d \in Items : x[d] \in C}
<1>1. IsFiniteSet(Items)
  BY FS_Interval, RefreshConstants DEF Items
<1>2. IsFiniteSet(S)
  BY <1>1, FS_Subset
<1>3. Cardinality(S) \in Nat /\ (Cardinality(S) = 0 <=> S = {})
  BY <1>2, FS_CardinalityType, FS_EmptySet
<1> QED BY <1>3 DEF Count

\* materialization_status: success and partial stand for what was pushed.
LEMMA StatusFacts == ASSUME NEW x \in [Items -> Classes], NEW state PROVE
  /\ Status(x, state) \in {"success", "partial", "blocked", "failed"}
  /\ Status(x, state) = "success" => \A d \in Items : x[d] = "ok"
  /\ Status(x, state) = "partial" => \E d \in Items : x[d] \in Durable
<1>1. \A C : Count(x, C) \in Nat /\ (Count(x, C) = 0 <=> \A d \in Items : x[d] \notin C)
  BY Counts
<1>2. \A d \in Items : x[d] \in Classes
  OBVIOUS
<1>3. Status(x, state) \in {"success", "partial", "blocked", "failed"}
  BY DEF Status
<1>4. ASSUME Status(x, state) = "success" PROVE \A d \in Items : x[d] = "ok"
  <2>1. Count(x, {"none"}) = 0 /\ Count(x, {"failed"}) = 0 /\ Count(x, {"blocked", "absent", "degraded"}) = 0
    BY <1>1, <1>4 DEF Status
  <2>2. \A d \in Items : x[d] \notin {"none"} /\ x[d] \notin {"failed"} /\ x[d] \notin {"blocked", "absent", "degraded"}
    BY <1>1, <2>1
  <2> QED BY <1>2, <2>2 DEF Classes, Durable
<1>5. ASSUME Status(x, state) = "partial" PROVE \E d \in Items : x[d] \in Durable
  <2>1. \/ Count(x, Durable) > 0
        \/ Count(x, {"ok"}) # 0
        \/ ~(Count(x, {"blocked", "absent"}) > 0) /\ Count(x, {"blocked", "absent", "degraded"}) > 0
    BY <1>5 DEF Status
  <2>2. CASE Count(x, Durable) > 0
    BY <1>1, <2>2
  <2>3. CASE Count(x, {"ok"}) # 0
    BY <1>1, <2>3 DEF Durable
  <2>4. CASE ~(Count(x, {"blocked", "absent"}) > 0) /\ Count(x, {"blocked", "absent", "degraded"}) > 0
    <3>1. Count(x, {"blocked", "absent"}) = 0 /\ Count(x, {"blocked", "absent", "degraded"}) # 0
      BY <1>1, <2>4
    <3>2. /\ \A d \in Items : x[d] \notin {"blocked", "absent"}
          /\ \E d \in Items : x[d] \in {"blocked", "absent", "degraded"}
      BY <1>1, <3>1
    <3> QED BY <3>2 DEF Durable
  <2> QED BY <2>1, <2>2, <2>3, <2>4
<1> QED BY <1>3, <1>4, <1>5

\* The registry's status never falls in rank.
LEMMA SaveFacts == ASSUME TypeOK, NEW s \in {"running", "success", "partial", "blocked", "failed"}, Save(s) PROVE
  /\ reg' \in {reg, s} /\ reg' # "none"
  /\ s # "running" => reg' # "running"
  /\ s = "running" /\ reg' # "running" => reg' = reg /\ reg \notin {"none", "running"}
  /\ s = "failed" => reg' = "failed"
<1>1. reg \in {"none", "running", "success", "partial", "blocked", "failed"}
  BY DEF TypeOK
<1> QED BY <1>1 DEF Save, StatusRank

\* The part of the invariant that is about record_run.
Recorded == OutcomeIsBacked /\ RecordIsBacked /\ RegistryAgrees

RecTypes ==
  /\ reg \in {"none", "running", "success", "partial", "blocked", "failed"}
  /\ rpc \in {"wait", "open", "trigger", "final", "close", "done", "failed"}
  /\ rtry \in Try
  /\ outcome \in {"none", "success", "partial", "blocked", "failed"}

\* Every step of record_run keeps outcome, registry and slots in agreement.
LEMMA RecordStep == ASSUME RefreshInv, Next PROVE Recorded' /\ RecTypes'
<1>0. TypeOK /\ Reservations /\ ClaimsAreDurable /\ RecTypes
  BY DEF RefreshInv, TypeOK, RecTypes
<1>F. faults \in Nat /\ faults' \in Nat /\ faults' >= faults
  BY <1>0, Frame, RefreshConstants DEF TypeOK
<1> DEFINE Stays == \A d \in Items : slot[d].status \in Durable => slot'[d].status = slot[d].status
<1>1. Stays
  BY <1>0, DurableStays
<1>2. "ok" \in Durable
  BY DEF Durable
<1>3. CASE UNCHANGED recVars
  <2>1. UNCHANGED <<reg, rpc, rtry, outcome>>
    BY <1>3 DEF recVars
  <2>2. OutcomeIsBacked'
    BY <1>1, <1>2, <1>F, <2>1 DEF RefreshInv, OutcomeIsBacked
  <2>3. RecordIsBacked'
    BY <1>1, <1>2, <2>1 DEF RefreshInv, RecordIsBacked
  <2>4. RegistryAgrees'
    BY <1>F, <2>1 DEF RefreshInv, RegistryAgrees
  <2> QED BY <1>0, <2>1, <2>2, <2>3, <2>4 DEF Recorded, RecTypes
<1>4. ASSUME Record, slot' = slot PROVE Recorded' /\ RecTypes'
  <2> USE <1>F
  <2>0. /\ OutcomeIsBacked /\ RecordIsBacked /\ RegistryAgrees /\ TypeOK
        /\ reg \in {"none", "running", "success", "partial", "blocked", "failed"}
        /\ rpc \in {"wait", "open", "trigger", "final", "close", "done", "failed"}
    BY <1>0 DEF RefreshInv, RecTypes
  <2>R. RaiseRecord => rpc' \in {"wait", "failed"} /\ rtry' \in Try
    BY <1>0, RefreshConstants DEF RaiseRecord, RecTypes, Try
  <2>1. CASE RecordStart
    <3> DEFINE st == Status(xcom, TaskState)
    <3>1. xcom \in [Items -> Classes]
      BY <2>0 DEF TypeOK
    <3>2. /\ st \in {"success", "partial", "blocked", "failed"}
          /\ st = "success" => \A d \in Items : xcom[d] = "ok"
          /\ st = "partial" => \E d \in Items : xcom[d] \in Durable
      BY <3>1, StatusFacts
    <3>3. outcome' = st /\ reg' = reg /\ rtry' = rtry /\ faults' = faults /\ rpc = "wait"
          /\ rpc' = IF Tolerated(xcom, st) THEN "open" ELSE "close"
      BY <2>1 DEF RecordStart
    <3>4. Tolerated(xcom, st) => st \in {"success", "partial"}
      BY DEF Tolerated
    <3>5. st = "success" => Tolerated(xcom, st)
      BY DEF Tolerated
    <3>6. /\ st = "success" => \A d \in Items : slot[d].status = "ok"
          /\ st = "partial" => \E d \in Items : slot[d].status \in Durable
      BY <1>0, <1>2, <3>2 DEF ClaimsAreDurable
    <3> HIDE DEF st
    <3>7. OutcomeIsBacked'
      BY <1>4, <2>0, <3>2, <3>3, <3>4, <3>5, <3>6 DEF OutcomeIsBacked
    <3>8. RecordIsBacked' /\ RegistryAgrees'
      BY <1>4, <2>0, <3>3 DEF RecordIsBacked, RegistryAgrees
    <3>9. RecTypes'
      BY <1>0, <3>2, <3>3 DEF RecTypes
    <3> QED BY <3>7, <3>8, <3>9 DEF Recorded
  <2>2. CASE RecordOpen
    <3>1. outcome' = outcome /\ rpc = "open"
      BY <2>2 DEF RecordOpen
    <3>2. reg' \in {reg, "running"}
      BY <2>0, <2>2, SaveFacts DEF RecordOpen
    <3>3. \/ rpc' = "trigger" /\ reg' = "running" /\ rtry' = rtry
          \/ rpc' \in {"wait", "failed"} /\ rtry' \in Try /\ reg' = reg /\ reg \notin {"none", "running"}
          \/ rpc' \in {"wait", "failed"} /\ rtry' \in Try /\ faults' > 0
      BY <2>0, <2>2, <2>R, SaveFacts DEF RecordOpen, Fault
    <3>4. reg = "success" => faults > 0
      BY <2>0, <3>1 DEF OutcomeIsBacked
    <3>5. OutcomeIsBacked'
      BY <1>4, <2>0, <3>1, <3>2, <3>3, <3>4 DEF OutcomeIsBacked
    <3>6. RecordIsBacked'
      BY <1>4, <2>0, <3>2 DEF RecordIsBacked
    <3>7. RegistryAgrees'
      BY <3>3, <3>4 DEF RegistryAgrees
    <3>8. RecTypes'
      BY <1>0, <3>1, <3>2, <3>3 DEF RecTypes
    <3> QED BY <3>5, <3>6, <3>7, <3>8 DEF Recorded
  <2>3. CASE Trigger
    <3>1. UNCHANGED <<reg, rtry, outcome, faults>> /\ rpc = "trigger" /\ rpc' = "final"
      BY <2>3 DEF Trigger
    <3>2. OutcomeIsBacked' /\ RecordIsBacked' /\ RegistryAgrees'
      BY <1>4, <2>0, <3>1 DEF OutcomeIsBacked, RecordIsBacked, RegistryAgrees
    <3> QED BY <1>0, <3>1, <3>2 DEF Recorded, RecTypes
  <2>4. CASE TriggerFails
    <3>1. outcome' = outcome /\ rpc = "trigger" /\ rpc' \in {"wait", "failed"} /\ rtry' \in Try
      BY <2>4, <2>R DEF TriggerFails
    <3>2. reg' = "failed" \/ (reg' = reg /\ faults' > 0)
      BY <2>0, <2>4, SaveFacts DEF TriggerFails, Fault
    <3>3. OutcomeIsBacked' /\ RecordIsBacked' /\ RegistryAgrees'
      BY <1>4, <2>0, <3>1, <3>2 DEF OutcomeIsBacked, RecordIsBacked, RegistryAgrees
    <3> QED BY <1>0, <3>1, <3>2, <3>3 DEF Recorded, RecTypes
  <2>5. CASE RecordFinal
    <3>1. outcome' = outcome /\ rpc \in {"final", "close"}
      BY <2>5 DEF RecordFinal
    <3>2. outcome \in {"success", "partial", "blocked", "failed"} /\ (rpc = "final" => outcome \in {"success", "partial"})
          /\ (rpc = "close" => outcome # "success")
      BY <2>0, <3>1 DEF OutcomeIsBacked
    <3>3. Save(outcome) => reg' \in {reg, outcome} /\ reg' \notin {"none", "running"}
      BY <2>0, <3>2, SaveFacts
    <3>4. reg' \in {reg, outcome}
      BY <2>5, <3>3 DEF RecordFinal
    <3>5. \/ rpc' = "done" /\ reg' = outcome /\ rpc = "final" /\ rtry' = rtry
          \/ /\ rpc' \in {"wait", "failed"} /\ rtry' \in Try /\ reg' \notin {"none", "running"}
             /\ reg' # outcome \/ rpc = "close"
          \/ rpc' \in {"wait", "failed"} /\ rtry' \in Try /\ faults' > 0
      BY <2>5, <2>R, <3>3 DEF RecordFinal, Fault
    <3>6. reg = "success" => faults > 0
      BY <2>0, <3>1 DEF OutcomeIsBacked
    <3>7. reg' = "success" /\ rpc' # "done" => faults' > 0
      BY <3>2, <3>4, <3>5, <3>6
    <3>8. OutcomeIsBacked'
      BY <1>4, <2>0, <3>1, <3>2, <3>5, <3>7 DEF OutcomeIsBacked
    <3>9. RecordIsBacked'
      BY <1>4, <2>0, <3>4 DEF RecordIsBacked, OutcomeIsBacked
    <3>10. RegistryAgrees'
      BY <3>1, <3>2, <3>5, <3>7 DEF RegistryAgrees
    <3>11. RecTypes'
      BY <1>0, <3>1, <3>4, <3>5 DEF RecTypes
    <3> QED BY <3>8, <3>9, <3>10, <3>11 DEF Recorded
  <2> QED BY <1>4, <2>1, <2>2, <2>3, <2>4, <2>5 DEF Record
<1> QED BY <1>0, <1>3, <1>4, Frame

\* Every step keeps the types; a reservation never exceeds the number of tries.
LEMMA TypeStep == ASSUME TypeOK, Reservations, Next, RecTypes' PROVE TypeOK'
<1> USE RefreshConstants
<1> DEFINE PCs == {"idle", "item", "held", "asked", "raised", "done", "dead"}
<1>0. /\ slot \in [Items -> Slots] /\ job \in [Items -> [Try -> {"none", "asked"} \cup Answers]]
      /\ cur \in 0 .. MaxTries /\ pc \in [Try -> PCs] /\ pos \in [Try -> 1 .. N + 1]
      /\ tok \in [Try -> 0 .. MaxTries] /\ res \in [Try -> [Items -> Classes]] /\ xcom \in [Items -> Classes]
  BY DEF TypeOK
<1> DEFINE SlotTypes == slot' \in [Items -> Slots] /\ tok' \in [Try -> 0 .. MaxTries]
           JobTypes == job' \in [Items -> [Try -> {"none", "asked"} \cup Answers]] /\ cur' \in 0 .. MaxTries
           TryVarTypes == pc' \in [Try -> PCs] /\ pos' \in [Try -> 1 .. N + 1] /\ res' \in [Try -> [Items -> Classes]]
                       /\ xcom' \in [Items -> Classes]
<1>1. ASSUME SlotTypes, JobTypes, TryVarTypes PROVE TypeOK'
  <2>1. lenient' \in BOOLEAN /\ lost' \in SUBSET Try /\ faults' \in 0 .. MaxFaults
    BY Frame DEF TypeOK
  <2> QED BY <1>1, <2>1 DEF TypeOK, RecTypes
<1>2. ASSUME NEW t \in Try, NEW c \in Classes, pos[t] \in Items, Advance(t, c) PROVE
        pc' \in [Try -> PCs] /\ pos' \in [Try -> 1 .. N + 1] /\ res' \in [Try -> [Items -> Classes]] /\ tok' = tok
  <2>1. pos[t] + 1 \in 1 .. N + 1
    BY <1>2 DEF Items
  <2>2. pc' = [pc EXCEPT ![t] = "item"] /\ pos' = [pos EXCEPT ![t] = pos[t] + 1] /\ tok' = tok
        /\ res' = [res EXCEPT ![t] = [res[t] EXCEPT ![pos[t]] = c]]
    BY <1>2 DEF Advance, Goto
  <2>3. [res[t] EXCEPT ![pos[t]] = c] \in [Items -> Classes]
    BY <1>0, <1>2
  <2> QED BY <1>0, <2>1, <2>2, <2>3
<1>3. ASSUME NEW t \in Try, NEW p \in PCs, Goto(t, p) PROVE pc' \in [Try -> PCs]
  BY <1>0, <1>3 DEF Goto
<1>4. ASSUME NEW t \in Try, Reserve(t) PROVE TypeOK'
  <2>1. pos[t] \in Items /\ pc[t] = "item" /\ UNCHANGED <<job, cur, pos, res, xcom>>
        /\ slot' = [slot EXCEPT ![pos[t]] = [status |-> "running", token |-> slot[pos[t]].token + 1, live |-> TRUE]]
        /\ tok' = [tok EXCEPT ![t] = slot[pos[t]].token + 1] /\ slot[pos[t]].token \in Nat
    BY <1>4, ReserveFacts
  <2>2. Reached(pos[t]) \in SUBSET Try /\ t \in Try \ Reached(pos[t]) /\ Try \in SUBSET Try
    BY <1>0, <2>1 DEF Reached
  <2>3. Cardinality(Reached(pos[t])) \in Nat /\ Cardinality(Reached(pos[t])) + 1 <= Cardinality(Try)
        /\ Cardinality(Try) \in Nat /\ Cardinality(Try) <= MaxTries
    BY <2>2, Sizes
  <2>4. slot[pos[t]].token + 1 \in 0 .. MaxTries
    BY <2>1, <2>3 DEF Reservations
  <2>5. SlotTypes
    BY <1>0, <2>1, <2>4 DEF Slots
  <2>6. pc' \in [Try -> PCs]
    BY <1>3, <1>4 DEF Reserve
  <2> QED BY <1>0, <1>1, <2>1, <2>5, <2>6
<1>5. ASSUME NEW t \in Try, Reuse(t) PROVE TypeOK'
  <2>1. pos[t] \in Items /\ slot[pos[t]].status \in Classes /\ Advance(t, slot[pos[t]].status)
    BY <1>0, <1>5 DEF Reuse, Items, Classes
  <2>2. UNCHANGED <<slot, job, cur, xcom>>
    BY <1>5 DEF Reuse
  <2> QED BY <1>0, <1>1, <1>2, <2>1, <2>2
<1>6. ASSUME NEW t \in Try, Invoke(t) PROVE TypeOK'
  <2>1. pc' \in [Try -> PCs]
    BY <1>3, <1>6 DEF Invoke
  <2>2. job' = [job EXCEPT ![pos[t]] = [job[pos[t]] EXCEPT ![tok[t]] = "asked"]] /\ UNCHANGED <<slot, cur, pos, tok, res, xcom>>
    BY <1>6 DEF Invoke
  <2> QED BY <1>0, <1>1, <2>1, <2>2
<1>7. ASSUME NEW t \in Try, End(t) PROVE TypeOK'
  <2>1. pc' \in [Try -> PCs]
    BY <1>3, <1>7 DEF End
  <2>2. xcom' = res[t] /\ UNCHANGED <<slot, job, cur, pos, tok, res>>
    BY <1>7 DEF End
  <2> QED BY <1>0, <1>1, <2>1, <2>2
<1>8. ASSUME NEW t \in Try, Closing(t) PROVE TypeOK'
  <2>1. slot' \in [Items -> Slots] /\ UNCHANGED <<job, cur, tok, xcom>> /\ pos[t] \in Items
    BY <1>8, ClosingFacts
  <2>2. CASE Raise(t)
    <3>1. pc' \in [Try -> PCs] /\ UNCHANGED <<pos, res>>
      BY <1>3, <2>2 DEF Raise
    <3> QED BY <1>0, <1>1, <2>1, <3>1
  <2>3. ASSUME NEW c \in Classes, Advance(t, c) PROVE TypeOK'
    BY <1>0, <1>1, <1>2, <2>1, <2>3
  <2> QED BY <1>8, <2>2, <2>3, ClosingFacts
<1>9. ASSUME NEW t \in Try, Quitting(t) PROVE TypeOK'
  <2>1. pc' \in [Try -> PCs] /\ UNCHANGED <<slot, job, cur, pos, tok, res, xcom>>
    BY <1>3, <1>9 DEF Quitting
  <2> QED BY <1>0, <1>1, <2>1
<1>10. ASSUME NEW d \in Items, Expire(d) PROVE TypeOK'
  BY <1>0, <1>1, <1>10, ExpireFacts
<1>11. ASSUME NEW d \in Items, NEW k \in Try, JobEnds(d, k) PROVE TypeOK'
  <2>1. PICK a \in Answers : job' = [job EXCEPT ![d] = [job[d] EXCEPT ![k] = a]]
    BY <1>11 DEF JobEnds
  <2>2. UNCHANGED <<slot, cur, pc, pos, tok, res, xcom>>
    BY <1>11 DEF JobEnds, tryVars
  <2> QED BY <1>0, <1>1, <2>1, <2>2
<1>12. ASSUME StartTry PROVE TypeOK'
  <2>1. cur + 1 \in Try /\ cur' = cur + 1 /\ UNCHANGED <<slot, job, pos, tok, res>> /\ xcom' = NoResult
    BY <1>0, <1>12 DEF StartTry, Try
  <2>2. pc' \in [Try -> PCs]
    BY <1>3, <1>12, <2>1 DEF StartTry
  <2>3. cur' \in 0 .. MaxTries /\ NoResult \in [Items -> Classes]
    BY <2>1 DEF Try, NoResult, Classes
  <2> QED BY <1>0, <1>1, <2>1, <2>2, <2>3
<1>13. ASSUME Elsewhere PROVE TypeOK'
  BY <1>0, <1>1, <1>13 DEF Elsewhere
<1> QED BY <1>4, <1>5, <1>6, <1>7, <1>8, <1>9, <1>10, <1>11, <1>12, <1>13, Kinds

\* The initial states satisfy the invariant.
LEMMA InvInit == ASSUME Init PROVE RefreshInv
<1> USE RefreshConstants
<1>1. TypeOK
  BY DEF Init, TypeOK, Slots, NoResult, Classes, Try, Items
<1>2. Reservations
  <2>1. \A d \in Items : slot[d].token = 0 /\ Reached(d) \in SUBSET Try
    BY DEF Init, Reached
  <2>2. \A d \in Items : Cardinality(Reached(d)) \in Nat
    BY <2>1, Sizes
  <2> QED BY <2>1, <2>2 DEF Init, Reservations, Holding
<1>3. Fencing /\ InputsAreSound
  BY DEF Init, Fencing, Holding, InputsAreSound
<1>4. Progress
  BY DEF Init, Progress, Items
<1>5. DurableIsBacked /\ ClaimsAreDurable /\ OutcomeIsBacked /\ RecordIsBacked /\ RegistryAgrees
  BY DEF Init, NoResult, Durable, DurableIsBacked, ClaimsAreDurable, OutcomeIsBacked, RecordIsBacked, RegistryAgrees
<1> QED BY <1>1, <1>2, <1>3, <1>4, <1>5 DEF RefreshInv

\* Every step preserves the invariant.
LEMMA InvStep == ASSUME RefreshInv, [Next]_vars PROVE RefreshInv'
<1>1. CASE Next
  <2>0. TypeOK /\ Reservations /\ Fencing /\ Progress /\ DurableIsBacked /\ ClaimsAreDurable /\ InputsAreSound
    BY DEF RefreshInv
  <2>1. Recorded' /\ RecTypes'
    BY <1>1, RecordStep
  <2>2. TypeOK' /\ Reservations' /\ Fencing' /\ Progress'
    BY <1>1, <2>0, <2>1, TypeStep, ReservationsStep, FencingStep, ProgressStep
  <2>3. DurableIsBacked' /\ ClaimsAreDurable' /\ InputsAreSound'
    BY <1>1, <2>0, BackedStep, ClaimsStep, InputsStep
  <2> QED BY <2>1, <2>2, <2>3 DEF RefreshInv, Recorded
<1>2. CASE UNCHANGED vars
  BY <1>2 DEF RefreshInv, vars, TypeOK, Reservations, Reached, Holding, Fencing, Progress, DurableIsBacked,
     ClaimsAreDurable, InputsAreSound, OutcomeIsBacked, RecordIsBacked, RegistryAgrees
<1> QED BY <1>1, <1>2

\* The inductive invariant of the refresh chain.
THEOREM RefreshInvariant == Spec => []RefreshInv
BY InvInit, InvStep, PTL DEF Spec

\* Every reachable state is well typed; in particular no token exceeds the tries.
THEOREM RefreshTypes == Spec => []TypeOK
<1>1. RefreshInv => TypeOK
  BY DEF RefreshInv
<1> QED BY <1>1, RefreshInvariant, PTL

\* A slot's durable result was published under the slot's own token.
THEOREM DurableBacked == Spec => []DurableIsBacked
<1>1. RefreshInv => DurableIsBacked
  BY DEF RefreshInv
<1> QED BY <1>1, RefreshInvariant, PTL

\* What a try reports as refreshed is and stays in its slot.
THEOREM ClaimsDurable == Spec => []ClaimsAreDurable
<1>1. RefreshInv => ClaimsAreDurable
  BY DEF RefreshInv
<1> QED BY <1>1, RefreshInvariant, PTL

\* materialize_in_order never materializes below a failure, at any depth of the plan.
THEOREM InputsSound == Spec => []InputsAreSound
<1>1. RefreshInv => InputsAreSound
  BY DEF RefreshInv
<1> QED BY <1>1, RefreshInvariant, PTL

\* A success or partial in the registry stands for durable results.
THEOREM RecordBacked == Spec => []RecordIsBacked
<1>1. RefreshInv => RecordIsBacked
  BY DEF RefreshInv
<1> QED BY <1>1, RefreshInvariant, PTL

\* record_run and the registry disagree only after a lost call.
THEOREM RegistryAgreement == Spec => []RegistryAgrees
<1>1. RefreshInv => RegistryAgrees
  BY DEF RefreshInv
<1> QED BY <1>1, RefreshInvariant, PTL

\* Every step is a step of each slot's FencedRun or leaves it alone.
LEMMA FenceStep == ASSUME RefreshInv, Next, NEW d \in Items PROVE [Fence(d)!Next]_(Fence(d)!vars)
<1>0. TypeOK /\ Reservations
  BY DEF RefreshInv
<1> USE DEF Fence!Next, Fence!vars, Fence!Take, Fence!Close, Fence!Write
<1>1. ASSUME NEW t \in Try, Reserve(t), d = pos[t] PROVE Fence(d)!Take
  <2>1. slot[d].status \notin Durable /\ slot'[d].status = "running" /\ slot'[d].token = slot[d].token + 1
    BY <1>0, <1>1, ReserveFacts
  <2> QED BY <2>1 DEF Durable
<1>2. ASSUME NEW t \in Try, Closing(t), d = pos[t] PROVE Fence(d)!Close
  <2>1. slot[d].status = "running" /\ slot'[d].token = slot[d].token
        /\ slot'[d].status \in {"none", "failed", "skipped"} \cup Durable
    BY <1>0, <1>2, ClosingFacts DEF Slots
  <2>2. slot'[d].status # "none"
    BY <1>0, <1>2, FinishedFacts, ClosingFacts DEF Closing, Durable
  <2> QED BY <2>1, <2>2 DEF Durable
<1>3. ASSUME slot'[d].status = slot[d].status, slot'[d].token = slot[d].token PROVE UNCHANGED Fence(d)!vars
  BY <1>3
<1>4. ASSUME NEW t \in Try, Reserve(t) \/ Closing(t), d # pos[t] PROVE slot'[d] = slot[d]
  BY <1>0, <1>4, ReserveFacts, ClosingFacts
<1> QED BY <1>0, <1>1, <1>2, <1>3, <1>4, Kinds, ExpireFacts DEF Reuse, Invoke, End, Quitting, JobEnds, StartTry, Elsewhere

\* Every slot implements FencedRun.
THEOREM SlotsImplement == Spec => ImplementsFencedRun
<1>1. Init => \A d \in Items : Fence(d)!Init
  BY DEF Init, Fence!Init, Durable
<1>2. RefreshInv /\ [Next]_vars => [\A d \in Items : [Fence(d)!Next]_(Fence(d)!vars)]_slot
  BY FenceStep DEF vars
<1> QED BY <1>1, <1>2, RefreshInvariant, PTL DEF Spec, ImplementsFencedRun

\* A try's own steps lower what it has left; starting it is the first of them.
LEMMA TryAdvance == ASSUME TypeOK, Reservations, Next, NEW t \in Try PROVE
  \/ pc'[t] = pc[t] /\ pos'[t] = pos[t]
  \/ TryLeft(t)' < TryLeft(t)
<1>1. /\ pos \in [Try -> 1 .. N + 1] /\ N \in Nat
      /\ pc \in [Try -> {"idle", "item", "held", "asked", "raised", "done", "dead"}]
  BY RefreshConstants DEF TypeOK
<1>2. ASSUME NEW u \in Try, u # t,
             Reserve(u) \/ Reuse(u) \/ Invoke(u) \/ End(u) \/ Closing(u) \/ Quitting(u)
      PROVE pc'[t] = pc[t] /\ pos'[t] = pos[t]
  BY <1>1, <1>2 DEF Reserve, Reuse, Invoke, End, Closing, Quitting, Raise, Advance, Goto
<1>3. CASE Reserve(t) \/ Invoke(t) \/ End(t)
  BY <1>1, <1>3 DEF Reserve, Invoke, End, Goto, TryLeft
<1>4. CASE Reuse(t)
  BY <1>1, <1>4 DEF Reuse, Advance, Goto, TryLeft
<1>5. CASE Closing(t)
  <2>1. pc[t] \in {"held", "asked"} /\ pos[t] <= N
    BY <1>5 DEF Closing, Holding, Reservations
  <2>2. \/ pc'[t] = "raised" /\ pos' = pos
        \/ pc'[t] = "item" /\ pos'[t] = pos[t] + 1
    BY <1>1, <1>5 DEF Closing, Raise, Advance, Goto
  <2> QED BY <1>1, <2>1, <2>2 DEF TryLeft
<1>6. CASE Quitting(t)
  <2>1. pc[t] \in {"item", "held", "asked"} /\ pc'[t] \in {"raised", "dead"} /\ pos' = pos
    BY <1>1, <1>6 DEF Quitting, Goto
  <2>2. pc[t] = "asked" => pos[t] <= N
    BY DEF Reservations, Holding
  <2>3. pc[t] = "held" => pos[t] <= N
    BY DEF Reservations, Holding
  <2> QED BY <1>1, <2>1, <2>2, <2>3 DEF TryLeft
<1>7. CASE StartTry
  <2>1. CASE t = cur + 1
    <3>1. cur \in 0 .. MaxTries /\ MaxTries \in Nat
      BY RefreshConstants DEF TypeOK
    <3>2. pc[t] = "idle"
      BY <2>1, <3>1 DEF Reservations
    <3>3. pc'[t] = "item" /\ pos' = pos
      BY <1>1, <1>7, <2>1 DEF StartTry, Goto
    <3> QED BY <1>1, <3>2, <3>3 DEF TryLeft
  <2>2. CASE t # cur + 1
    BY <1>1, <1>7, <2>2 DEF StartTry, Goto
  <2> QED BY <2>1, <2>2
<1> QED BY <1>2, <1>3, <1>4, <1>5, <1>6, <1>7, Kinds DEF Expire, JobEnds, Elsewhere, tryVars

\* Every step of record_run lowers what it has left.
LEMMA RecordAdvance == ASSUME TypeOK, Next PROVE UNCHANGED <<rpc, rtry>> \/ RecordLeft' < RecordLeft
<1>1. rtry \in 1 .. MaxTries /\ MaxTries \in Nat
  BY RefreshConstants DEF TypeOK, Try
<1>2. ASSUME RaiseRecord, rpc \in {"open", "trigger", "final", "close"}
      PROVE RecordLeft' < RecordLeft
  BY <1>1, <1>2 DEF RaiseRecord, RecordLeft
<1>3. CASE RecordStart \/ Trigger
  BY <1>1, <1>3 DEF RecordStart, Trigger, RecordLeft
<1>4. CASE RecordOpen
  <2>1. RaiseRecord \/ (rpc' = "trigger" /\ rtry' = rtry)
    BY <1>4 DEF RecordOpen
  <2> QED BY <1>1, <1>2, <1>4, <2>1 DEF RecordOpen, RecordLeft
<1>5. CASE TriggerFails
  BY <1>2, <1>5 DEF TriggerFails
<1>6. CASE RecordFinal
  <2>1. RaiseRecord \/ (rpc' = "done" /\ rtry' = rtry)
    BY <1>6 DEF RecordFinal
  <2> QED BY <1>1, <1>2, <1>6, <2>1 DEF RecordFinal, RecordLeft
<1> QED BY <1>3, <1>4, <1>5, <1>6, Frame DEF Record, recVars

\* The safety half of "every run of the chain ends": a run takes at most TryLeft
\* steps in each try and RecordLeft steps in record_run.
THEOREM RefreshOnlyAdvances == Spec => RefreshAdvances
<1>1. RefreshInv /\ [Next]_vars =>
        [/\ \A t \in Try : \/ pc'[t] = pc[t] /\ pos'[t] = pos[t]
                           \/ TryLeft(t)' < TryLeft(t)
         /\ UNCHANGED <<rpc, rtry>> \/ RecordLeft' < RecordLeft]_vars
  BY TryAdvance, RecordAdvance DEF RefreshInv
<1> QED BY <1>1, RefreshInvariant, PTL DEF Spec, RefreshAdvances
=============================================================================
