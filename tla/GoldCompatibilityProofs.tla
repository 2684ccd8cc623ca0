---------------------- MODULE GoldCompatibilityProofs ----------------------
(***************************************************************************)
(* The relations of the gold rows through the upgrade, for every set of    *)
(* scopes and every number of publications.                                *)
(*                                                                         *)
(* The migrations write different columns of the same scope (head and      *)
(* generation, mapping, rows) and may run again at any time, so what one   *)
(* of them leaves must be exactly what the tests of the others expect.     *)
(* CompatibilityInv says so scope by scope; each migration is one lemma.   *)
(***************************************************************************)
EXTENDS GoldCompatibility, TLAPS

\* What is known of one scope, types apart.
ScopeInv(s) ==
  /\ head[s] = NoHead <=> gen[s] = 0
  /\ mapping[s] = "own" <=> s \in exists
  /\ mapping[s] = "shared" => s \in inShared
  /\ mapping[s] = "none" => head[s] = NoHead /\ own[s] = {}
  /\ mapping[s] = "shared" => head[s] = Legacy /\ own[s] = {}
  /\ mapping[s] = "own" => head[s] # NoHead /\ own[s] = {head[s]}

\* The types of the columns.
ColumnType ==
  /\ applied \in 0..3
  /\ inShared \subseteq Scopes /\ exists \subseteq Scopes
  /\ head \in [Scopes -> {NoHead, Legacy} \cup 1..MaxGen]
  /\ gen \in [Scopes -> 0..MaxGen]
  /\ own \in [Scopes -> SUBSET ({Legacy} \cup 1..MaxGen)]
  /\ access \in [Scopes -> Access] /\ accessShared \in Access
  /\ mapping \in [Scopes -> {"none", "shared", "own"}]

\* The invariant is the types and the same facts about every scope.
LEMMA InvByScope == CompatibilityInv <=> ColumnType /\ \A s \in Scopes : ScopeInv(s)
BY DEF CompatibilityInv, TypeOK, ColumnType, ScopeInv

\* Before the upgrade no scope has a head, a mapping or a relation of its own.
LEMMA CompatibilityInit == Init => CompatibilityInv
BY GenAssumption, InvByScope DEF Init, ColumnType, ScopeInv, Access

\* A migration moves the ledger forward or leaves it alone.
LEMMA MigrateType ==
  ASSUME ColumnType, NEW n \in 1..3, Migrate(n)
  PROVE  applied' \in 0..3
BY DEF ColumnType, Migrate

\* 39 changes nothing but policies.
LEMMA Roles39Step ==
  ASSUME CompatibilityInv, Roles39
  PROVE  CompatibilityInv'
<1>1. ColumnType /\ \A s \in Scopes : ScopeInv(s)
  BY InvByScope
<1>2. applied' \in 0..3
  BY <1>1, MigrateType DEF Roles39
<1>3. ColumnType'
  BY <1>1, <1>2 DEF ColumnType, Roles39, Access
<1>4. \A s \in Scopes : ScopeInv(s)'
  BY <1>1 DEF ScopeInv, Roles39
<1>5. QED
  BY <1>3, <1>4 DEF ColumnType, ScopeInv, CompatibilityInv, TypeOK

\* The scopes 40 gives a legacy head are those it gives a mapping.
LEMMA BackfillMaps ==
  ASSUME CompatibilityInv, NEW s \in Scopes
  PROVE  s \in Backfilled <=> s \in inShared /\ mapping[s] = "none"
BY GenAssumption DEF CompatibilityInv, TypeOK, Backfilled

\* 40 gives the scopes of the legacy relation a head and a mapping, once.
LEMMA Schema40Step ==
  ASSUME CompatibilityInv, Schema40
  PROVE  CompatibilityInv'
<1>1. ColumnType /\ \A s \in Scopes : ScopeInv(s)
  BY InvByScope
<1>2. applied' \in 0..3
  BY <1>1, MigrateType DEF Schema40
<1>3. ColumnType'
  <2>1. 1 \in 0..MaxGen
    BY GenAssumption
  <2>2. gen' \in [Scopes -> 0..MaxGen]
    BY <1>1, <2>1 DEF ColumnType, Schema40
  <2>3. /\ head' \in [Scopes -> {NoHead, Legacy} \cup 1..MaxGen]
        /\ mapping' \in [Scopes -> {"none", "shared", "own"}]
    BY <1>1 DEF ColumnType, Schema40
  <2>4. access' \in [Scopes -> Access] /\ accessShared' \in Access
    BY <1>1 DEF ColumnType, Schema40, HeadPolicies, Access
  <2>5. QED
    BY <1>1, <1>2, <2>2, <2>3, <2>4 DEF ColumnType, Schema40
<1>4. ASSUME NEW s \in Scopes PROVE ScopeInv(s)'
  <2>1. CASE s \in Backfilled
    <3>1. mapping[s] = "none" /\ s \in inShared
      BY <2>1, BackfillMaps
    <3>2. /\ head'[s] = Legacy /\ gen'[s] = 1 /\ mapping'[s] = "shared"
          /\ own'[s] = own[s] /\ exists' = exists /\ inShared' = inShared
      BY <2>1, <3>1 DEF Schema40
    <3>3. QED
      BY <1>1, <3>1, <3>2, GenAssumption DEF ScopeInv
  <2>2. CASE s \notin Backfilled
    <3>1. ~ (s \in inShared /\ mapping[s] = "none")
      BY <2>2, BackfillMaps
    <3>2. /\ head'[s] = head[s] /\ gen'[s] = gen[s] /\ mapping'[s] = mapping[s]
          /\ own'[s] = own[s] /\ exists' = exists /\ inShared' = inShared
      BY <2>2, <3>1 DEF Schema40
    <3>3. QED
      BY <1>1, <3>2 DEF ScopeInv
  <2>3. QED
    BY <2>1, <2>2
<1>5. QED
  BY <1>3, <1>4 DEF ColumnType, ScopeInv, CompatibilityInv, TypeOK

\* 43 copies the legacy rows of a scope into a relation that is empty, and only
\* while the scope's head is the legacy one.
LEMMA Authority43Step ==
  ASSUME CompatibilityInv, Authority43
  PROVE  CompatibilityInv'
<1>1. ColumnType /\ \A s \in Scopes : ScopeInv(s)
  BY InvByScope
<1>2. applied' \in 0..3
  BY <1>1, MigrateType DEF Authority43
<1>3. ColumnType'
  <2>1. own' \in [Scopes -> SUBSET ({Legacy} \cup 1..MaxGen)]
    BY <1>1 DEF ColumnType, Authority43
  <2>2. exists' \subseteq Scopes
    BY <1>1 DEF ColumnType, Authority43, Copied
  <2>3. mapping' \in [Scopes -> {"none", "shared", "own"}]
    BY <1>1 DEF ColumnType, Authority43
  <2>4. QED
    BY <1>1, <1>2, <2>1, <2>2, <2>3 DEF ColumnType, Authority43
<1>4. ASSUME NEW s \in Scopes PROVE ScopeInv(s)'
  <2>1. UNCHANGED <<inShared, head, gen>>
    BY DEF Authority43
  <2>2. s \in Copied <=> mapping[s] = "shared"
    BY <1>1 DEF ScopeInv, Copied
  <2>3. s \in exists' <=> s \in exists \/ s \in Copied
    BY DEF Authority43
  <2>4. /\ mapping'[s] = IF mapping[s] = "none" THEN "none" ELSE "own"
        /\ own'[s] = IF s \in Copied THEN own[s] \cup {Legacy} ELSE own[s]
    BY DEF Authority43
  <2>5. mapping[s] \in {"none", "shared", "own"}
    BY <1>1 DEF ColumnType
  <2>6. QED
    BY <1>1, <2>1, <2>2, <2>3, <2>4, <2>5, GenAssumption DEF ScopeInv
<1>5. QED
  BY <1>3, <1>4 DEF ColumnType, ScopeInv, CompatibilityInv, TypeOK

\* A publication replaces the rows of the scope's relation by the new head's.
LEMMA PublishStep ==
  ASSUME CompatibilityInv, NEW t \in Scopes, Publish(t)
  PROVE  CompatibilityInv'
<1>1. ColumnType /\ \A s \in Scopes : ScopeInv(s)
  BY InvByScope
<1>2. gen[t] + 1 \in 1..MaxGen /\ gen[t] \in Nat
  BY <1>1, GenAssumption DEF ColumnType, Publish
<1>3. ColumnType'
  <2>1. gen' \in [Scopes -> 0..MaxGen] /\ exists' \subseteq Scopes
    BY <1>1, <1>2 DEF ColumnType, Publish
  <2>2. /\ head' \in [Scopes -> {NoHead, Legacy} \cup 1..MaxGen]
        /\ mapping' \in [Scopes -> {"none", "shared", "own"}]
        /\ own' \in [Scopes -> SUBSET ({Legacy} \cup 1..MaxGen)]
    BY <1>1, <1>2 DEF ColumnType, Publish
  <2>3. access' \in [Scopes -> Access] /\ UNCHANGED <<applied, inShared, accessShared>>
    BY <1>1 DEF ColumnType, Publish, Access
  <2>4. QED
    BY <1>1, <2>1, <2>2, <2>3 DEF ColumnType
<1>4. ASSUME NEW s \in Scopes PROVE ScopeInv(s)'
  <2>1. CASE s = t
    <3>1. /\ head'[s] = gen[t] + 1 /\ gen'[s] = gen[t] + 1 /\ s \in exists'
          /\ mapping'[s] = "own" /\ own'[s] = {gen[t] + 1}
      BY <1>1, <2>1 DEF ColumnType, Publish
    <3>2. gen[t] + 1 # NoHead /\ gen[t] + 1 # 0
      BY <1>2, GenAssumption
    <3>3. QED
      BY <3>1, <3>2 DEF ScopeInv
  <2>2. CASE s # t
    <3>1. /\ head'[s] = head[s] /\ gen'[s] = gen[s] /\ mapping'[s] = mapping[s]
          /\ own'[s] = own[s] /\ (s \in exists' <=> s \in exists)
          /\ inShared' = inShared
      BY <1>1, <2>2 DEF ColumnType, Publish
    <3>2. QED
      BY <1>1, <3>1 DEF ScopeInv
  <2>3. QED
    BY <2>1, <2>2
<1>5. QED
  BY <1>3, <1>4 DEF ColumnType, ScopeInv, CompatibilityInv, TypeOK

\* Every step preserves the invariant, in whatever order the migrations rerun.
LEMMA CompatibilityStep == CompatibilityInv /\ [Next]_vars => CompatibilityInv'
<1> SUFFICES ASSUME CompatibilityInv, [Next]_vars PROVE CompatibilityInv'
  OBVIOUS
<1>1. CASE UNCHANGED vars
  BY <1>1 DEF vars, CompatibilityInv, TypeOK
<1>2. QED
  BY <1>1, Roles39Step, Schema40Step, Authority43Step, PublishStep DEF Next

-----------------------------------------------------------------------------
\* The invariant holds in every reachable state: mapping, head and rows of a
\* scope agree through any number of reruns and publications.
THEOREM Compatibility == Spec => []CompatibilityInv
BY CompatibilityInit, CompatibilityStep, PTL DEF Spec

\* Types: a scope has a generation exactly if it has a head, and a mapping that
\* names the scope's own relation names one that exists.
THEOREM CompatibilityType == Spec => []TypeOK
BY Compatibility, PTL DEF CompatibilityInv

\* Whoever is granted a scope's own relation reads the rows of its head and no
\* others, however often 39, 40 and 43 run again after a publication.
THEOREM OwnRowsCorrect == Spec => []OwnRowsAreTheHeads
<1>1. CompatibilityInv => OwnRowsAreTheHeads
  BY DEF CompatibilityInv, TypeOK, OwnRowsAreTheHeads
<1>2. QED
  BY <1>1, Compatibility, PTL

\* A head changes only together with its generation, by one: the backfill of 40
\* never replaces the head of a scope that has one.
THEOREM HeadsAdvanceCorrect == Spec => HeadsAdvance
<1>1. CompatibilityInv /\ [Next]_vars =>
        [\A s \in Scopes : head'[s] # head[s] => gen'[s] = gen[s] + 1]_vars
  <2> SUFFICES ASSUME CompatibilityInv, Next, NEW s \in Scopes, head'[s] # head[s]
               PROVE  gen'[s] = gen[s] + 1
    OBVIOUS
  <2>1. ColumnType /\ ScopeInv(s)
    BY InvByScope
  <2>2. CASE Schema40
    BY <2>1, <2>2 DEF Schema40, Backfilled, ScopeInv
  <2>3. CASE \E t \in Scopes : Publish(t)
    BY <2>1, <2>3 DEF Publish, ColumnType
  <2>4. CASE Roles39 \/ Authority43
    BY <2>4 DEF Roles39, Authority43
  <2>5. QED
    BY <2>2, <2>3, <2>4 DEF Next
<1>2. QED
  BY <1>1, Compatibility, PTL DEF Spec, HeadsAdvance
=============================================================================
