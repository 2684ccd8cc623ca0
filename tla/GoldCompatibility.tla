------------------------- MODULE GoldCompatibility -------------------------
(***************************************************************************)
(* The relations of schema public that hold the gold rows of one dataset,  *)
(* through the upgrade to staged publication: infra/init_gold/39, 40 and   *)
(* 43, then publish_materialization (45).                                  *)
(*                                                                         *)
(* Before the upgrade one legacy relation gold_<dataset> holds the rows of *)
(* every scope (tenant and workspace).  Afterwards each scope has its own  *)
(* relation gold_<dataset>_<digest>.  Every migration is one transaction   *)
(* and may run again: the ledger entry follows the COMMIT inside 43, and   *)
(* the upgrade test reruns all of them.  Dataset names are taken to be at  *)
(* most 20 characters long, so that the policy 40 drops has the name of    *)
(* the one 39 made.                                                        *)
(***************************************************************************)
EXTENDS Naturals

CONSTANTS
  Scopes,    \* tenant and workspace pairs
  MaxGen,    \* bound on the generation of a head
  Legacy,    \* the rows, and the head, of the time before staged runs
  NoHead     \* a scope without a head

VARIABLES
  applied,    \* how many of 39, 40, 43 have been applied at least once
  inShared,   \* scopes with rows in the legacy relation
  head, gen,  \* dataset_publication_heads: Legacy or the generation of a run
  mapping,    \* dataset_gold_relations.relation_name
  own,        \* the versions whose rows the scope's own relation holds
  exists,     \* scopes whose own relation exists
  access,     \* what a SELECT by omega_refinement_gold asks, per own relation
  accessShared \* the same for the legacy relation

vars == <<applied, inShared, head, gen, mapping, own, exists, access, accessShared>>

ASSUME GenAssumption ==
  /\ MaxGen \in Nat \ {0}
  /\ Legacy \notin Nat /\ NoHead \notin Nat
  /\ Legacy # NoHead

\* What guards a relation's rows.  "denied": no grant or no policy; "workspace":
\* any row of the reader's scope; "head": such a row, if the scope has a head
\* for the dataset.
Access == {"denied", "workspace", "head"}

Init ==
  /\ applied = 0
  /\ inShared \in (SUBSET Scopes) \ {{}}
  /\ head = [s \in Scopes |-> NoHead]
  /\ gen = [s \in Scopes |-> 0]
  /\ mapping = [s \in Scopes |-> "none"]
  /\ own = [s \in Scopes |-> {}]
  /\ exists = {}
  /\ access = [s \in Scopes |-> "denied"]
  /\ accessShared = "workspace"

\* A migration runs in its turn or again.
Migrate(n) ==
  /\ applied >= n - 1
  /\ applied' = IF applied < n THEN n ELSE applied

\* 39: every public gold relation gets the plain workspace policy and a grant.
Roles39 ==
  /\ Migrate(1)
  /\ accessShared' = "workspace"
  /\ access' = [s \in Scopes |-> IF s \in exists THEN "workspace" ELSE access[s]]
  /\ UNCHANGED <<inShared, head, gen, mapping, own, exists>>

\* 40: the reader policies of every public gold relation ask for a head of the
\* dataset in the reader's scope; they replace the workspace policy.
HeadPolicies ==
  /\ accessShared' = "head"
  /\ access' = [s \in Scopes |-> IF access[s] = "denied" THEN "denied" ELSE "head"]

\* Mutant: the backfill does not look for an existing head.
BackfillAll == inShared

\* 40: the scopes that get a legacy run and head.
Backfilled == {s \in inShared : head[s] = NoHead}

Schema40 ==
  /\ Migrate(2)
  /\ HeadPolicies
  /\ head' = [s \in Scopes |-> IF s \in Backfilled THEN Legacy ELSE head[s]]
  /\ gen' = [s \in Scopes |-> IF s \in Backfilled THEN 1 ELSE gen[s]]
  /\ mapping' = [s \in Scopes |-> IF s \in inShared /\ mapping[s] = "none"
                                  THEN "shared" ELSE mapping[s]]
  /\ UNCHANGED <<inShared, own, exists>>

\* Mutant: rows are copied although the scope's relation exists already.
CopyAgain == {s \in Scopes : mapping[s] # "none" /\ s \in inShared}

\* Mutant: the mapping is renamed and no relation made.
CopyNone == {}

\* 43: the mapped scopes whose own relation does not exist yet.
Copied == {s \in Scopes : mapping[s] = "shared" /\ s \notin exists}

\* 43: their rows are copied, not moved, and the mapping follows.
Authority43 ==
  /\ Migrate(3)
  /\ exists' = exists \cup Copied
  /\ own' = [s \in Scopes |-> IF s \in Copied THEN own[s] \cup {Legacy} ELSE own[s]]
  /\ mapping' = [s \in Scopes |-> IF mapping[s] = "none" THEN "none" ELSE "own"]
  /\ UNCHANGED <<inShared, head, gen, access, accessShared>>

\* publish_materialization of a run built against the current head: the rows of
\* the scope's own relation are replaced, the legacy relation is not touched.
\* A workspace policy that 39 left on the own relation stays beside the new one.
Publish(s) ==
  /\ applied = 3
  /\ gen[s] < MaxGen
  /\ gen' = [gen EXCEPT ![s] = @ + 1]
  /\ head' = [head EXCEPT ![s] = gen[s] + 1]
  /\ mapping' = [mapping EXCEPT ![s] = "own"]
  /\ exists' = exists \cup {s}
  /\ own' = [own EXCEPT ![s] = {gen[s] + 1}]
  /\ access' = [access EXCEPT ![s] = IF @ = "denied" THEN "head" ELSE @]
  /\ UNCHANGED <<applied, inShared, accessShared>>

Next == Roles39 \/ Schema40 \/ Authority43 \/ \E s \in Scopes : Publish(s)

Spec == Init /\ [][Next]_vars

-----------------------------------------------------------------------------
(* Properties *)

\* Heads, mappings and policies have the values of the schema; a scope has a
\* generation exactly if it has a head, and once 43 has run every mapping names
\* a relation that exists, which publish_materialization and readers rely on.
TypeOK ==
  /\ applied \in 0..3
  /\ inShared \subseteq Scopes /\ exists \subseteq Scopes
  /\ head \in [Scopes -> {NoHead, Legacy} \cup 1..MaxGen]
  /\ gen \in [Scopes -> 0..MaxGen]
  /\ own \in [Scopes -> SUBSET ({Legacy} \cup 1..MaxGen)]
  /\ access \in [Scopes -> Access] /\ accessShared \in Access
  /\ mapping \in [Scopes -> {"none", "shared", "own"}]
  /\ \A s \in Scopes : /\ head[s] = NoHead <=> gen[s] = 0
                       /\ mapping[s] = "own" <=> s \in exists
                       /\ mapping[s] = "shared" => s \in inShared

Grants(policy, s) ==
  \/ policy = "workspace"
  \/ policy = "head" /\ head[s] # NoHead

\* What a consumer of the scope's own relation can read is the head's rows and
\* nothing else, although the migrations may run again after a publication.
OwnRowsAreTheHeads ==
  \A s \in Scopes : s \in exists /\ Grants(access[s], s) => own[s] = {head[s]}

\* The inductive invariant behind it: a scope is mapped exactly while it has a
\* head; while the mapping still names the legacy relation, 43 will find an
\* empty relation to copy into and the legacy head to match; afterwards the own
\* relation holds the head's rows, whoever may read them.
CompatibilityInv ==
  /\ TypeOK
  /\ \A s \in Scopes :
       /\ mapping[s] = "none" => head[s] = NoHead /\ own[s] = {}
       /\ mapping[s] = "shared" => head[s] = Legacy /\ own[s] = {}
       /\ mapping[s] = "own" => head[s] # NoHead /\ own[s] = {head[s]}

\* Rerunning a migration never moves a head back to the legacy run or changes
\* a generation: heads advance one publication at a time.
HeadsAdvance ==
  [][\A s \in Scopes : head'[s] # head[s] => gen'[s] = gen[s] + 1]_vars

\* The comment of 40_staged_publication_schema.sql on the legacy relation: its
\* rows are visible only while the scope's head is the backfilled legacy run.
LegacyRowsAreRetired ==
  \A s \in inShared :
    applied = 3 /\ Grants(accessShared, s) => head[s] = Legacy
=============================================================================
