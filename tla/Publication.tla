---------------------------- MODULE Publication ----------------------------
(***************************************************************************)
(* What staged publication promises for one scope (tenant, workspace,      *)
(* dataset, layer): a chain of published runs.  A run extends the chain    *)
(* only if the head it was built against is still the head, it extends it  *)
(* once, and its generation is the next one.  StagedPublication implements *)
(* this specification.                                                     *)
(***************************************************************************)
EXTENDS Naturals

CONSTANTS
  Runs,        \* materialization run identities of the scope
  Base,        \* the head before the first staged run: none, or a legacy run
  BaseGen,     \* its generation: 0 when there is none, 1 for a legacy run
  ExpectedOf   \* the head a run was built against

VARIABLES
  head,        \* the run dataset_publication_heads points at
  gen,         \* its generation
  receiptGen   \* the generation each receipt carries; 0 without a receipt

chain == <<head, gen, receiptGen>>

Init ==
  /\ head = Base
  /\ gen = BaseGen
  /\ receiptGen = [r \in Runs |-> 0]

Publish(r) ==
  /\ receiptGen[r] = 0
  /\ ExpectedOf[r] = head
  /\ head' = r
  /\ gen' = gen + 1
  /\ receiptGen' = [receiptGen EXCEPT ![r] = gen + 1]

Next == \E r \in Runs : Publish(r)

Spec == Init /\ [][Next]_chain
=============================================================================
