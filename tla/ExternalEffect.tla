--------------------------- MODULE ExternalEffect ---------------------------
(***************************************************************************)
(* What the control room promises of a supervised external write: for one  *)
(* business contract (item, observation, decision, template and payload)   *)
(* the other system is changed at most once, only after the intention to   *)
(* do so is durable, and the receipt that is kept tells the truth.         *)
(***************************************************************************)
EXTENDS Naturals

CONSTANT Contracts

VARIABLES stage, effects

vars == <<stage, effects>>

Stages == {"none", "reserved", "attempted", "completed", "failed"}

Init ==
  /\ stage = [k \in Contracts |-> "none"]
  /\ effects = [k \in Contracts |-> 0]

\* The one change of the other system, announced before it happens.
Effect(k) ==
  /\ stage[k] = "attempted"
  /\ effects[k] = 0
  /\ effects' = [effects EXCEPT ![k] = 1]
  /\ UNCHANGED stage

\* A receipt is written once and agrees with what happened.
Advance(k) ==
  /\ \/ stage[k] = "none"      /\ stage' = [stage EXCEPT ![k] = "reserved"]
     \/ stage[k] = "reserved"  /\ stage' = [stage EXCEPT ![k] = "attempted"]
     \/ stage[k] = "attempted" /\ effects[k] = 1
        /\ stage' = [stage EXCEPT ![k] = "completed"]
     \/ stage[k] \in {"reserved", "attempted"} /\ effects[k] = 0
        /\ stage' = [stage EXCEPT ![k] = "failed"]
  /\ UNCHANGED effects

Next == \E k \in Contracts : Effect(k) \/ Advance(k)

Spec == Init /\ [][Next]_vars
=============================================================================
