----------------------------- MODULE FencedRun -----------------------------
(***************************************************************************)
(* What a durable run slot guarded by a lease and a fencing token          *)
(* promises, whoever runs it: one holder at a time, each with a larger     *)
(* token; only the holder writes; a closed run stays as it was closed.     *)
(***************************************************************************)
EXTENDS Naturals

VARIABLES
  phase,   \* none, held (running), open (failed, may be tried again), closed
  token,   \* the token of the latest holder
  wrote    \* the token under which something was last written

vars == <<phase, token, wrote>>

Init == phase \in {"none", "held"} /\ token \in Nat /\ wrote = 0

\* A new holder; whoever held it before is fenced off.
Take ==
  /\ phase # "closed"
  /\ phase' = "held" /\ token' = token + 1
  /\ UNCHANGED wrote

Write ==
  /\ phase = "held"
  /\ wrote' = token
  /\ UNCHANGED <<phase, token>>

Close ==
  /\ phase = "held" /\ phase' \in {"closed", "open"}
  /\ UNCHANGED <<token, wrote>>

Next == Take \/ Write \/ Close

Spec == Init /\ [][Next]_vars
=============================================================================
