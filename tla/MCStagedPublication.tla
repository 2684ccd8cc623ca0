------------------------ MODULE MCStagedPublication ------------------------
(***************************************************************************)
(* Small instances of StagedPublication.  Input versions are 1..MaxSource; *)
(* a run's identity is the sequence of the input versions along its chain, *)
(* so that it determines, and is determined by, its expected head and its  *)
(* input.                                                                  *)
(***************************************************************************)
EXTENDS StagedPublication, Sequences, TLC

CONSTANTS p1, p2

\* The workers run the same code and no choice depends on which one it is.
Symmetry == Permutations(Publishers)

MCBase == <<>>

\* Chains of published runs have increasing inputs (PublishedInputsAdvance);
\* a run of the instance extends one of them with any other input.
Increasing(n) ==
  {s \in UNION {[1..k -> 1..n] : k \in 0..n} :
     \A i \in 1..(Len(s) - 1) : s[i] < s[i + 1]}
RunsUpTo(n) ==
  {r \in {Append(s, i) : s \in Increasing(n), i \in 1..n} :
     Len(r) > 1 => r[Len(r) - 1] # r[Len(r)]}
MCRuns1 == RunsUpTo(1)
MCRuns2 == RunsUpTo(2)
MCExpectedOf == [r \in Runs |-> SubSeq(r, 1, Len(r) - 1)]
MCInputOf == [r \in Runs |-> r[Len(r)]]

\* Version 0 stands for the legacy rows.  Torn rows may well be as many as the
\* right ones.
MCData == (0..2) \cup {Torn}
MCRowCount == [d \in MCData |-> 1]
MCShape == [d \in MCData |-> 1]

NoFaults == [k \in FaultKinds |-> 0]
\* Two workers race over a change of the inputs.
RaceFaults ==
  [NoFaults EXCEPT !["start"] = 4, !["source"] = 1, !["crash"] = 1,
                   !["timeout"] = 1]
\* Everything that sends a prepared run through a recovery.
RecoveryFaults ==
  [NoFaults EXCEPT !["start"] = 3, !["crash"] = 1, !["reply_lost"] = 1,
                   !["timeout"] = 1, !["verifier_crash"] = 1,
                   !["object_loss"] = 1,
                   !["stage_loss"] = 1, !["expiry"] = 1]
\* A worker goes on after it lost the run's lock.
LockFaults ==
  [NoFaults EXCEPT !["start"] = 3, !["source"] = 1, !["lock_loss"] = 1,
                   !["crash"] = 1, !["expiry"] = 1]
\* One worker, called again and again.
LiveFaults ==
  [NoFaults EXCEPT !["source"] = 1, !["reply_lost"] = 1,
                   !["object_loss"] = 1, !["stage_loss"] = 1, !["expiry"] = 1]
=============================================================================
