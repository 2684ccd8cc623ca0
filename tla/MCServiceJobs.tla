--------------------------- MODULE MCServiceJobs ---------------------------
(***************************************************************************)
(* Small instances of ServiceJobs.                                         *)
(***************************************************************************)
EXTENDS ServiceJobs

CONSTANTS a, b, c, k1, k2, t1, t2

\* b is another task than a, and c uses the key of a for another target.
MCKeyOf == [t \in Tasks |-> IF t = b THEN k2 ELSE k1]
MCTargetOf == [t \in Tasks |-> IF t \in {b, c} THEN t2 ELSE t1]

\* A restart, a lost request or answer, and a job past the TTL.
EveryFault == [f \in FaultKinds |-> 1]
RestartFault == [f \in FaultKinds |-> IF f = "restart" THEN 1 ELSE 0]
====
