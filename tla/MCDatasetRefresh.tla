--------------------------- MODULE MCDatasetRefresh ---------------------------
(* A chain of datasets, the first of which reads a source outside the plan. *)
EXTENDS DatasetRefresh

Chain == [d \in Items |-> {d - 1}]
=============================================================================
