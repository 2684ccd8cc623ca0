-------------------------- MODULE MCBusinessActions --------------------------
(* Two callers and two successive contracts of one item. *)
EXTENDS BusinessActions

CONSTANTS c1, c2

MCContracts == 1 .. MaxContract
=============================================================================
