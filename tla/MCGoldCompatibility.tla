------------------------ MODULE MCGoldCompatibility ------------------------
(* Three scopes of one dataset, some with legacy rows. *)
EXTENDS GoldCompatibility, TLC

CONSTANTS s1, s2, s3

Symmetry == Permutations(Scopes)
=============================================================================
