--------------------------------- MODULE MCEntry -------------------------------
(***************************************************************************)
(* Small instances of Entry.                                               *)
(***************************************************************************)
EXTENDS Entry, TLC

CONSTANTS c1, c2, l1, l2, x1, x2

Symmetry == Permutations(Slug) \cup Permutations(Lookup)
=============================================================================
