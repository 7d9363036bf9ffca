------------------------------ MODULE MCStoryLists ------------------------------
(***************************************************************************)
(* Instances of StoryLists for TLC.                                        *)
(***************************************************************************)
EXTENDS StoryLists, TLC

Symmetry == Permutations(Story)
=============================================================================
