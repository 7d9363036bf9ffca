------------------------------- MODULE MCIntake -------------------------------
(***************************************************************************)
(* Small instances of Intake.                                              *)
(***************************************************************************)
EXTENDS Intake, TLC

CONSTANTS p1, p2, s1, s2, a1, a2, m1, m2

Symmetry == Permutations(Person) \cup Permutations(Address)
              \cup Permutations(Socket)
=============================================================================
