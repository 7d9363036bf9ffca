----------------------------- MODULE MCAutoRound -----------------------------
(***************************************************************************)
(* Small instances of AutoRound.                                           *)
(***************************************************************************)
EXTENDS AutoRound

CONSTANTS v1, v2
=============================================================================
