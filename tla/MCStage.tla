--------------------------------- MODULE MCStage -------------------------------
(***************************************************************************)
(* Instances of Stage for TLC: a deck of four cards, 0 a card that is not  *)
(* in it.                                                                  *)
(***************************************************************************)
EXTENDS Stage

CONSTANTS v2, v3

OrderDef == <<"a", "b">>
CastingDef ==
    [a |-> [v \in Voter |-> IF v = Me THEN {1, 3} ELSE IF v = v2 THEN {0, 4} ELSE {2}],
     b |-> [v \in Voter |-> IF v = Me THEN {2} ELSE {}]]
RoundsDef == [a |-> 2, b |-> 1]
ConfidenceDef == [v \in Voter |-> IF v = Me THEN 2 ELSE 3]
=============================================================================
