CONSTANTS
    Voter = {me, v2, v3}
    Me = me
    Order <- OrderDef
    Casting <- CastingDef
    Confidence <- ConfidenceDef
    Rounds <- RoundsDef
    v2 = v2
    v3 = v3
SPECIFICATION Spec
INVARIANTS HandOfThisRound EveryoneInAgrees VerdictsAgree
CHECK_DEADLOCK FALSE
