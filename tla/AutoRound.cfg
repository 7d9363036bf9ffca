CONSTANTS
    v1 = v1
    v2 = v2
    Voter = {v1, v2}
    Creator = v1
    NoVoter = NoVoter
    Visits = 3
    MaxUp = 1
    MaxDown = 3
SPECIFICATION LiveSpec
INVARIANTS SettledPagesAgree
PROPERTIES ClearedByHand VoteRuns
CHECK_DEADLOCK FALSE
