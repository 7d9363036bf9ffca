CONSTANTS
    v1 = v1
    v2 = v2
    Voter = {v1, v2}
    Creator = v1
    NoVoter = NoVoter
    Visits = 2
    MaxUp = 2
    MaxDown = 3
SPECIFICATION LiveSpec
PROPERTY HostGetsVote
CHECK_DEADLOCK FALSE
