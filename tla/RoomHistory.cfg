SPECIFICATION HistorySpec
CONSTANTS
    h = h
    a = a
    b = b
    Voter = {h}
    Creator = h
    NoVoter = NoVoter
    Socket = {s1}
    Story = {st1}
    Mode = "async"
    Grace = 2
    Windows = {1}
    MaxTime = 4
PROPERTIES
    ReviewResumed
    GraceHonoured
