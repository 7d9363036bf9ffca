SPECIFICATION ClientsSpec
CONSTANTS
    h = h
    a = a
    b = b
    Voter = {h, a}
    Creator = h
    NoVoter = NoVoter
    Socket = {s1, s2}
    Story = {st1}
    Mode = "async"
    Grace = 1
    Windows = {2}
    MaxTime = 3
    HistoryLimit = 1
INVARIANTS
    CloseAnnounced
