SPECIFICATION ClientsSpec
CONSTANTS
    h = h
    a = a
    b = b
    Voter = {h, a}
    Creator = h
    NoVoter = NoVoter
    Socket = {s1}
    Story = {st1, st2, st3}
    Mode = "sync"
    Grace = 1
    Windows = {1}
    MaxTime = 0
    HistoryLimit = 1
SYMMETRY Symmetry
INVARIANTS
    StoriesAgree
