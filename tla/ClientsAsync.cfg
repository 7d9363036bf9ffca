SPECIFICATION ClientsSpec
CONSTANTS
    h = h
    a = a
    b = b
    Voter = {h, a}
    Creator = h
    NoVoter = NoVoter
    Socket = {s1}
    Story = {st1, st2}
    Mode = "async"
    Grace = 1
    Windows = {1}
    MaxTime = 1
    HistoryLimit = 1
SYMMETRY Symmetry
INVARIANTS
    RoomAgrees
    OneLiveRound
    CloseTaskOwnsWindow
