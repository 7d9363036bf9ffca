CONSTANTS
    p1 = p1
    p2 = p2
    s1 = s1
    s2 = s2
    a1 = a1
    a2 = a2
    m1 = m1
    m2 = m2
    Person = {p1, p2}
    NoPerson = NoPerson
    Socket = {s1, s2}
    Address = {a1}
    Command = {m1}
    SeatMessage = {m2}
    MessageLimit = 2
    HandshakeLimit = 2
    Minute = 2
    Memory = 3
    MaxHandshakes = 3
    MaxTime = 3
SPECIFICATION Spec
SYMMETRY Symmetry
INVARIANTS AppliedOnce FloodStopped NoGhosts HandshakesExact
CHECK_DEADLOCK FALSE
