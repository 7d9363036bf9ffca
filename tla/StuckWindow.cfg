SPECIFICATION Spec
CONSTANTS
    h = h
    a = a
    b = b
    Voter = {h}
    Creator = h
    NoVoter = NoVoter
    Socket = {s1}
    Story = {st1, st2}
    Mode = "async"
    Grace = 1
    Windows = {1}
    MaxTime = 3
INVARIANTS
    OpenWindowWillClose
