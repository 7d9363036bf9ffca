SPECIFICATION LiveSpec
CONSTANTS
    h = h
    a = a
    b = b
    Voter = {h, a}
    Creator = h
    NoVoter = NoVoter
    Socket = {s1}
    Story = {st1}
    Mode = "async"
    Grace = 2
    Windows = {3}
    MaxTime = 4
INVARIANTS TypeOK
PROPERTIES
    DueTasksSettle
    HostAbsenceResolved
