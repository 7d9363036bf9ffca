SPECIFICATION ClientsSpec
CONSTANTS
    h = h
    a = a
    b = b
    Voter = {h, a}
    Creator = h
    NoVoter = NoVoter
    Socket = {s1, s2}
    Story = {st1}
    Mode = "sync"
    Grace = 1
    Windows = {1}
    MaxTime = 1
    HistoryLimit = 1
SYMMETRY Symmetry
INVARIANTS
    ExactlyOneHost
    VacantMeansHostGone
    PresenceBacked
    AlarmCoversTasks
    HostAbsenceCovered
    RosterAgrees
    RoundAgrees
PROPERTIES
    ImplementsHostAuthority
