SPECIFICATION Spec
CONSTANTS
    h = h
    a = a
    b = b
    Voter = {h, a, b}
    Creator = h
    NoVoter = NoVoter
    Socket = {s1, s2}
    Story = {}
    Mode = "sync"
    Grace = 2
    Windows = {3}
    MaxTime = 4
SYMMETRY VoterSymmetry
INVARIANTS
    TypeOK
    ExactlyOneHost
    VacantMeansHostGone
    PresenceBacked
    AlarmCoversTasks
    HostAbsenceCovered
PROPERTIES
    HostHandedOver
    ImplementsHostAuthority
