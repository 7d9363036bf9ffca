SPECIFICATION LiveSpec
CONSTANTS
    Visits = 2
    Failures = 2
    m1 = m1
    Command = {m1}
INVARIANTS
    OneLinePerPage
    ConnectedIsHonest
    CommandsAttributed
PROPERTIES
    IdentityKept
    EventuallyJoins
CHECK_DEADLOCK FALSE
