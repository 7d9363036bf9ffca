CONSTANTS
    c1 = c1
    c2 = c2
    l1 = l1
    x1 = x1
    x2 = x2
    Creation = {c1, c2}
    Lookup = {l1}
    Slug = {x1, x2}
    NoRoom = NoRoom
    NoSlug = NoSlug
    CreateLimit = 1
    LookupLimit = 1
    MaxRetries = 2
    SlugLife = 1
    MaxHour = 1
SPECIFICATION LiveSpec
INVARIANTS CreationTypeOK LinkWorks NoEarlyRefusal
PROPERTIES EveryRequestEnds NoDeadLink
CHECK_DEADLOCK FALSE
