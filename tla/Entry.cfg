CONSTANTS
    c1 = c1
    c2 = c2
    l1 = l1
    l2 = l2
    x1 = x1
    x2 = x2
    Creation = {c1, c2}
    Mine = {c1}
    Lookup = {l1, l2}
    Slug = {x1, x2}
    NoRoom = NoRoom
    NoSlug = NoSlug
    NoLookup = NoLookup
    Home = Home
    CreateLimit = 1
    LookupLimit = 1
    MaxRetries = 1
    SlugLife = 1
    MaxHour = 1
SPECIFICATION EntrySpec
SYMMETRY Symmetry
INVARIANTS LinkWorks NoEarlyRefusal ProbeOfThisRoom HostRowGoesHome
PROPERTIES NoDeadLink
CHECK_DEADLOCK FALSE
