CONSTANTS
    c1 = c1
    c2 = c2
    l1 = l1
    l2 = l2
    x1 = x1
    x2 = x2
    Creation = {c1, c2}
    Mine = {c1}
    Lookup = {l1}
    Slug = {x1, x2}
    NoRoom = NoRoom
    NoSlug = NoSlug
    NoLookup = NoLookup
    Home = Home
    CreateLimit = 1
    LookupLimit = 1
    MaxRetries = 2
    SlugLife = 1
    MaxHour = 0
SPECIFICATION EntryLiveSpec
PROPERTY SubmitEnds
CHECK_DEADLOCK FALSE
