SPECIFICATION ListingSpec
CONSTANTS
    Article = saree
    Sizes = {s1, s2}
    Handle = handle
    Ghost = ghost
    Gids = {1, 2}
    Handlers = {h1}
    WriteAttempts = 2
    MaxSends = 3
    MaxEvents = 2
    Born = {s1}
    NoCode = NoCode
    NoGid = NoGid
INVARIANTS
    NothingFreeOnSale
CHECK_DEADLOCK FALSE
