SPECIFICATION MCSpec
CONSTANTS
    \* Listing
    Article = saree
    Sizes = {s1, s2}
    Handle = handle
    Ghost = ghost
    Gids = {1, 2}
    Handlers = {h1}
    WriteAttempts = 2
    MaxSends = 3
    MaxEvents = 2
    Born = {s1}
    NoCode = NoCode
    NoGid = NoGid
    \* Stock
    k1 = k1
    k2 = k2
    shelf1 = shelf1
    shelf2 = shelf2
    Keys = {k1, k2}
    Shelves = {shelf1, shelf2}
    Feeds <- MCFeeds
    Parts = 2
    Before = {2, NoLevel}
    MaxMoves = 2
    NoLevel = NoLevel
    \* BulkImport
    Operations = {1, 2}
    Lines <- MCLines
    CommitEvery = 2
    MaxCrashes = 2
    NoOperation = NoOperation
    NoFile = NoFile
    \* Throttle
    Workers = {w1, w2}
    Maximum = 3
    Floor = 1
    Cost = 2
    MaxAttempts = 2
    MaxWait = 1
    TTL = 1
    MaxTime = 2
    NoKey = NoKey
    \* Registration
    Topics <- MCTopics
    Sites = {"here", "there"}
    Unapproved = {"orders"}
    MaxFlips = 4
    MaxLost = 2
    \* Media
    Files = {1, 2}
    MediaIds = {1, 2, 3}
    Ceiling = 2
    MaxChanges = 2
    MaxFaults = 1
    NoMedia = NoMedia
    \* Fulfilment
    n1 = n1
    n2 = n2
    f1 = f1
    f2 = f2
    Notes = {n1, n2}
    Units <- MCUnits
    FulfillmentOrders = {f1, f2}
    Owes <- MCOwes
    MaxEdits = 2
    MaxBroken = 2
    NoFulfillment = NoFulfillment
    \* Pricing
    Pieces = {"v1", "v2"}
    Template = "range"
    Rates = {1, 2}
    Rules <- MCRules
    Mapped = {"t5", "t18"}
    Own = "own"
    MaxSaves = 2
    NoRate = 0
    NoTax = "none"
    \* Customers
    Accounts = {a1, a2}
    People = {1, 2, 3, 4}
    Mobiles = {m}
    Emails = {e}
    MAX_CUSTOMERS_PER_IDENTIFIER = 2
    Clerks = {c1, c2}
    MaxDeeds = 3
    NoAccount = NoAccount
    NoDetail = NoDetail
INVARIANTS
    TypesOK
    OneListing OpeningPushQueued ContentIsOurs
    SettledIsEqual NeverOversells
    ImportIsExact
    NeverOvercounted
    RegistrationHeals
    OneCopyEach OursAreRecorded
    ANoteShipsOnce TrackingArrives
    ShopChargesAsBooked
    AccountsMoveWhole
PROPERTIES
    NoTwinWithSkus
CHECK_DEADLOCK FALSE
