CONSTANTS
    Users = {c1, c2}
    Deadline = 2
    MaxConfirmations = 2
    MaxUses = 2
    MaxHead = 3
    main = main
    backup = backup
    usdce = usdce
    pusd = pusd
    N = 3
    Requested = 2
    DefaultLimit = 8
    Endpoints <- MCEndpoints
    Modes <- MCModes
    Works <- MCWorks
    Asset <- MCAsset
    NoAsset = NoAsset
    Fallback = usdce
    None = None
SPECIFICATION WebFairSpec
INVARIANTS
    TypeOK
    BoundedFanOut
    RightResults
    OneDeadline
PROPERTIES
    BatchReturns
    RelayReturns
CHECK_DEADLOCK FALSE
