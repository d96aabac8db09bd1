CONSTANTS
    main = main
    backup = backup
    usdce = usdce
    pusd = pusd
    N = 3
    Requested = 2
    DefaultLimit = 8
    Endpoints <- MCEndpoints
    Modes <- MCModes
    Works <- MCWorks
    Asset <- MCAsset
    NoAsset = NoAsset
    Fallback = usdce
    None = None
SPECIFICATION Spec
INVARIANT
    StrategyVerified
CHECK_DEADLOCK FALSE
