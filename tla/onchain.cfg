CONSTANTS
    c1 = c1
    c2 = c2
    r1 = r1
    Callers <- MCTwo
    Runners <- MCRunners
    NoCaller = NoCaller
    NoNonce = NoNonce
    Other = Other
    MaxCalls = 3
    MaxSteps = 2
    MaxBegun = 2
SPECIFICATION OnchainFairSpec
INVARIANTS
    OnchainTypeOK
    UniqueNonces
    NoncesAccounted
    DoneMeansMined
    OneStepUncertain
PROPERTIES
    SentIsMined
    RunnersReturn
CHECK_DEADLOCK FALSE
