CONSTANTS
    c1 = c1
    c2 = c2
    NoneMC = NoneMC
    Callers <- MCTwoCallers
    Versions <- MCVersions
    V2 = 2
    NoVersion = NoneMC
    InitCaches <- MCAny
    Injected = {1}
    MaxFlips = 1
SPECIFICATION Spec
INVARIANTS
    NoRejectionNoRepost
    RepostOnlyAfterOwnRejection
    UndisturbedPlacesOnce
    AcceptanceReported
