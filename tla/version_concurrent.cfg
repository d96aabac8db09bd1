CONSTANTS
    c1 = c1
    c2 = c2
    NoneMC = NoneMC
    Callers <- MCTwoCallers
    Versions <- MCVersions
    V2 = 2
    NoVersion = NoneMC
    InitCaches <- MCWarm
    Injected = {}
    MaxFlips = 2
SPECIFICATION Spec
SYMMETRY MCSymmetry
INVARIANTS
    NoDuplicateOrder
