CONSTANTS
    c1 = c1
    c2 = c2
    ctf = ctf
    ctfC = ctfC
    neg = neg
    negC = negC
    yes = yes
    Callers <- MCCallers
    NoCaller = NoCaller
    Addresses <- MCAddresses
    Lower <- MCLower
    NoAddress = NoAddress
    NoBuilder = NoBuilder
    Failure = Failure
    Tokens <- MCTokens
    Markets <- MCMarkets
    Opening <- MCOpening
    NegRisk = TRUE
    Exchange <- MCExchange
    Requests <- MCRequests
    NoRequest = NoRequest
    Unset = Unset
    MaxOrders = 2
SPECIFICATION OrderSpec
INVARIANTS
    OrderTypeOK
    SameBuilder
    MarketTerms
    ProtectionNeedsFee
    WarmAsksNothing
PROPERTIES
    MemoSpec
    OrdersEnd
CHECK_DEADLOCK FALSE
