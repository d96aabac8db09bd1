CONSTANTS
    Configs <- MCOneConfig
    Methods <- MCMethods
    Ops <- MCOrder
    MaxPages = 1
    ParamKinds <- MCSet
    Quotes <- MCQuotes
    Other <- MCOther
    NoQuote = NoQuote
    NoLeg = NoLeg
    One = 100
    Scale = 10000
    Ticks <- MCTicks
    Falls <- MCFalls
    Exponents = {1, 2}
    Curve <- MCCurve
    Asks <- MCAsks
    Books <- MCBooks
    FeeInfos <- MCFeeInfos
    Slippages <- MCSlippages
    BuilderRates <- MCBuilderRates
    NoBalance = NoBalance
    NoAsk = NoAsk
    NoOrder = NoOrder
    NoFees = NoFees
    Unknown = Unknown
SPECIFICATION RfqSpec
INVARIANTS
    BalanceProtected
CHECK_DEADLOCK FALSE
