CONSTANTS
    MaxRuns = 2
    PingMin = 2
    PingMax = 3
    Deadline = 7
    Latency = 2
    Typed = TRUE
SPECIFICATION FairSpec
INVARIANTS
    TypeOK
    HealthyNeverTimesOut
PROPERTIES
    HalfOpenEnds
    ReadersEnd
CHECK_DEADLOCK FALSE
