CONSTANTS
    Users = {c1}
    Deadline = 2
    MaxConfirmations = 2
    MaxUses = 1
    MaxHead = 4
SPECIFICATION RelaySpec
INVARIANT
    ConfirmedAsDocumented
CHECK_DEADLOCK FALSE
