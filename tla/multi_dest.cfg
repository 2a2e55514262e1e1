SPECIFICATION FairSpec
CONSTANTS
    Account = {1, 2, 3, 4, 5}
    Stored = {1, 2, 3, 4}
    Tx = {1, 2, 3, 4, 5, 6, 7, 8}
    Request <- MCRequest
    Workloads <- MCWorkloads
    InitialBalance = 10
    MaxErrors = 1
INVARIANTS
    TypeOK
    OutcomeIsExact
    LoneSpenderIsSolvent
    LocksHaveOwner
PROPERTIES
    OrderedCallersFinish
CHECK_DEADLOCK FALSE
