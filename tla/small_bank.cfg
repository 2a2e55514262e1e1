SPECIFICATION Spec
CONSTANTS
    Uid = {1, 2, 3}
    Op = {1, 2, 3, 4, 5, 6, 7, 8, 9, 10, 11, 12, 13, 14, 15, 16}
    Request <- MCRequest
    Workloads <- MCWorkloads
    Initial <- MCInitial
    MaxErrors = 1
INVARIANTS
    TypeOK
    TotalsAdd
    FailuresCreateNoMoney
    BalanceCountsOnce
CHECK_DEADLOCK FALSE
