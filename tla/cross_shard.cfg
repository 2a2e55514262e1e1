SPECIFICATION FairSpec
CONSTANTS
    p1 = p1  p2 = p2  q1 = q1  q2 = q2
    a = a  b = b  c = c
    t1 = t1  t2 = t2  t3 = t3  t4 = t4  t5 = t5
    Server = {p1, p2, q1, q2}
    LeaderOf <- MCLeaderOf
    Account = {a, b, c}
    Home <- MCHome
    Tx = {t1, t2, t3, t4, t5}
    Request <- MCRequest
    Scripts <- MCScripts
    InitialBalance = 10
    KeyOutcomes = {TRUE, FALSE}
    AbortsSent = TRUE
    MaxFaults = 1
INVARIANTS
    TypeOK
    MoneyMatchesTables
    OutcomesOnce
    LocksExplained
PROPERTIES
    CoordinatorAnswers
CHECK_DEADLOCK FALSE
