SPECIFICATION Spec
CONSTANTS
    p1 = p1  p2 = p2  q1 = q1  q2 = q2
    a = a  b = b  c = c
    t1 = t1  t2 = t2  t3 = t3  t4 = t4  t5 = t5
    Server = {p1, p2, q1, q2}
    LeaderOf <- MCLeaderOf
    Account = {a, b, c}
    Home <- MCHome
    Tx = {t1, t2, t3, t4, t5}
    Request <- MCRequest
    Scripts <- OneTransfer
    InitialBalance = 10
    KeyOutcomes = {TRUE}
    AbortsSent = FALSE
    MaxFaults = 0
INVARIANTS
    BothOrNeither
CHECK_DEADLOCK FALSE
