SPECIFICATION FairSpec
CONSTANTS
    s1 = s1  s2 = s2  s3 = s3  s4 = s4
    a1 = a1  a2 = a2  a3 = a3
    t1 = t1  t2 = t2  t3 = t3  t4 = t4  t5 = t5  t6 = t6
    Server = {s1, s2, s3, s4}
    Leader = s1
    Primary = s1
    Account = {a1, a2, a3}
    Shard <- MCShard
    Tx = {t1, t2, t3, t4, t5, t6}
    Request <- HealthyRequest
    Scripts <- HealthyScripts
    InitialBalance = 10
    CombineOutcomes = {TRUE}
    Reentrant = TRUE
    MaxDrops = 0
    MaxLostReplies = 0
PROPERTIES
    ImplementsLog
    WorkloadCompletes
