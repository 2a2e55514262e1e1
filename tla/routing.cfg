SPECIFICATION Spec
CONSTANTS
    Configs <- MCConfigs
    Files <- MCFiles
INVARIANTS
    TypeOK
    ServersStoreTheRows
    ClassificationsAgree
    LeadersAreAtHome
    EvenSplitServesAll
PROPERTIES
    NothingLost
CHECK_DEADLOCK FALSE
