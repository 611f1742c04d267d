SPECIFICATION FairSpec
CHECK_DEADLOCK FALSE
CONSTANTS
    sql1 = sql1
    sql2 = sql2
    other = other
    good = good
    NoThread = NoThread
    Request <- MCRequest
    Kinds <- MCKinds
    Key <- MCKey
    GoodToken = good
    Limit = 1
    Window = 2
    MaxTime = 2
    HealthReads = 2
    MaxLate = 2
    MaxFaults = 1
INVARIANTS
    TypeOK
    NoTransactionLeftOpen
    PrunedTogether
    InterruptsStay
    
PROPERTIES
    EveryoneServed
