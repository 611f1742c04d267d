SPECIFICATION FairBackfill
CONSTANTS
    k1 = k1
    k2 = k2
    t1 = t1
    t2 = t2
    t3 = t3
    t4 = t4
    t5 = t5
    None = None
    MaxBlock = 3
    Tx <- MCTx
    Kami <- MCKami
    BlockOf <- MCBlockOf
    Body <- MCBody
    Decoded <- MCDecoded
    Status <- MCStatus
    Drains <- MCDrains
    UseResolver = FALSE
    MaxFaults = 2
    ChunkSize = 2
    First = 2
    Last = 3
    Priors <- Behind
INVARIANTS
    BackfillTypeOK
    SkipsNothing
PROPERTY
    Finishes
CHECK_DEADLOCK FALSE
