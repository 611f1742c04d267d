SPECIFICATION Spec
CONSTANTS
    k1 = k1
    k2 = k2
    t1 = t1
    t2 = t2
    t3 = t3
    t4 = t4
    t5 = t5
    None = None
    MaxBlock = 3
    Tx <- MCTx
    Kami <- MCKami
    BlockOf <- MCBlockOf
    Body <- MCBody
    Decoded <- MCDecoded
    Status <- MCStatus
    Drains <- MCDrains
    UseResolver = TRUE
    MaxFaults = 3
    MaxCatchup = 2
INVARIANT AmountFromOwnReceipt
