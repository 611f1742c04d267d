SPECIFICATION Spec
CONSTANTS
    k1 = k1
    k2 = k2
    None = None
    Text = Text
    Kami <- MCKami
    Node = {1, 2}
    Calls <- MCCalls
    MaxTx = 3
INVARIANTS
    TypeOK
    RowsAgreeWithDecoder
    MigrationLeavesNothing
    DrainsCreditedOnce
    LocationIsRight
