SPECIFICATION FairSpec
CHECK_DEADLOCK FALSE
CONSTANTS
    rowA = rowA
    rowB = rowB
    rowC = rowC
    None = None
    Csv <- MCCsv
    MaxFaults = 2
    MaxByHand = 1
INVARIANTS
    TypeOK
    VersionIsHonest
    ServedSchemaComplete
    CatalogsOfOneFile
PROPERTIES
    ServiceComesUp
