SPECIFICATION FairSpec
CHECK_DEADLOCK FALSE
CONSTANTS
    rowA = rowA
    rowB = rowB
    rowC = rowC
    None = None
    Csv <- MCCsv
    MaxFaults = 0
    MaxByHand = 0
PROPERTY
    OldInstallsComeUp
