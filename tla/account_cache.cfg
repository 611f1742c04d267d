SPECIFICATION Spec
CHECK_DEADLOCK FALSE
CONSTANTS
    k1 = k1
    k2 = k2
    x = x
    y = y
    None = None
    Kami <- MCKami
    Account <- MCAccount
    Owner <- MCOwner
    Workers = 2
    FlushEvery = 2
    LastVer <- MCLast
    LastName <- MCLastName
    MaxFaults = 0
PROPERTY
    AccountNamesFresh
