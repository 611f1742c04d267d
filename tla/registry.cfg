SPECIFICATION FairSpec
CONSTANTS
    getter = getter
    craft = craft
    a1 = a1
    a2 = a2
    a3 = a3
    None = None
    System <- MCSystem
    SystemOrder <- MCOrder
    Deployments <- MCDeployments
    Before = 2
    MaxHeight = 4
    Probes = 3
    MaxFaults = 2
INVARIANTS
    TypeOK
    SeenIsTrue
    MemoryIsStored
    LongLivedObserved
PROPERTIES
    ObservedIsIngested
    SnapshotGrows
    RedeploymentNoticed
