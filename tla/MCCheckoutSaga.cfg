SPECIFICATION FairSpec
CONSTANTS
    o1 = o1
    book = book
    Orders <- MCOrders
    Snapshots <- MCSnapshots
    Items <- MCItems
    InitialStock <- MCInitialStock
    Instances = {i1}
    StepMaxRetries = 1
    AttemptCap = 3
    MaxRestarts = 1
INVARIANTS
    VerdictsHold
    UndoneStaysUndone
PROPERTIES
    AllOrNothing
    EveryOrderDecided
