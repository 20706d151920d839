SPECIFICATION ServicesSpec
CONSTANTS
    Orders = {o1}
    Instances = {i1, i2}
    StepMaxRetries = 2
    AttemptCap = 4
    MaxRestarts = 2
    Competing = {o1, o2, o3}
    Lines <- MCLines
    Shelves <- MCShelves
    CommandIds = {1}
    Keys = {o1, o2}
    Replica = i1
    BatchSize = 2
    MaxRows = 3
    MaxFailures = 2
    Requests = {r1, r2}
    IntakeKeys = {k1, k2}
    Bodies = {basket, other, invalid}
    ValidBodies = {basket, other}
    NoOrder = NoOrder
    o1 = o1
    o2 = o2
    o3 = o3
    book = book
    phone = phone
    ghost = ghost
    r1 = r1
    r2 = r2
    k1 = k1
    k2 = k2
    basket = basket
    other = other
    invalid = invalid
INVARIANTS
    TriesAreSound
    VerdictIsSound
    StockIsSound
    RelayIsSound
    KeysAreKept
PROPERTIES
    NoWayBack
    ActionsEnd
    DecidedOnce
    EveryMessageArrives
