SPECIFICATION Spec
CONSTANTS
    Keys = {o1}
    Relays = {r1, r2}
    BatchSize = 1
    MaxRows = 2
    MaxFailures = 0
INVARIANTS
    OrderPerKey
