SPECIFICATION Spec
CONSTANTS
    MaxCommit = 3
    Broken = {2}
    Faulty = {}
    DocsOnly = {}
    SelfChanges = {3}
    CrashMax = 2
    MaxRequests = 2
    MaxMishaps = 2
INVARIANTS
    BarredStaysOut
