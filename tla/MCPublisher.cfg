SPECIFICATION FairSpec
CONSTANTS
    MaxCommit = 3
    Broken = {2}
    Faulty = {}
    DocsOnly = {2}
    SelfChanges = {3}
    CrashMax = 2
    MaxRequests = 2
    MaxMishaps = 2
INVARIANTS
    OneOwner
    StatusTruthful
    WayBack
PROPERTIES
    NotRetriedAlone
    Settles
