CONSTANTS
    Apps = {a}
    NoApp = NoApp
    Bare = Bare
    NoBus = NoBus
    Capacity = 2
    MaxEvents = 1

SPECIFICATION FairSpec

CHECK_DEADLOCK FALSE

PROPERTIES
    RefusalIsRetried
