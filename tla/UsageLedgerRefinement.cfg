CONSTANTS
    inbox = inbox
    Users = {u1, u2}
    Windows <- MCWindows
    Keys <- MCWindows
    KeysOf <- MCKeysOf
    NoWindow = NoWindow
    NoFocus = NoFocus
    DayLen = 1
    FlushCount = 3
    MaxCapacity = 10
    MaxTime = 2
    MaxEvents = 3
    Arrivals = {"Focus"}
    MayCrash = TRUE
    MayFailFlush = TRUE
    MayFailLookup = FALSE
    ResumeTies = FALSE
SYMMETRY AlikeUsers
SPECIFICATION Spec
INVARIANTS
    OpenMatchesEvents
PROPERTIES
    LedgerImplementsMeter
    ShutdownClosesEveryInterval
