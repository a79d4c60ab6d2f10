CONSTANTS
    draft = draft
    inbox = inbox
    work = work
    Users = {1000}
    Windows <- TwoWindows
    Keys <- TwoKeys
    KeysOf <- TwoKeysOf
    NoWindow = NoWindow
    NoFocus = NoFocus
    DayLen = 2
    FlushCount = 2
    MaxCapacity = 2
    MaxTime = 3
    MaxEvents = 4
    Arrivals = {"Focus", "Idle", "Resume"}
    MayCrash = TRUE
    MayFailFlush = TRUE
    MayFailLookup = TRUE
    ResumeTies = FALSE
SYMMETRY AlikeWindows
SPECIFICATION Spec
INVARIANTS
    TypeOK
    UsageMatchesEvents
    OpenMatchesEvents
    NeverMoreThanElapsed
