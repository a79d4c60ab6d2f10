CONSTANTS
    draft = draft
    inbox = inbox
    work = work
    Users = {1000}
    Windows <- TwoWindows
    Keys <- TwoKeys
    KeysOf <- TwoKeysOf
    NoWindow = NoWindow
    NoFocus = NoFocus
    DayLen = 2
    FlushCount = 3
    MaxCapacity = 10
    MaxTime = 3
    MaxEvents = 4
    Arrivals = {"Focus"}
    MayCrash = FALSE
    MayFailFlush = FALSE
    MayFailLookup = FALSE
    ResumeTies = FALSE
SPECIFICATION Spec
INVARIANTS
    ExitLeavesNothingOpen
CHECK_DEADLOCK FALSE
