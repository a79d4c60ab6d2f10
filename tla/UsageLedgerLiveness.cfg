CONSTANTS
    draft = draft
    inbox = inbox
    work = work
    Users = {1000, 1001}
    Windows <- OneWindow
    Keys <- OneKey
    KeysOf <- OneKeyOf
    NoWindow = NoWindow
    NoFocus = NoFocus
    DayLen = 2
    FlushCount = 2
    MaxCapacity = 10
    MaxTime = 1
    MaxEvents = 3
    Arrivals = {"Focus"}
    MayCrash = TRUE
    MayFailFlush = TRUE
    MayFailLookup = TRUE
    ResumeTies = FALSE
SPECIFICATION FairSpec
PROPERTIES
    EveryEventIsPersisted
    OnlyFailuresLoseEvents
    ShutdownCompletes
