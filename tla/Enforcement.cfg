CONSTANTS
    Users = {u1, u2}
    Root = root
    Apps = {game}
    NoApp = NoApp
    NoEntry = NoEntry
    QueueCap = 1
    MaxDay = 1
    MaxInstances = 1
    MaxMoves = 3
    RootCreates = FALSE
    MayFailRead = FALSE
    MayFailFlush = TRUE
SYMMETRY Interchangeable
SPECIFICATION Spec
INVARIANTS
    TypeOK
    SignalsTellTheBlocks
    VerdictFollowsPolicy
    LimitBlocksEndWithTheirDay
