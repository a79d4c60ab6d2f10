CONSTANTS
    Users = {u1}
    Root = root
    Apps = {game}
    NoApp = NoApp
    NoEntry = NoEntry
    QueueCap = 1
    MaxDay = 1
    MaxInstances = 1
    MaxMoves = 3
    RootCreates = TRUE
    MayFailRead = FALSE
    MayFailFlush = FALSE
SPECIFICATION Spec
INVARIANTS
    VerdictFollowsPolicy
