CONSTANTS
    Users = {u1}
    Root = root
    Apps = {game}
    NoApp = NoApp
    NoEntry = NoEntry
    QueueCap = 1
    MaxDay = 1
    MaxInstances = 2
    MaxMoves = 4
    RootCreates = TRUE
    MayFailRead = TRUE
    MayFailFlush = TRUE
SPECIFICATION FairSpec
PROPERTIES
    EnforcementConverges
