CONSTANTS
    Apps = {a}
    NoApp = NoApp
    Bare = Bare
    NoBus = NoBus
    Capacity = 2
    MaxEvents = 3

SPECIFICATION FairSpec

CHECK_DEADLOCK FALSE

INVARIANTS
    TypeOK
    MailboxCarriesFocus
    DaemonToldFocus
    BlocksAgree
    RegisteredMeansServed

PROPERTIES
    PluginRegisters
