CONSTANTS
    root = root
    viewer = viewer
    other = other
    game = game
    fun = fun
    none = none
    site = site
    Root = root
    Users = {viewer, other}
    Apps = {game}
    Categories = {fun, none}
    Uncategorized = none
    Unknown = Unknown
    Domains = {site}
    Null = Null
    Half = 3
    AppCategories <- OneCategory
    MaxId = 2
    Inputs <- FewInputs
    NoRow = NoRow
    SomeApp = game
    SomeDomain = site
    Initially <- OneTable
    Viewer = viewer
    Busses <- TwoBusses
    Screens = {"closed", "policies", "dashboard", "reports"}
    NoBus = NoBus
    Nothing = Nothing
    MaxRetries = 1
    MaxMoves <- MovesOf
    MaxFaults <- MaxFaultsOf
    StartsOn <- StartsOnOf
    Faults <- FaultsOf
    Asked <- CallsOf
SPECIFICATION FairDesk
INVARIANTS
    StoreTypeOK
    LimitsOnlyTighten
    CategoryPoliciesFollowTheCharts
    EditorKeepsTheRest
PROPERTIES
    OwnRowsOnly
    AcceptedMeansStored
    ScreenCatchesUp
    NameRecovers
CHECK_DEADLOCK FALSE
