CONSTANTS
    DayLen = 4
    LastDay = 47600
    MaxSpan = 7
    viewer = viewer
    text = text
    level = level
    editor = editor
    game = game
    fun = fun
    Viewer = viewer
    Users <- OneUser
    Windows <- TwoWindows
    Keys = {text, level, editor, game, fun}
    KeysOf <- RowsOfTwo
    AppRows = {editor, game}
    TitleRows = {text, level}
    CategoryRows = {fun}
    NoWindow = NoWindow
    NoFocus = NoFocus
    Unread = Unread
    MaxTime = 6
    Hours = 2
    Top = 1
    Kinds = {"Focus", "Idle", "Resume"}
    MaxDelay = 1
    MaxEvents = 3
SPECIFICATION SpecScreens
INVARIANTS
    WrittenDayIsReadDay
    SegmentsAreOverlaps
    TimelineMatchesUsage
    ChartMatchesUsage
    FragmentsDoNotOverlap
    ScreensAddUp
CHECK_DEADLOCK FALSE
