SPECIFICATION StrategySpec
CONSTANTS
    Strategy = {"orb_safe"}
    Levels = {1,2}
    WindowBars = 4
    WarmupBars = 2
    Restarts = FALSE
    RangeEnd = 1
    Morning = 2
    FlatAt = 5
    WaitEnd = 1
    GapCutoff = 4
    MinGap = 1
    Hour = 1
    RthClose = 7
    Skip = 1
    MaxDay = 2
PROPERTY CarriesToFlatAt
CHECK_DEADLOCK FALSE
