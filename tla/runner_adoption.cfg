SPECIFICATION Spec
CONSTANTS
    Mode = "paper"
    Sizes = {2, 3}
    MaxShares = 2
    MaxPerMinute = 1
    RequiresRth = FALSE
    Outcomes = {"filled", "submitted"}
    Gates = {}
    Crashes = TRUE
    MaxBars = 3
    MaxOrders = 3
    MaxRuns = 2
INVARIANT ExposureBounded
CHECK_DEADLOCK FALSE
