SPECIFICATION EitherSpec
CONSTANTS
    Mode = "live"
    Sizes <- MCSizes
    MaxShares = 2
    MaxPerMinute = 1
    RequiresRth = TRUE
    Outcomes = {"filled", "refused", "lost"}
    Gates <- AllGates
    Crashes = TRUE
    MaxBars = 2
    MaxOrders = 3
    MaxRuns = 2
INVARIANT RunnerInv
PROPERTIES NeverFlips PaperStopFlattens
CHECK_DEADLOCK FALSE
