SPECIFICATION FairSpec
CONSTANTS
    r1 = r1
    r2 = r2
    h1 = h1
    h2 = h2
    Requests = {r1}
    Handlers = {h1, h2}
    Modes <- PaperAndLive
    PaperDelay = TRUE
    SweeperEnabled = TRUE
    ExpiresAfter = 2
    MaxTime = 4
INVARIANTS TypeOK LiveReleaseIsHuman OneWinner
PROPERTIES EveryRequestAnswered LiveRowsSettle
CHECK_DEADLOCK FALSE
