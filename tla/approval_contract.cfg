SPECIFICATION Spec
CONSTANTS
    r1 = r1
    r2 = r2
    h1 = h1
    h2 = h2
    Requests = {r1}
    Handlers = {h1, h2}
    Modes <- PaperAndLive
    PaperDelay = FALSE
    SweeperEnabled = FALSE
    ExpiresAfter = 1
    MaxTime = 4
INVARIANTS ReleaseMatchesRecord
PROPERTIES HumanDecisionFinal ImplementsContract
CHECK_DEADLOCK FALSE
