SPECIFICATION Spec
CONSTANTS
    r1 = r1
    r2 = r2
    h1 = h1
    h2 = h2
    Requests = {r1, r2}
    Handlers = {h1}
    Modes <- LiveOnly
    PaperDelay = FALSE
    SweeperEnabled = TRUE
    ExpiresAfter = 1
    MaxTime = 3
PROPERTIES HumanDecisionFinal
CHECK_DEADLOCK FALSE
