SPECIFICATION Spec
CONSTANTS
    w1 = w1
    w2 = w2
    u1 = u1
    u2 = u2
    Workers <- OneWorker
    Users <- TwoUsers
    Operations <- OnlyCancel
    Kind <- Funnel
    MaxJobs = 2
PROPERTY TerminalFinal
CHECK_DEADLOCK FALSE
