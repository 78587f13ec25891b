SPECIFICATION Spec
CONSTANTS
    w1 = w1
    w2 = w2
    u1 = u1
    u2 = u2
    Workers <- TwoWorkers
    Users <- TwoUsers
    Operations <- Both
    Kind <- ShortFunnel
    MaxJobs = 2
SYMMETRY Symmetry
INVARIANTS RunInv HaltBounded
CHECK_DEADLOCK FALSE
