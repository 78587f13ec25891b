SPECIFICATION Spec
CONSTANTS
    Callers <- MCCallers
    Runs = {"run"}
    RunOf <- MCRunOf
    Stages <- MCStages
    Costs <- MCCosts
    Caps <- MCCaps
    Items <- MCItems
    Chunks <- MCChunks
    ItemLimit = 2
    ChunkLimit = 2
    MaxRegens = 1
    Run = "run"
    Main = 0
PROPERTY HaltStopsSpending
CHECK_DEADLOCK FALSE
