SPECIFICATION ServiceSpec
CONSTANTS
    w1 = w1
    j1 = j1
    j2 = j2
    Workers = {w1}
    Jobs = {j1, j2}
    Slots = 2
    MaxAttempts = 2
    Routes <- MCRoutes
    Runtimes <- MCRuntimes
    MaxWake = 1
    MaxRows = 2
    MaxBoots = 1
INVARIANT DrainLetsRunsFinish
CHECK_DEADLOCK FALSE
