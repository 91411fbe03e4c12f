\* Concurrent initialisations, stale taint and its repair.
SPECIFICATION FairSpec
CONSTANTS
    Agents = {a1, a2}
    NoAgent = none
    NodeIDs <- Fork
    InitialTree = {}
    Commands = {"init", "create", "admit", "accept_all", "accept", "recompute"}
    Challenges = {}
    MaxAmendments = 0
    MaxChildren = 2
    MaxDepth = 2
    MaxDeps = 0
    MaxBulk = 2
CHECK_DEADLOCK FALSE
PROPERTIES RecomputeRepairs CommandEnds
