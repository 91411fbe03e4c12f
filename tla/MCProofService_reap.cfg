\* Refinement while claims are reaped.
SPECIFICATION Spec
CONSTANTS
    Agents = {a1, a2}
    NoAgent = none
    NodeIDs <- Pair
    InitialTree <- OnlyRoot
    Commands = {"claim", "refresh", "release", "reap", "reap_all", "refine", "amend", "admit"}
    Challenges = {}
    MaxAmendments = 1
    MaxChildren = 1
    MaxDepth = 2
    MaxDeps = 0
    MaxBulk = 1
CHECK_DEADLOCK FALSE
SYMMETRY Symmetry
PROPERTIES OnlyHolderRefines NodeHistory
