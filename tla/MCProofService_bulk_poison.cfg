\* Bulk acceptance against another verdict.
SPECIFICATION Spec
CONSTANTS
    Agents = {a1, a2}
    NoAgent = none
    NodeIDs <- Pair
    InitialTree <- Pair
    Commands = {"accept_all", "admit"}
    Challenges = {}
    MaxAmendments = 0
    MaxChildren = 2
    MaxDepth = 2
    MaxDeps = 0
    MaxBulk = 2
CHECK_DEADLOCK FALSE
SYMMETRY Symmetry
INVARIANT Replayable
