\* Bulk refinement that is interrupted.
SPECIFICATION Spec
CONSTANTS
    Agents = {a1, a2}
    NoAgent = none
    NodeIDs <- Fork
    InitialTree <- OnlyRoot
    Commands = {"claim", "refine_bulk"}
    Challenges = {}
    MaxAmendments = 0
    MaxChildren = 2
    MaxDepth = 2
    MaxDeps = 0
    MaxBulk = 2
CHECK_DEADLOCK FALSE
SYMMETRY Symmetry
PROPERTY BulkRefineAllOrNone
