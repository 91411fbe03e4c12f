\* Two initialisations of one proof.
SPECIFICATION Spec
CONSTANTS
    Agents = {a1, a2}
    NoAgent = none
    NodeIDs <- OnlyRoot
    InitialTree = {}
    Commands = {"init", "admit"}
    Challenges = {}
    MaxAmendments = 0
    MaxChildren = 2
    MaxDepth = 2
    MaxDeps = 0
    MaxBulk = 1
CHECK_DEADLOCK FALSE
SYMMETRY Symmetry
PROPERTY NodeHistory
