\* Verdicts and challenges on a chain of three nodes.
SPECIFICATION Spec
CONSTANTS
    Agents = {a1, a2}
    NoAgent = none
    NodeIDs <- Chain
    InitialTree <- Chain
    Commands = {"accept", "admit", "refute", "archive", "request_refinement", "challenge", "resolve", "withdraw"}
    Challenges = {c1}
    MaxAmendments = 0
    MaxChildren = 2
    MaxDepth = 3
    MaxDeps = 0
    MaxBulk = 1
CHECK_DEADLOCK FALSE
SYMMETRY Symmetry
INVARIANTS TypeOK Replayable 
PROPERTIES AcceptSound  
