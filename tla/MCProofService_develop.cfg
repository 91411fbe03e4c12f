\* A proof grows under its verifiers' eyes: claims, refinement, acceptance.
SPECIFICATION Spec
CONSTANTS
    Agents = {a1, a2}
    NoAgent = none
    NodeIDs <- Wide
    InitialTree <- OnlyRoot
    Commands = {"claim", "release", "refine", "refine_bulk", "accept", "request_refinement"}
    Challenges = {}
    MaxAmendments = 0
    MaxChildren = 2
    MaxDepth = 2
    MaxDeps = 1
    MaxBulk = 2
SYMMETRY Symmetry
INVARIANTS Replayable  TreeOK 
PROPERTIES ClaimKept OnlyHolderRefines AcceptSound AcceptEnforcesChildren
