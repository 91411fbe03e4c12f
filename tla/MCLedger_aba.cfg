\* AppendBatch with a rename that may fail and its rollback.
SPECIFICATION Spec
CONSTANTS
    Procs = {p1, p2}
    Events = {e1, e2}
    Ops = {"cas", "batch"}
    Faults = {"rename"}
    BatchSize = 2
    MaxOps = 2
SYMMETRY Symmetry
INVARIANTS CasDecidesOnWholeLog
