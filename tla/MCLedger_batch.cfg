\* AppendBatch with renames that may fail, beside Append: what its rollback
\* does not break, and that every call returns.
SPECIFICATION FairSpec
CONSTANTS
    Procs = {p1, p2}
    Events = {e1}
    Ops = {"append", "batch"}
    Faults = {"crash", "rename"}
    BatchSize = 2
    MaxOps = 2
INVARIANTS MutualExclusion AckedIsLogged
PROPERTY CallReturns
