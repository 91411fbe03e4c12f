\* Append and AppendIfSequence, the two functions the commands use, with
\* crashes at any point and every I/O failure the code handles.
SPECIFICATION Spec
CONSTANTS
    Procs = {p1, p2}
    Events = {e1, e2}
    Ops = {"append", "cas"}
    Faults = {"crash", "io", "rename"}
    BatchSize = 1
    MaxOps = 2
SYMMETRY Symmetry
INVARIANTS TypeOK MutualExclusion GapFree CasDecidesOnWholeLog ViewIsPrefix AckedIsLogged
PROPERTIES AppendOnly Refines
