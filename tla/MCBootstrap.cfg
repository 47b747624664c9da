\* Two containers, three runs; two faults, each a failed or unanswered call, a
\* crash, a lost lock or a change by an administrator.
CONSTANTS
    Process = {p1, p2}
    None = None
    Right = {right}
    Other = {other}
    Attr = {mode}
    Flow <- MCFlow
    ImportedFlow <- MCImported
    MaxRuns = 3
    MaxFaults = 2
SPECIFICATION Spec
SYMMETRY Symmetry
INVARIANTS
    ReportIsTrue
    RequiredBeforeBound
CHECK_DEADLOCK FALSE
