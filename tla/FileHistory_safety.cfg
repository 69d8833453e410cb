SPECIFICATION Spec
CONSTANTS
    Paths = {p, q}
    Threads = {t1, t2}
    Contents = {a, b}
    None = None
    Unread = Unread
    Relative = Relative
    MaxOps = 2
    MaxEntries = 4
    MaxLate = 1
SYMMETRY Symmetry
INVARIANTS FInv ReportTrue FirstIsOriginal
CONSTRAINT UntilReported
CHECK_DEADLOCK FALSE
