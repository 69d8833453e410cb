CONSTANTS
    Procs = {root, kid}
    Root = root
    Services = {}
    HookedServices = {}
    Viewers = {}
    Servers = {s1}
    None = None
    Logic = logic
    Timer = timer
    Watchers = {}
    Threads = {logic, timer}
    Holders = {}
SPECIFICATION Spec
VIEW WithoutHistory
CONSTRAINT JobRuns
INVARIANTS AInv FinishedMeansExited SweptAtReport
CHECK_DEADLOCK FALSE
