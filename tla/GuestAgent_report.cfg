CONSTANTS
    Procs = {root, kid}
    Root = root
    Services = {}
    HookedServices = {}
    Viewers = {kid}
    Servers = {s1}
    None = None
    Logic = logic
    Timer = timer
    Watchers = {}
    Threads = {logic, timer}
    Holders = {}
SPECIFICATION FairSpec
PROPERTY ReportSent
CHECK_DEADLOCK FALSE
