CONSTANTS
    Procs = {root}
    Root = root
    Services = {}
    HookedServices = {}
    Viewers = {}
    Servers = {s1}
    None = None
    Logic = logic
    Timer = timer
    Watchers = {w}
    Threads = {logic, timer, w}
    Holders = {root}
SPECIFICATION FairSpec
PROPERTIES TimeoutEndsJob HandlersReturn MonitorSpec
CHECK_DEADLOCK FALSE
