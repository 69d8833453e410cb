CONSTANTS
    Procs = {root, kid, host}
    Root = root
    Services = {host}
    HookedServices = {host}
    Viewers = {}
    Servers = {s1}
    None = None
    Logic = logic
    Timer = timer
    Watchers = {}
    Threads = {logic, timer}
    Holders = {}
SPECIFICATION Spec
PROPERTY FinishedIsTrue
CHECK_DEADLOCK FALSE
