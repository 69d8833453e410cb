CONSTANTS
    Procs = {root}
    Root = root
    Services = {}
    HookedServices = {}
    Viewers = {}
    Servers = {s1}
    None = None
    Logic = logic
    Timer = timer
    Watchers = {}
    Threads = {logic, timer}
    Holders = {}
SPECIFICATION Spec
INVARIANT AgentSurvives
CHECK_DEADLOCK FALSE
