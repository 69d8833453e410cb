CONSTANTS
    Procs = {root, kid, host}
    Root = root
    Services = {host}
    HookedServices = {host}
    Viewers = {kid}
    Servers = {s1, s2}
    Threads = {t1}
    None = None
SPECIFICATION MSpec
INVARIANTS MInv ServicesSpared Coverage ParentRecorded
SYMMETRY Symmetry
CONSTRAINT Overlap
CHECK_DEADLOCK FALSE
