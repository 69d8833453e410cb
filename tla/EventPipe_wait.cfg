CONSTANTS
    Clients = {c1, c2}
    Servers = {s1, s2}
    Nobody = Nobody
    MaxMsg = 1
    Failing = {}
SPECIFICATION FairSpec
PROPERTY ConnectReturns
CHECK_DEADLOCK FALSE
