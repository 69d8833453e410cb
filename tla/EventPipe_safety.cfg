CONSTANTS
    Clients = {c1, c2}
    Servers = {s1, s2}
    MaxMsg = 2
    Failing = {2}
    Nobody = Nobody
SPECIFICATION FairSpec
INVARIANTS IInv DoneMeansDispatched OneHandlerPerThread AtMostOneLateEvent
PROPERTIES DeliverySpec EventHandled
CHECK_DEADLOCK FALSE
