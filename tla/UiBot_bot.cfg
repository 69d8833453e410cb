SPECIFICATION FairSpec
CONSTANTS
    Windows = {w1, w2}
    Frames = {f, g}
    None = None
    LOOP_THRESHOLD = 3
    CIRCULAR_LOOP_THRESHOLD = 2
    STUCK_THRESHOLD = 1
    STUCK_NO_CONTROLS_THRESHOLD = 1
    MaxCandidates = 2
    MaxClears = 1
INVARIANTS BInv WaitsForInput InteractionsBounded OneLateInteraction
PROPERTY LoopEnds
CHECK_DEADLOCK FALSE
