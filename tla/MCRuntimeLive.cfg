\* Liveness, without symmetry: four API calls.
CONSTANTS
    w1 = w1
    w2 = w2
    w3 = w3
    None = None
    Slots = {w1, w2, w3}
    MainSlot = w1
    QueueSize = 2
    Astray = TRUE
    MaxCalls = 4
    MaxCollects = 0
SPECIFICATION Spec
CHECK_DEADLOCK FALSE
PROPERTIES
    NothingElseHangs
