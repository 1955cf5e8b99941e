\* A child is terminated while it creates a worker of its own.
CONSTANTS
    w1 = w1
    w2 = w2
    w3 = w3
    None = None
    Slots = {w1, w2, w3}
    MainSlot = w1
    QueueSize = 2
    Astray = FALSE
    MaxCalls = 4
    MaxCollects = 0
SPECIFICATION Spec
CHECK_DEADLOCK FALSE
PROPERTIES
    TerminateSettles
