\* Three workers, so that one can end with its parent; a window closed once.
CONSTANTS
    w1 = w1
    w2 = w2
    w3 = w3
    v1 = v1
    v2 = v2
    NoWindow = NoWindow
    NoWorker = NoWorker
    Workers = {w1, w2, w3}
    MainWorker = w1
    Windows = {v1}
    QueueSize = 2
    MaxCloses = 1
    Astray = {w2}
SPECIFICATION Spec
CHECK_DEADLOCK FALSE
INVARIANTS
    CountsSound
    WindowStillKnown
    MakerIsAsked
    VetoHolds
PROPERTIES
    EventSettles
