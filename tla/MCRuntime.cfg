\* Three slots: the main worker, a child and either a second child or a
\* grandchild; five API calls, one handle that is collected.
CONSTANTS
    w1 = w1
    w2 = w2
    w3 = w3
    None = None
    Slots = {w1, w2, w3}
    MainSlot = w1
    QueueSize = 2
    Astray = TRUE
    MaxCalls = 5
    MaxCollects = 1
SPECIFICATION Spec
CHECK_DEADLOCK FALSE
SYMMETRY MCSymmetry
INVARIANTS
    SlotsSound
    WorksForLiveOwner
    SingleJoiner
    AnswerReachesAsker
    EndsInOrder
