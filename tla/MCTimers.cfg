\* Two workers whose indices collide; two timeouts, two cancels;
\* the second worker may end.
CONSTANTS
    w1 = w1
    w2 = w2
    Workers = {w1, w2}
    QueueSize = 2
    MaxTimeouts = 2
    MaxCancels = 2
    MainWorker = w1
SPECIFICATION Spec
CHECK_DEADLOCK FALSE
INVARIANTS
    TimersSound
    CancelStopsFirst
PROPERTIES
    ArmsForTheLiving
    ResolvesOrGivenUp
