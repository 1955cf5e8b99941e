\* The three ways to consume; without a timeout a worker may stay asleep for ever.
CONSTANTS
    p1 = p1
    p2 = p2
    Producers = {p1, p2}
    Capacity = 2
    MaxPosts = 2
    MaxNotes = 2
    MaxInputs = 1
SPECIFICATION Spec
CHECK_DEADLOCK FALSE
INVARIANTS
    PerProducerOrder
    MainAwake
PROPERTIES
    TickOnlyWhilePublishing
    HandledOrAsleep
