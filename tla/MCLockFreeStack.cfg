\* Three threads on two nodes: one can be stalled between its read and its
\* CAS while the two others empty and refill the lists.
CONSTANTS
    p1 = p1
    p2 = p2
    p3 = p3
    d1 = d1
    d2 = d2
    Procs = {p1, p2, p3}
    Data = {d1, d2}
    NoData = NoData
    Capacity = 2
    MaxTag = 2
SPECIFICATION Spec
CHECK_DEADLOCK FALSE
SYMMETRY MCSymmetry
INVARIANTS
    LinksSound
PROPERTIES
    ImplementsLifo
