\* Three threads on two cells; four tickets lap the ring twice.
CONSTANTS
    p1 = p1
    p2 = p2
    p3 = p3
    d1 = d1
    d2 = d2
    Procs = {p1, p2, p3}
    Data = {d1, d2}
    NoData = NoData
    Capacity = 2
    MaxTicket = 4
SPECIFICATION Spec
SYMMETRY MCSymmetry
INVARIANTS
    CellExclusive
    ReportsJustified
PROPERTIES
    ImplementsFifo
