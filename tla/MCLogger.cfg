\* Two threads that log twice each; the system stops when nobody logs.
CONSTANTS
    w1 = w1
    w2 = w2
    Writers = {w1, w2}
    MaxLogs = 2
SPECIFICATION LogSpec
CHECK_DEADLOCK FALSE
INVARIANTS
    InOrder
    FlushedAtExit
PROPERTIES
    Logged
    TerminateReturns
