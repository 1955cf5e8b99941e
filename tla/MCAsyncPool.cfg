\* Two threads of the pool and one worker; the system stops when nobody asks.
CONSTANTS
    t1 = t1
    t2 = t2
    w1 = w1
    Pool = {t1, t2}
    Workers = {w1}
    Main = Main
    None = None
    Capacity = 1
    MaxPosts = 2
SPECIFICATION Spec
CHECK_DEADLOCK FALSE
INVARIANTS
    StartsSound
    WorkIsSound
PROPERTIES
    PoolWorks
    BlockedGoesOn
    StartReturns
    PoolEnds
