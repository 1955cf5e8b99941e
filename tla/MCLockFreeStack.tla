--------------------------- MODULE MCLockFreeStack ---------------------------
EXTENDS LockFreeStack, TLC

CONSTANTS p1, p2, p3, d1, d2

MCSymmetry == Permutations({p1, p2, p3}) \cup Permutations({d1, d2})
=============================================================================
