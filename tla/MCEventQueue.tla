----------------------------- MODULE MCEventQueue -----------------------------
EXTENDS EventQueue

CONSTANTS p1, p2
=============================================================================
