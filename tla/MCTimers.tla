------------------------------- MODULE MCTimers -------------------------------
EXTENDS Timers

CONSTANTS w1, w2
=============================================================================
