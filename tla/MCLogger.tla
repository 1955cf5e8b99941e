------------------------------- MODULE MCLogger -------------------------------
EXTENDS Logger

CONSTANTS w1, w2
=============================================================================
