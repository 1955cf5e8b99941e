------------------------------ MODULE MCAsyncPool ------------------------------
EXTENDS AsyncPool

CONSTANTS t1, t2, w1
=============================================================================
