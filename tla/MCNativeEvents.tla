---------------------------- MODULE MCNativeEvents ----------------------------
EXTENDS NativeEvents

CONSTANTS w1, w2, w3, v1, v2
=============================================================================
