------------------------------- MODULE MCRuntime -------------------------------
EXTENDS Runtime, TLC

CONSTANTS w1, w2, w3

MCSymmetry == Permutations({w2, w3})
=============================================================================
