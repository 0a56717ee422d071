----------------------------- MODULE MCItemTree -----------------------------
EXTENDS ItemTree, TLC
CONSTANTS g1, g2, a, b
=============================================================================
