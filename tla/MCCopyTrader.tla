---------------------------- MODULE MCCopyTrader ----------------------------
EXTENDS CopyTrader, TLC
CONSTANTS s1, s2, a1, a2, k1
Two == {s1, s2}
Symmetric == Permutations(Two)
=============================================================================
