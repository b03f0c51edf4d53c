------------------------- MODULE MCChallengeRunner --------------------------
EXTENDS ChallengeRunner, TLC
CONSTANTS t1, t2, t3
Three == 1..3
Four == 1..4
Symmetric == Permutations(Tickets)
=============================================================================
