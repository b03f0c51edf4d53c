--------------------------- MODULE MCTradingDesk ---------------------------
EXTENDS TradingDesk
CONSTANTS r1, i1, i2, i3

Caps == [r \in Runners |-> 2]
\* One side suffices for the interleavings.
Long == [r \in Runners |-> {[side |-> "BUY", stop |-> 1, gain |-> 1, hold |-> 1]}]
=============================================================================
