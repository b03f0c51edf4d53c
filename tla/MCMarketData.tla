---------------------------- MODULE MCMarketData ----------------------------
EXTENDS MarketData

Three == {[o |-> 2, h |-> 4, l |-> 1, c |-> 3], [o |-> 3, h |-> 4, l |-> 2, c |-> 2],
          [o |-> 2, h |-> 3, l |-> 1, c |-> 2]}
One == {[o |-> 2, h |-> 3, l |-> 1, c |-> 3]}

\* The history file of the first day, without the candle its first page begins with.
FirstFile == [d \in {1} |-> {2, 3}]
=============================================================================
