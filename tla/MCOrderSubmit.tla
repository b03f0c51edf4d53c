--------------------------- MODULE MCOrderSubmit ---------------------------
EXTENDS OrderSubmit
CONSTANTS a1, a2

\* A signal to buy, with a target nearer than the stops level to the entry and
\* one farther; one to sell, which at the higher price has no room to its stop;
\* one with three targets, so that a clean-up has two tickets; and one without.
Buy == [side |-> "buy", entry |-> 4, sl |-> 2, tps |-> <<4, 6>>]
Sell == [side |-> "sell", entry |-> 4, sl |-> 5, tps |-> <<2>>]
Thrice == [side |-> "sell", entry |-> 3, sl |-> 6, tps |-> <<2, 2, 2>>]
NoTargets == [side |-> "buy", entry |-> 4, sl |-> 1, tps |-> <<>>]
BothSides == {Buy, Sell, Thrice, NoTargets}

\* The limit at the entry is too close to the price at 4 for one account, not
\* for the other.
Levels == [a \in Accounts |-> IF a = a1 THEN 1 ELSE 0]
=============================================================================
