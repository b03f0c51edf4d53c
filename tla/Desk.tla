-------------------------------- MODULE Desk --------------------------------
(***************************************************************************)
(* What the strategy processes share: the market, the broker's positions   *)
(* and the rows of the Kronos database (a Position, its ENTRY order and    *)
(* its triggers).  A position and the row that records it have one id, as  *)
(* the ENTRY order holds the broker's position id.                         *)
(*                                                                         *)
(* Time is counted in bars, prices are integers, and the price feed and    *)
(* the broker see the same price.  The broker closes a position as soon as *)
(* the price comes to the stop or target attached to it.                   *)
(***************************************************************************)
EXTENDS Integers, FiniteSets

CONSTANTS
    Runners,    \* the strategy processes, each with a UserStrategy of its own
    Ids,        \* bound: the positions ever opened
    Prices,     \* bound: the range of the price
    MaxBars,    \* bound: the bars that close
    MinStop,    \* the broker's stops level
    Faults,     \* what may go wrong in this instance
    None

ASSUME DeskOK ==
    /\ Prices \subseteq Int /\ MinStop \in Nat /\ MaxBars \in Nat
    /\ IsFiniteSet(Ids) /\ None \notin Ids \cup Runners \cup Int
    /\ Faults \subseteq {"refused",      \* the broker refuses an order
                         "lost",         \* an order is carried out, its answer lost
                         "rows",         \* the rows of an entry cannot be written
                         "monitor",      \* the monitor's transaction fails
                         "unconfirmed",  \* a close request is not carried out
                         "restart"}      \* a runner restarts

VARIABLES
    bar,        \* the bars that have closed
    price,      \* the last price
    pos,        \* Ids -> the broker's position and its rows
    runner,     \* Runners -> the state of the process
    mon         \* the position monitor

vars == <<bar, price, pos, runner, mon>>

NoPos == [owner |-> None, signal |-> 0, run |-> 0, at |-> "none", row |-> "none",
          side |-> "BUY", sl |-> 0, tp |-> 0, stop |-> 0, target |-> 0, expires |-> None,
          unsure |-> FALSE, stale |-> FALSE]

Free == {i \in Ids : pos[i].at = "none"}
Fresh == CHOOSE i \in Free : TRUE
OpenRows(r) == {i \in Ids : pos[i].owner = r /\ pos[i].row = "open"}

\* How far p lies beyond q in the direction a side earns in.
Ahead(side, p, q) == IF side = "BUY" THEN p - q ELSE q - p
Beyond(side, p, d) == IF side = "BUY" THEN p + d ELSE p - d

\* The price p has come to the stop or to the target.
Hit(side, stop, target, p) == Ahead(side, p, stop) <= 0 \/ Ahead(side, target, p) <= 0

BarCloses ==
    /\ bar < MaxBars
    /\ bar' = bar + 1
    /\ UNCHANGED <<price, pos, runner, mon>>

PriceMoves ==
    /\ price' \in Prices \cap {price - 1, price + 1}
    /\ pos' = [i \in Ids |->
                 LET q == pos[i]
                 IN IF q.at = "live" /\ Hit(q.side, q.stop, q.target, price')
                    THEN [q EXCEPT !.at = "gone"] ELSE q]
    /\ UNCHANGED <<bar, runner, mon>>
=============================================================================
