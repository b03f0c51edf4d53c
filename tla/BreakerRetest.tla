---------------------------- MODULE BreakerRetest ----------------------------
(***************************************************************************)
(* xauusd_strategies/s90_breaker.py: the last candle before an impulse (an   *)
(* order block) is broken from the other side and becomes a breaker; the    *)
(* first bar that comes back to it and turns away is traded.  Blocks carry  *)
(* the side that they will be traded to, and their bounds as it sees them.  *)
(***************************************************************************)
EXTENDS Bars

CONSTANTS
    SwingLookback, BlockSearch, AtrPeriod,
    BlockMaxAge, BreakerMaxAge,
    BreakerBuffer

ASSUME BreakerLooksBack ==
    /\ {SwingLookback, BlockSearch, AtrPeriod, BlockMaxAge, BreakerMaxAge} \subseteq Nat
    /\ AtrPeriod # 0
ASSUME BreakerBufferIsPrice == BreakerBuffer \in Int

FirstDecision == Max({AtrPeriod, SwingLookback + BlockSearch}) + 1

RangeSum(bars, i) ==
    SumOver(Max({1, i - AtrPeriod + 1})..i, LAMBDA j : TrueRange(bars, j))
RangeCount(i) == Min({i, AtrPeriod})

\* A body of more than 1.2 average ranges.
Displaced(bars, i) ==
    5 * Abs(bars[i].c - bars[i].o) * RangeCount(i) > 6 * RangeSum(bars, i)

\* The order block of an impulse at bar i, against the side that sees it fall.
Blocks(bars, i) ==
    LET Face(j, side) == Facing(bars[j], side)
        Falls(side) == /\ Face(i, side).c < Face(i, side).o
                       /\ \A j \in (i - SwingLookback)..(i - 1) : Face(i, side).c < Face(j, side).l
        candles(side) == {j \in (i - BlockSearch)..(i - 1) : Face(j, side).c > Face(j, side).o}
    IN  IF ~Displaced(bars, i) THEN {}
        ELSE {[side |-> s, made |-> i, broke |-> 0, lo |-> Face(Max(candles(s)), s).o,
               hi |-> Face(Max(candles(s)), s).c] :
                s \in {t \in Sides : Falls(t) /\ candles(t) # {}}}

Broken(bar, block) == Facing(bar, block.side).c > block.hi

\* A mutant of TurnsAway that enters wherever the next bar opens.
TurnsAwayAnyOpen(bars, k, breaker) ==
    LET b == Facing(bars[k], breaker.side)
    IN  /\ breaker.broke < k
        /\ InSession(k + 1)
        /\ b.l <= breaker.hi /\ b.h >= breaker.lo
        /\ b.c > b.o

\* A breaker that bar k returns to and closes away from, whose signal no filter refuses.
TurnsAway(bars, k, breaker) ==
    LET b == Facing(bars[k], breaker.side)
    IN  /\ breaker.broke < k
        /\ InSession(k + 1)
        /\ b.l <= breaker.hi /\ b.h >= breaker.lo
        /\ b.c > b.o
        /\ breaker.lo - BreakerBuffer < breaker.side * bars[k + 1].o

\* Twice the risk.
BreakerSignal(bars, k, breaker) ==
    LET sl == breaker.lo - BreakerBuffer
        open == breaker.side * bars[k + 1].o
    IN  Signal(breaker.side, k + 1, breaker.side * sl, breaker.side * (open + 2 * (open - sl)), breaker)

\* The breakers are kept in the order in which they were broken, and of those
\* broken on one bar the older block comes first.
Older(b, c) == b.broke < c.broke \/ (b.broke = c.broke /\ b.made <= c.made)
Oldest(breakers) == {b \in breakers : \A c \in breakers : Older(b, c)}

InitBreaker == StartStudy("breaker", [blocks |-> {}, breakers |-> {}])

\* One bar: prune, find a block, break blocks, and let the first breaker fire.
BreakerBar(bars) ==
    LET k == Len(bars) - 1
        known == {b \in mem.blocks : k - b.made <= BlockMaxAge} \cup Blocks(bars, k)
        live == {b \in mem.breakers : k - b.broke <= BreakerMaxAge}
        broken == {b \in known : Broken(bars[k], b)}
        breakers == live \cup {[b EXCEPT !.broke = k] : b \in broken}
        fires == Oldest({b \in breakers : TurnsAway(bars, k, b)})
    IN  IF k < FirstDecision \/ RangeSum(bars, k) = 0 THEN [mem |-> mem, finds |-> <<>>]
        ELSE [mem |-> [mem EXCEPT !.blocks = known \ broken, !.breakers = breakers \ fires],
              finds |-> SetToSeq({BreakerSignal(bars, k, b) : b \in fires})]

BreakerStep ==
    /\ NextBar("breaker")
    /\ mem' = BreakerBar(tape').mem
    /\ out' = out \o BreakerBar(tape').finds

-----------------------------------------------------------------------------
\* The breakers that the tape holds: the first close beyond a block breaks it.
BreakersOf(bars) ==
    LET last == Len(bars) - 1
        blocks == UNION {Blocks(bars, i) : i \in FirstDecision..last}
        Breaks(b) == {j \in b.made..Min({last, b.made + BlockMaxAge}) : Broken(bars[j], b)}
    IN  {[b EXCEPT !.broke = Min(Breaks(b))] : b \in {c \in blocks : Breaks(c) # {}}}

\* On every bar the oldest breaker that has not fired yet and is turned away
\* from fires, and nothing else does.
BreakersFire ==
    LET Fired(b, k) == \E i \in DOMAIN out : out[i].of = b /\ out[i].entry <= k
    IN  /\ \A i, j \in DOMAIN out : i # j => out[i].entry # out[j].entry
        /\ \A k \in FirstDecision..(Len(tape) - 1) :
             LET ready == {b \in BreakersOf(tape) :
                             /\ k - b.broke <= BreakerMaxAge
                             /\ TurnsAway(tape, k, b)
                             /\ ~Fired(b, k)}
             IN  {out[i] : i \in {j \in DOMAIN out : out[j].entry = k + 1}}
                    = {BreakerSignal(tape, k, b) : b \in Oldest(ready)}

=============================================================================
