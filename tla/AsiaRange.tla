------------------------------ MODULE AsiaRange ------------------------------
(***************************************************************************)
(* xauusd_strategies/s90_asia_range.py: in the London hours a close beyond   *)
(* the range of the Asian hours, and a later one back inside, is traded      *)
(* towards the other end of the range, once a day.  mem.side is the side of  *)
(* the trade that a break leads to, 0 before it.                            *)
(***************************************************************************)
EXTENDS Bars

CONSTANT AsiaBuffer

ASSUME AsiaBufferIsPrice == AsiaBuffer \in Int

InLondon(i) == Weekday(i) /\ Hour(i) \in 7..10

\* The bars of the Asian hours of bar k's day, and the range as a side sees it.
AsiaBars(k) == {j \in 1..k : DayOf(j) = DayOf(k) /\ Hour(j) < 6}
AsiaLow(bars, k, side) == Min({Facing(bars[j], side).l : j \in AsiaBars(k)})
AsiaHigh(bars, k, side) == Max({Facing(bars[j], side).h : j \in AsiaBars(k)})

\* A bar that closes below the range, as the side of the trade sees it.
ClosesOut(bars, k, side) == Facing(bars[k], side).c < AsiaLow(bars, k, side)

\* The reward is at least one and a half times the risk, and both are some.
RewardOk(open, sl, tp) == open > sl /\ tp > open /\ 2 * (tp - open) >= 3 * (open - sl)

\* The trade back into the range, when its reward is large enough.
AsiaTrade(bars, k, side, extreme) ==
    LET open == side * bars[k + 1].o
        sl == extreme - AsiaBuffer
        tp == AsiaHigh(bars, k, side)
    IN  IF RewardOk(open, sl, tp)
        THEN <<Signal(side, k + 1, side * sl, side * tp, DayOf(k))>>
        ELSE <<>>

QuietDay == [side |-> 0, extreme |-> 0, fired |-> FALSE]

InitAsia == StartStudy("asia", QuietDay)

\* A mutant of Extreme that keeps the extreme of the break.
ExtremeOfBreak(bar, m) == m.extreme

\* The sweep goes on as long as the closes stay outside.
Extreme(bar, m) == Min({m.extreme, Facing(bar, m.side).l})

\* What the day's state is after bar k, with the signal that it gives.
AsiaBar(bars, k, m) ==
    LET out_ == {side \in Sides : ClosesOut(bars, k, side)}
        side == CHOOSE s \in out_ : TRUE
        extreme == Extreme(bars[k], m)
        trade == AsiaTrade(bars, k, m.side, extreme)
    IN  IF m.fired \/ AsiaBars(k) = {} THEN [m |-> m, trade |-> <<>>]
        ELSE IF ~InLondon(k)
        THEN [m |-> IF Hour(k) >= 11 THEN [m EXCEPT !.side = 0] ELSE m, trade |-> <<>>]
        ELSE IF DayOf(k + 1) # DayOf(k) THEN [m |-> m, trade |-> <<>>]
        ELSE IF m.side = 0
        THEN [m |-> IF out_ = {} THEN m
                    ELSE [m EXCEPT !.side = side, !.extreme = Facing(bars[k], side).l],
              trade |-> <<>>]
        ELSE IF ClosesOut(bars, k, m.side)
        THEN [m |-> [m EXCEPT !.extreme = extreme], trade |-> <<>>]
        ELSE [m |-> IF trade = <<>> THEN [m EXCEPT !.side = 0, !.extreme = extreme]
                    ELSE [m EXCEPT !.fired = TRUE, !.extreme = extreme],
              trade |-> trade]

\* A day starts quiet, and a day of the weekend stays so.
AsiaAfter(bars) ==
    LET k == Len(bars) - 1
        start == IF k > 1 /\ DayOf(k - 1) = DayOf(k) THEN mem ELSE With(QuietDay, mem)
    IN  IF k = 0 THEN [m |-> mem, trade |-> <<>>]
        ELSE IF ~Weekday(k) THEN [m |-> start, trade |-> <<>>]
        ELSE AsiaBar(bars, k, start)

Asia ==
    /\ NextBar("asia")
    /\ mem' = AsiaAfter(tape').m
    /\ out' = out \o AsiaAfter(tape').trade

-----------------------------------------------------------------------------
\* The break that bar k ends: closes outside without a pause before it.
AsiaRun(bars, k, side) ==
    {b \in 1..(k - 1) : \A j \in b..(k - 1) : /\ InLondon(j) /\ DayOf(j) = DayOf(k)
                                              /\ ClosesOut(bars, j, side)}

\* A bar that jumped from one side of the range to the other ends the break
\* before it; the break on its own side begins with the next bar.
Jumped(bars, b, side) ==
    /\ b > 1 /\ AsiaBars(b) # {} /\ InLondon(b - 1) /\ DayOf(b - 1) = DayOf(b)
    /\ ClosesOut(bars, b - 1, -side)
BeginsBreak(bars, b, k, side) ==
    LET first == Min(AsiaRun(bars, k, side))
    IN  b = first \/ (b = first + 1 /\ Jumped(bars, first, side))

AsiaTradeFrom(bars, b, k, side) ==
    AsiaTrade(bars, k, side, Min({Facing(bars[j], side).l : j \in b..k}))

\* The bars that end a break with a trade.
EndsBreak(bars, k, side) ==
    /\ AsiaBars(k) # {} /\ InLondon(k) /\ DayOf(k + 1) = DayOf(k)
    /\ AsiaRun(bars, k, side) # {} /\ ~ClosesOut(bars, k, side)
    /\ AsiaTradeFrom(bars, Min(AsiaRun(bars, k, side)), k, side) # <<>>
AsiaEnds == {end \in (2..(Len(tape) - 1)) \X Sides : EndsBreak(tape, end[1], end[2])}

\* A day has at most one signal, each ends a break with the stop beyond all of
\* it, and no day lets an end of a break go by before its signal.
AsiaFires ==
    /\ \A i, j \in DOMAIN out : out[i].of = out[j].of => i = j
    /\ \A i \in DOMAIN out :
         LET k == out[i].entry - 1
             side == out[i].side
         IN  \E b \in AsiaRun(tape, k, side) :
                /\ BeginsBreak(tape, b, k, side)
                /\ AsiaTradeFrom(tape, b, k, side) = <<out[i]>>
    /\ \A e \in AsiaEnds :
         Jumped(tape, Min(AsiaRun(tape, e[1], e[2])), e[2]) \/
         \E i \in DOMAIN out : out[i].of = DayOf(e[1]) /\ out[i].entry <= e[1] + 1

=============================================================================
