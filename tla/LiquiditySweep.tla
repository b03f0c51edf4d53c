---------------------------- MODULE LiquiditySweep ----------------------------
(***************************************************************************)
(* xauusd_strategies/s90_liqsweep_fvg.py: within a session, a bar takes out  *)
(* the running low (or high) and closes back above (below) it.  With the    *)
(* bias of the higher time frame and a gap near the swept level, the trade   *)
(* goes for the other extreme of the session.                               *)
(***************************************************************************)
EXTENDS Bars

CONSTANTS SweepLookback, SweepProximity, SweepBuffer, SweepMinRR

ASSUME SweepBufferIsPrice == SweepBuffer \in Int /\ SweepLookback \in Nat

LondonHours == 7..10
NewYorkHours == 12..15

\* 0 outside the sessions.
SessionId(i) ==
    IF Hour(i) \in LondonHours THEN 2 * DayOf(i) + 1
    ELSE IF Hour(i) \in NewYorkHours THEN 2 * DayOf(i) + 2
    ELSE 0

NoLevels == [none |-> TRUE]
Widen(levels, bar) ==
    IF levels = NoLevels THEN [h |-> bar.h, l |-> bar.l]
    ELSE [h |-> Max({levels.h, bar.h}), l |-> Min({levels.l, bar.l})]

\* The extremes of a session's bars before bar k.
BeforeInSession(k) == {j \in 1..(k - 1) : SessionId(j) = SessionId(k) /\ Weekday(j)}
Levels(bars, members) ==
    IF members = {} THEN NoLevels
    ELSE [h |-> Max({bars[j].h : j \in members}), l |-> Min({bars[j].l : j \in members})]

\* The extremes that bar k is compared with: found afresh in a new session,
\* widened by the bar before in a session that goes on.
CurrentLevels(bars, k) ==
    IF SessionId(k) # mem.session
    THEN IF SessionId(k) = 0 THEN NoLevels ELSE Levels(bars, BeforeInSession(k))
    ELSE IF SessionId(k - 1) = mem.session THEN Widen(mem.levels, bars[k - 1]) ELSE mem.levels

\* The bias of the higher time frame: its later bars lie above, or below, its
\* earlier ones.  The bar that is still forming counts.
HtfSwingBias(bars, k) ==
    LET seen == LastOf(HigherOpened(bars, k + 1), 4)
        half == IF Len(seen) = 4 THEN 2 ELSE Len(seen) - 1
        Above(s) == LET f == FacingAll(seen, s)
                    IN  /\ Max(Highs(SubSeq(f, 1, half))) < Max(Highs(SubSeq(f, half + 1, Len(f))))
                        /\ Min(Lows(SubSeq(f, 1, half))) < Min(Lows(SubSeq(f, half + 1, Len(f))))
    IN  IF Len(seen) < 2 THEN 0 ELSE IF Above(1) THEN 1 ELSE IF Above(-1) THEN -1 ELSE 0

GapNear(bars, k, side, level) ==
    \E i \in Max({3, k - SweepLookback})..k :
        LET lo == Facing(bars[i - 2], side).h
            hi == Facing(bars[i], side).l
        IN  lo < hi /\ DistanceTo(level, lo, hi) <= SweepProximity

\* The levels as the side of the trade sees them: its l is the one to sweep.
Swept(levels, side) == Facing([o |-> 0, h |-> levels.h, l |-> levels.l, c |-> 0], side)

Sweeps(bar, level) == bar.l < level.l /\ bar.c > level.l

\* A sweep of the high is looked at first, and hides one of the low.
SweepSide(bar, levels) ==
    IF Sweeps(Facing(bar, -1), Swept(levels, -1)) THEN -1
    ELSE IF Sweeps(bar, Swept(levels, 1)) THEN 1
    ELSE 0

SweepSignals(bars, k, levels) ==
    LET side == SweepSide(bars[k], levels)
        b == Facing(bars[k], side)
        level == Swept(levels, side)
        open == side * bars[k + 1].o
        sl == b.l - SweepBuffer
    IN  IF /\ levels # NoLevels
           /\ SessionId(k) # 0
           /\ side # 0
           /\ HtfSwingBias(bars, k) = side
           /\ GapNear(bars, k, side, level.l)
           /\ sl < open /\ open < level.h
           /\ level.h - open >= SweepMinRR * (open - sl)
        THEN <<Signal(side, k + 1, side * sl, side * level.h, k)>>
        ELSE <<>>

InitSweep == StartStudy("sweep", [session |-> 0, levels |-> NoLevels])

SweepFinds(bars) ==
    LET k == Len(bars) - 1
    IN  IF k < 2 \/ ~Weekday(k) THEN <<>> ELSE SweepSignals(bars, k, CurrentLevels(bars, k))

Sweep ==
    /\ NextBar("sweep")
    /\ LET k == Len(tape)
           levels == CurrentLevels(tape', k)
       IN  /\ out' = out \o SweepFinds(tape')
           /\ mem' = IF k < 2 THEN mem
                     ELSE IF ~Weekday(k) THEN [mem EXCEPT !.session = 0]
                     ELSE [mem EXCEPT !.session = SessionId(k),
                                      !.levels = IF SessionId(k) = 0 \/ levels = NoLevels THEN levels
                                                 ELSE Widen(levels, tape'[k])]

-----------------------------------------------------------------------------
\* What the tape says: every bar of a session against the session before it.
SweepSetups ==
    {SweepSignals(tape, k, Levels(tape, BeforeInSession(k)))[1] :
        k \in {j \in 2..(Len(tape) - 1) :
                 Weekday(j) /\ SweepSignals(tape, j, Levels(tape, BeforeInSession(j))) # <<>>}}

=============================================================================
