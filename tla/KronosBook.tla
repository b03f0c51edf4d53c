------------------------------ MODULE KronosBook ------------------------------
(***************************************************************************)
(* backtest_strategies/kronos_combined_v2.py: ten legs behind one           *)
(* get_signal(), which answers with the first leg that is ready, once per    *)
(* leg and bar of the leg's time frame, behind a gate on the daily bias.     *)
(* A bar of the tape is a minute; two of them make a bar of five minutes    *)
(* and four a quarter of an hour.  The live runner asks when a minute is     *)
(* over.  The replay of backtest/backtest_combined_v2.py asks for every      *)
(* minute too; its step for a minute is taken when the quarter around it is *)
(* on the tape.                                                             *)
(*                                                                          *)
(* Each leg looks at a window of closed bars (the quarters of an hour, or   *)
(* the bars of five minutes) and finds the sides that it would trade: no    *)
(* more than one.  Prices are compared in multiples of the average true     *)
(* range, which AtrTimes gives times Period.atr.                            *)
(***************************************************************************)
EXTENDS KronosIndicators

CONSTANTS
    AsiaEnd, LondonEnd,     \* minutes of the day in which the sessions end
    LongGate, ShortGate,    \* LONG_GATE_N, SHORT_GATE_N
    Shuts,                  \* the sets of minutes with closed gates that are tried
    Window                  \* WIN_5M, WIN_15M

\* The clock of the tape does not run before its week.
ASSUME BookIsTimed == \A times \in Times["book"] : times[1] \in Nat

--------------------------------------------------------------------------
\* The legs.

Quarters == {"S02", "S05", "S06", "S07"}
LongFades == {"E1", "E2", "E3"}
ShortFades == {"SE1", "SE2"}
Reversions == Quarters \cup {"S14"}

\* Stop and target in tenths of the average range.
Exits == [S02 |-> <<30, 25>>, S05 |-> <<30, 20>>, S06 |-> <<10, 15>>, S07 |-> <<15, 13>>,
          S14 |-> <<25, 20>>, E1 |-> <<20, 25>>, E2 |-> <<20, 25>>, E3 |-> <<20, 25>>,
          SE1 |-> <<20, 25>>, SE2 |-> <<20, 25>>]

Long(holds) == IF holds THEN {1} ELSE {}

\* kronos_s02_stoch_revert.py: an oversold dip of an uptrend near a zone of the
\* day before.  Triggers are read on the bar before the last.
StochRevert(w, now) ==
    LET n == Len(w)
        zones == PriorZones(w, now)
    IN  Long(/\ n >= Period.slow + Period.slack
             /\ Uptrend(w, n - 1)
             /\ StochBelow(w, n - 1, 15)
             /\ HtfBias # -1
             /\ AtrTimes(w, n - 1) > 0
             /\ \E i \in DOMAIN zones :
                  Period.atr * ZoneDistance(w[n].c, zones[i]) <= 2 * 2 * ZoneBins * AtrTimes(w, n - 1))

\* kronos_s05_threebar_pull.py: three falling bars in an uptrend, unless the
\* close has just broken the nearest zone of the day before.
ThreeBarPull(w, now) ==
    LET n == Len(w)
        zones == PriorZones(w, now)
        Falls(i) == w[i].l < w[i - 1].l /\ w[i].c < w[i - 1].c
        away == {ZoneDistance(w[n].c, zones[i]) : i \in DOMAIN zones}
        nearest == zones[Min({i \in DOMAIN zones : ZoneDistance(w[n].c, zones[i]) = Min(away)})]
        Broken_ == /\ 2 * Period.atr * Min(away) <= 2 * ZoneBins * AtrTimes(w, n - 1)
                   /\ 2 * ZoneBins * w[n].c < nearest
    IN  Long(/\ n >= Period.slow + Period.slack
             /\ Uptrend(w, n - 1)
             /\ \A i \in (n - 3)..(n - 1) : Falls(i)
             /\ AtrTimes(w, n - 1) > 0
             /\ zones = <<>> \/ ~Broken_)

SessionOf(minute) ==
    LET m == minute % DayMinutes IN IF m < AsiaEnd THEN 0 ELSE IF m < LondonEnd THEN 1 ELSE 2

\* kronos_s06_session_sweep.py: the last bar pokes beyond the extremes of the
\* earlier sessions of its day and closes back, not against a strong trend.  A
\* sweep of the high is looked at first.
SessionSweep(w) ==
    LET n == Len(w)
        earlier == {i \in 1..n : /\ Date(w[i].t) = Date(w[n].t)
                                 /\ SessionOf(w[i].t) < SessionOf(w[n].t)}
        Level(side) == Min({Facing(w[i], side).l : i \in earlier})
        Pokes(side) == Facing(w[n], side).l < Level(side) /\ Facing(w[n], side).c > Level(side)
        side == IF Pokes(-1) THEN -1 ELSE 1
        ema == EmaTimes(w, Period.fast, n)
        slope == ema - EmaTimes(w, Period.fast, n - Period.slope) * Power(Period.fast + 1, Period.slope)
        scale == EmaScale(Period.fast, n)
        IntoTrend == /\ side * (w[n].c * scale - ema) < 0
                     /\ side * slope * Period.atr < -AtrTimes(w, n) * scale
    IN  IF /\ n >= Period.fast + Period.slope + Period.slack
           /\ earlier # {}
           /\ Pokes(-1) \/ Pokes(1)
           /\ AtrTimes(w, n) > 0
           /\ ~IntoTrend
           /\ HtfBias # -side
        THEN {side} ELSE {}

\* kronos_s07_crt.py: the last bar pokes beyond the bar before it and closes in
\* the other half of it.
CandleRange(w) ==
    LET n == Len(w)
        Sweeps_(side) ==
            LET ref == Facing(w[n - 1], side)
                bar == Facing(w[n], side)
            IN  bar.l < ref.l /\ 2 * bar.c > ref.h + ref.l /\ bar.c < ref.h
        size == w[n - 1].h - w[n - 1].l
    IN  IF n < Period.atr + Period.slack THEN {}
        ELSE {side \in Sides : /\ size > 0
                               /\ AtrTimes(w, n) > 0
                               /\ 2 * Period.atr * size >= AtrTimes(w, n)
                               /\ Sweeps_(side)
                               /\ HtfBias # -side}

\* kronos_s14_m5_ema_stretch.py: far below the anchor in an uptrend, but not too
\* far below the slow average.
EmaStretch(w) ==
    LET n == Len(w)
        i == n - 1
        atr == AtrTimes(w, i)
        Below(span) == EmaTimes(w, span, i) - w[i].c * EmaScale(span, i)
    IN  Long(/\ n >= Period.slow + Period.slack
             /\ Uptrend(w, i)
             /\ atr > 0
             /\ 10 * Period.atr * Below(Period.anchor) >= 15 * atr * EmaScale(Period.anchor, i)
             /\ 10 * Period.atr * Below(Period.slow) < 35 * atr * EmaScale(Period.slow, i))

\* The fades of an exhausted move, which the book computes itself: a close
\* beyond the extremes or the band before it, or at the end of its range.
Beyond_(w, side) ==
    LET n == Len(w)
    IN  Facing(w[n], side).c < Min(Lows(FacingAll(SubSeq(w, n - Period.band, n - 1), side)))

FadeHistory == Max({Period.band, Period.stoch}) + 3

Fades(leg, w) ==
    LET n == Len(w)
    IN  IF leg \in LongFades
        THEN Long(/\ n >= FadeHistory
                  /\ CASE leg = "E1" -> Beyond_(w, 1)
                       [] leg = "E2" -> BelowBand(w, n, 1)
                       [] leg = "E3" -> StochBelow(w, n, 5))
        ELSE IF /\ n >= Period.band + 3
                /\ CASE leg = "SE1" -> Beyond_(w, -1)
                     [] leg = "SE2" -> BelowBand(w, n, -1)
        THEN {-1} ELSE {}

\* The sides that a leg would trade now.  The gates for rates and for scheduled
\* events close the reversions.
LegSides(leg, fives, quarters, now) ==
    IF leg \in Reversions /\ now \in mem.shut THEN {}
    ELSE CASE leg = "S02" -> StochRevert(quarters, now)
           [] leg = "S05" -> ThreeBarPull(quarters, now)
           [] leg = "S06" -> SessionSweep(quarters)
           [] leg = "S07" -> CandleRange(quarters)
           [] leg = "S14" -> EmaStretch(fives)
           [] leg \in LongFades \cup ShortFades -> Fades(leg, fives)

--------------------------------------------------------------------------
\* The order in which they are asked, and their bars.

EvalOrder == <<"SE1", "SE2", "S06", "S07", "S02", "S05", "S14", "E1", "E2", "E3">>
TimeFrame(leg) == IF leg \in Quarters THEN Quarter ELSE FiveMinutes
Bucket(leg, now) == now \div TimeFrame(leg)

--------------------------------------------------------------------------
\* Windows.

\* The runner has whole bars only, and drops the last of them all the same.
LiveWindow(past, bars, width) ==
    LastOf(Front(Series(past, bars, width, Len(bars) \div width)), Window)

\* The replay takes every bar that has begun by minute k, with all its minutes.
ReplayWindow(past, bars, width, k) ==
    LastOf(BegunBy(past, bars, width, k), Window)

--------------------------------------------------------------------------
\* The daily bias.

\* The last close beyond the n days before it: the way it went, 0 without one.
Regime(days, n) ==
    LET Breaks(s, i) == Facing(days[i], s).c > Max(Highs(FacingAll(SubSeq(days, i - n, i - 1), s)))
        breaks == {i \in (n + 1)..Len(days) : Breaks(1, i) \/ Breaks(-1, i)}
    IN  IF breaks = {} THEN 0 ELSE IF Breaks(1, Max(breaks)) THEN 1 ELSE -1

\* The days before the given one; a day that the tape has left is built from it.
DaysBefore(bars, date) ==
    LET quarters == Series(mem.past.quarters, bars, Quarter, Len(bars) \div Quarter)
        first == Date(Slot(1))
        today == SelectSeq(quarters, LAMBDA b : Date(b.t) = first)
    IN  mem.past.days \o
            IF date = first THEN <<>>
            ELSE <<[o |-> today[1].o, h |-> Max(Highs(today)), l |-> Min(Lows(today)),
                    c |-> Last(today).c]>>

LiveRegime(days, n) == IF Len(days) < n + 2 THEN 0 ELSE Regime(days, n)

NeutralBias(date) == [date |-> date, long |-> 0, short |-> 0]

\* A failed fetch is neutral, for the whole day.
DailyBias(bars, now) ==
    LET days == DaysBefore(bars, Date(now))
    IN  IF mem.bias.date = Date(now) THEN {mem.bias}
        ELSE {[date |-> Date(now), long |-> LiveRegime(days, LongGate),
               short |-> LiveRegime(days, ShortGate)],
              NeutralBias(Date(now))}

AsOfBias(bars, now) ==
    LET days == DaysBefore(bars, Date(now))
    IN  [date |-> Date(now), long |-> Regime(days, LongGate), short |-> Regime(days, ShortGate)]

--------------------------------------------------------------------------
\* get_signal.

Allowed(leg, side, bias) ==
    /\ leg \in ShortFades => bias.short = -1
    /\ side = 1 => bias.long # -1

\* The trade of a leg: entry at the last close, in tenths of the average range.
Trade(leg, side, fives, quarters, now) ==
    LET w == IF leg \in Quarters THEN quarters ELSE fives
        n == Len(w)
        atr == AtrTimes(w, IF leg \in {"S02", "S05", "S14"} THEN n - 1 ELSE n)
        entry == 10 * Period.atr * w[n].c
    IN  [leg |-> leg, side |-> side, now |-> now, entry |-> entry,
         sl |-> entry - side * Exits[leg][1] * atr, tp |-> entry + side * Exits[leg][2] * atr]

\* The trades of the legs that are ready.
ReadyLegs(fives, quarters, now, bias) ==
    LET sides == [leg \in Range(EvalOrder) |->
                    {s \in LegSides(leg, fives, quarters, now) : Allowed(leg, s, bias)}]
        ready == {leg \in Range(EvalOrder) : sides[leg] # {}}
    IN  {Trade(leg, CHOOSE s \in sides[leg] : TRUE, fives, quarters, now) : leg \in ready}

\* The place of a leg in the order they are looked at.
Turn(leg) == CHOOSE i \in DOMAIN EvalOrder : EvalOrder[i] = leg

\* The trade of the leg that is looked at first, if there is one.
FirstOf(trades) ==
    IF trades = {} THEN <<>>
    ELSE <<CHOOSE t \in trades : \A other \in trades : Turn(t.leg) <= Turn(other.leg)>>

\* The first ready leg that has not fired in its bar yet.
GetSignal(trades, fired) ==
    FirstOf({t \in trades : fired[t.leg] # Bucket(t.leg, t.now)})

\* A mutant of Marked: all ready legs are.
MarkedAll(fired, found, trades) ==
    [leg \in DOMAIN fired |->
        IF found # <<>> /\ \E t \in trades : t.leg = leg
        THEN Bucket(leg, found[1].now) ELSE fired[leg]]

\* Only the leg that is answered with is marked.
Marked(fired, found, trades) ==
    IF found = <<>> THEN fired
    ELSE [fired EXCEPT ![found[1].leg] = Bucket(found[1].leg, found[1].now)]

NeverFired == [leg \in Range(EvalOrder) |-> -1]

InitBook ==
    \E shut \in Shuts :
        StartStudy("book", [fired |-> NeverFired, replayed |-> NeverFired, replay |-> <<>>,
                            shut |-> shut, bias |-> NeutralBias(-1), asked |-> <<>>])

\* The live runner, now that a minute is over.
LiveTrades(bars, bias) ==
    ReadyLegs(LiveWindow(mem.past.fives, bars, FiveMinutes),
              LiveWindow(mem.past.quarters, bars, Quarter), Slot(1) + Len(bars), bias)

\* The replay of minute k.
ReplayTrades(bars, k) ==
    ReadyLegs(ReplayWindow(mem.past.fives, bars, FiveMinutes, k),
              ReplayWindow(mem.past.quarters, bars, Quarter, k), Slot(k), AsOfBias(bars, Slot(k)))

\* The minute that the replay handles, when its quarter is whole.
ReplayMinute(bars) == Len(bars) - Quarter + 1

\* The replay's trades for the minute that it handles.
ReplayedTrades(bars) ==
    LET k == ReplayMinute(bars) IN IF k < 1 THEN {} ELSE ReplayTrades(bars, k)

Book ==
    /\ NextBar("book")
    /\ \E bias \in DailyBias(tape', Slot(1) + Len(tape')) :
       \E trades \in {LiveTrades(tape', bias)}, replays \in {ReplayedTrades(tape')} :
       \E found \in {GetSignal(trades, mem.fired)}, replayed \in {GetSignal(replays, mem.replayed)} :
         /\ out' = out \o found
         /\ mem' = [mem EXCEPT !.bias = bias,
                               !.asked = Append(@, trades),
                               !.fired = Marked(mem.fired, found, trades),
                               !.replay = @ \o replayed,
                               !.replayed = Marked(mem.replayed, replayed, replays)]

-----------------------------------------------------------------------------
\* In every minute the first ready leg that has not fired in its bar before
\* is answered with, and nothing else, so that no leg fires twice in a bar and
\* none that lost to another is forgotten.
BookFires ==
    study = "book" =>
        \A n \in 1..Len(tape) :
            LET now == Slot(1) + n
                Before(t) == \E i \in DOMAIN out : /\ out[i].leg = t.leg /\ out[i].now < now
                                                   /\ Bucket(t.leg, out[i].now) = Bucket(t.leg, now)
                answers == {i \in DOMAIN out : out[i].now = now}
            IN  /\ {out[i] : i \in answers} = Range(FirstOf({t \in mem.asked[n] : ~Before(t)}))
                /\ \A i, j \in answers : i = j

\* The replay's own claim, "replaying EXACTLY what the live runner does": each
\* trade of its is one that the live runner, asked in the same minute with the
\* bars that are over by then, would find as well.  The bars that the replay cuts
\* by their opening time include those that are still forming.
ReplayIsLive ==
    study = "book" =>
        \A i \in DOMAIN mem.replay :
            LET now == mem.replay[i].now
                closed == SubSeq(tape, 1, now - Slot(1) + 1)
                live == ReadyLegs(LiveWindow(mem.past.fives, closed, FiveMinutes),
                                  LiveWindow(mem.past.quarters, closed, Quarter),
                                  now, AsOfBias(closed, now))
            IN  \E t \in live : t.leg = mem.replay[i].leg /\ t.side = mem.replay[i].side

=============================================================================
