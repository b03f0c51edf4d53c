--------------------------- MODULE KronosIndicators ---------------------------
(***************************************************************************)
(* backtest_strategies/_kronos_indicators.py: what the Kronos legs compute  *)
(* from a window of closed bars.  Averages are kept whole: a sum stands for *)
(* its mean times the number of bars.  Bars of a window carry the minute t  *)
(* that they open in.  Period holds the lengths of the averages.            *)
(***************************************************************************)
EXTENDS Bars

CONSTANTS
    Period,         \* [fast, slow, anchor, slope, slack, atr, stoch, band]
    BandTenths,     \* the width of the bands, in tenths of a deviation
    DayMinutes,     \* minutes of a day
    ZoneBins        \* poc_bins

ASSUME PeriodsArePositive ==
    /\ DOMAIN Period = {"fast", "slow", "anchor", "slope", "slack", "atr", "stoch", "band"}
    /\ \A p \in DOMAIN Period : Period[p] \in Nat \ {0}
    /\ {BandTenths, DayMinutes, ZoneBins} \subseteq Nat \ {0}

Date(minute) == minute \div DayMinutes

\* The last n bars up to bar i.
Trailing(i, n) == (i - n + 1)..i

\* The average true range at bar i, times its period.
AtrTimes(w, i) == SumOver(Trailing(i, Period.atr), LAMBDA j : TrueRange(w, j))

\* The exponential average of closes at the last of them, times (span + 1) ^ (their number - 1).
EmaOf(closes, span) ==
    LET e[j \in DOMAIN closes] == IF j = 1 THEN closes[1]
                                  ELSE 2 * closes[j] * Power(span + 1, j - 2) + (span - 1) * e[j - 1]
    IN  e[Len(closes)]
EmaTimes(w, span, i) == EmaOf([j \in 1..i |-> w[j].c], span)
EmaScale(span, i) == Power(span + 1, i - 1)

\* The fast average lies above the slow one.
Uptrend(w, i) ==
    EmaTimes(w, Period.fast, i) * EmaScale(Period.slow, i)
        > EmaTimes(w, Period.slow, i) * EmaScale(Period.fast, i)

\* The close lies in the lowest hundredths of the range of the last bars.
StochBelow(w, i, hundredths) ==
    LET bars == SubSeq(w, i - Period.stoch + 1, i)
        low == Min(Lows(bars))
    IN  100 * (w[i].c - low) < hundredths * (Max(Highs(bars)) - low)

\* As the side sees it, the close lies below the band around the mean.
BelowBand(w, i, side) ==
    LET n == Period.band
        sum == SumOver(Trailing(i, n), LAMBDA j : w[j].c)
        squares == SumOver(Trailing(i, n), LAMBDA j : w[j].c * w[j].c)
        under == side * (sum - n * w[i].c)
    IN  /\ under > 0
        /\ 100 * (n - 1) * under * under > BandTenths * BandTenths * n * (n * squares - sum * sum)

\* The bias of four hours and of a day wants 25 bars of them.  The window of 260
\* quarters of an hour that it is built from holds no more than 19 and 5.
HtfBias == 0

\* The prior day's high, low and most visited price, times 2 * ZoneBins.
PriorZones(w, now) ==
    LET earlier == {Date(w[i].t) : i \in {j \in DOMAIN w : Date(w[j].t) < Date(now)}}
        bars == SelectSeq(w, LAMBDA b : Date(b.t) = Max(earlier))
        lo == Min(Lows(bars))
        hi == Max(Highs(bars))
        Bin(b) == Min({((b.c - lo) * ZoneBins) \div (hi - lo), ZoneBins - 1})
        Visits(k) == Cardinality({i \in DOMAIN bars : Bin(bars[i]) = k})
        full == Max({Visits(k) : k \in 0..(ZoneBins - 1)})
        fullest == Min({k \in 0..(ZoneBins - 1) : Visits(k) = full})
        unit == 2 * ZoneBins
    IN  IF earlier = {} THEN <<>>
        ELSE <<unit * hi, unit * lo,
               IF hi = lo THEN unit * Last(bars).c ELSE unit * lo + (2 * fullest + 1) * (hi - lo)>>

\* The distance of a price to a zone, times 2 * ZoneBins.
ZoneDistance(price, zone) == Abs(2 * ZoneBins * price - zone)

=============================================================================
