--------------------------- MODULE TrendBreakout ---------------------------
(***************************************************************************)
(* The breakouts that the challenge trades (challenge_xau.py) and their port *)
(* for the strategy runners (kronos_challenge_xau.py), with two bars of the  *)
(* tape in a bar of four hours.  Prices of a signal are in units of one over *)
(* the length of its average range.                                          *)
(***************************************************************************)
EXTENDS KronosIndicators

CONSTANT Trend     \* [channel, fast, slow, atr, mult]

ASSUME TrendIsPositive ==
    /\ DOMAIN Trend = {"channel", "fast", "slow", "atr", "mult"}
    /\ \A p \in DOMAIN Trend : Trend[p] \in Nat \ {0}

\* With the bars that the port waits for there is an average range for both, and the
\* slower average is the one to wait for.
ASSUME RangeIsKnown ==
    /\ {Period.atr, Trend.atr} \subseteq 1..(Trend.slow + Trend.channel + 2)
    /\ Trend.fast < Trend.slow

AverageRange(w, t, n) == SumOver(Trailing(t, n), LAMBDA j : TrueRange(w, j))

\* The highest high of the bars before bar t, as the side sees it.
Donchian(w, t, side) == Max(Highs(FacingAll(SubSeq(w, t - Trend.channel, t - 1), side)))

\* How far the fast average lies above the slow one, times both scales.
Bias(w, i) ==
    EmaTimes(w, Trend.fast, i) * EmaScale(Trend.slow, i)
        - EmaTimes(w, Trend.slow, i) * EmaScale(Trend.fast, i)

\* The bias is read on the bar before the one that breaks out.
SignalForTrigger(w, t) ==
    LET known == t > Trend.channel /\ t >= Trend.atr /\ t > Max({Trend.fast, Trend.slow})
        risk == Trend.mult * AverageRange(w, t, Trend.atr)
    IN  {[side |-> side, entry |-> t + 1, sl |-> Trend.atr * w[t].c - side * risk] :
            side \in {s \in Sides : known /\ s * w[t].c > Donchian(w, t, s) /\ s * Bias(w, t - 1) > 0}}

GenerateSignals(w) == UNION {SignalForTrigger(w, t) : t \in 2..(Len(w) - 1)}
SignalAtLastBar(w) == IF Len(w) < 2 THEN {} ELSE SignalForTrigger(w, Len(w))

\* The bars of four hours that are over; the port drops the last one even when it is.
ResampleH4(bars) == HigherClosed(bars, Len(bars))
CompletedBars(bars) == HigherClosed(bars, Len(bars) + 1)

\* The port reads the bias on the bar that breaks out, and sells without one.
PortSignal(bars) ==
    LET w == ResampleH4(bars)
        t == Len(w)
        least == Trend.slow + Trend.channel + 2
        Agrees(side) == IF side = 1 THEN Bias(w, t) > 0 ELSE Bias(w, t) <= 0
        risk == Trend.mult * AverageRange(w, t, Period.atr)
    IN  IF t < least THEN {}
        ELSE {[side |-> side, entry |-> t + 1, sl |-> Period.atr * w[t].c - side * risk] :
                 side \in {s \in Sides : risk > 0 /\ s * w[t].c > Donchian(w, t, s) /\ Agrees(s)}}

InitBreakout == StartStudy("breakout", [ports |-> <<{}>>])

\* The challenge looks at every bar of four hours once, when it is over, and the
\* port at every bar of the tape.
Breakout ==
    /\ NextBar("breakout")
    /\ \E found \in {IF Len(tape') % 2 = 0 THEN SignalAtLastBar(CompletedBars(tape')) ELSE {}} :
         out' = out \o SetToSeq(found)
    /\ mem' = [mem EXCEPT !.ports = Append(@, PortSignal(tape'))]

-----------------------------------------------------------------------------
\* "Everything here is causal": what was answered live, bar by bar, is what the
\* scan of the whole data finds for those bars; and the port, which sees every
\* bar of four hours grow, answers the same as long as that bar grows.
LiveIsScan == study = "breakout" =>
    LET w == CompletedBars(tape)
    IN  /\ {s \in Range(out) : s.entry <= Len(w)}
              = {s \in GenerateSignals(w) : s.entry > Len(mem.past) + 1}
        /\ \A i, j \in DOMAIN out : i < j => out[i].entry < out[j].entry
PortIsSteady == study = "breakout" /\ Len(tape') % 2 = 0 => Last(mem'.ports) = Last(mem.ports)
BreakoutIsCausal == LiveIsScan /\ PortIsSteady

\* Once it looks, the port finds the breakouts of the challenge when they are old
\* enough, and no others, unless the breaking bar has turned the bias.
PortAgrees == (study = "breakout" /\ tape # <<>>) =>
    LET w == ResampleH4(tape)
        t == Len(w)
        Sided(signals) == {s.side : s \in signals}
    IN  (t >= Trend.slow + Trend.channel + 2 /\ \E s \in Sides : s * Bias(w, t) > 0 /\ s * Bias(w, t - 1) > 0) =>
            Sided(Last(mem.ports)) = Sided(SignalForTrigger(w, t))

\* A breakout has a range, so that its stop lies behind its close.
BreakoutIsFair == study = "breakout" =>
    LET w == CompletedBars(tape)
        Behind(s, unit) == s.side * s.sl < s.side * unit * w[s.entry - 1].c
    IN  /\ \A s \in Range(out) : Behind(s, Trend.atr)
        /\ \A s \in Last(mem.ports) : Behind(s, Period.atr)

=============================================================================
