---------------------------- MODULE SigmaReversion ----------------------------
(***************************************************************************)
(* xauusd_strategies/s90_sigma_mr.py: a bar whose range is more than three   *)
(* average ranges is faded.  The average is Wilder's, over the bars before; *)
(* mem.atr is the average times mem.scale, which keeps it whole.            *)
(***************************************************************************)
EXTENDS Bars

CONSTANT AtrLength

ASSUME SomeAverage == AtrLength \in Nat \ {0}

RangesBefore(bars, k) == SumOver(1..(k - 1), LAMBDA j : TrueRange(bars, j))

\* The average before bar k, for k beyond the first one that has it.
Smoothed(bars, k) == (AtrLength - 1) * mem.atr + mem.scale * TrueRange(bars, k - 1)

AverageAt(bars, k) ==
    IF k = AtrLength + 1 THEN [atr |-> RangesBefore(bars, k), scale |-> AtrLength]
    ELSE [atr |-> Smoothed(bars, k), scale |-> mem.scale * AtrLength]

\* Stop and target lie 1.5 and 0.5 averages from the open.  In units of 2 * scale.
SigmaSignals(bars, k, average) ==
    LET side == IF bars[k].c >= bars[k].o THEN -1 ELSE 1
        open == 2 * average.scale * bars[k + 1].o
    IN  IF /\ average.atr > 0
           /\ InSession(k)
           /\ (bars[k].h - bars[k].l) * average.scale > 3 * average.atr
        THEN <<Signal(side, k + 1, open - 3 * side * average.atr, open + side * average.atr,
                      [bar |-> k, unit |-> 2 * average.scale])>>
        ELSE <<>>

InitSigma == StartStudy("sigma", [atr |-> 0, scale |-> 1])

SigmaFinds(bars) ==
    LET k == Len(bars) - 1
    IN  IF k <= AtrLength THEN <<>> ELSE SigmaSignals(bars, k, AverageAt(bars, k))

Sigma ==
    /\ NextBar("sigma")
    /\ out' = out \o SigmaFinds(tape')
    /\ mem' = IF Len(tape) <= AtrLength THEN mem
              ELSE LET average == AverageAt(tape', Len(tape))
                   IN  [mem EXCEPT !.atr = average.atr, !.scale = average.scale]

-----------------------------------------------------------------------------
\* The average in closed form: the mean of the first ranges, and every later
\* one, each with its weight.
WilderAt(k) ==
    LET n == k - 1 - AtrLength
        later == SumOver((AtrLength + 1)..(k - 1), LAMBDA j :
                            TrueRange(tape, j) * Power(AtrLength, j - AtrLength)
                                            * Power(AtrLength - 1, k - 1 - j))
    IN  [scale |-> Power(AtrLength, n + 1),
         atr |-> RangesBefore(tape, AtrLength + 1) * Power(AtrLength - 1, n) + later]

SigmaSetups ==
    UNION {Range(SigmaSignals(tape, k, WilderAt(k))) :
             k \in (AtrLength + 1)..(Len(tape) - 1)}

=============================================================================
