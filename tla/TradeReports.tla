----------------------------- MODULE TradeReports -----------------------------
(***************************************************************************)
(* What the programs report about a list of trades, each with code of its    *)
(* own.  Bar i of the tape of this study is a trade: its result r, outcome,   *)
(* and whether its pool is equal; it was entered in half hour mem.times[i].    *)
(* Ratios are left as their two sums.                                        *)
(***************************************************************************)
EXTENDS Bars

CONSTANT Parts     \* the number of folds, windows and calendar segments

ASSUME SomeFolds == Parts \in Nat \ {0}

Results(trades) == [i \in DOMAIN trades |-> trades[i].r]
Total(rs) == FoldLeft(+, 0, rs)
Above(rs) == SelectSeq(rs, LAMBDA r : r > 0)
NotAbove(rs) == SelectSeq(rs, LAMBDA r : r <= 0)
Ending(trades, outcomes) == SelectSeq(trades, LAMBDA t : t.outcome \in outcomes)

\* The largest fall of the equity below its peak, when the peak starts at zero.
FallFromZero(rs) ==
    FoldLeft(LAMBDA m, r :
                LET sum == m.sum + r
                    peak == Max({m.peak, sum})
                IN  [sum |-> sum, peak |-> peak, max |-> Max({m.max, peak - sum})],
             [sum |-> 0, peak |-> 0, max |-> 0], rs).max

\* The same where the running maximum is taken over the equity alone: it starts
\* with the first trade.
FallFromFirst(rs) ==
    IF rs = <<>> THEN 0
    ELSE FallFromZero(Tail(rs))

LosingRun(rs) ==
    FoldLeft(LAMBDA m, r : IF r > 0 THEN [m EXCEPT !.now = 0]
                           ELSE [now |-> m.now + 1, max |-> Max({m.max, m.now + 1})],
             [now |-> 0, max |-> 0], rs).max

\* The trades and the wins of every hour.
ByHour(trades) ==
    FoldLeft(LAMBDA m, t :
                LET hour == (t.t \div 2) % 24
                    old == IF hour \in DOMAIN m THEN m[hour] ELSE [trades |-> 0, wins |-> 0]
                IN  (hour :> [trades |-> old.trades + 1, wins |-> old.wins + IF t.r > 0 THEN 1 ELSE 0]) @@ m,
             <<>>, trades)

--------------------------------------------------------------------------
\* Reports by the sign of the result.

BySign(trades, fall) ==
    LET rs == Results(trades)
    IN  [n |-> Len(rs), wins |-> Len(Above(rs)), sum |-> Total(rs),
         won |-> Total(Above(rs)), lost |-> Total(NotAbove(rs)), fall |-> fall]
Hourly(trades, fall) == BySign(trades, fall) @@ [hours |-> ByHour(trades)]

SweepReport(trades) == Hourly(trades, FallFromFirst(Results(trades)))
InverseReport(trades) == Hourly(trades, FallFromFirst(Results(trades)))
SigmaReport(trades) == Hourly(trades, FallFromFirst(Results(trades)))
OteReport(trades) == Hourly(trades, FallFromZero(Results(trades)))
NewsReport(trades) == Hourly(trades, FallFromZero(Results(trades)))
BreakerReport(trades) == Hourly(trades, FallFromZero(Results(trades)))
AsiaReport(trades) == Hourly(trades, FallFromZero(Results(trades)))
TunedReport(trades) ==
    Hourly(trades, FallFromZero(Results(trades))) @@ [losing |-> LosingRun(Results(trades))]
EngineReport(trades) == BySign(trades, FallFromFirst(Results(trades)))
CoinReport(trades) ==
    LET closed == Ending(trades, {"TP", "SL", "TIME"})
    IN  BySign(closed, FallFromZero(Results(closed)))

\* Reports by the outcome: what the time limit ended is left out or is no win.

ByOutcome(closed, fall) ==
    LET wins == Results(Ending(closed, {"TP"}))
    IN  [n |-> Len(closed), wins |-> Len(wins), sum |-> Total(Results(closed)),
         won |-> Total(wins), lost |-> Total(Results(Ending(closed, {"SL"}))), fall |-> fall]

Summary(trades) ==
    LET closed == Ending(trades, {"TP", "SL"})
    IN  ByOutcome(closed, FallFromFirst(Results(closed)))

\* How often the trades of equal pools win, and those of the others.
PoolWins(closed) ==
    [equal \in BOOLEAN |->
        LET pool == SelectSeq(closed, LAMBDA t : t.equal = equal)
        IN  [n |-> Len(pool), wins |-> Len(Ending(pool, {"TP"}))]]
ReplayReport(trades) ==
    LET closed == Ending(trades, {"TP", "SL", "TIME"})
    IN  ByOutcome(closed, FallFromZero(Results(closed))) @@ [pools |-> PoolWins(closed)]

\* The days of the scalper, with what each earned.
ByDay(closed) ==
    FoldLeft(LAMBDA m, t :
                LET day == t.t \div SlotsOfDay
                IN  (day :> t.r + IF day \in DOMAIN m THEN m[day] ELSE 0) @@ m,
             <<>>, closed)
MicroReport(trades) ==
    LET closed == Ending(trades, {"TP", "SL", "TIME"})
    IN  ByOutcome(closed, FallFromZero(Results(closed))) @@ [days |-> ByDay(closed)]

--------------------------------------------------------------------------
\* Judging a strategy on parts of its trades.

Between(trades, lo, hi, scale) == SelectSeq(trades, LAMBDA t : lo <= scale * t.t /\ scale * t.t < hi)

\* The windows of equal spans between the first and the last trade, of which seven
\* tenths are in sample.  Times are multiplied by 10 * Parts.
WalkForward(trades, anchored) ==
    LET closed == Ending(trades, {"TP", "SL"})
        unit == 10 * Parts
        first == Min({closed[i].t : i \in DOMAIN closed})
        span == Max({closed[i].t : i \in DOMAIN closed}) - first
        Bound(tenths) == unit * first + tenths * span
    IN  IF closed = <<>> \/ span = 0 THEN <<>>
        ELSE [w \in 1..Parts |->
                LET start == IF anchored THEN Bound(0) ELSE Bound(10 * (w - 1))
                    split == Bound(10 * (w - 1) + 7)
                IN  [known |-> Between(closed, start, split, unit),
                     judged |-> Between(closed, split, Bound(10 * w), unit)]]

\* The calendar segments of the whole data: each but the first is judged by what
\* came before it.
ForwardFolds(trades, first, last) ==
    LET Bound(k) == Parts * first + k * (last - first)
    IN  [k \in 1..(Parts - 1) |->
            [known |-> Between(trades, 0, Bound(k), Parts),
             judged |-> Between(trades, Bound(k), Bound(k + 1), Parts)]]

\* The trades from a share of the list to another one.
Segment(trades, a, b, of) ==
    SubSeq(trades, (Len(trades) * a) \div of + 1, (Len(trades) * b) \div of)
OosSplit(trades) == [known |-> Segment(trades, 0, 3, 5), judged |-> Segment(trades, 3, 5, 5)]
KFold(trades) == [f \in 1..Parts |-> Segment(trades, f - 1, f, Parts)]

\* The results and the falls of all orders of the trades.
MonteCarlo(trades) ==
    LET rs == Results(Ending(trades, {"TP", "SL"}))
        orders == {[i \in DOMAIN rs |-> rs[p[i]]] : p \in Permutations(DOMAIN rs)}
    IN  [sums |-> {Total(o) : o \in orders}, falls |-> {FallFromFirst(o) : o \in orders}]

--------------------------------------------------------------------------

ReportsOn(trades) ==
    [sweep |-> SweepReport(trades), inverse |-> InverseReport(trades), sigma |-> SigmaReport(trades),
     ote |-> OteReport(trades), news |-> NewsReport(trades), breaker |-> BreakerReport(trades),
     asia |-> AsiaReport(trades), tuned |-> TunedReport(trades), engine |-> EngineReport(trades),
     coin |-> CoinReport(trades), summary |-> Summary(trades), replay |-> ReplayReport(trades),
     micro |-> MicroReport(trades)]

JudgementsOn(trades) ==
    [walk |-> WalkForward(trades, FALSE), anchored |-> WalkForward(trades, TRUE),
     forward |-> ForwardFolds(trades, Slot(1), Slot(Length["reports"])),
     split |-> OosSplit(trades), folds |-> KFold(trades), shuffles |-> MonteCarlo(trades)]

InitReports == StartStudy("reports", <<>>)

TradesOf(bars) == [i \in DOMAIN bars |-> [t |-> Slot(i)] @@ bars[i]]

Report ==
    /\ NextBar("reports")
    /\ \E trades \in {TradesOf(tape')} :
         out' = <<[reports |-> ReportsOn(trades), judged |-> JudgementsOn(trades)]>>
    /\ UNCHANGED mem

-----------------------------------------------------------------------------
\* The definitions of the trading books, against which the loops and running
\* maxima are checked.

\* What the trades from the i-th to the j-th one lost.
LossOver(rs, i, j) == -FoldSet(LAMBDA n, sum : sum + rs[n], 0, i..j)
LargestFall(rs, first) ==
    Max({0} \cup {LossOver(rs, p[1], p[2]) : p \in (first..Len(rs)) \X (first..Len(rs))})
FromZero == {"ote", "news", "breaker", "asia", "tuned", "coin", "replay", "micro"}
OnlyClosed == {"coin", "replay", "micro", "summary"}

\* A report counts every trade once: as a win or not, and in one hour, one pool and
\* one day; its fall is the largest loss over a run of trades; and the reports that
\* miss a fall that starts with the first trade agree with the others when that trade
\* gains.
ReportsAreTrue == (study = "reports" /\ out # <<>>) =>
    \A name \in DOMAIN out[1].reports :
      LET report == out[1].reports[name]
          all == TradesOf(tape)
          trades == IF name = "summary" THEN SelectSeq(all, LAMBDA t : t.outcome \notin {"OPEN", "TIME"})
                    ELSE IF name \in OnlyClosed THEN SelectSeq(all, LAMBDA t : t.outcome # "OPEN")
                    ELSE all
          rs == Results(trades)
          Over(f, Value(_)) == FoldSet(LAMBDA x, sum : sum + Value(f[x]), 0, DOMAIN f)
          runs == {r \in SUBSET DOMAIN rs : \A i, j \in r : (i..j) \subseteq {n \in r : rs[n] <= 0}}
      IN  /\ report.n = Len(trades)
          /\ report.fall = LargestFall(rs, IF name \in FromZero THEN 1 ELSE 2)
          /\ rs # <<>> /\ Head(rs) >= 0 => report.fall = LargestFall(rs, 1)
          /\ (\A i \in DOMAIN trades : trades[i].outcome # "TIME") => report.won + report.lost = report.sum
          /\ "hours" \in DOMAIN report =>
                /\ Over(report.hours, LAMBDA h : h.trades) = report.n
                /\ Over(report.hours, LAMBDA h : h.wins) = report.wins
          /\ "pools" \in DOMAIN report => Over(report.pools, LAMBDA p : p.n) = report.n
          /\ "days" \in DOMAIN report => Over(report.days, LAMBDA r : r) = report.sum
          /\ "losing" \in DOMAIN report => report.losing = Max({Cardinality(r) : r \in runs})

\* What judges a strategy was not seen before: no trade is judged twice, each after
\* all those it is compared with, and only those at the very end are not judged or
\* compared with at all.  And no order of the trades has another result.
JudgedOnce(windows, trades) ==
    /\ \A w \in DOMAIN windows :
         \A s \in Range(windows[w].known), t \in Range(windows[w].judged) : s.t < t.t
    /\ \A v, w \in DOMAIN windows : v # w => Range(windows[v].judged) \cap Range(windows[w].judged) = {}
    /\ \A t \in Range(trades) :
         \/ \E w \in DOMAIN windows : t \in Range(windows[w].known) \cup Range(windows[w].judged)
         \/ \A s \in Range(trades) : s.t <= t.t
HeldOut == (study = "reports" /\ out # <<>>) =>
    LET all == TradesOf(tape)
        closed == Ending(all, {"TP", "SL"})
        judged == out[1].judged
    IN  /\ judged.walk # <<>> => JudgedOnce(judged.walk, closed)
        /\ judged.anchored # <<>> => JudgedOnce(judged.anchored, closed)
        /\ JudgedOnce(judged.forward, all)
        /\ judged.split.known \o judged.split.judged = all
        /\ FlattenSeq(judged.folds) = all
        /\ judged.shuffles.sums = {Total(Results(closed))}

=============================================================================
