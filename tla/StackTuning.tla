----------------------------- MODULE StackTuning -----------------------------
(***************************************************************************)
(* research/confluence.py: the conditions that a signal may be asked to     *)
(* meet at its decision bar k, in the direction of the side (bars have a    *)
(* volume v); and xauusd_strategies/s90_killzone_ote_tuned.py and           *)
(* s90_inverse_fvg_tuned.py: all stacks of up to three confluences are      *)
(* tried on the base signals of a finished tape, and the signals that meet  *)
(* the best one are kept.  The base signals are any of Bases: the detectors *)
(* have studies of their own.  Trades earn hundredths of their risk.        *)
(***************************************************************************)
EXTENDS KillzoneOte, Backtests, TradeReports

CONSTANTS
    Conf,       \* [lookback, fvg, sweep, width]: bars to look back; bars to an hour
    Bases,      \* the sets of base signals that are tried: [side, entry, risk, reward]
    Gate        \* [trades, few, wins, wilson, earned]: percent, and hundredths of the risk

ASSUME ConfLooksBack == \A p \in DOMAIN Conf : Conf[p] \in Nat \ {0}

\* DETECTORS without the dollar index, which no data exists for.
SEARCHABLE == <<"htf_bias", "session_killzone", "liquidity_sweep", "fvg_present", "ob_present", "volume_anomaly">>

\* Bar k and so many before it, as the side sees them.
BarsTo(bars, k, back, side) == FacingAll(SubSeq(bars, Max({1, k - back}), k), side)

\* The hours that opened before bar k, each with all of its bars.
HoursBefore(past, bars, k) == Series(past, bars, Conf.width, (k + Conf.width - 2) \div Conf.width)

HoursAgree(past, bars, k, side) ==
    LET hours == HoursBefore(past, bars, k)
        n == Len(hours)
    IN  n > Conf.lookback /\ side * (hours[n].c - hours[n - Conf.lookback].c) > 0

\* The windows of the two studies.
InWindows(k, windows) ==
    IF windows = "killzone" THEN IsKillzone(k) ELSE InSession(k)

\* A low below every low before it, and a close back above them.
LowIsSwept(w) ==
    \E j \in 2..Len(w) :
        LET low == Min(Lows(SubSeq(w, 1, j - 1))) IN w[j].l < low /\ w[j].c > low

GapPresent(w) == \E i \in 3..Len(w) : w[i - 2].h < w[i].l

BlockPresent(w) == \E i \in 1..(Len(w) - 1) : w[i].c < w[i].o /\ w[i + 1].c > w[i + 1].o

\* More than one and a half times the average volume before it.
VolumeStandsOut(bars, k) ==
    LET before == Max({1, k - Conf.lookback})..(k - 1)
    IN  /\ before # {}
        /\ 2 * Cardinality(before) * bars[k].v > 3 * FoldSet(LAMBDA i, sum : sum + bars[i].v, 0, before)

Detected(name, past, bars, k, side, windows) ==
    CASE name = "htf_bias" -> HoursAgree(past, bars, k, side)
      [] name = "session_killzone" -> InWindows(k, windows)
      [] name = "liquidity_sweep" -> LowIsSwept(BarsTo(bars, k, Conf.sweep, side))
      [] name = "fvg_present" -> GapPresent(BarsTo(bars, k, Conf.fvg, side))
      [] name = "ob_present" -> BlockPresent(BarsTo(bars, k, Conf.lookback, side))
      [] name = "volume_anomaly" -> VolumeStandsOut(bars, k)

-----------------------------------------------------------------------------
Variants == {"ote", "inverse"}
Unsearched == {}

InitTuned ==
    \E variant \in Variants :
        StartStudy("tuned", [variant |-> variant, base |-> <<>>, cache |-> <<>>, results |-> <<>>,
                             best |-> Unsearched, metrics |-> <<>>])

Windows == IF mem.variant = "ote" THEN "killzone" ELSE "session"

\* A mutant of DecisionBar: the bar that is entered.
DecisionBarEntered(signal) == signal.entry

DecisionBar(signal) == signal.entry - 1

\* The confluences of every signal, each evaluated once.
CacheRow(signal) ==
    {name \in Range(SEARCHABLE) :
        Detected(name, mem.past, tape, DecisionBar(signal), signal.side, Windows)}

\* simulate() on one signal, up to the limit of its holding.
Result(signal) ==
    LET trade == ExecEntry(signal, tape[signal.entry], signal.entry)
        last == Min({Len(tape), signal.entry + Max(MaxHold) - 1})
        hits == {j \in signal.entry..last : Touch(signal.side, signal.sl, signal.tp, tape[j]) # "none"}
        worse == signal.side * (HalfSpread + Slip)
        exit == IF hits = {} THEN tape[last].c - worse
                ELSE IF Touch(signal.side, signal.sl, signal.tp, tape[Min(hits)]) = "SL" THEN signal.sl - worse
                ELSE signal.tp - signal.side * HalfSpread
    IN  (100 * signal.side * (exit - trade.fill)) \div (signal.side * (trade.fill - signal.sl))

\* The signals are found, simulated and looked at for their confluences.
BaseSignals(base) ==
    [i \in DOMAIN base |->
        LET b == base[i] open == tape[b.entry].o
        IN  [side |-> b.side, entry |-> b.entry, sl |-> open - b.side * b.risk, tp |-> open + b.side * b.reward]]

Prepare ==
    /\ Finished("tuned") /\ mem.base = <<>>
    /\ \E base \in Bases :
         LET signals == BaseSignals(base)
         IN  mem' = [mem EXCEPT !.base = signals,
                                !.results = [i \in DOMAIN signals |-> Result(signals[i])],
                                !.cache = [i \in DOMAIN signals |-> CacheRow(signals[i])]]
    /\ UNCHANGED <<study, tape, out>>

--------------------------------------------------------------------------
\* The search.

Meeting(stack) == {i \in DOMAIN mem.cache : stack \subseteq mem.cache[i]}

Candidate(stack) ==
    [stack |-> stack, n |-> Cardinality(Meeting(stack)),
     wins |-> Cardinality({i \in Meeting(stack) : mem.results[i] > 0}),
     earned |-> FoldSet(LAMBDA i, sum : sum + mem.results[i], 0, Meeting(stack))]

\* Every stack of up to three; the search of the inverse gaps leaves out those
\* with too few trades, but never the empty one.
Candidates ==
    {c \in {Candidate(s) : s \in UNION {kSubset(k, Range(SEARCHABLE)) : k \in 0..3}} :
        mem.variant = "inverse" => c.stack = {} \/ c.n >= Gate.trades}

\* The order in which they are tried.
Rank(name) == CHOOSE i \in DOMAIN SEARCHABLE : SEARCHABLE[i] = name
Precedes(a, b) ==
    LET differ == {Rank(name) : name \in (a \cup b) \ (a \cap b)}
    IN  \/ Cardinality(a) < Cardinality(b)
        \/ Cardinality(a) = Cardinality(b) /\ differ # {} /\ SEARCHABLE[Min(differ)] \in a

\* The first of the best.
FirstBest(set, Better(_, _)) ==
    CHOOSE c \in set : \A d \in set \ {c} :
        ~Better(d, c) /\ (Better(c, d) \/ Precedes(c.stack, d.stack))

\* Wilson's lower bound of the share of wins is at least so many percent:
\* solved for the share, at 1.96 standard deviations.
WilsonAtLeast(c, percent) ==
    LET ahead == 100 * c.wins - percent * c.n
    IN  ahead >= 0 /\ 100 * ahead * ahead >= 384 * c.n * percent * (100 - percent)

Earns(c) == c.n > 0 /\ c.earned >= Gate.earned * c.n
MeetsGate(c) ==
    /\ c.n >= Gate.trades
    /\ 100 * c.wins >= Gate.wins * c.n
    /\ WilsonAtLeast(c, Gate.wilson)
    /\ Earns(c)

MoreTrades(a, b) == a.n > b.n
WinsMore(a, b) == a.wins * b.n > b.wins * a.n
EarnsMore(a, b) == a.earned * b.n > b.earned * a.n

\* Without a stack that meets the gate the share of wins decides, and without
\* enough trades for that what is earned, or the share of wins again.
SelectBest(candidates) ==
    LET meeting == {c \in candidates : MeetsGate(c)}
        earning == {c \in candidates : c.n >= Gate.trades /\ Earns(c)}
        few == {c \in candidates : c.n >= Gate.few}
    IN  IF meeting # {} THEN FirstBest(meeting, MoreTrades)
        ELSE IF earning # {} THEN FirstBest(earning, WinsMore)
        ELSE IF few = {} THEN CHOOSE c \in candidates : c.stack = {}
        ELSE IF mem.variant = "ote" THEN FirstBest(few, EarnsMore)
        ELSE FirstBest(few, WinsMore)

--------------------------------------------------------------------------
\* The report on the trades that are kept.

\* The peak that a fall is measured from starts at 0 in the one study and at the
\* first trade in the other.
Drawdown(rs) == IF mem.variant = "ote" THEN FallFromZero(rs) ELSE FallFromFirst(rs)

\* For every number of trades, the stack with as many that wins most often.
Frontier(candidates) ==
    [count \in 1..Len(mem.base) |->
        LET often == {c \in candidates : c.n >= count /\ c.n >= Gate.few}
        IN  IF often = {} THEN {} ELSE {FirstBest(often, WinsMore)}]

Pick(seq, indices) == LET at == SetToSortSeq(indices, <) IN [i \in DOMAIN at |-> seq[at[i]]]

Search ==
    /\ Finished("tuned") /\ mem.base # <<>> /\ mem.best = Unsearched
    /\ LET best == SelectBest(Candidates)
           rs == Pick(mem.results, Meeting(best.stack))
       IN  /\ mem' = [mem EXCEPT !.best = {best},
                                 !.metrics = [losing |-> LosingRun(rs), drawdown |-> Drawdown(rs),
                                              frontier |-> Frontier(Candidates)]]
           /\ out' = Pick(mem.base, Meeting(best.stack))
    /\ UNCHANGED <<study, tape>>

Tuned ==
    \/ NextBar("tuned") /\ UNCHANGED <<mem, out>>
    \/ Prepare
    \/ Search

-----------------------------------------------------------------------------
\* What a signal was kept for was known when its decision bar closed: on the
\* tape that ends there every confluence is the same.  The hour that is still
\* forming is the exception: htf_bias sees it whole.
TunedIsCausal == study = "tuned" =>
    \A i \in DOMAIN mem.cache, name \in Range(SEARCHABLE) \ {"htf_bias"} :
        LET s == mem.base[i]
            known == SubSeq(tape, 1, s.entry - 1)
        IN  name \in mem.cache[i] <=> Detected(name, mem.past, known, s.entry - 1, s.side, Windows)

\* The contract of _select_best(): a stack that meets the gate with the most
\* trades, or else one of those with enough trades that earn enough, with the
\* largest share of wins; the signals are those that meet it, and the largest fall
\* and the longest run of losses are those of their trades.  And to ask for more
\* trades never raises the share of wins of the frontier.
TunedIsBest ==
    (study = "tuned" /\ mem.best # Unsearched) =>
        LET best == CHOOSE b \in mem.best : TRUE
            passing == {c \in Candidates : MeetsGate(c)}
            rs == Pick(mem.results, Meeting(best.stack))
            lost == {i \in DOMAIN rs : rs[i] <= 0}
            runs == {r \in SUBSET lost : \A i, j \in r : i..j \subseteq r}
        IN  /\ passing # {} => best \in passing /\ \A c \in passing : c.n <= best.n
            /\ passing = {} => \A c \in Candidates :
                  c.n >= Gate.trades /\ Earns(c) =>
                     /\ best.n >= Gate.trades /\ Earns(best)
                     /\ c.wins * best.n <= best.wins * c.n
            /\ Range(out) = {mem.base[i] : i \in {j \in DOMAIN mem.base : best.stack \subseteq mem.cache[j]}}
            /\ mem.metrics.drawdown = LargestFall(rs, IF mem.variant = "ote" THEN 1 ELSE 2)
            /\ mem.metrics.losing = Max({Cardinality(r) : r \in runs})
            /\ \A few, many \in 1..Len(mem.base) :
                 \A a \in mem.metrics.frontier[few], b \in mem.metrics.frontier[many] :
                    few < many => b.n >= many /\ ~WinsMore(b, a)

=============================================================================
