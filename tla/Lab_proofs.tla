------------------------------ MODULE Lab_proofs ------------------------------
(***************************************************************************)
(* Proofs about the lab.  Of the engines, for any bars, setups, limits and *)
(* costs: trades end on the first bar that ends them and in time, and      *)
(* pending orders are filled honestly.  Of the gate on yields, for any     *)
(* yields, files and answers of the provider.  Of the operators that the   *)
(* studies share: sums, lists, bars and recurrences.  And of the book of   *)
(* the desk: its legs fire in turn.                                        *)
(***************************************************************************)
EXTENDS Lab, FiniteSetTheorems, SequenceTheorems, TLAPS

\* The studies of this module, and what begins and goes on in the others.
Proved == EngineStudies \cup {"macro"}
OtherInits == InitDetectors \/ InitBook \/ InitReplays \/ InitTuned \/ InitEvents
              \/ InitCoin \/ InitReports \/ InitData \/ InitBreakout
OtherSteps == NextDetectors \/ Book \/ NextReplay \/ Tuned \/ NextEvents
              \/ Generate \/ Report \/ Load \/ Breakout

\* No other study begins as one of these.
LEMMA OthersBegin == OtherInits => study \notin Proved
BY DEF OtherInits, Proved, EngineStudies, InitDetectors, InitInverse, InitSweep, InitOte, InitBreaker,
   InitNews, InitAsia, InitSigma, InitBook, InitReplays, ReplayStudies, InitTuned, InitEvents,
   InitCoin, InitReports, InitData, InitBreakout, StartStudy

\* A step of another study is none of these and leaves the study what it is.
LEMMA OthersGoOn == OtherSteps => study \notin Proved /\ study' = study
<1> DEFINE Goal == study \notin Proved /\ study' = study
<1>1. ASSUME NEW s, s \notin Proved, NextBar(s) PROVE Goal
  BY <1>1 DEF NextBar
<1>2. ASSUME NEW s, s \notin Proved, Finished(s), UNCHANGED study PROVE Goal
  BY <1>2 DEF Finished
<1>3. CASE InverseStep
  BY <1>1, <1>3 DEF InverseStep, Proved, EngineStudies
<1>4. CASE Sweep
  BY <1>1, <1>4 DEF Sweep, Proved, EngineStudies
<1>5. CASE Ote \/ BreakerStep \/ News \/ Asia
  BY <1>1, <1>5 DEF Ote, BreakerStep, News, Asia, Proved, EngineStudies
<1>6. CASE Sigma \/ Book
  BY <1>1, <1>6 DEF Sigma, Book, Proved, EngineStudies
<1>7. ASSUME NEW s \in ReplayStudies, ReadTape(s) PROVE Goal
  BY <1>1, <1>7 DEF ReadTape, ReplayStudies, Proved, EngineStudies
<1>8. ASSUME NEW s \in ReplayStudies, Finished(s), NEW found, NEW k, Log(found, k) PROVE Goal
  BY <1>2, <1>8 DEF Log, ReplayStudies, Proved, EngineStudies
<1>9. CASE Var1
  BY <1>7, <1>8, <1>9 DEF Var1, ReplayStudies
<1>10. CASE Var2
  BY <1>7, <1>8, <1>10 DEF Var2, ReplayStudies
<1>11. CASE MicroStep
  BY <1>7, <1>8, <1>11 DEF MicroStep, ReplayStudies
<1>12. CASE IctStep
  BY <1>7, <1>8, <1>12 DEF IctStep, ReplayStudies
<1>13. CASE Tuned
  BY <1>1, <1>2, <1>13 DEF Tuned, Prepare, Search, Proved, EngineStudies
<1>14. CASE NextEvents
  BY <1>14 DEF NextEvents, BuildMonth, AskEvents, Proved, EngineStudies
<1>15. CASE Generate \/ Report
  BY <1>1, <1>15 DEF Generate, Report, Proved, EngineStudies
<1>16. CASE Load
  BY <1>1, <1>2, <1>16 DEF Load, Proved, EngineStudies
<1>17. CASE Breakout
  BY <1>1, <1>17 DEF Breakout, Proved, EngineStudies
<1>18. QED
  BY <1>3, <1>4, <1>5, <1>6, <1>9, <1>10, <1>11, <1>12, <1>13, <1>14, <1>15, <1>16, <1>17
     DEF OtherSteps, NextDetectors, NextReplay

-----------------------------------------------------------------------------
(***************************************************************************)
(* The engines.                                                            *)
(***************************************************************************)
OhlcBar == {b \in [o : Int, h : Int, l : Int, c : Int] :
              b.l <= b.o /\ b.o <= b.h /\ b.l <= b.c /\ b.c <= b.h}
Order == [side : Sides, entry : Int, sl : Int, tp : Int, cancel : Int,
          type : {"market", "limit"}, detected : Nat]
TradeRecord == [side : Sides, from : Nat, sl : Int, tp : Int, fill : Int, order : Order \cup {NoTrade},
                exit : Nat, reason : {"open", "SL", "TP", "TIMEOUT", "EOD", "TIME"}, pnl : Int]
Memory == [pending : Order \cup {NoTrade}, trade : TradeRecord \cup {NoTrade}, limit : Nat, busy : Nat]

EngineTypes ==
    /\ study \in EngineStudies
    /\ tape \in Seq(OhlcBar) /\ Len(tape) <= Length[study]
    /\ mem \in Memory
    /\ out \in Seq(TradeRecord)

\* No bar that an engine has looked at has ended the trade that is running; one
\* that is over was ended by the bar of its exit, and not before.
First(t, s) == IF s = "engine" THEN t.from + 1 ELSE t.from
Verdict(t, bar) == Touch(t.side, t.sl, t.tp, bar)
Clean(t, bars, a, b) == \A j \in a..b : Verdict(t, bars[j]) = "none"
Running(t, s, bars) == t.from \in 1..Len(bars) /\ Clean(t, bars, First(t, s), Len(bars))
Over(t, s, bars) ==
    /\ t.from \in 1..Len(bars) /\ t.exit \in First(t, s)..Len(bars)
    /\ Clean(t, bars, First(t, s), t.exit - 1)
    /\ t.reason = "SL" <=> Verdict(t, bars[t.exit]) = "SL"
    /\ t.reason = "TP" <=> Verdict(t, bars[t.exit]) = "TP"
Scanned ==
    /\ mem.trade # NoTrade => Running(mem.trade, study, tape)
    /\ \A i \in DOMAIN out : Over(out[i], study, tape)

\* The running trade has time left, and began after the others and their rest.
Rest(s) == IF s = "btc" THEN Cooldown ELSE 0
Within(t, s, limit, n) ==
    /\ s = "exec" => n < Length["exec"] /\ (limit # 0 => n + 1 < t.from + limit)
    /\ s = "btc" => n < Length["btc"] /\ n < t.from + limit
InTime(t, s, limit) ==
    /\ limit # 0 /\ s # "engine" => t.exit - t.from < IF s = "btc" THEN limit + 1 ELSE limit
    /\ t.reason = "TIMEOUT" => s = "exec" /\ t.exit - t.from + 1 = limit
    /\ t.reason = "EOD" => t.exit = Length["exec"]
Timed ==
    /\ \A i, j \in DOMAIN out : i < j => out[j].from > out[i].exit + Rest(study)
    /\ \A i \in DOMAIN out : InTime(out[i], study, mem.limit)
    /\ mem.trade # NoTrade =>
          /\ Within(mem.trade, study, mem.limit, Len(tape))
          /\ \A i \in DOMAIN out : mem.trade.from > out[i].exit + Rest(study)
    /\ study = "btc" => \A i \in DOMAIN out : out[i].exit + Cooldown <= mem.busy
    /\ study = "exec" /\ mem.trade # NoTrade => out = <<>>

\* An order waits only while no trade runs, and each bar since it was found has
\* left it alive and unfilled.
Waiting(o, bars) ==
    /\ o.detected <= Len(bars) /\ Len(bars) <= o.detected + ValidBars
    /\ \A j \in (o.detected + 1)..Len(bars) : o.side * bars[j].c >= o.side * o.cancel /\ ~Fills(o, bars[j])
Honest(t, bars) ==
    /\ t.order \in Order /\ t.from <= Len(bars)
    /\ t.from \in (t.order.detected + 1)..(t.order.detected + ValidBars)
    /\ \A j \in (t.order.detected + 1)..t.from : t.side * bars[j].c >= t.side * t.order.cancel
    /\ \A j \in (t.order.detected + 1)..(t.from - 1) : ~Fills(t.order, bars[j])
    /\ t.fill - t.side * Spread \in bars[t.from].l..bars[t.from].h
    /\ t.side * (t.tp - t.fill) = t.side * (t.order.tp - t.order.entry)
Waits ==
    study = "engine" =>
        /\ mem.trade # NoTrade => mem.pending = NoTrade /\ Honest(mem.trade, tape)
        /\ mem.pending # NoTrade => Waiting(mem.pending, tape)
        /\ \A i \in DOMAIN out : Honest(out[i], tape)

EngineInv == EngineTypes /\ Scanned /\ Timed /\ Waits
-----------------------------------------------------------------------------
\* What the tape does in a step.
Grows(bars, more) ==
    /\ more \in Seq(OhlcBar) /\ Len(more) = Len(bars) + 1
    /\ \A j \in 1..Len(bars) : more[j] = bars[j]
    /\ more[Len(more)] \in OhlcBar

\* A step of an engine appends one bar to the tape.
LEMMA TapeGrows ==
    ASSUME NEW s \in EngineStudies, NextBar(s), tape \in Seq(OhlcBar)
    PROVE  Grows(tape, tape') /\ study = s /\ study' = s /\ Len(tape') <= Length[s]
<1>1. PICK bar \in Shapes[s] : tape' = Append(tape, bar)
  BY DEF NextBar
<1>2. bar \in OhlcBar
  BY <1>1, InputsAreFull DEF OhlcBar
<1>3. Length[s] \in Nat
  BY InputsAreFull, TapesAreFinite
<1>4. Len(tape') = Len(tape) + 1 /\ \A j \in 1..Len(tape) : tape'[j] = tape[j]
  BY <1>1, <1>2
<1>5. tape' \in Seq(OhlcBar) /\ tape'[Len(tape')] = bar
  BY <1>1, <1>2
<1>6. Len(tape) < Length[s] /\ study = s /\ study' = s
  BY DEF NextBar
<1>7. QED
  BY <1>2, <1>3, <1>4, <1>5, <1>6 DEF Grows

\* What is true of the bars so far stays true when another follows.
LEMMA OverStays ==
    ASSUME NEW bars \in Seq(OhlcBar), NEW more, Grows(bars, more), NEW s,
           NEW t \in TradeRecord, Over(t, s, bars)
    PROVE  Over(t, s, more)
<1>1. t.from \in Nat /\ t.exit \in Nat /\ Len(bars) \in Nat /\ First(t, s) \in Nat /\ First(t, s) >= 1
  BY DEF TradeRecord, First, Over
<1>2. \A j \in First(t, s)..t.exit : more[j] = bars[j]
  BY <1>1 DEF Grows, Over
<1>3. t.from \in 1..Len(more) /\ t.exit \in First(t, s)..Len(more)
  BY <1>1 DEF Grows, Over
<1>4. Clean(t, more, First(t, s), t.exit - 1)
  BY <1>1, <1>2 DEF Clean, Over
<1>5. more[t.exit] = bars[t.exit]
  BY <1>1, <1>2 DEF Over
<1>6. QED
  BY <1>3, <1>4, <1>5 DEF Over

\* A fill that was honest stays so when another bar follows.
LEMMA HonestStays ==
    ASSUME NEW bars \in Seq(OhlcBar), NEW more, Grows(bars, more),
           NEW t \in TradeRecord, Honest(t, bars)
    PROVE  Honest(t, more)
<1>1. /\ t.from \in Nat /\ Len(bars) \in Nat /\ t.order.detected \in Nat
      /\ t.from <= Len(bars) /\ t.order.detected + 1 <= t.from
  BY DEF TradeRecord, Honest, Order
<1>2. \A j \in (t.order.detected + 1)..t.from : more[j] = bars[j]
  BY <1>1 DEF Grows
<1>3. more[t.from] = bars[t.from] /\ t.from <= Len(more)
  BY <1>1, <1>2 DEF Grows
<1>4. \A j \in (t.order.detected + 1)..t.from : t.side * more[j].c >= t.side * t.order.cancel
  BY <1>2 DEF Honest
<1>5. \A j \in (t.order.detected + 1)..(t.from - 1) : ~Fills(t.order, more[j])
  BY <1>1, <1>2 DEF Honest
<1>6. QED
  BY <1>3, <1>4, <1>5 DEF Honest

\* What a step adds to the results.
LEMMA Joined ==
    ASSUME NEW S, NEW q \in Seq(S), NEW e, e = <<>> \/ \E x \in S : e = <<x>>
    PROVE  /\ q \o e \in Seq(S) /\ DOMAIN q = 1..Len(q) /\ Len(q) \in Nat
           /\ \A i \in DOMAIN (q \o e) :
                 \/ i \in DOMAIN q /\ (q \o e)[i] = q[i]
                 \/ e # <<>> /\ i = Len(q) + 1 /\ (q \o e)[i] = e[1]
<1>1. CASE e = <<>>
  BY <1>1
<1>2. ASSUME NEW x \in S, e = <<x>> PROVE /\ q \o e \in Seq(S)
                                         /\ \A i \in DOMAIN (q \o e) :
                                               \/ i \in DOMAIN q /\ (q \o e)[i] = q[i]
                                               \/ e # <<>> /\ i = Len(q) + 1 /\ (q \o e)[i] = e[1]
  BY <1>2
<1>3. QED
  BY <1>1, <1>2

\* A trade as it is opened.
LEMMA OpenedIs ==
    ASSUME NEW a, a.side \in Sides, a.sl \in Int, NEW k \in Nat, NEW fill \in Int, NEW tp \in Int,
           NEW order \in Order \cup {NoTrade}
    PROVE  LET t == Opened(a, k, fill, tp, order)
           IN  /\ t \in TradeRecord
               /\ t.side = a.side /\ t.from = k /\ t.sl = a.sl /\ t.tp = tp /\ t.fill = fill
               /\ t.order = order
BY DEF Opened, TradeRecord

\* A trade that ends keeps what it was opened with.
Finishes(x, t, k) ==
    /\ x \in TradeRecord
    /\ x.side = t.side /\ x.from = t.from /\ x.sl = t.sl /\ x.tp = t.tp /\ x.fill = t.fill
    /\ x.order = t.order /\ x.exit = k

\* What Ended makes of a trade is that trade, ended on the bar for the reason.
LEMMA EndedIs ==
    ASSUME NEW t \in TradeRecord, NEW k \in Nat, NEW exit \in Int, NEW costs \in Int,
           NEW reason \in {"SL", "TP", "TIMEOUT", "EOD", "TIME"}
    PROVE  LET x == Ended(t, k, reason, exit, costs)
           IN  Finishes(x, t, k) /\ x.reason = reason
<1> DEFINE pnl == t.side * (exit - t.fill) - costs
<1>1. pnl \in Int
  <2>1. t.side \in Int /\ t.fill \in Int
    BY DEF TradeRecord, Sides
  <2>2. \A a, b \in Int : a * b \in Int
    OBVIOUS
  <2>3. t.side * (exit - t.fill) \in Int
    BY <2>1, <2>2
  <2>4. QED
    BY <2>3
<1>2. Ended(t, k, reason, exit, costs) = [t EXCEPT !.exit = k, !.reason = reason, !.pnl = pnl]
  BY DEF Ended
<1> HIDE DEF pnl
<1>3. [t EXCEPT !.exit = k, !.reason = reason, !.pnl = pnl] \in TradeRecord
  BY <1>1 DEF TradeRecord
<1>4. QED
  BY <1>1, <1>2, <1>3 DEF Finishes, TradeRecord

\* What a bar does to a trade, in the terms of the tape.
LEMMA VerdictIs ==
    ASSUME NEW t \in TradeRecord, NEW bar \in OhlcBar
    PROVE  /\ Verdict(t, bar) \in {"SL", "TP", "none"}
           /\ Verdict(t, bar) = "SL" <=> IF t.side = 1 THEN bar.l <= t.sl ELSE bar.h >= t.sl
           /\ Verdict(t, bar) = "none" =>
                 /\ ~(IF t.side = 1 THEN bar.l <= t.sl ELSE bar.h >= t.sl)
                 /\ ~(IF t.side = 1 THEN bar.h >= t.tp ELSE bar.l <= t.tp)
           /\ Verdict(t, bar) = "TP" <=>
                 /\ ~(IF t.side = 1 THEN bar.l <= t.sl ELSE bar.h >= t.sl)
                 /\ IF t.side = 1 THEN bar.h >= t.tp ELSE bar.l <= t.tp
<1>1. /\ t.sl \in Int /\ t.tp \in Int /\ t.side \in {1, -1}
      /\ bar.l \in Int /\ bar.h \in Int
  BY DEF TradeRecord, OhlcBar, Sides
<1>2. CASE t.side = 1
  <2>1. Facing(bar, t.side) = bar /\ t.side * t.sl = t.sl /\ t.side * t.tp = t.tp
    BY <1>1, <1>2 DEF Facing
  <2>2. QED
    BY <1>1, <1>2, <2>1 DEF Verdict, Touch
<1>3. CASE t.side = -1
  <2>1. /\ Facing(bar, t.side).h = -bar.l /\ Facing(bar, t.side).l = -bar.h
        /\ t.side * t.sl = -t.sl /\ t.side * t.tp = -t.tp /\ t.side # 1
    BY <1>1, <1>3 DEF Facing
  <2>2. QED
    BY <1>1, <2>1 DEF Verdict, Touch
<1>4. QED
  BY <1>1, <1>2, <1>3

\* A trade that ends on this bar, and one that does not.
LEMMA OverNow ==
    ASSUME NEW bars \in Seq(OhlcBar), NEW more, Grows(bars, more), NEW s,
           NEW t \in TradeRecord, NEW x, Finishes(x, t, Len(more)),
           t.from \in 1..Len(more), First(t, s) <= Len(more),
           Clean(t, bars, First(t, s), Len(bars)),
           x.reason = "SL" <=> Verdict(t, more[Len(more)]) = "SL",
           x.reason = "TP" <=> Verdict(t, more[Len(more)]) = "TP"
    PROVE  Over(x, s, more)
<1>1. First(x, s) = First(t, s) /\ First(t, s) \in Nat /\ First(t, s) >= 1 /\ Len(bars) \in Nat
  BY DEF First, Finishes, TradeRecord
<1>2. \A bar : Verdict(x, bar) = Verdict(t, bar)
  BY DEF Verdict, Finishes
<1>3. \A j \in First(t, s)..Len(bars) : more[j] = bars[j]
  BY <1>1 DEF Grows
<1>4. Clean(x, more, First(x, s), x.exit - 1)
  BY <1>1, <1>2, <1>3 DEF Clean, Finishes, Grows
<1>5. QED
  BY <1>1, <1>2, <1>4 DEF Over, Finishes, Grows

\* A trade that the new bar does not end has met no bar that ends it.
LEMMA RunningStill ==
    ASSUME NEW bars \in Seq(OhlcBar), NEW more, Grows(bars, more), NEW s,
           NEW t \in TradeRecord, t.from \in 1..Len(more),
           Clean(t, bars, First(t, s), Len(bars)),
           First(t, s) <= Len(more) => Verdict(t, more[Len(more)]) = "none"
    PROVE  Running(t, s, more)
<1>1. First(t, s) \in Nat /\ First(t, s) >= 1 /\ Len(bars) \in Nat /\ Len(more) = Len(bars) + 1
  BY DEF First, TradeRecord, Grows
<1>2. ASSUME NEW j \in First(t, s)..Len(more) PROVE Verdict(t, more[j]) = "none"
  <2>1. CASE j = Len(more)
    BY <1>1, <2>1
  <2>2. CASE j # Len(more)
    BY <1>1, <2>2 DEF Grows, Clean
  <2>3. QED
    BY <2>1, <2>2
<1>3. QED
  BY <1>2 DEF Running, Clean

\* The greatest of finitely many numbers.
LEMMA MaxIsOne ==
    ASSUME NEW S, IsFiniteSet(S), S # {}, S \subseteq Int
    PROVE  Max(S) \in S /\ \A y \in S : Max(S) >= y
<1> DEFINE above(x) == {y \in S : y > x}
           T == {above(x) : x \in S}
<1>1. T \subseteq SUBSET S /\ T # {} /\ \A z \in S : above(z) \in T
  OBVIOUS
<1>2. PICK s \in T : \A u \in T : ~(<<u, s>> \in StrictSubsetOrdering(S))
  <2>1. IsWellFoundedOn(StrictSubsetOrdering(S), SUBSET S)
    BY FS_FiniteSubsetsOfFinite, FS_StrictSubsetOrderingWellFounded
  <2> HIDE DEF T
  <2>2. QED
    BY <1>1, <2>1, WFMin
<1>3. PICK x \in S : s = above(x)
  <2>1. s \in T
    BY <1>2
  <2>2. QED
    BY <2>1
<1>4. ASSUME NEW y \in S, y > x PROVE FALSE
  <2>1. above(y) \subseteq above(x) /\ y \in above(x) /\ y \notin above(y)
    <3>1. y \in Int /\ x \in Int /\ S \subseteq Int
      OBVIOUS
    <3>2. y > x /\ ~(y > y) /\ \A z \in S : z > y => z > x
      BY <1>4, <3>1
    <3>3. QED
      BY <3>2
  <2>2. above(y) \in T
    BY <1>1
  <2>3. above(y) \in SUBSET S /\ s \in SUBSET S
    BY <1>1, <2>2
  <2> HIDE DEF above, T
  <2>4. <<above(y), s>> \in StrictSubsetOrdering(S)
    BY <1>3, <2>1, <2>3 DEF StrictSubsetOrdering
  <2>5. QED
    BY <1>2, <2>2, <2>4
<1>5. \E m \in S : \A y \in S : m >= y
  <2>1. \A y \in S : x >= y
    BY <1>4
  <2>2. QED
    BY <2>1
<1>6. QED
  BY <1>5 DEF Max

\* The results after a step.
LEMMA ResultsStay ==
    ASSUME EngineTypes, Scanned, Grows(tape, tape'), study' = study,
           NEW e, out' = out \o e,
           e = <<>> \/ \E x \in TradeRecord : e = <<x>> /\ Over(x, study, tape')
    PROVE  out' \in Seq(TradeRecord) /\ \A i \in DOMAIN out' : Over(out'[i], study', tape')
<1>1. out \in Seq(TradeRecord) /\ tape \in Seq(OhlcBar)
  BY DEF EngineTypes
<1>2. /\ out' \in Seq(TradeRecord)
      /\ \A i \in DOMAIN out' :
            \/ i \in DOMAIN out /\ out'[i] = out[i]
            \/ e # <<>> /\ i = Len(out) + 1 /\ out'[i] = e[1]
  BY <1>1, Joined
<1>3. \A i \in DOMAIN out : out[i] \in TradeRecord /\ Over(out[i], study, tape')
  BY <1>1, OverStays DEF Scanned
<1>4. e # <<>> => Over(e[1], study, tape')
  OBVIOUS
<1>5. QED
  BY <1>2, <1>3, <1>4

\* The results stay in the order of time when one that is in its time follows.
LEMMA OrderStays ==
    ASSUME EngineTypes, Timed, study' = study, mem'.limit = mem.limit,
           NEW e, out' = out \o e,
           e = <<>> \/ \E x \in TradeRecord : /\ e = <<x>> /\ InTime(x, study, mem.limit)
                                              /\ \A i \in DOMAIN out : x.from > out[i].exit + Rest(study)
    PROVE  /\ \A i, j \in DOMAIN out' : i < j => out'[j].from > out'[i].exit + Rest(study')
           /\ \A i \in DOMAIN out' : InTime(out'[i], study', mem'.limit)
<1>1. out \in Seq(TradeRecord)
  BY DEF EngineTypes
<1>2. /\ DOMAIN out = 1..Len(out) /\ Len(out) \in Nat
      /\ \A i \in DOMAIN out' :
            \/ i \in DOMAIN out /\ out'[i] = out[i]
            \/ e # <<>> /\ i = Len(out) + 1 /\ out'[i] = e[1]
  BY <1>1, Joined
<1>3. e # <<>> => /\ InTime(e[1], study, mem.limit)
                  /\ \A i \in DOMAIN out : e[1].from > out[i].exit + Rest(study)
  OBVIOUS
<1>4. \A i \in DOMAIN out : InTime(out[i], study, mem.limit)
  BY DEF Timed
<1>5. \A i, j \in DOMAIN out : i < j => out[j].from > out[i].exit + Rest(study)
  BY DEF Timed
<1>6. \A i \in DOMAIN out' : InTime(out'[i], study', mem'.limit)
  BY <1>2, <1>3, <1>4
<1>7. ASSUME NEW i \in DOMAIN out', NEW j \in DOMAIN out', i < j
      PROVE  out'[j].from > out'[i].exit + Rest(study')
  <2>1. i \in DOMAIN out /\ out'[i] = out[i]
    BY <1>2, <1>7
  <2>2. CASE j \in DOMAIN out /\ out'[j] = out[j]
    BY <1>5, <1>7, <2>1, <2>2
  <2>3. CASE e # <<>> /\ j = Len(out) + 1 /\ out'[j] = e[1]
    BY <1>3, <2>1, <2>3
  <2>4. QED
    BY <1>2, <2>2, <2>3
<1>8. QED
  BY <1>6, <1>7

\* A trade that a bar ends.
Ends(x, t, bar, k) ==
    /\ Finishes(x, t, k)
    /\ x.reason = "SL" <=> Verdict(t, bar) = "SL"
    /\ x.reason = "TP" <=> Verdict(t, bar) = "TP"

\* A product of integers is one.
LEMMA Products == \A a, b \in Int : a * b \in Int
OBVIOUS

\* exec_sim.py: a bar ends a trade for what it reaches, or when the limit or the data
\* are at their end; otherwise it leaves it alone and there is time left.
LEMMA ExecScanIs ==
    ASSUME NEW t \in TradeRecord, NEW bar \in OhlcBar, NEW k \in Nat
    PROVE  LET e == ExecScan(t, bar, k)
               last == mem.limit # 0 /\ k = t.from + mem.limit - 1
           IN  \/ e = <<>> /\ Verdict(t, bar) = "none" /\ ~last /\ k # Length["exec"]
               \/ \E x \in TradeRecord :
                     /\ e = <<x>> /\ Ends(x, t, bar, k)
                     /\ x.reason = "TIMEOUT" => last
                     /\ x.reason = "EOD" => k = Length["exec"]
<1> DEFINE worse == t.side * (HalfSpread + Slip)
           last == mem.limit # 0 /\ k = t.from + mem.limit - 1
           e == ExecScan(t, bar, k)
           goal == \E x \in TradeRecord :
                     /\ e = <<x>> /\ Ends(x, t, bar, k)
                     /\ x.reason = "TIMEOUT" => last
                     /\ x.reason = "EOD" => k = Length["exec"]
<1>1. /\ t.side \in Int /\ t.sl \in Int /\ t.tp \in Int /\ bar.c \in Int
      /\ HalfSpread \in Int /\ HalfSpread + Slip \in Int
  BY CostsAreCosts DEF TradeRecord, Sides, OhlcBar
<1>2. worse \in Int /\ t.side * HalfSpread \in Int
  BY <1>1, Products
<1>3. Verdict(t, bar) = Touch(t.side, t.sl, t.tp, bar)
  BY DEF Verdict
<1>4. Verdict(t, bar) \in {"SL", "TP", "none"}
  BY VerdictIs
<1>5. e = CASE Verdict(t, bar) = "SL" -> <<Ended(t, k, "SL", t.sl - worse, 0)>>
            [] Verdict(t, bar) = "TP" -> <<Ended(t, k, "TP", t.tp - t.side * HalfSpread, 0)>>
            [] Verdict(t, bar) = "none" /\ last -> <<Ended(t, k, "TIMEOUT", bar.c - worse, 0)>>
            [] Verdict(t, bar) = "none" /\ ~last /\ k = Length["exec"] ->
                  <<Ended(t, k, "EOD", bar.c - worse, 0)>>
            [] OTHER -> <<>>
  BY <1>3 DEF ExecScan
<1>6. ASSUME NEW exit \in Int, NEW reason \in {"SL", "TP", "TIMEOUT", "EOD"},
             e = <<Ended(t, k, reason, exit, 0)>>,
             reason = "SL" <=> Verdict(t, bar) = "SL",
             reason = "TP" <=> Verdict(t, bar) = "TP",
             reason = "TIMEOUT" => last,
             reason = "EOD" => k = Length["exec"]
      PROVE  goal
  <2> DEFINE x == Ended(t, k, reason, exit, 0)
  <2>1. Finishes(x, t, k) /\ x.reason = reason
    BY <1>6, EndedIs
  <2>2. x \in TradeRecord
    BY <2>1 DEF Finishes
  <2> HIDE DEF x
  <2>3. Ends(x, t, bar, k)
    BY <1>6, <2>1 DEF Ends
  <2>4. e = <<x>>
    BY <1>6 DEF x
  <2>5. QED
    BY <1>6, <2>1, <2>2, <2>3, <2>4
<1>7. t.sl - worse \in Int /\ t.tp - t.side * HalfSpread \in Int /\ bar.c - worse \in Int
  BY <1>1, <1>2
<1> HIDE DEF e, worse, goal, last
<1>8. CASE Verdict(t, bar) = "SL"
  <2>1. e = <<Ended(t, k, "SL", t.sl - worse, 0)>>
    BY <1>5, <1>8
  <2>2. goal
    BY <1>6, <1>7, <1>8, <2>1
  <2>3. QED
    BY <2>2 DEF goal, e, last
<1>9. CASE Verdict(t, bar) = "TP"
  <2>1. e = <<Ended(t, k, "TP", t.tp - t.side * HalfSpread, 0)>>
    BY <1>5, <1>9
  <2>2. goal
    BY <1>6, <1>7, <1>9, <2>1
  <2>3. QED
    BY <2>2 DEF goal, e, last
<1>10. CASE Verdict(t, bar) = "none" /\ last
  <2>1. e = <<Ended(t, k, "TIMEOUT", bar.c - worse, 0)>>
    BY <1>5, <1>10
  <2>2. goal
    BY <1>6, <1>7, <1>10, <2>1
  <2>3. QED
    BY <2>2 DEF goal, e, last
<1>11. CASE Verdict(t, bar) = "none" /\ ~last /\ k = Length["exec"]
  <2>1. e = <<Ended(t, k, "EOD", bar.c - worse, 0)>>
    BY <1>5, <1>11
  <2>2. goal
    BY <1>6, <1>7, <1>11, <2>1
  <2>3. QED
    BY <2>2 DEF goal, e, last
<1>12. CASE Verdict(t, bar) = "none" /\ ~last /\ k # Length["exec"]
  <2>1. e = <<>>
    BY <1>5, <1>12
  <2>2. QED
    BY <1>12, <2>1 DEF e, last
<1>13. QED
  BY <1>4, <1>8, <1>9, <1>10, <1>11, <1>12

\* xauusd_strategies/engine.py: a bar ends the position for what it reaches, or not.
LEMMA ManageIs ==
    ASSUME mem.trade \in TradeRecord, mem.trade # NoTrade, NEW bar \in OhlcBar, NEW k \in Nat
    PROVE  LET e == Manage(bar, k)
           IN  \/ e = <<>> /\ Verdict(mem.trade, bar) = "none"
               \/ \E x \in TradeRecord :
                     e = <<x>> /\ Ends(x, mem.trade, bar, k) /\ x.reason \in {"SL", "TP"}
<1> DEFINE t == mem.trade
           exit == (IF Verdict(t, bar) = "SL" THEN t.sl ELSE t.tp) - t.side * Spread
           x == Ended(t, k, Verdict(t, bar), exit, 0)
<1>1. Manage(bar, k) = IF Verdict(t, bar) = "none" THEN <<>> ELSE <<x>>
  BY DEF Manage, FlatEngine, Verdict
<1>2. exit \in Int
  <2>1. t.side \in Int /\ t.sl \in Int /\ t.tp \in Int /\ Spread \in Int
    BY CostsAreCosts DEF TradeRecord, Sides
  <2>2. t.side * Spread \in Int
    BY <2>1, Products
  <2>3. QED
    BY <2>1, <2>2
<1>3. t \in TradeRecord /\ Verdict(t, bar) \in {"SL", "TP", "none"}
  BY VerdictIs
<1> HIDE DEF exit, t
<1>4. Verdict(t, bar) # "none" => Finishes(x, t, k) /\ x.reason = Verdict(t, bar)
  BY <1>2, <1>3, EndedIs
<1> HIDE DEF x
<1>5. Verdict(t, bar) # "none" => x \in TradeRecord /\ Ends(x, t, bar, k) /\ x.reason \in {"SL", "TP"}
  BY <1>3, <1>4 DEF Ends, Finishes
<1>6. QED
  BY <1>1, <1>5 DEF t

\* The time limit of a trade for Bitcoin is the earlier of its two.
LEMMA LimitIs ==
    ASSUME NEW t \in TradeRecord, mem \in Memory, "btc" \in DOMAIN Length
    PROVE  /\ TimeLimit(t) \in Int
           /\ TimeLimit(t) <= Length["btc"] /\ TimeLimit(t) <= t.from + mem.limit
           /\ TimeLimit(t) = Length["btc"] \/ TimeLimit(t) = t.from + mem.limit
<1> DEFINE a == Length["btc"]
           b == t.from + mem.limit
<1>1. a \in Nat /\ b \in Nat
  BY TapesAreFinite DEF Memory, TradeRecord
<1>2. TimeLimit(t) = CHOOSE m \in {a, b} : \A y \in {a, b} : m =< y
  BY DEF TimeLimit, Min
<1> HIDE DEF a, b
<1>3. \E m \in {a, b} : \A y \in {a, b} : m =< y
  BY <1>1
<1>4. TimeLimit(t) \in {a, b} /\ \A y \in {a, b} : TimeLimit(t) =< y
  BY <1>2, <1>3
<1>5. QED
  BY <1>1, <1>4 DEF a, b

\* btc_research/engine.py: a bar ends a trade for what it reaches, or at the time limit.
LEMMA BtcScanIs ==
    ASSUME NEW t \in TradeRecord, NEW bar \in OhlcBar, NEW k \in Nat
    PROVE  LET e == BtcScan(t, bar, k)
           IN  \/ e = <<>> /\ Verdict(t, bar) = "none" /\ k # TimeLimit(t)
               \/ \E x \in TradeRecord :
                     e = <<x>> /\ Ends(x, t, bar, k) /\ x.reason \in {"SL", "TP", "TIME"}
<1> DEFINE v == Verdict(t, bar)
           why == IF v # "none" THEN v ELSE "TIME"
           exit == IF v = "SL" THEN t.sl ELSE IF v = "TP" THEN t.tp ELSE bar.c
           x == Ended(t, k, why, exit, Spread)
<1>1. v \in {"SL", "TP", "none"}
  BY VerdictIs
<1>2. BtcScan(t, bar, k) = IF v = "none" /\ k # TimeLimit(t) THEN <<>> ELSE <<x>>
  BY <1>1 DEF BtcScan, Verdict
<1>3. exit \in Int /\ Spread \in Int
  BY CostsAreCosts DEF TradeRecord, OhlcBar
<1>4. why \in {"SL", "TP", "TIME"} /\ (why = "SL" <=> v = "SL") /\ (why = "TP" <=> v = "TP")
  BY <1>1
<1> HIDE DEF exit, v, why
<1>5. Finishes(x, t, k) /\ x.reason = why
  BY <1>3, <1>4, EndedIs
<1> HIDE DEF x
<1>6. x \in TradeRecord /\ Ends(x, t, bar, k) /\ x.reason \in {"SL", "TP", "TIME"}
  BY <1>4, <1>5 DEF Ends, Finishes, v
<1>7. QED
  BY <1>2, <1>6 DEF v

\* The start.
LEMMA EnginesBegin == InitEngines => EngineInv
<1> SUFFICES ASSUME InitEngines PROVE EngineInv
  OBVIOUS
<1>1. PICK limit \in IF study = "exec" THEN MaxHold ELSE {Max(MaxHold)} :
         mem = [Idle EXCEPT !.limit = limit]
  BY DEF InitEngines
<1>2. limit \in Nat
  <2>1. IsFiniteSet(MaxHold) /\ MaxHold # {} /\ MaxHold \subseteq Int /\ MaxHold \subseteq Nat
    BY CostsAreCosts
  <2>2. Max(MaxHold) \in MaxHold
    BY <2>1, MaxIsOne
  <2>3. QED
    BY <1>1, <2>1, <2>2
<1>3. mem = [pending |-> NoTrade, trade |-> NoTrade, limit |-> limit, busy |-> 0]
  BY <1>1 DEF Idle
<1>4. mem \in Memory
  BY <1>2, <1>3 DEF Memory
<1>5. study \in EngineStudies /\ tape = <<>> /\ out = <<>>
  BY DEF InitEngines
<1>6. Length[study] \in Nat
  BY <1>5, InputsAreFull, TapesAreFinite
<1>7. EngineTypes
  BY <1>4, <1>5, <1>6 DEF EngineTypes
<1>8. mem.trade = NoTrade /\ mem.pending = NoTrade /\ DOMAIN out = {}
  BY <1>3, <1>5
<1>9. Scanned
  BY <1>8 DEF Scanned
<1>10. Timed
  BY <1>8 DEF Timed
<1>11. Waits
  BY <1>8 DEF Waits
<1>12. QED
  BY <1>7, <1>9, <1>10, <1>11 DEF EngineInv

\* A trade that was found running has a bar before this one.
LEMMA RunsOn ==
    ASSUME EngineTypes, Scanned, mem.trade # NoTrade, Grows(tape, tape')
    PROVE  /\ mem.trade \in TradeRecord /\ mem.trade.from \in 1..Len(tape')
           /\ First(mem.trade, study) <= Len(tape')
           /\ Clean(mem.trade, tape, First(mem.trade, study), Len(tape))
           /\ mem.trade.from < Len(tape') /\ Len(tape) \in Nat
<1>1. mem.trade \in TradeRecord /\ tape \in Seq(OhlcBar)
  BY DEF EngineTypes, Memory
<1>2. Len(tape) \in Nat /\ mem.trade.from \in Nat
  BY <1>1 DEF TradeRecord
<1>3. QED
  BY <1>1, <1>2 DEF Scanned, Running, Grows, First

\* The results of the bars so far are of bars before this one.
LEMMA PastIsPast ==
    ASSUME EngineTypes, Scanned, Grows(tape, tape')
    PROVE  \A i \in DOMAIN out : out[i] \in TradeRecord /\ out[i].exit < Len(tape') /\ out[i].exit \in Nat
<1>1. out \in Seq(TradeRecord) /\ Len(tape) \in Nat
  BY DEF EngineTypes
<1>2. \A i \in DOMAIN out : out[i] \in TradeRecord /\ out[i].exit <= Len(tape)
  <2> TAKE i \in DOMAIN out
  <2>1. out[i] \in TradeRecord
    BY <1>1
  <2>2. First(out[i], study) \in Nat
    BY <2>1 DEF First, TradeRecord
  <2>3. QED
    BY <1>1, <2>1, <2>2 DEF Scanned, Over
<1>3. QED
  BY <1>1, <1>2 DEF Grows, TradeRecord

\* exec_sim.py: the trade, running or just filled, meets its bar.
LEMMA SimulateKeeps ==
    ASSUME EngineInv, study = "exec", study' = study, Grows(tape, tape'), Len(tape') <= Length["exec"],
           NEW t \in TradeRecord,
           t.from \in 1..Len(tape'), Clean(t, tape, First(t, study), Len(tape)),
           mem.limit # 0 => Len(tape') < t.from + mem.limit,
           out = <<>>,
           mem' = [mem EXCEPT !.trade = IF ExecScan(t, tape'[Len(tape')], Len(tape')) = <<>>
                                        THEN t ELSE NoTrade],
           out' = out \o ExecScan(t, tape'[Len(tape')], Len(tape'))
    PROVE  EngineInv'
<1> DEFINE k == Len(tape')
           bar == tape'[k]
           e == ExecScan(t, bar, k)
           last == mem.limit # 0 /\ k = t.from + mem.limit - 1
<1>1. tape \in Seq(OhlcBar) /\ Len(tape) \in Nat /\ mem \in Memory /\ study \in EngineStudies
  BY DEF EngineInv, EngineTypes
<1>2. /\ tape' \in Seq(OhlcBar) /\ k \in Nat /\ k = Len(tape) + 1 /\ bar \in OhlcBar
  BY <1>1 DEF Grows
<1>3. mem.limit \in Nat /\ t.from \in Nat /\ Length["exec"] \in Nat
  BY <1>1, InputsAreFull, TapesAreFinite DEF Memory, TradeRecord, EngineStudies
<1>4. \/ e = <<>> /\ Verdict(t, bar) = "none" /\ ~last /\ k # Length["exec"]
      \/ \E x \in TradeRecord :
            /\ e = <<x>> /\ Ends(x, t, bar, k)
            /\ x.reason = "TIMEOUT" => last
            /\ x.reason = "EOD" => k = Length["exec"]
  BY <1>2, ExecScanIs
<1>5. First(t, study) = t.from
  BY DEF First
<1>6. mem' = [mem EXCEPT !.trade = IF e = <<>> THEN t ELSE NoTrade] /\ out' = out \o e
  OBVIOUS
<1>7. Grows(tape, tape') /\ out = <<>>
  OBVIOUS
<1>8. t.from \in 1..k
  OBVIOUS
<1>9. mem.limit # 0 => k < t.from + mem.limit
  OBVIOUS
<1>10. k <= Length["exec"]
  OBVIOUS
<1> HIDE DEF e, k, bar
<1>11. mem' \in Memory /\ mem'.limit = mem.limit /\ mem'.trade = IF e = <<>> THEN t ELSE NoTrade
  BY <1>1, <1>6 DEF Memory
<1>12. e = <<>> \/ \E x \in TradeRecord : /\ e = <<x>> /\ Over(x, study, tape')
                                          /\ InTime(x, study, mem.limit)
  <2>1. ASSUME NEW x \in TradeRecord, Ends(x, t, bar, k), x.reason = "TIMEOUT" => last,
               x.reason = "EOD" => k = Length["exec"]
        PROVE  Over(x, study, tape') /\ InTime(x, study, mem.limit)
    <3>1. Finishes(x, t, k)
      BY <2>1 DEF Ends
    <3>2. Over(x, study, tape')
      BY <1>1, <1>5, <1>7, <1>8, <1>3, <1>2, <2>1, <3>1, OverNow DEF Ends, k, bar
    <3>3. x.exit = k /\ x.from = t.from
      BY <3>1 DEF Finishes
    <3>4. InTime(x, study, mem.limit)
      BY <1>2, <1>3, <1>9, <2>1, <3>3 DEF InTime
    <3>5. QED
      BY <3>2, <3>4
  <2>2. QED
    BY <1>4, <2>1
<1>13. e = <<>> => Running(t, study, tape') /\ Within(t, study, mem.limit, k)
  <2> SUFFICES ASSUME e = <<>> PROVE Running(t, study, tape') /\ Within(t, study, mem.limit, k)
    OBVIOUS
  <2>1. Verdict(t, bar) = "none" /\ ~last /\ k # Length["exec"]
    BY <1>4
  <2>2. Running(t, study, tape')
    BY <1>1, <1>7, <1>8, <2>1, RunningStill DEF k, bar
  <2>3. Within(t, study, mem.limit, k)
    BY SMTT(30), <1>2, <1>3, <1>9, <1>10, <2>1 DEF Within
  <2>4. QED
    BY <2>2, <2>3
<1>14. DOMAIN out = {}
  BY <1>7
<1>15. out' \in Seq(TradeRecord) /\ \A i \in DOMAIN out' : Over(out'[i], study', tape')
  BY <1>6, <1>7, <1>12, ResultsStay DEF EngineInv
<1>16. /\ \A i, j \in DOMAIN out' : i < j => out'[j].from > out'[i].exit + Rest(study')
       /\ \A i \in DOMAIN out' : InTime(out'[i], study', mem'.limit)
  BY <1>6, <1>11, <1>12, <1>14, OrderStays DEF EngineInv
<1>17. EngineTypes'
  BY <1>1, <1>2, <1>10, <1>11, <1>15 DEF EngineTypes, k
<1>18. Scanned'
  BY <1>11, <1>13, <1>15 DEF Scanned
<1>19. Timed'
  <2>1. mem'.trade # NoTrade => out' = <<>> /\ e = <<>> /\ mem'.trade = t /\ DOMAIN out' = {}
    BY <1>6, <1>7, <1>11
  <2>2. mem'.trade # NoTrade => Within(mem'.trade, study', mem'.limit, Len(tape'))
    BY <1>11, <1>13, <2>1 DEF k
  <2>3. study' # "btc"
    OBVIOUS
  <2>4. QED
    BY <1>16, <2>1, <2>2, <2>3 DEF Timed
<1>20. Waits'
  BY DEF Waits
<1>21. QED
  BY <1>17, <1>18, <1>19, <1>20 DEF EngineInv

\* exec_sim.py: a step keeps the invariant, whether a trade runs, begins or is over.
LEMMA ExecKeeps == EngineInv /\ Exec => EngineInv'
<1> SUFFICES ASSUME EngineInv, Exec PROVE EngineInv'
  OBVIOUS
<1> DEFINE k == Len(tape')
           bar == tape'[k]
<1>1. tape \in Seq(OhlcBar) /\ Len(tape) \in Nat /\ mem \in Memory /\ out \in Seq(TradeRecord)
  BY DEF EngineInv, EngineTypes
<1>2. /\ Grows(tape, tape') /\ study = "exec" /\ study' = study
      /\ Len(tape') <= Length["exec"]
  BY <1>1, TapeGrows DEF Exec, EngineStudies
<1>3. /\ tape' \in Seq(OhlcBar) /\ k \in Nat /\ k = Len(tape) + 1 /\ bar \in OhlcBar
  BY <1>1, <1>2 DEF Grows
<1>4. mem.limit \in Nat
  BY <1>1 DEF Memory
<1>5. CASE /\ ~FlatEngine
           /\ mem' = [mem EXCEPT !.trade = IF ExecScan(mem.trade, bar, k) = <<>>
                                           THEN mem.trade ELSE NoTrade]
           /\ out' = out \o ExecScan(mem.trade, bar, k)
  <2>1. mem.trade # NoTrade
    BY <1>5 DEF FlatEngine
  <2>2. /\ mem.trade \in TradeRecord /\ mem.trade.from \in 1..Len(tape')
        /\ Clean(mem.trade, tape, First(mem.trade, study), Len(tape))
    BY <1>2, <2>1, RunsOn DEF EngineInv
  <2>3. out = <<>> /\ Within(mem.trade, study, mem.limit, Len(tape))
    BY <1>2, <2>1 DEF EngineInv, Timed
  <2>4. mem.limit # 0 => Len(tape') < mem.trade.from + mem.limit
    BY <1>2, <1>3, <2>3 DEF Within
  <2>5. QED
    BY <1>2, <1>5, <2>2, <2>3, <2>4, SimulateKeeps
<1>6. CASE FlatEngine /\ UNCHANGED <<mem, out>>
  <2>1. mem' = mem /\ out' = out /\ out' = out \o <<>> /\ mem.trade = NoTrade
    BY <1>1, <1>6 DEF FlatEngine
  <2>2. out' \in Seq(TradeRecord) /\ \A i \in DOMAIN out' : Over(out'[i], study', tape')
    <3>1. \E e : out' = out \o e /\ e = <<>>
      BY <2>1
    <3>2. QED
      BY <1>2, <3>1, ResultsStay DEF EngineInv
  <2>3. EngineTypes'
    BY <1>2, <1>3, <2>1, <2>2 DEF EngineTypes, EngineInv
  <2>4. Scanned'
    BY <2>1, <2>2 DEF Scanned
  <2>5. Timed'
    BY <1>2, <2>1 DEF Timed, EngineInv
  <2>6. Waits'
    BY <1>2 DEF Waits
  <2>7. QED
    BY <2>3, <2>4, <2>5, <2>6 DEF EngineInv
<1>7. ASSUME FlatEngine, out = <<>>, NEW setup \in Setups,
             mem' = [mem EXCEPT !.trade = IF ExecScan(ExecEntry(setup, bar, k), bar, k) = <<>>
                                          THEN ExecEntry(setup, bar, k) ELSE NoTrade],
             out' = out \o ExecScan(ExecEntry(setup, bar, k), bar, k)
      PROVE  EngineInv'
  <2> DEFINE t == ExecEntry(setup, bar, k)
  <2>1. setup.side \in Sides /\ setup.side \in Int /\ setup.sl \in Int /\ setup.tp \in Int
    BY InputsAreFull DEF Sides
  <2>2. bar.o + setup.side * (HalfSpread + Slip) \in Int
    <3>1. bar.o \in Int /\ HalfSpread + Slip \in Int
      BY SMTT(30), <1>3, CostsAreCosts DEF OhlcBar
    <3>2. QED
      BY <2>1, <3>1, Products
  <2>3. t \in TradeRecord /\ t.from = k
    BY <1>3, <2>1, <2>2, OpenedIs DEF ExecEntry
  <2> HIDE DEF t
  <2>4. t.from \in 1..k /\ (mem.limit # 0 => k < t.from + mem.limit)
    BY <1>1, <1>3, <1>4, <2>3
  <2>5. Clean(t, tape, First(t, study), Len(tape))
    BY <1>1, <1>2, <1>3, <2>3 DEF Clean, First
  <2>6. /\ mem' = [mem EXCEPT !.trade = IF ExecScan(t, bar, k) = <<>> THEN t ELSE NoTrade]
        /\ out' = out \o ExecScan(t, bar, k)
    BY <1>7 DEF t
  <2>7. QED
    BY <1>2, <1>7, <2>3, <2>4, <2>5, <2>6, SimulateKeeps
<1>8. QED
  BY <1>5, <1>6, <1>7 DEF Exec

\* btc_research/engine.py: a step keeps the invariant.
LEMMA BtcKeeps == EngineInv /\ Btc => EngineInv'
<1> SUFFICES ASSUME EngineInv, Btc PROVE EngineInv'
  OBVIOUS
<1> DEFINE k == Len(tape')
           bar == tape'[k]
<1>1. tape \in Seq(OhlcBar) /\ Len(tape) \in Nat /\ mem \in Memory /\ out \in Seq(TradeRecord)
  BY DEF EngineInv, EngineTypes
<1>2. /\ Grows(tape, tape') /\ study = "btc" /\ study' = study
      /\ Len(tape') <= Length["btc"]
  BY <1>1, TapeGrows DEF Btc, EngineStudies
<1>3. /\ tape' \in Seq(OhlcBar) /\ k \in Nat /\ k = Len(tape) + 1 /\ bar \in OhlcBar
  BY <1>1, <1>2 DEF Grows
<1>4. /\ mem.limit \in Nat /\ mem.busy \in Nat /\ Cooldown \in Nat /\ Length["btc"] \in Nat
      /\ "btc" \in DOMAIN Length
  BY <1>1, InputsAreFull, TapesAreFinite, CostsAreCosts DEF Memory, EngineStudies
<1>5. PICK trade \in IF ~FlatEngine THEN {mem.trade}
                     ELSE {NoTrade} \cup
                          IF k = 1 \/ Occupied(k) THEN {}
                          ELSE {BtcFill(s, bar, k) : s \in Setups} :
         LET ended == IF trade = NoTrade THEN <<>> ELSE BtcScan(trade, bar, k)
         IN  /\ out' = out \o ended
             /\ mem' = [mem EXCEPT
                    !.trade = IF ended # <<>> THEN NoTrade ELSE trade,
                    !.busy = IF ended # <<>> THEN k + Cooldown ELSE mem.busy]
  BY DEF Btc
<1> DEFINE e == IF trade = NoTrade THEN <<>> ELSE BtcScan(trade, bar, k)
<1>6. /\ out' = out \o e
      /\ mem' = [mem EXCEPT !.trade = IF e # <<>> THEN NoTrade ELSE trade,
                            !.busy = IF e # <<>> THEN k + Cooldown ELSE mem.busy]
  BY <1>5
<1>7. \A i \in DOMAIN out : /\ out[i] \in TradeRecord /\ out[i].exit < k /\ out[i].exit \in Nat
                            /\ out[i].exit + Cooldown <= mem.busy
  BY <1>2, PastIsPast DEF EngineInv, Timed
\* The trade of the step.
<1>8. trade # NoTrade =>
         /\ trade \in TradeRecord /\ trade.from \in 1..k
         /\ Clean(trade, tape, First(trade, study), Len(tape))
         /\ k <= trade.from + mem.limit
         /\ \A i \in DOMAIN out : trade.from > out[i].exit + Cooldown
  <2>1. CASE ~FlatEngine
    <3>1. trade = mem.trade /\ mem.trade # NoTrade
      BY <1>5, <2>1 DEF FlatEngine
    <3>2. /\ trade \in TradeRecord /\ trade.from \in 1..k
          /\ Clean(trade, tape, First(trade, study), Len(tape))
      BY <1>2, <3>1, RunsOn DEF EngineInv
    <3>3. /\ Within(trade, study, mem.limit, Len(tape))
          /\ \A i \in DOMAIN out : trade.from > out[i].exit + Rest(study)
      BY <3>1 DEF EngineInv, Timed
    <3>4. k <= trade.from + mem.limit
      BY <1>1, <1>2, <1>3, <1>4, <3>2, <3>3 DEF Within
    <3>5. QED
      BY <1>2, <3>2, <3>3, <3>4 DEF Rest
  <2>2. CASE FlatEngine /\ trade # NoTrade
    <3>1. ~Occupied(k) /\ \E s \in Setups : trade = BtcFill(s, bar, k)
      BY <1>5, <2>2
    <3>2. PICK s \in Setups : trade = BtcFill(s, bar, k)
      BY <3>1
    <3>3. s.side \in Sides /\ s.sl \in Int /\ s.tp \in Int /\ bar.o \in Int
      BY <1>3, InputsAreFull DEF OhlcBar
    <3>4. trade \in TradeRecord /\ trade.from = k
      BY <1>3, <3>2, <3>3, OpenedIs DEF BtcFill
    <3>5. Clean(trade, tape, First(trade, study), Len(tape))
      BY <1>2, <1>3, <3>4 DEF Clean, First
    <3>6. mem.busy < k
      BY <1>3, <1>4, <3>1 DEF Occupied
    <3>7. \A i \in DOMAIN out : trade.from > out[i].exit + Cooldown
      BY <1>3, <1>4, <1>7, <3>4, <3>6
    <3>8. QED
      BY <1>3, <1>4, <3>4, <3>5, <3>7
  <2>3. QED
    BY <2>1, <2>2
<1> HIDE DEF e, k, bar
<1>9. e # <<>> => trade # NoTrade
  BY DEF e
<1>10. trade # NoTrade =>
         \/ e = <<>> /\ Verdict(trade, bar) = "none" /\ k # TimeLimit(trade)
         \/ \E x \in TradeRecord :
               e = <<x>> /\ Ends(x, trade, bar, k) /\ x.reason \in {"SL", "TP", "TIME"}
  BY <1>3, <1>8, BtcScanIs DEF e
<1>11. e = <<>> \/ \E x \in TradeRecord : /\ e = <<x>> /\ Over(x, study, tape') /\ x.exit = k
                                          /\ InTime(x, study, mem.limit)
                                          /\ \A i \in DOMAIN out : x.from > out[i].exit + Rest(study)
  <2>1. ASSUME trade # NoTrade, NEW x \in TradeRecord, Ends(x, trade, bar, k),
               x.reason \in {"SL", "TP", "TIME"}
        PROVE  /\ Over(x, study, tape') /\ x.exit = k /\ InTime(x, study, mem.limit)
               /\ \A i \in DOMAIN out : x.from > out[i].exit + Rest(study)
    <3>1. Finishes(x, trade, k)
      BY <2>1 DEF Ends
    <3>2. First(trade, study) = trade.from
      BY <1>2 DEF First
    <3>3. Over(x, study, tape')
      BY <1>1, <1>2, <1>3, <1>8, <2>1, <3>1, <3>2, OverNow DEF Ends, k, bar
    <3>4. x.exit = k /\ x.from = trade.from
      BY <3>1 DEF Finishes
    <3>5. InTime(x, study, mem.limit)
      <4>1. trade.from \in Nat /\ k <= trade.from + mem.limit
        BY <1>8, <2>1 DEF TradeRecord
      <4>2. QED
        BY <1>2, <1>3, <1>4, <2>1, <3>4, <4>1 DEF InTime
    <3>6. QED
      BY <1>2, <1>8, <2>1, <3>3, <3>4, <3>5 DEF Rest
  <2>2. QED
    BY <1>9, <1>10, <2>1
<1>12. /\ mem' \in Memory /\ mem'.limit = mem.limit
       /\ mem'.trade = IF e # <<>> THEN NoTrade ELSE trade
       /\ mem'.busy = IF e # <<>> THEN k + Cooldown ELSE mem.busy
  <2>1. trade \in TradeRecord \cup {NoTrade} /\ k + Cooldown \in Nat
    BY <1>3, <1>4, <1>8
  <2>2. QED
    BY <1>1, <1>6, <2>1 DEF Memory
<1>13. e = <<>> /\ trade # NoTrade => Running(trade, study, tape') /\ Within(trade, study, mem.limit, k)
  <2> SUFFICES ASSUME e = <<>>, trade # NoTrade
               PROVE  Running(trade, study, tape') /\ Within(trade, study, mem.limit, k)
    OBVIOUS
  <2>1. Verdict(trade, bar) = "none" /\ k # TimeLimit(trade)
    BY <1>10
  <2>2. Running(trade, study, tape')
    BY <1>1, <1>2, <1>8, <2>1, RunningStill DEF k, bar
  <2>3. k # Length["btc"] /\ k # trade.from + mem.limit
    <3>1. /\ TimeLimit(trade) \in Int /\ TimeLimit(trade) <= Length["btc"]
          /\ TimeLimit(trade) <= trade.from + mem.limit
          /\ TimeLimit(trade) = Length["btc"] \/ TimeLimit(trade) = trade.from + mem.limit
      BY <1>1, <1>4, <1>8, LimitIs
    <3>2. k <= Length["btc"] /\ k <= trade.from + mem.limit /\ trade.from \in Nat
      BY <1>2, <1>8 DEF k, TradeRecord
    <3>3. QED
      BY <1>3, <1>4, <2>1, <3>1, <3>2
  <2>4. Within(trade, study, mem.limit, k)
    <3>1. k <= Length["btc"] /\ k <= trade.from + mem.limit /\ trade.from \in Nat
      BY <1>2, <1>8 DEF k, TradeRecord
    <3>2. QED
      BY <1>2, <1>3, <1>4, <2>3, <3>1 DEF Within
  <2>5. QED
    BY <2>2, <2>4
<1>14. out' \in Seq(TradeRecord) /\ \A i \in DOMAIN out' : Over(out'[i], study', tape')
  BY <1>2, <1>6, <1>11, ResultsStay DEF EngineInv
<1>15. /\ \A i, j \in DOMAIN out' : i < j => out'[j].from > out'[i].exit + Rest(study')
       /\ \A i \in DOMAIN out' : InTime(out'[i], study', mem'.limit)
  BY <1>2, <1>6, <1>11, <1>12, OrderStays DEF EngineInv
<1>16. EngineTypes'
  BY <1>2, <1>3, <1>12, <1>14 DEF EngineTypes, EngineInv
<1>17. Scanned'
  BY <1>2, <1>12, <1>13, <1>14 DEF Scanned
<1>18. \A i \in DOMAIN out' : \/ i \in DOMAIN out /\ out'[i] = out[i]
                              \/ e # <<>> /\ i = Len(out) + 1 /\ out'[i] = e[1]
  <2>1. e = <<>> \/ \E x \in TradeRecord : e = <<x>>
    BY <1>11
  <2>2. QED
    BY <1>1, <1>6, <2>1, Joined
<1>19. \A i \in DOMAIN out' : out'[i].exit + Cooldown <= mem'.busy
  <2> TAKE i \in DOMAIN out'
  <2>1. CASE i \in DOMAIN out /\ out'[i] = out[i]
    BY <1>3, <1>4, <1>7, <1>12, <2>1
  <2>2. CASE e # <<>> /\ out'[i] = e[1]
    <3>1. out'[i].exit = k
      BY <1>11, <2>2
    <3>2. QED
      BY <1>3, <1>4, <1>12, <2>2, <3>1
  <2>3. QED
    BY <1>18, <2>1, <2>2
<1>20. Timed'
  <2>1. mem'.trade # NoTrade => e = <<>> /\ mem'.trade = trade /\ trade # NoTrade
    BY <1>12
  <2>2. mem'.trade # NoTrade => Within(mem'.trade, study', mem'.limit, Len(tape'))
    BY <1>2, <1>12, <1>13, <2>1 DEF k
  <2>3. mem'.trade # NoTrade => \A i \in DOMAIN out' : mem'.trade.from > out'[i].exit + Rest(study')
    BY <1>2, <1>8, <1>18, <2>1 DEF Rest
  <2>4. study' # "exec"
    BY <1>2
  <2>5. QED
    BY <1>15, <1>19, <2>2, <2>3, <2>4 DEF Timed
<1>21. Waits'
  BY <1>2 DEF Waits
<1>22. QED
  BY <1>16, <1>17, <1>20, <1>21 DEF EngineInv

\* xauusd_strategies/engine.py: what a bar leaves of a pending order.
LEMMA WaitsOn ==
    ASSUME tape \in Seq(OhlcBar), Grows(tape, tape'), NEW o \in Order, Waiting(o, tape),
           ~Dead(o, tape'[Len(tape')], Len(tape'))
    PROVE  /\ Len(tape') \in (o.detected + 1)..(o.detected + ValidBars)
           /\ \A j \in (o.detected + 1)..Len(tape') : o.side * tape'[j].c >= o.side * o.cancel
           /\ \A j \in (o.detected + 1)..(Len(tape') - 1) : ~Fills(o, tape'[j])
<1> DEFINE k == Len(tape')
<1>1. o.detected \in Nat /\ o.side \in Int /\ o.cancel \in Int /\ ValidBars \in Nat
  BY CostsAreCosts DEF Order, Sides
<1>2. Len(tape) \in Nat /\ k = Len(tape) + 1 /\ \A j \in 1..Len(tape) : tape'[j] = tape[j]
  BY DEF Grows
<1>3. k - o.detected <= ValidBars /\ ~(o.side * tape'[k].c < o.side * o.cancel)
  BY <1>1, <1>2 DEF Dead
<1>4. o.side * tape'[k].c \in Int /\ o.side * o.cancel \in Int
  <2>1. tape'[k].c \in Int
    BY DEF Grows, OhlcBar
  <2>2. QED
    BY <1>1, <2>1, Products
<1>5. o.detected <= Len(tape)
  BY DEF Waiting
<1>6. \A j \in (o.detected + 1)..Len(tape) :
         o.side * tape'[j].c >= o.side * o.cancel /\ ~Fills(o, tape'[j])
  BY SMTT(30), <1>1, <1>2 DEF Waiting
<1>7. o.side * tape'[k].c >= o.side * o.cancel
  BY <1>3, <1>4
<1> HIDE DEF k
<1>8. ASSUME NEW j \in (o.detected + 1)..k PROVE o.side * tape'[j].c >= o.side * o.cancel
  <2>1. CASE j = k
    BY <1>7, <2>1
  <2>2. CASE j # k
    <3>1. j \in (o.detected + 1)..Len(tape)
      BY <1>1, <1>2, <2>2
    <3>2. QED
      BY <1>6, <3>1
  <2>3. QED
    BY <2>1, <2>2
<1>9. \A j \in (o.detected + 1)..(k - 1) : ~Fills(o, tape'[j])
  BY <1>1, <1>2, <1>6
<1>10. k \in (o.detected + 1)..(o.detected + ValidBars)
  BY <1>1, <1>2, <1>3, <1>5
<1>11. QED
  BY <1>8, <1>9, <1>10 DEF k

\* A filled order is an open trade, at a price of the bar and its spread.
LEMMA FilledIs ==
    ASSUME NEW o \in Order, NEW bar \in OhlcBar, NEW k \in Nat, Fills(o, bar)
    PROVE  LET t == FillOrder(o, bar, k)
           IN  /\ t \in TradeRecord /\ t.from = k /\ t.order = o /\ t.side = o.side
               /\ t.fill - t.side * Spread \in bar.l..bar.h
               /\ t.side * (t.tp - t.fill) = t.side * (o.tp - o.entry)
<1> DEFINE price == IF o.type = "market" THEN bar.o ELSE o.entry
           cost == o.side * Spread
           fill == price + cost
           t == FillOrder(o, bar, k)
<1>1. /\ o.side \in Sides /\ o.side \in Int /\ o.sl \in Int /\ o.tp \in Int /\ o.entry \in Int
      /\ Spread \in Int
      /\ bar.o \in Int /\ bar.l \in Int /\ bar.h \in Int /\ bar.l <= bar.o /\ bar.o <= bar.h
  BY CostsAreCosts DEF Order, Sides, OhlcBar
<1>2. price \in bar.l..bar.h
  BY <1>1 DEF Fills
<1>3. cost \in Int
  BY <1>1, Products
<1>4. t = Opened(o, k, fill, fill + o.tp - o.entry, o)
  BY DEF FillOrder
<1> HIDE DEF price, cost, t
<1>5. fill \in Int /\ fill + o.tp - o.entry \in Int
  BY <1>1, <1>2, <1>3
<1>6. /\ t \in TradeRecord /\ t.side = o.side /\ t.from = k /\ t.order = o
      /\ t.fill = fill /\ t.tp = fill + o.tp - o.entry
  BY <1>1, <1>4, <1>5, OpenedIs
<1>7. t.fill - t.side * Spread = price
  BY <1>1, <1>2, <1>3, <1>6 DEF cost
<1>8. t.tp - t.fill = o.tp - o.entry
  BY <1>1, <1>5, <1>6
<1>9. QED
  BY <1>2, <1>6, <1>7, <1>8 DEF t

\* A step of xauusd_strategies/engine.py keeps the invariant.
LEMMA EngineKeeps == EngineInv /\ Engine => EngineInv'
<1> SUFFICES ASSUME EngineInv, Engine PROVE EngineInv'
  OBVIOUS
<1> DEFINE k == Len(tape')
           bar == tape'[k]
           e == Manage(bar, k)
           flat == FlatEngine \/ e # <<>>
           order == mem.pending
           waiting == flat /\ order # NoTrade
           dead == waiting /\ Dead(order, bar, k)
           filled == waiting /\ ~dead /\ Fills(order, bar)
           kept == IF dead \/ filled THEN NoTrade ELSE order
<1>1. tape \in Seq(OhlcBar) /\ Len(tape) \in Nat /\ mem \in Memory /\ out \in Seq(TradeRecord)
  BY DEF EngineInv, EngineTypes
<1>2. /\ Grows(tape, tape') /\ study = "engine" /\ study' = study
      /\ Len(tape') <= Length["engine"]
  BY <1>1, TapeGrows DEF Engine, EngineStudies
<1>3. /\ tape' \in Seq(OhlcBar) /\ k \in Nat /\ k = Len(tape) + 1 /\ bar \in OhlcBar
  BY <1>1, <1>2 DEF Grows
<1>4. PICK found \in {NoTrade} \cup {Ordered(s, k) : s \in Setups} :
         /\ found # NoTrade => flat /\ ~filled /\ kept = NoTrade
         /\ mem' = [mem EXCEPT
                !.trade = IF filled THEN FillOrder(order, bar, k)
                          ELSE IF flat THEN NoTrade ELSE mem.trade,
                !.pending = IF found # NoTrade THEN found ELSE kept]
  BY DEF Engine
<1>5. out' = out \o e
  BY DEF Engine
<1>6. order \in Order \cup {NoTrade} /\ mem.trade \in TradeRecord \cup {NoTrade}
  BY <1>1 DEF Memory
<1>7. /\ mem.trade # NoTrade => order = NoTrade /\ Honest(mem.trade, tape)
      /\ order # NoTrade => Waiting(order, tape)
      /\ \A i \in DOMAIN out : Honest(out[i], tape)
  BY <1>2 DEF EngineInv, Waits
<1>8. found # NoTrade => found \in Order /\ found.detected = k
  <2> SUFFICES ASSUME found # NoTrade PROVE found \in Order /\ found.detected = k
    OBVIOUS
  <2>1. PICK s \in Setups : found = Ordered(s, k)
    BY <1>4
  <2>2. s \in [side : Sides, entry : Int, sl : Int, tp : Int, cancel : Int, type : {"market", "limit"}]
    BY InputsAreFull
  <2>3. QED
    BY <1>3, <2>1, <2>2 DEF Ordered, Order
\* The position.
<1>9. mem.trade = NoTrade => e = <<>>
  BY DEF Manage, FlatEngine
<1>10. mem.trade # NoTrade =>
          \/ e = <<>> /\ Verdict(mem.trade, bar) = "none"
          \/ \E x \in TradeRecord :
                e = <<x>> /\ Ends(x, mem.trade, bar, k) /\ x.reason \in {"SL", "TP"}
  BY <1>3, <1>6, ManageIs
<1>11. flat <=> (mem.trade = NoTrade \/ e # <<>>)
  BY DEF FlatEngine
<1>12. filled => waiting /\ ~Dead(order, bar, k) /\ Fills(order, bar) /\ order # NoTrade
  OBVIOUS
<1>13. waiting => mem.trade = NoTrade
  BY <1>7
<1>14. kept # NoTrade => kept = order /\ ~filled /\ (flat => ~Dead(order, bar, k) /\ ~Fills(order, bar))
  OBVIOUS
<1>15. filled => kept = NoTrade
  OBVIOUS
<1>16. kept \in Order \cup {NoTrade}
  BY <1>6
<1>17. filled => flat
  OBVIOUS
<1>18. order = NoTrade => kept = NoTrade /\ ~filled
  OBVIOUS
<1> HIDE DEF k, bar, e, flat, order, waiting, dead, filled, kept
<1>19. filled => /\ FillOrder(order, bar, k) \in TradeRecord
                 /\ FillOrder(order, bar, k).from = k
                 /\ Honest(FillOrder(order, bar, k), tape')
  <2> SUFFICES ASSUME filled PROVE /\ FillOrder(order, bar, k) \in TradeRecord
                                   /\ FillOrder(order, bar, k).from = k
                                   /\ Honest(FillOrder(order, bar, k), tape')
    OBVIOUS
  <2> DEFINE t == FillOrder(order, bar, k)
  <2>1. order \in Order /\ Fills(order, bar) /\ Waiting(order, tape) /\ ~Dead(order, bar, k)
    BY <1>6, <1>7, <1>12
  <2>2. /\ t \in TradeRecord /\ t.from = k /\ t.order = order /\ t.side = order.side
        /\ t.fill - t.side * Spread \in bar.l..bar.h
        /\ t.side * (t.tp - t.fill) = t.side * (order.tp - order.entry)
    BY <1>3, <2>1, FilledIs
  <2>3. /\ k \in (order.detected + 1)..(order.detected + ValidBars)
        /\ \A j \in (order.detected + 1)..k : order.side * tape'[j].c >= order.side * order.cancel
        /\ \A j \in (order.detected + 1)..(k - 1) : ~Fills(order, tape'[j])
    BY <1>1, <1>2, <2>1, WaitsOn DEF k, bar
  <2>4. k <= Len(tape') /\ tape'[k] = bar
    BY <1>3 DEF k, bar
  <2> HIDE DEF t
  <2>5. Honest(t, tape')
    BY <2>1, <2>2, <2>3, <2>4 DEF Honest
  <2>6. QED
    BY <2>2, <2>5 DEF t
<1>20. kept # NoTrade /\ flat => Waiting(kept, tape')
  <2> SUFFICES ASSUME kept # NoTrade, flat PROVE Waiting(kept, tape')
    OBVIOUS
  <2>1. kept = order /\ order \in Order /\ Waiting(order, tape) /\ ~Dead(order, bar, k) /\ ~Fills(order, bar)
    BY <1>6, <1>7, <1>14
  <2>2. /\ k \in (order.detected + 1)..(order.detected + ValidBars)
        /\ \A j \in (order.detected + 1)..k : order.side * tape'[j].c >= order.side * order.cancel
        /\ \A j \in (order.detected + 1)..(k - 1) : ~Fills(order, tape'[j])
    BY <1>1, <1>2, <2>1, WaitsOn DEF k, bar
  <2>3. order.detected \in Nat /\ ValidBars \in Nat
    BY <2>1, CostsAreCosts DEF Order
  <2>4. \A j \in (order.detected + 1)..k : ~Fills(order, tape'[j])
    <3> TAKE j \in (order.detected + 1)..k
    <3>1. CASE j = k
      BY <2>1, <3>1 DEF bar
    <3>2. CASE j # k
      BY <1>3, <2>2, <2>3, <3>2
    <3>3. QED
      BY <3>1, <3>2
  <2>5. QED
    BY <1>3, <2>1, <2>2, <2>3, <2>4 DEF Waiting, k
<1>21. found # NoTrade => Waiting(found, tape')
  <2>1. found # NoTrade => found.detected = Len(tape') /\ Len(tape') \in Nat /\ ValidBars \in Nat
    BY <1>3, <1>8, CostsAreCosts DEF k
  <2>2. QED
    BY <2>1 DEF Waiting
\* The step.
<1>22. /\ mem' \in Memory /\ mem'.limit = mem.limit
       /\ mem'.trade = IF filled THEN FillOrder(order, bar, k) ELSE IF flat THEN NoTrade ELSE mem.trade
       /\ mem'.pending = IF found # NoTrade THEN found ELSE kept
  <2> DEFINE trade == IF filled THEN FillOrder(order, bar, k) ELSE IF flat THEN NoTrade ELSE mem.trade
             pending == IF found # NoTrade THEN found ELSE kept
  <2>1. mem' = [mem EXCEPT !.trade = trade, !.pending = pending]
    BY <1>4
  <2>2. trade \in TradeRecord \cup {NoTrade} /\ pending \in Order \cup {NoTrade}
    BY <1>6, <1>8, <1>16, <1>19
  <2> HIDE DEF trade, pending
  <2>3. mem' \in Memory /\ mem'.limit = mem.limit /\ mem'.trade = trade /\ mem'.pending = pending
    BY <1>1, <2>1, <2>2 DEF Memory
  <2>4. QED
    BY <2>3 DEF trade, pending
<1>23. e = <<>> \/ \E x \in TradeRecord :
          /\ e = <<x>> /\ Over(x, study, tape') /\ InTime(x, study, mem.limit) /\ Honest(x, tape')
          /\ \A i \in DOMAIN out : x.from > out[i].exit + Rest(study)
  <2>1. ASSUME mem.trade # NoTrade, NEW x \in TradeRecord, Ends(x, mem.trade, bar, k),
               x.reason \in {"SL", "TP"}
        PROVE  /\ Over(x, study, tape') /\ InTime(x, study, mem.limit) /\ Honest(x, tape')
               /\ \A i \in DOMAIN out : x.from > out[i].exit + Rest(study)
    <3>1. Finishes(x, mem.trade, k)
      BY <2>1 DEF Ends
    <3>2. /\ mem.trade \in TradeRecord /\ mem.trade.from \in 1..Len(tape')
          /\ First(mem.trade, study) <= Len(tape')
          /\ Clean(mem.trade, tape, First(mem.trade, study), Len(tape))
      BY <1>2, <2>1, RunsOn DEF EngineInv
    <3>3. Over(x, study, tape')
      BY <1>1, <1>2, <2>1, <3>1, <3>2, OverNow DEF Ends, k, bar
    <3>4. InTime(x, study, mem.limit)
      BY <1>2, <2>1 DEF InTime
    <3>5. Honest(mem.trade, tape')
      BY <1>1, <1>2, <1>7, <2>1, <3>2, HonestStays
    <3>6. Honest(x, tape')
      BY <3>1, <3>5 DEF Honest, Finishes
    <3>7. x.from = mem.trade.from /\ \A i \in DOMAIN out : mem.trade.from > out[i].exit + Rest(study)
      BY <2>1, <3>1 DEF EngineInv, Timed, Finishes
    <3>8. QED
      BY <3>3, <3>4, <3>6, <3>7
  <2>2. QED
    BY <1>9, <1>10, <2>1
<1>24. out' \in Seq(TradeRecord) /\ \A i \in DOMAIN out' : Over(out'[i], study', tape')
  BY <1>2, <1>5, <1>23, ResultsStay DEF EngineInv
<1>25. /\ \A i, j \in DOMAIN out' : i < j => out'[j].from > out'[i].exit + Rest(study')
       /\ \A i \in DOMAIN out' : InTime(out'[i], study', mem'.limit)
  BY <1>2, <1>5, <1>22, <1>23, OrderStays DEF EngineInv
<1>26. \A i \in DOMAIN out' : \/ i \in DOMAIN out /\ out'[i] = out[i]
                              \/ e # <<>> /\ i = Len(out) + 1 /\ out'[i] = e[1]
  <2>1. e = <<>> \/ \E x \in TradeRecord : e = <<x>>
    BY <1>23
  <2>2. QED
    BY <1>1, <1>5, <2>1, Joined
<1>27. mem'.trade # NoTrade =>
          \/ filled /\ mem'.trade = FillOrder(order, bar, k) /\ e = <<>>
          \/ ~filled /\ mem'.trade = mem.trade /\ mem.trade # NoTrade /\ e = <<>> /\ ~flat
  <2>1. filled => e = <<>>
    BY <1>9, <1>12, <1>13
  <2>2. QED
    BY <1>11, <1>22, <2>1
<1>28. EngineTypes'
  BY <1>2, <1>3, <1>22, <1>24 DEF EngineTypes, EngineInv
<1>29. Scanned'
  <2>1. ASSUME filled PROVE Running(FillOrder(order, bar, k), study, tape')
    BY <1>2, <1>3, <1>19, <2>1 DEF Running, Clean, First, k
  <2>2. ASSUME mem.trade # NoTrade, e = <<>> PROVE Running(mem.trade, study, tape')
    <3>1. Verdict(mem.trade, bar) = "none"
      BY <1>10, <2>2
    <3>2. /\ mem.trade \in TradeRecord /\ mem.trade.from \in 1..Len(tape')
          /\ Clean(mem.trade, tape, First(mem.trade, study), Len(tape))
      BY <1>2, <2>2, RunsOn DEF EngineInv
    <3>3. QED
      BY <1>1, <1>2, <3>1, <3>2, RunningStill DEF k, bar
  <2>3. mem'.trade # NoTrade => Running(mem'.trade, study', tape')
    BY <1>2, <1>27, <2>1, <2>2
  <2>4. QED
    BY <1>24, <2>3 DEF Scanned
<1>30. Timed'
  <2>1. mem'.trade # NoTrade => Within(mem'.trade, study', mem'.limit, Len(tape'))
    BY <1>2 DEF Within
  <2>2. ASSUME mem'.trade # NoTrade, NEW i \in DOMAIN out'
        PROVE  mem'.trade.from > out'[i].exit + Rest(study')
    <3>1. i \in DOMAIN out /\ out'[i] = out[i]
      BY <1>26, <1>27, <2>2
    <3>2. CASE filled
      <4>1. out[i].exit < k /\ out[i].exit \in Nat
        BY <1>2, <3>1, PastIsPast DEF EngineInv, k
      <4>2. QED
        BY <1>2, <1>3, <1>19, <1>27, <2>2, <3>1, <3>2, <4>1 DEF Rest
    <3>3. CASE ~filled
      <4>1. mem.trade.from > out[i].exit + Rest(study)
        BY <1>27, <2>2, <3>1, <3>3 DEF EngineInv, Timed
      <4>2. QED
        BY <1>2, <1>27, <2>2, <3>1, <3>3, <4>1
    <3>4. QED
      BY <3>2, <3>3
  <2>3. study' # "btc" /\ study' # "exec"
    BY <1>2
  <2>4. QED
    BY <1>25, <2>1, <2>2, <2>3 DEF Timed
<1>31. Waits'
  <2>1. mem'.trade # NoTrade => mem'.pending = NoTrade /\ Honest(mem'.trade, tape')
    <3>1. CASE filled
      BY <1>4, <1>15, <1>19, <1>22, <3>1
    <3>2. CASE ~filled /\ mem'.trade # NoTrade
      <4>1. mem'.trade = mem.trade /\ mem.trade # NoTrade /\ ~flat
        BY <1>27, <3>2
      <4>2. order = NoTrade /\ kept = NoTrade /\ found = NoTrade
        BY <1>4, <1>7, <1>18, <4>1
      <4>3. Honest(mem.trade, tape')
        BY <1>1, <1>2, <1>6, <1>7, <4>1, HonestStays
      <4>4. QED
        BY <1>22, <4>1, <4>2, <4>3
    <3>3. QED
      BY <3>1, <3>2
  <2>2. mem'.pending # NoTrade => Waiting(mem'.pending, tape')
    <3>1. ~flat => kept = NoTrade
      BY <1>7, <1>11, <1>18
    <3>2. QED
      BY <1>20, <1>21, <1>22, <3>1
  <2>3. \A i \in DOMAIN out' : Honest(out'[i], tape')
    <3> TAKE i \in DOMAIN out'
    <3>1. CASE i \in DOMAIN out /\ out'[i] = out[i]
      BY <1>1, <1>2, <1>7, <3>1, HonestStays
    <3>2. CASE e # <<>> /\ out'[i] = e[1]
      BY <1>23, <3>2
    <3>3. QED
      BY <1>26, <3>1, <3>2
  <2>4. QED
    BY <2>1, <2>2, <2>3 DEF Waits
<1>32. QED
  BY <1>28, <1>29, <1>30, <1>31 DEF EngineInv

-----------------------------------------------------------------------------
(***************************************************************************)
(* The gate on yields.                                                     *)
(***************************************************************************)
SeriesOfInts == UNION {[D -> Int] : D \in SUBSET Int}
MacroMemory == [past : Pasts["macro"], local : SeriesOfInts, fallback : SeriesOfInts,
                cache : SeriesOfInts, attempt : Nat]
Answer == [yields : SeriesOfInts, open : BOOLEAN, fetched : BOOLEAN]

MacroTypes ==
    /\ study = "macro"
    /\ tape \in Seq(Shapes["macro"])
    /\ mem \in MacroMemory
    /\ out \in Seq(Answer)

\* A series holds days that have begun, and all but its last are final.
DaysTo(past, n) == ((1 - Len(past))..n) \ DaysOff
FinalOf(past, bars, day) == IF day < 1 THEN past[day + Len(past)] ELSE bars[day].c
KnownOf(yields, past, bars) ==
    /\ yields \in SeriesOfInts
    /\ DOMAIN yields \subseteq DaysTo(past, Len(bars))
    /\ \A day, d \in DOMAIN yields : d > day => yields[day] = FinalOf(past, bars, day)
AllKnown == \A yields \in {mem.local, mem.fallback, mem.cache} : KnownOf(yields, mem.past, tape)

\* What has been answered today was taken from what the memory holds, which needs no
\* fetch any more.
Answered ==
    /\ out # <<>> => ~IsStale(mem.cache)
    /\ \A i \in DOMAIN out :
         /\ out[i].yields = Nothing \/ out[i].yields = mem.cache
         /\ out[i].open = GateOpen(out[i].yields, Today)
         /\ out[i].yields = Nothing \/ out[i].fetched => mem.attempt = Today
    /\ \A i, j \in DOMAIN out :
         /\ i < j /\ out[i].yields # Nothing => out[j].yields = out[i].yields
         /\ i < j => ~(out[i].fetched /\ out[j].fetched)

MacroInv == MacroTypes /\ AllKnown /\ Answered

\* The empty series is one.
LEMMA NothingIsSeries == Nothing \in SeriesOfInts /\ DOMAIN Nothing = {}
<1>1. Nothing \in [{} -> Int]
  BY DEF Nothing
<1>2. QED
  BY <1>1 DEF SeriesOfInts, Nothing

\* A series from its days and their closes.
LEMMA IsSeries ==
    ASSUME NEW D \in SUBSET Int, NEW f, f \in [D -> Int]
    PROVE  f \in SeriesOfInts /\ DOMAIN f = D
BY DEF SeriesOfInts

\* The final close of a day that is over.
LEMMA FinalIs ==
    ASSUME MacroTypes
    PROVE  /\ Len(mem.past) \in Nat /\ Today \in Nat
           /\ FinalDays = DaysTo(mem.past, Today - 1)
           /\ \A day \in FinalDays : /\ FinalOf(mem.past, tape, day) \in Int
                                     /\ FinalYields[day] = FinalOf(mem.past, tape, day)
           /\ FinalYields \in [FinalDays -> Int]
<1>1. mem.past \in Seq(Int) /\ Len(mem.past) \in Nat
  BY YieldsAreNumbers DEF MacroTypes, MacroMemory
<1>2. Today \in Nat /\ \A day \in 1..Today : tape[day].c \in Int
  <2>1. Today \in Nat /\ \A day \in 1..Today : tape[day] \in Shapes["macro"]
    BY DEF MacroTypes, Today
  <2>2. QED
    BY <2>1, YieldsAreNumbers
<1>3. FinalDays = DaysTo(mem.past, Today - 1)
  BY DEF FinalDays, DaysTo
<1>4. ASSUME NEW day \in FinalDays
      PROVE  /\ FinalOf(mem.past, tape, day) \in Int
             /\ FinalYields[day] = FinalOf(mem.past, tape, day)
  <2>1. day \in Int /\ day >= 1 - Len(mem.past) /\ day <= Today - 1
    BY <1>1, <1>2 DEF FinalDays
  <2>2. FinalYields[day] = IF day < 1 THEN Earlier(mem.past)[day] ELSE tape[day].c
    BY DEF FinalYields
  <2>3. CASE day < 1
    <3>1. day \in (1 - Len(mem.past))..0
      BY <1>1, <2>1, <2>3
    <3>2. Earlier(mem.past)[day] = mem.past[day + Len(mem.past)]
      BY <3>1 DEF Earlier
    <3>3. mem.past[day + Len(mem.past)] \in Int
      BY <1>1, <2>1, <2>3
    <3>4. QED
      BY <2>2, <2>3, <3>2, <3>3 DEF FinalOf
  <2>4. CASE ~(day < 1)
    BY <1>2, <2>1, <2>2, <2>4 DEF FinalOf
  <2>5. QED
    BY <2>3, <2>4
<1>5. FinalYields \in [FinalDays -> Int]
  <2>1. FinalYields = [day \in FinalDays |-> FinalYields[day]]
    BY DEF FinalYields
  <2>2. QED
    BY <1>4, <2>1
<1>6. QED
  BY <1>1, <1>2, <1>3, <1>4, <1>5

\* Nothing is known of the empty series.
LEMMA NothingKnown == \A past, bars : KnownOf(Nothing, past, bars)
BY NothingIsSeries DEF KnownOf

\* Whatever the provider answers, all but its last day is final.
LEMMA FetchedKnown ==
    ASSUME MacroTypes, Today > 0, NEW got \in Fetched
    PROVE  KnownOf(got, mem.past, tape)
<1> DEFINE at == DaysTo(mem.past, Today)
<1>1. /\ Len(mem.past) \in Nat /\ Today \in Nat
      /\ FinalDays = DaysTo(mem.past, Today - 1)
      /\ \A day \in FinalDays : /\ FinalOf(mem.past, tape, day) \in Int
                                /\ FinalYields[day] = FinalOf(mem.past, tape, day)
      /\ FinalYields \in [FinalDays -> Int]
  BY FinalIs
<1>0. Len(mem.past) \in Nat /\ Today \in Nat /\ Today > 0
  BY <1>1
<1>2. FinalDays \in SUBSET Int /\ FinalDays \subseteq at /\ \A day \in FinalDays : day < Today
  BY <1>1 DEF DaysTo
<1>3. CASE got = Nothing
  BY <1>3, NothingKnown
<1>4. CASE got = FinalYields
  <2>1. got \in SeriesOfInts /\ DOMAIN got = FinalDays
    BY <1>1, <1>2, <1>4, IsSeries
  <2>2. QED
    <3>1. Len(tape) = Today
      BY DEF Today
    <3>2. DOMAIN got \subseteq DaysTo(mem.past, Len(tape))
      BY <1>2, <2>1, <3>1
    <3>3. \A day, d \in DOMAIN got : d > day => got[day] = FinalOf(mem.past, tape, day)
      BY <1>1, <1>4, <2>1
    <3>4. QED
      BY <2>1, <3>2, <3>3 DEF KnownOf
<1>5. ASSUME Today \notin DaysOff, NEW bar \in Shapes["macro"],
             got = [day \in FinalDays \cup {Today} |-> IF day = Today THEN bar.c ELSE FinalYields[day]]
      PROVE  KnownOf(got, mem.past, tape)
  <2>1. bar.c \in Int
    BY YieldsAreNumbers
  <2>2. FinalDays \cup {Today} \in SUBSET Int
    BY <1>1, <1>2
  <2>3. \A day \in FinalDays : got[day] = FinalOf(mem.past, tape, day) /\ got[day] \in Int
    BY <1>1, <1>2, <1>5
  <2>4. got \in [FinalDays \cup {Today} -> Int]
    BY <1>1, <1>2, <1>5, <2>1, <2>3
  <2>5. got \in SeriesOfInts /\ DOMAIN got = FinalDays \cup {Today}
    BY <2>2, <2>4, IsSeries
  <2>6. FinalDays \cup {Today} \subseteq DaysTo(mem.past, Len(tape))
    <3>1. Len(tape) = Today
      BY DEF Today
    <3>2. Today \in at
      <4>1. Today \notin DaysOff
        BY <1>5
      <4>2. Today \in (1 - Len(mem.past))..Today
        BY <1>0
      <4>3. QED
        BY <4>1, <4>2 DEF DaysTo
    <3>3. QED
      BY <1>2, <3>1, <3>2
  <2>7. ASSUME NEW day \in DOMAIN got, NEW d \in DOMAIN got, d > day
        PROVE  got[day] = FinalOf(mem.past, tape, day)
    <3>1. d <= Today
      BY <1>1, <1>2, <2>5
    <3>2. day \in FinalDays
      BY <1>1, <2>2, <2>5, <2>7, <3>1
    <3>3. QED
      BY <2>3, <3>2
  <2>8. QED
    BY <2>5, <2>6, <2>7 DEF KnownOf
<1>6. QED
  BY <1>3, <1>4, <1>5 DEF Fetched

\* What was known stays known on the next day.
LEMMA KnownStays ==
    ASSUME NEW past, Len(past) \in Nat, NEW bars \in Seq(Shapes["macro"]), NEW bar \in Shapes["macro"],
           NEW yields, KnownOf(yields, past, bars)
    PROVE  KnownOf(yields, past, Append(bars, bar))
<1> DEFINE more == Append(bars, bar)
<1>1. Len(bars) \in Nat /\ Len(more) = Len(bars) + 1 /\ \A j \in 1..Len(bars) : more[j] = bars[j]
  OBVIOUS
<1> HIDE DEF more
<1>2. DaysTo(past, Len(bars)) \subseteq DaysTo(past, Len(more))
  BY <1>1 DEF DaysTo
<1>3. ASSUME NEW day \in DOMAIN yields, NEW d \in DOMAIN yields, d > day
      PROVE  yields[day] = FinalOf(past, more, day)
  <2>1. yields[day] = FinalOf(past, bars, day)
    BY <1>3 DEF KnownOf
  <2>2. day \in (1 - Len(past))..Len(bars)
    BY DEF KnownOf, DaysTo
  <2>3. FinalOf(past, bars, day) = FinalOf(past, more, day)
    BY <1>1, <2>2 DEF FinalOf
  <2>4. QED
    BY <2>1, <2>3
<1>4. KnownOf(yields, past, more)
  BY <1>2, <1>3 DEF KnownOf
<1>5. QED
  BY <1>4 DEF more

\* The start.
LEMMA MacroBegins == InitMacro => MacroInv
<1> SUFFICES ASSUME InitMacro PROVE MacroInv
  OBVIOUS
<1>0. PICK past \in Pasts["macro"] : \E local, fallback \in {Nothing, Earlier(past)} :
         mem = [past |-> past, local |-> local, fallback |-> fallback, cache |-> Nothing, attempt |-> 0]
  BY DEF InitMacro
<1>1. PICK local \in {Nothing, Earlier(past)}, fallback \in {Nothing, Earlier(past)} :
         mem = [past |-> past, local |-> local, fallback |-> fallback, cache |-> Nothing, attempt |-> 0]
  BY <1>0
<1>2. study = "macro" /\ tape = <<>> /\ out = <<>> /\ Len(tape) = 0 /\ DOMAIN out = {}
  BY DEF InitMacro
<1>3. past \in Seq(Int) /\ Len(past) \in Nat
  BY YieldsAreNumbers
<1>4. Earlier(past) \in SeriesOfInts /\ DOMAIN Earlier(past) = (1 - Len(past))..0
  <2>1. \A day \in (1 - Len(past))..0 : past[day + Len(past)] \in Int
    BY <1>3
  <2>2. Earlier(past) \in [(1 - Len(past))..0 -> Int]
    BY <2>1 DEF Earlier
  <2>3. (1 - Len(past))..0 \in SUBSET Int
    BY <1>3
  <2>4. QED
    BY <2>2, <2>3, IsSeries
<1>5. \A y \in {Nothing, Earlier(past)} : y \in SeriesOfInts /\ KnownOf(y, past, tape)
  <2>1. KnownOf(Nothing, past, tape) /\ Nothing \in SeriesOfInts
    BY NothingKnown, NothingIsSeries
  <2>2. ASSUME (1 - Len(past))..0 \subseteq DaysTo(past, Len(tape)) PROVE KnownOf(Earlier(past), past, tape)
    <3>1. \A day \in (1 - Len(past))..0 : Earlier(past)[day] = FinalOf(past, tape, day)
      BY <1>3 DEF Earlier, FinalOf
    <3>2. QED
      BY <1>4, <2>2, <3>1 DEF KnownOf
  <2>3. (1 - Len(past))..0 \subseteq DaysTo(past, Len(tape))
    BY <1>2, <1>3, MacroOK DEF DaysTo
  <2>4. QED
    BY <1>4, <2>1, <2>2, <2>3
<1>6. mem \in MacroMemory
  BY <1>1, <1>5, NothingIsSeries DEF MacroMemory
<1>7. MacroTypes
  BY <1>2, <1>6 DEF MacroTypes
<1>8. AllKnown
  BY <1>1, <1>5, NothingKnown DEF AllKnown
<1>9. Answered
  BY <1>2 DEF Answered
<1>10. QED
  BY <1>7, <1>8, <1>9 DEF MacroInv

\* A new day: nothing has been answered, and what was known is known.
LEMMA NextDayKeeps == MacroInv /\ NextDay => MacroInv'
<1> SUFFICES ASSUME MacroInv, NextDay PROVE MacroInv'
  OBVIOUS
<1>1. MacroTypes
  BY DEF MacroInv
<1>2. PICK bar \in Shapes["macro"] : tape' = Append(tape, bar)
  BY DEF NextDay, NextBar
<1>3. mem' = mem /\ out' = <<>> /\ study' = "macro" /\ tape' \in Seq(Shapes["macro"])
  BY <1>1, <1>2 DEF NextDay, NextBar, MacroTypes
<1>4. MacroTypes'
  BY <1>1, <1>3 DEF MacroTypes
<1>5. AllKnown'
  <2>1. tape \in Seq(Shapes["macro"]) /\ Len(mem.past) \in Nat
    BY <1>1, FinalIs DEF MacroTypes
  <2>2. \A yields \in {mem.local, mem.fallback, mem.cache} : KnownOf(yields, mem.past, Append(tape, bar))
    BY <2>1, KnownStays DEF MacroInv, AllKnown
  <2>3. QED
    BY <1>2, <1>3, <2>2 DEF AllKnown
<1>6. Answered'
  BY <1>3 DEF Answered
<1>7. QED
  BY <1>4, <1>5, <1>6 DEF MacroInv

\* A refresh by the operator changes the file only.
LEMMA RefreshKeeps == MacroInv /\ Refresh => MacroInv'
<1> SUFFICES ASSUME MacroInv, Refresh PROVE MacroInv'
  OBVIOUS
<1>1. MacroTypes /\ mem \in MacroMemory
  BY DEF MacroInv, MacroTypes
<1>2. PICK got \in Fetched : mem' = [mem EXCEPT !.local = got]
  BY DEF Refresh
<1>3. UNCHANGED <<study, tape, out>>
  BY DEF Refresh
<1>4. KnownOf(got, mem.past, tape) /\ got \in SeriesOfInts
  <2>1. Today > 0
    BY DEF Refresh
  <2>2. QED
    BY <1>1, <1>2, <2>1, FetchedKnown DEF KnownOf
<1>5. /\ mem' \in MacroMemory /\ mem'.past = mem.past /\ mem'.local = got
      /\ mem'.fallback = mem.fallback /\ mem'.cache = mem.cache /\ mem'.attempt = mem.attempt
  BY <1>1, <1>2, <1>4 DEF MacroMemory
<1>6. MacroTypes'
  BY <1>1, <1>3, <1>5 DEF MacroTypes
<1>7. AllKnown'
  BY <1>3, <1>4, <1>5 DEF AllKnown, MacroInv
<1>8. Answered'
  BY <1>3, <1>5 DEF Answered, MacroInv, IsStale, Today
<1>9. QED
  BY <1>6, <1>7, <1>8 DEF MacroInv

\* A restart forgets what was in memory, and what was answered.
LEMMA RestartKeeps == MacroInv /\ RestartStrategies => MacroInv'
<1> SUFFICES ASSUME MacroInv, RestartStrategies PROVE MacroInv'
  OBVIOUS
<1>1. MacroTypes /\ mem \in MacroMemory
  BY DEF MacroInv, MacroTypes
<1>2. mem' = [mem EXCEPT !.cache = Nothing, !.attempt = 0] /\ out' = <<>> /\ UNCHANGED <<study, tape>>
  BY DEF RestartStrategies
<1>3. /\ mem' \in MacroMemory /\ mem'.past = mem.past /\ mem'.local = mem.local
      /\ mem'.fallback = mem.fallback /\ mem'.cache = Nothing
  BY <1>1, <1>2, NothingIsSeries DEF MacroMemory
<1>4. MacroTypes'
  BY <1>1, <1>2, <1>3 DEF MacroTypes
<1>5. AllKnown'
  BY <1>2, <1>3, NothingKnown DEF AllKnown, MacroInv
<1>6. Answered'
  BY <1>2 DEF Answered
<1>7. QED
  BY <1>4, <1>5, <1>6 DEF MacroInv

\* What the next answer of a day is taken from.
LEMMA LoadedIs ==
    ASSUME MacroInv
    PROVE  /\ Loaded \in SeriesOfInts /\ KnownOf(Loaded, mem.past, tape)
           /\ mem.cache # Nothing => Loaded = mem.cache
           /\ out # <<>> /\ mem.cache # Nothing => ~IsStale(Loaded)
           /\ IsStale(Loaded) => mem.attempt # Today
<1>1. Loaded \in {mem.local, mem.fallback, mem.cache} /\ (mem.cache # Nothing => Loaded = mem.cache)
  BY DEF Loaded, ReadAny
<1>2. KnownOf(Loaded, mem.past, tape)
  BY <1>1 DEF MacroInv, AllKnown
<1>3. Loaded \in SeriesOfInts
  BY <1>2 DEF KnownOf
<1>4. out # <<>> => ~IsStale(mem.cache)
  BY DEF MacroInv, Answered
<1>5. QED
  BY <1>1, <1>2, <1>3, <1>4 DEF IsStale

\* A question: while the memory has yields, the day's answers stay the same.
LEMMA AskMacroKeeps == MacroInv /\ AskMacro => MacroInv'
<1> SUFFICES ASSUME MacroInv, AskMacro PROVE MacroInv'
  OBVIOUS
<1>1. /\ MacroTypes /\ mem \in MacroMemory /\ out \in Seq(Answer) /\ Today \in Nat /\ Len(out) \in Nat
      /\ mem.attempt \in Nat /\ DOMAIN out = 1..Len(out)
  BY DEF MacroInv, MacroTypes, MacroMemory, Today
<1>2. PICK got \in IF IsStale(Loaded) THEN Fetched ELSE {Nothing}, saved \in BOOLEAN :
         LET yields == IF got = Nothing THEN Loaded ELSE got
         IN  /\ mem' = [mem EXCEPT !.cache = yields,
                                   !.attempt = IF IsStale(Loaded) THEN Today ELSE @,
                                   !.local = IF saved THEN (IF got = Nothing THEN @ ELSE got) ELSE @]
             /\ out' = Append(out, [yields |-> yields, open |-> GateOpen(yields, Today), fetched |-> IsStale(Loaded)])
  BY DEF AskMacro
<1>3. UNCHANGED <<study, tape>> /\ Today > 0
  BY DEF AskMacro
<1> DEFINE yields == IF got = Nothing THEN Loaded ELSE got
           stale == IsStale(Loaded)
           attempt == IF stale THEN Today ELSE mem.attempt
           local == IF saved THEN (IF got = Nothing THEN mem.local ELSE got) ELSE mem.local
           answer == [yields |-> yields, open |-> GateOpen(yields, Today), fetched |-> stale]
<1>4. stale \in BOOLEAN /\ GateOpen(yields, Today) \in BOOLEAN
  BY DEF IsStale, GateOpen
<1>5. mem' = [mem EXCEPT !.cache = yields, !.attempt = attempt, !.local = local] /\ out' = Append(out, answer)
  BY <1>2
<1>6. /\ Loaded \in SeriesOfInts /\ KnownOf(Loaded, mem.past, tape)
      /\ mem.cache # Nothing => Loaded = mem.cache
      /\ out # <<>> /\ mem.cache # Nothing => ~stale
      /\ stale => mem.attempt # Today
  BY LoadedIs
<1>7. ~stale => got = Nothing /\ yields = Loaded
  BY <1>2
<1>8. got = Nothing \/ got \in Fetched
  BY <1>2
<1>9. \A y \in {yields, local} : y \in SeriesOfInts /\ KnownOf(y, mem.past, tape)
  <2>1. got \in SeriesOfInts /\ KnownOf(got, mem.past, tape)
    <3>1. KnownOf(got, mem.past, tape)
      BY <1>1, <1>3, <1>8, FetchedKnown, NothingKnown
    <3>2. QED
      BY <3>1 DEF KnownOf
  <2>2. KnownOf(mem.local, mem.past, tape) /\ mem.local \in SeriesOfInts
    BY <1>1 DEF MacroInv, AllKnown, MacroMemory
  <2>3. QED
    BY <1>6, <2>1, <2>2
<1>10. attempt \in Nat
  BY <1>1
<1> HIDE DEF yields, stale, attempt, local
<1>11. /\ mem' \in MacroMemory
       /\ mem'.past = mem.past /\ mem'.local = local /\ mem'.fallback = mem.fallback
       /\ mem'.cache = yields /\ mem'.attempt = attempt
  BY <1>1, <1>5, <1>9, <1>10 DEF MacroMemory
<1>12. answer \in Answer
  BY <1>4, <1>9 DEF Answer
<1>13. answer.yields = yields /\ answer.open = GateOpen(yields, Today) /\ answer.fetched = stale
  OBVIOUS
<1> HIDE DEF answer
<1>14. /\ out' \in Seq(Answer) /\ Len(out') = Len(out) + 1 /\ DOMAIN out' = 1..(Len(out) + 1)
       /\ \A i \in 1..Len(out) : out'[i] = out[i]
       /\ out'[Len(out) + 1] = answer
  BY <1>1, <1>5, <1>12
<1>15. MacroTypes'
  BY <1>1, <1>3, <1>11, <1>14 DEF MacroTypes
<1>16. AllKnown'
  BY <1>3, <1>9, <1>11 DEF AllKnown, MacroInv
\* The answers.
<1>17. ~IsStale(mem.cache)'
  <2>1. CASE stale
    BY <1>3, <1>11, <2>1 DEF IsStale, Today, attempt
  <2>2. CASE ~stale
    <3>1. yields = Loaded /\ attempt = mem.attempt
      BY <1>7, <2>2 DEF attempt
    <3>2. QED
      BY <1>3, <1>11, <2>2, <3>1 DEF IsStale, Today, stale
  <2>3. QED
    BY <2>1, <2>2
<1>18. stale => attempt = Today
  BY DEF attempt
<1>19. mem.attempt = Today => attempt = Today
  BY DEF attempt
<1>20. yields = Nothing => attempt = Today
  <2>1. ~stale => mem.attempt = Today \/ Loaded # Nothing
    BY DEF stale, IsStale
  <2>2. QED
    BY <1>7, <1>18, <1>19, <2>1
<1>21. ASSUME NEW i \in 1..Len(out), out[i].yields # Nothing PROVE out[i].yields = yields /\ ~stale
  <2>1. out[i].yields = mem.cache /\ out # <<>>
    BY <1>1, <1>21 DEF MacroInv, Answered
  <2>2. Loaded = mem.cache /\ ~stale
    BY <1>6, <1>21, <2>1
  <2>3. QED
    BY <1>7, <2>1, <2>2
<1>22. ASSUME NEW i \in 1..(Len(out) + 1)
       PROVE  /\ out'[i].yields = Nothing \/ out'[i].yields = mem'.cache
              /\ out'[i].open = GateOpen(out'[i].yields, Today)
              /\ out'[i].yields = Nothing \/ out'[i].fetched => mem'.attempt = Today
  <2>1. CASE i = Len(out) + 1
    BY <1>11, <1>13, <1>14, <1>18, <1>20, <2>1
  <2>2. CASE i \in 1..Len(out)
    <3>1. /\ out[i].open = GateOpen(out[i].yields, Today)
          /\ out[i].yields = Nothing \/ out[i].fetched => mem.attempt = Today
      BY <1>1, <2>2 DEF MacroInv, Answered
    <3>2. QED
      BY <1>11, <1>14, <1>19, <1>21, <2>2, <3>1
  <2>3. QED
    BY <1>1, <2>1, <2>2
<1>23. ASSUME NEW i \in 1..(Len(out) + 1), NEW j \in 1..(Len(out) + 1), i < j
       PROVE  /\ out'[i].yields # Nothing => out'[j].yields = out'[i].yields
              /\ ~(out'[i].fetched /\ out'[j].fetched)
  <2>1. i \in 1..Len(out) /\ out'[i] = out[i]
    BY <1>1, <1>14, <1>23
  <2>2. CASE j = Len(out) + 1
    <3>1. out'[j].yields = yields /\ out'[j].fetched = stale
      BY <1>13, <1>14, <2>2
    <3>2. out[i].fetched => mem.attempt = Today
      BY <1>1, <2>1 DEF MacroInv, Answered
    <3>3. QED
      BY <1>6, <1>21, <2>1, <3>1, <3>2
  <2>3. CASE j \in 1..Len(out)
    BY <1>1, <1>14, <1>23, <2>1, <2>3 DEF MacroInv, Answered
  <2>4. QED
    BY <1>1, <2>2, <2>3
<1>24. Answered'
  BY <1>3, <1>14, <1>17, <1>22, <1>23 DEF Answered, Today
<1>25. QED
  BY <1>15, <1>16, <1>24 DEF MacroInv

\* A process gives one answer all day once it has yields, and asks for them once.
LEMMA InvOneAnswer == MacroInv => OneAnswerPerDay
<1> SUFFICES ASSUME MacroInv PROVE OneAnswerPerDay
  OBVIOUS
<1>1. Answered /\ DOMAIN out = 1..Len(out) /\ Len(out) \in Nat
  BY DEF MacroInv, MacroTypes
<1>2. ASSUME NEW i \in DOMAIN out, NEW j \in DOMAIN out, i < j, out[i].yields # Nothing
      PROVE  out[i].open = out[j].open
  <2>1. out[j].yields = out[i].yields
    BY <1>1, <1>2 DEF Answered
  <2>2. out[i].open = GateOpen(out[i].yields, Today) /\ out[j].open = GateOpen(out[j].yields, Today)
    BY <1>1 DEF Answered
  <2>3. QED
    BY <2>1, <2>2
<1> DEFINE asked == {i \in DOMAIN out : out[i].fetched}
<1>3. \A i, j \in asked : i = j
  <2>1. \A i, j \in DOMAIN out : i < j => ~(out[i].fetched /\ out[j].fetched)
    BY <1>1 DEF Answered
  <2>2. QED
    BY <1>1, <2>1
<1>4. Cardinality(asked) <= 1
  <2>1. CASE asked = {}
    BY <2>1, FS_EmptySet
  <2>2. ASSUME NEW i \in asked PROVE Cardinality(asked) <= 1
    <3>1. asked = {i}
      BY <1>3, <2>2
    <3> HIDE DEF asked
    <3>2. Cardinality(asked) = 1
      BY <3>1, FS_Singleton
    <3>3. QED
      BY <3>2
  <2>3. QED
    BY <2>1, <2>2
<1>5. QED
  BY <1>2, <1>4 DEF OneAnswerPerDay

\* An answer does not depend on what today's yield is on the way.
LEMMA InvCausal == MacroInv => AnswersAreCausal
<1> SUFFICES ASSUME MacroInv, NEW i \in DOMAIN out, NEW bar \in Shapes["macro"]
             PROVE  LET yields == out[i].yields
                    IN  GateOpen([day \in DOMAIN yields |-> IF day = Today THEN bar.c ELSE yields[day]], Today)
                            = out[i].open
  BY DEF AnswersAreCausal
<1> DEFINE yields == out[i].yields
           other == [day \in DOMAIN yields |-> IF day = Today THEN bar.c ELSE yields[day]]
<1>1. out[i] \in Answer /\ Today \in Nat /\ out[i].open = GateOpen(yields, Today)
  BY DEF MacroInv, MacroTypes, Answered, Today
<1>2. DOMAIN yields \subseteq Int
  <2>1. yields \in SeriesOfInts
    BY <1>1 DEF Answer
  <2>2. QED
    BY <2>1 DEF SeriesOfInts
<1>3. DOMAIN other = DOMAIN yields
  OBVIOUS
<1>4. \A day \in DOMAIN yields : day < Today => other[day] = yields[day]
  BY <1>1, <1>2
<1> HIDE DEF other, yields
<1>5. Before(other, Today) = Before(yields, Today)
  BY <1>3, <1>4 DEF Before
<1>6. GateOpen(other, Today) = GateOpen(yields, Today)
  BY <1>3, <1>5 DEF GateOpen
<1>7. QED
  BY <1>1, <1>6 DEF other, yields

\* An answer is taken from final yields, but for the last, and old ones are asked for.
LEMMA InvYields == MacroInv => YieldsAreKnown
<1> SUFFICES ASSUME MacroInv, NEW i \in DOMAIN out
             PROVE  LET yields == out[i].yields
                    IN  /\ \A day \in DOMAIN yields :
                              day # Newest(yields) => day \in FinalDays /\ yields[day] = FinalYields[day]
                        /\ yields = Nothing \/ Newest(yields) < Today - Staleness => mem.attempt = Today
  BY DEF YieldsAreKnown
<1> DEFINE yields == out[i].yields
<1>1. /\ yields = Nothing \/ yields = mem.cache
      /\ yields = Nothing => mem.attempt = Today
      /\ out # <<>> => ~IsStale(mem.cache)
  BY DEF MacroInv, Answered
<1>2. KnownOf(yields, mem.past, tape)
  BY <1>1, NothingKnown DEF MacroInv, AllKnown
<1>3. out # <<>>
  BY DEF MacroInv, MacroTypes
<1> HIDE DEF yields
<1>4. MacroTypes
  BY DEF MacroInv
<1>5. /\ Len(mem.past) \in Nat /\ Today \in Nat
      /\ FinalDays = DaysTo(mem.past, Today - 1)
      /\ \A day \in FinalDays : FinalYields[day] = FinalOf(mem.past, tape, day)
  BY <1>4, FinalIs
<1>6. ASSUME NEW day \in DOMAIN yields, day # Newest(yields)
      PROVE  day \in FinalDays /\ yields[day] = FinalYields[day]
  <2>1. DOMAIN yields \subseteq DaysTo(mem.past, Today)
    BY <1>2 DEF KnownOf, Today
  <2>2. DOMAIN yields \subseteq (1 - Len(mem.past))..Today /\ DOMAIN yields \cap DaysOff = {}
    BY <2>1 DEF DaysTo
  <2>3. 1 - Len(mem.past) \in Int /\ Today \in Int
    BY <1>5
  <2>4. IsFiniteSet(DOMAIN yields)
    BY <2>2, <2>3, FS_Interval, FS_Subset
  <2>5. DOMAIN yields \subseteq Int
    BY <2>2, <2>3
  <2>6. Newest(yields) \in DOMAIN yields /\ Newest(yields) >= day
    BY <1>6, <2>4, <2>5, MaxIsOne DEF Newest
  <2>7. day < Newest(yields) /\ day >= 1 - Len(mem.past) /\ day <= Today - 1
    BY <1>6, <2>2, <2>3, <2>6
  <2>8. day \in (1 - Len(mem.past))..(Today - 1) /\ day \notin DaysOff
    BY <1>6, <2>2, <2>3, <2>7
  <2>9. day \in FinalDays
    BY <1>5, <2>8 DEF DaysTo
  <2>10. yields[day] = FinalOf(mem.past, tape, day)
    BY <1>2, <2>6, <2>7 DEF KnownOf
  <2>11. QED
    BY <1>5, <2>9, <2>10
<1>7. yields = Nothing \/ Newest(yields) < Today - Staleness => mem.attempt = Today
  BY <1>1, <1>3 DEF IsStale
<1>8. QED
  BY <1>6, <1>7 DEF yields

\* While the gate on yields is studied its invariant holds.
MacroStudied == study = "macro" => MacroInv

-----------------------------------------------------------------------------
\* While an engine is studied its invariant holds.
EngineStudied == study \in EngineStudies => EngineInv

\* Every study begins in its invariant.
LEMMA LabBegins == InitLab => EngineStudied /\ MacroStudied
<1> SUFFICES ASSUME InitLab PROVE EngineStudied /\ MacroStudied
  OBVIOUS
<1>1. InitEngines \/ InitMacro \/ OtherInits
  BY DEF InitLab, OtherInits
<1>2. CASE InitEngines
  <2>1. study \in EngineStudies /\ study # "macro"
    BY <1>2 DEF InitEngines, EngineStudies
  <2>2. QED
    BY <1>2, <2>1, EnginesBegin DEF EngineStudied, MacroStudied
<1>3. CASE InitMacro
  <2>1. study = "macro"
    BY <1>3 DEF InitMacro
  <2>2. QED
    BY <1>3, <2>1, MacroBegins DEF EngineStudied, MacroStudied, EngineStudies
<1>4. CASE OtherInits
  BY <1>4, OthersBegin DEF EngineStudied, MacroStudied, Proved
<1>5. QED
  BY <1>1, <1>2, <1>3, <1>4

\* Every step of the lab keeps it.
LEMMA LabGoesOn ==
    EngineStudied /\ MacroStudied /\ [NextLab]_vars => EngineStudied' /\ MacroStudied'
<1> SUFFICES ASSUME EngineStudied, MacroStudied, [NextLab]_vars
             PROVE  EngineStudied' /\ MacroStudied'
  OBVIOUS
<1>1. CASE NextEngine
  <2>1. study \in EngineStudies /\ study' = study /\ study # "macro"
    BY <1>1 DEF NextEngine, Exec, Engine, Btc, NextBar, EngineStudies
  <2>2. EngineInv
    BY <2>1 DEF EngineStudied
  <2>3. EngineInv'
    BY <1>1, <2>2, ExecKeeps, EngineKeeps, BtcKeeps DEF NextEngine
  <2>4. QED
    BY SMTT(30), <2>1, <2>3 DEF EngineStudied, MacroStudied
<1>2. CASE NextMacro
  <2>1. study = "macro" /\ study' = "macro"
    BY <1>2 DEF NextMacro, NextDay, AskMacro, Refresh, RestartStrategies, NextBar
  <2>2. MacroInv
    BY <2>1 DEF MacroStudied
  <2>3. MacroInv'
    BY <1>2, <2>2, NextDayKeeps, AskMacroKeeps, RefreshKeeps, RestartKeeps DEF NextMacro
  <2>4. QED
    BY <2>1, <2>3 DEF EngineStudied, MacroStudied, EngineStudies
<1>3. CASE OtherSteps
  <2>1. study \notin Proved /\ study' = study
    BY <1>3, OthersGoOn
  <2>2. QED
    BY <2>1 DEF EngineStudied, MacroStudied, Proved
<1>4. CASE UNCHANGED vars
  <2>1. UNCHANGED <<study, tape, mem, out>>
    BY <1>4 DEF vars
  <2>2. EngineStudied'
    BY <2>1 DEF EngineStudied, EngineInv, EngineTypes, Scanned, Timed, Waits
  <2>3. MacroStudied'
    BY <2>1 DEF MacroStudied, MacroInv, MacroTypes, AllKnown, Answered, IsStale, Today
  <2>4. QED
    BY <2>2, <2>3
<1>5. QED
  BY <1>1, <1>2, <1>3, <1>4 DEF NextLab, OtherSteps

\* It holds always.
LEMMA LabInvariant == SpecLab => [](EngineStudied /\ MacroStudied)
<1>1. InitLab => EngineStudied /\ MacroStudied
  BY LabBegins
<1>2. EngineStudied /\ MacroStudied /\ [NextLab]_vars => EngineStudied' /\ MacroStudied'
  BY LabGoesOn
<1>3. QED
  BY <1>1, <1>2, PTL DEF SpecLab

\* What the invariant says of times.
LEMMA InvEnds == EngineStudied => EndsInTime
<1> SUFFICES ASSUME EngineStudied, study \in EngineStudies PROVE EndsInTime
  BY DEF EndsInTime
<1>1. EngineInv
  BY DEF EngineStudied
<1>2. mem \in Memory /\ out \in Seq(TradeRecord) /\ Timed
  BY <1>1 DEF EngineInv, EngineTypes
<1>3. ASSUME NEW i \in DOMAIN out
      PROVE  /\ mem.limit # 0 /\ study # "engine" => out[i].exit - out[i].from < Lasts
             /\ out[i].reason = "TIMEOUT" => out[i].exit - out[i].from + 1 = Lasts
             /\ out[i].reason = "EOD" => out[i].exit = Length["exec"]
  <2>1. InTime(out[i], study, mem.limit)
    BY <1>2 DEF Timed
  <2>2. QED
    BY <2>1 DEF InTime, Lasts
<1>4. study # "engine" /\ Len(tape) = Length[study] => FlatEngine
  <2>1. mem.trade # NoTrade => Within(mem.trade, study, mem.limit, Len(tape))
    BY <1>2 DEF Timed
  <2>2. Length[study] \in Nat
    BY InputsAreFull, TapesAreFinite
  <2>3. QED
    BY <2>1, <2>2 DEF Within, FlatEngine, EngineStudies
<1>5. \A i, j \in DOMAIN out :
         i < j => out[j].from > out[i].exit + IF study = "btc" THEN Cooldown ELSE 0
  BY <1>2 DEF Timed, Rest
<1>6. QED
  BY <1>3, <1>4, <1>5 DEF EndsInTime

\* What the invariant says of fills.
LEMMA InvHonest == EngineStudied => PendingHonest
<1> SUFFICES ASSUME EngineStudied, study = "engine",
                    NEW t \in Range(out) \cup ({mem.trade} \ {NoTrade})
             PROVE  LET since == t.order.detected + 1
                        free(j) == \A i \in DOMAIN out : ~(out[i].from < j /\ j < out[i].exit)
                    IN  /\ t.from \in since..(t.order.detected + ValidBars)
                        /\ \A j \in since..t.from : t.side * tape[j].c >= t.side * t.order.cancel
                        /\ \A j \in since..(t.from - 1) : free(j) => ~Fills(t.order, tape[j])
                        /\ t.fill - t.side * Spread \in tape[t.from].l..tape[t.from].h
                        /\ t.side * (t.tp - t.fill) = t.side * (t.order.tp - t.order.entry)
  BY DEF PendingHonest
<1>1. EngineInv
  BY DEF EngineStudied, EngineStudies
<1>2. (\A i \in DOMAIN out : Honest(out[i], tape)) /\ (mem.trade # NoTrade => Honest(mem.trade, tape))
  BY <1>1 DEF EngineInv, Waits
<1>3. Honest(t, tape)
  BY <1>2 DEF Range
<1>4. QED
  BY <1>3 DEF Honest

\* What the invariant says of exits.
LEMMA InvFirst == EngineStudied /\ study \in EngineStudies => ExitIsFirst
<1> SUFFICES ASSUME EngineStudied, study \in EngineStudies, NEW i \in DOMAIN out
             PROVE  LET t == out[i]
                        touched == StopBars(t) \cup TargetBars(t)
                    IN  /\ \A j \in touched : t.exit <= j
                        /\ t.reason = "SL" <=> t.exit \in StopBars(t)
                        /\ t.reason = "TP" <=> t.exit \in TargetBars(t) \ StopBars(t)
  BY DEF ExitIsFirst
<1> DEFINE t == out[i]
<1>1. tape \in Seq(OhlcBar) /\ t \in TradeRecord /\ Over(t, study, tape)
  BY DEF EngineStudied, EngineInv, EngineTypes, Scanned
<1> HIDE DEF t
<1>2. /\ Watched(t) = First(t, study) /\ Watched(t) \in Nat
      /\ t.from \in Nat /\ t.exit \in Nat /\ Len(tape) \in Nat
  BY <1>1 DEF Watched, First, TradeRecord
<1>3. t.exit \in Watched(t)..Len(tape) /\ Watched(t) >= 1
  BY <1>1, <1>2 DEF Over, First
<1>4. \A j \in Watched(t)..Len(tape) : tape[j] \in OhlcBar
  BY <1>1, <1>2, <1>3
<1>5. ASSUME NEW j \in Watched(t)..Len(tape)
      PROVE  /\ Verdict(t, tape[j]) = "none" => j \notin StopBars(t) /\ j \notin TargetBars(t)
             /\ Verdict(t, tape[j]) = "SL" <=> j \in StopBars(t)
             /\ Verdict(t, tape[j]) = "TP" <=> j \in TargetBars(t) \ StopBars(t)
  <2>1. tape[j] \in OhlcBar
    BY <1>4
  <2>2. /\ j \in StopBars(t) <=> IF t.side = 1 THEN tape[j].l <= t.sl ELSE tape[j].h >= t.sl
        /\ j \in TargetBars(t) <=> IF t.side = 1 THEN tape[j].h >= t.tp ELSE tape[j].l <= t.tp
    BY DEF StopBars, TargetBars
  <2>3. QED
    BY <1>1, <2>1, <2>2, VerdictIs
<1>6. ASSUME NEW j \in StopBars(t) \cup TargetBars(t) PROVE t.exit <= j
  <2>1. j \in Watched(t)..Len(tape)
    BY DEF StopBars, TargetBars
  <2>2. ASSUME j < t.exit PROVE FALSE
    <3>1. j \in First(t, study)..(t.exit - 1)
      BY <1>2, <2>1, <2>2
    <3>2. Verdict(t, tape[j]) = "none"
      BY <1>1, <3>1 DEF Over, Clean
    <3>3. QED
      BY <1>5, <2>1, <3>2
  <2>3. QED
    BY <1>2, <2>1, <2>2
<1>7. /\ t.reason = "SL" <=> t.exit \in StopBars(t)
      /\ t.reason = "TP" <=> t.exit \in TargetBars(t) \ StopBars(t)
  BY <1>1, <1>3, <1>5 DEF Over
<1>8. QED
  BY <1>6, <1>7 DEF t

\* A trade lasts as long as its limit allows and no longer, none is left open, and
\* the next one begins after the last one and its cooldown: exec_sim.py and both
\* engine.py, for any setups, prices, limits and costs.
THEOREM TradesEndInTime == SpecLab => []EndsInTime
BY LabInvariant, InvEnds, PTL

\* A pending order of xauusd_strategies/engine.py is filled on the first bar that
\* reaches it, within its life and before a close beyond its cancel level.
THEOREM PendingOrdersHonest == SpecLab => []PendingHonest
BY LabInvariant, InvHonest, PTL

\* A trade of an engine ends on the first bar that reaches its stop or its target,
\* as a loss if that bar reaches both, and its reason says so.
THEOREM EnginesExitFirst == SpecLab => [](study \in EngineStudies => ExitIsFirst)
<1>1. EngineStudied => (study \in EngineStudies => ExitIsFirst)
  BY InvFirst
<1>2. QED
  BY <1>1, LabInvariant, PTL

\* The gate on yields gives one answer a day that neither today's yield nor a file
\* that changes can turn, from yields that are final but for the last: the part of
\* the property that shared/macro_gate.py is about, for any yields, files, answers of
\* the provider, restarts and numbers of questions.
THEOREM MacroGateIsKept == SpecLab => [](study = "macro" => GatesHold)
<1>1. MacroStudied => (study = "macro" => GatesHold)
  <2> SUFFICES ASSUME MacroStudied, study = "macro" PROVE GatesHold
    OBVIOUS
  <2>1. OneAnswerPerDay /\ AnswersAreCausal /\ YieldsAreKnown
    BY InvOneAnswer, InvCausal, InvYields DEF MacroStudied
  <2>2. QED
    BY <2>1 DEF GatesHold, MacroGateHolds, EventGateHolds
<1>2. QED
  BY <1>1, LabInvariant, PTL

-----------------------------------------------------------------------------
(***************************************************************************)
(* Sums.  SumFunction takes the elements of the domain in some order by a   *)
(* recursive function; that there is one, and what it returns, follows     *)
(* from the well-founded order of the subsets of a finite set.             *)
(***************************************************************************)
\* Every set of subsets of a finite set has a least member.
LEMMA LeastSubset ==
    ASSUME NEW S, IsFiniteSet(S), NEW T, T \subseteq SUBSET S, T # {}
    PROVE  \E s \in T : \A u \in T : u \subseteq s => u = s
<1>1. IsWellFoundedOn(StrictSubsetOrdering(S), SUBSET S)
  BY FS_FiniteSubsetsOfFinite, FS_StrictSubsetOrderingWellFounded
<1>2. PICK s \in T : \A u \in T : ~(<<u, s>> \in StrictSubsetOrdering(S))
  BY <1>1, WFMin
<1>3. QED
  BY <1>2 DEF StrictSubsetOrdering

\* h sums F over the subsets of S, in the order of the fold.
Chosen(s) == CHOOSE x \in s : TRUE

\* A function that sums F over the subsets of S, as the fold does.
Sums(F, S, h) ==
    h = [s \in SUBSET S |-> IF s = {} THEN 0 ELSE F[Chosen(s)] + h[s \ {Chosen(s)}]]

\* The element that the fold takes from a set is one of it.
LEMMA ChosenIn == ASSUME NEW s, s # {} PROVE Chosen(s) \in s
BY DEF Chosen

\* What such a function returns.
LEMMA SumsAt ==
    ASSUME NEW F, NEW S, NEW h, Sums(F, S, h), NEW s \in SUBSET S
    PROVE  h[s] = IF s = {} THEN 0 ELSE F[Chosen(s)] + h[s \ {Chosen(s)}]
<1> DEFINE b(t) == IF t = {} THEN 0 ELSE F[Chosen(t)] + h[t \ {Chosen(t)}]
<1>1. h = [t \in SUBSET S |-> b(t)]
  BY DEF Sums
<1> HIDE DEF b
<1>2. h[s] = b(s)
  BY <1>1
<1>3. QED
  BY <1>2 DEF b

\* The value at the whole set.
LEMMA SumOfAll ==
    ASSUME NEW F, NEW S, NEW h, Sums(F, S, h)
    PROVE  h[S] = IF S = {} THEN 0 ELSE F[Chosen(S)] + h[S \ {Chosen(S)}]
<1>1. S \in SUBSET S
  OBVIOUS
<1>2. QED
  BY <1>1, SumsAt

\* Two such functions agree where both are defined.
LEMMA SumsAgree ==
    ASSUME NEW S, IsFiniteSet(S), NEW F, NEW A \in SUBSET S, NEW B \in SUBSET S,
           NEW g, Sums(F, A, g), NEW h, Sums(F, B, h), NEW v, v \subseteq A, v \subseteq B
    PROVE  g[v] = h[v]
<1> DEFINE T == {s \in SUBSET S : s \subseteq A /\ s \subseteq B /\ g[s] # h[s]}
<1>1. SUFFICES ASSUME T # {} PROVE FALSE
  OBVIOUS
<1>2. PICK s \in T : \A u \in T : u \subseteq s => u = s
  <2>1. T \subseteq SUBSET S
    OBVIOUS
  <2> HIDE DEF T
  <2>2. QED
    BY <1>1, <2>1, LeastSubset
<1>3. /\ g[s] = IF s = {} THEN 0 ELSE F[Chosen(s)] + g[s \ {Chosen(s)}]
      /\ h[s] = IF s = {} THEN 0 ELSE F[Chosen(s)] + h[s \ {Chosen(s)}]
  <2>1. s \in SUBSET A /\ s \in SUBSET B
    BY <1>2
  <2> HIDE DEF T
  <2>2. QED
    BY <2>1, SumsAt
<1>4. s # {}
  <2>1. ASSUME s = {} PROVE FALSE
    <3>1. g[s] = 0 /\ h[s] = 0
      BY <1>3, <2>1
    <3>2. QED
      BY <1>2, <3>1
  <2>2. QED
    BY <2>1
<1>5. Chosen(s) \in s
  BY <1>4, ChosenIn
<1>6. s \ {Chosen(s)} \notin T
  BY <1>2, <1>5
<1>7. g[s \ {Chosen(s)}] = h[s \ {Chosen(s)}]
  BY <1>2, <1>6
<1>8. QED
  BY <1>2, <1>3, <1>4, <1>7

\* There is such a function, and it returns integers.
LEMMA SumsExist ==
    ASSUME NEW S, IsFiniteSet(S), NEW F \in [S -> Int]
    PROVE  \E h \in [SUBSET S -> Int] : Sums(F, S, h)
<1> DEFINE Has(s) == \E h \in [SUBSET s -> Int] : Sums(F, s, h)
           T == {s \in SUBSET S : ~Has(s)}
<1> HIDE DEF Has
<1>1. SUFFICES ASSUME T # {} PROVE FALSE
  <2>1. T = {} => Has(S)
    OBVIOUS
  <2>2. QED
    BY <2>1 DEF Has
<1>2. PICK s \in T : \A u \in T : u \subseteq s => u = s
  <2>1. T \subseteq SUBSET S
    OBVIOUS
  <2> HIDE DEF T
  <2>2. QED
    BY <1>1, <2>1, LeastSubset
<1> DEFINE sum(u) == CHOOSE h \in [SUBSET u -> Int] : Sums(F, u, h)
           b(u) == IF u = {} THEN 0 ELSE F[Chosen(u)] + sum(u \ {Chosen(u)})[u \ {Chosen(u)}]
           g == [u \in SUBSET s |-> b(u)]
<1>3. \A u \in SUBSET s : u # s => sum(u) \in [SUBSET u -> Int] /\ Sums(F, u, sum(u))
  BY <1>2 DEF Has
<1> HIDE DEF sum
<1>4. \A u \in SUBSET s : u # {} => /\ Chosen(u) \in u /\ u \ {Chosen(u)} \in SUBSET s
                                    /\ u \ {Chosen(u)} # s
  BY ChosenIn
<1>5. \A u \in SUBSET s : u # s => b(u) = sum(u)[u]
  <2> SUFFICES ASSUME NEW u \in SUBSET s, u # s PROVE b(u) = sum(u)[u]
    OBVIOUS
  <2>1. Sums(F, u, sum(u))
    BY <1>3
  <2>2. sum(u)[u] = IF u = {} THEN 0 ELSE F[Chosen(u)] + sum(u)[u \ {Chosen(u)}]
    BY <2>1, SumOfAll
  <2>3. ASSUME u # {} PROVE sum(u)[u \ {Chosen(u)}] = sum(u \ {Chosen(u)})[u \ {Chosen(u)}]
    <3> DEFINE v == u \ {Chosen(u)}
    <3>1. v \in SUBSET s /\ v \subseteq u /\ v # s
      BY <1>4, <2>3
    <3> HIDE DEF v
    <3>2. Sums(F, v, sum(v))
      BY <1>3, <3>1
    <3>3. s \in SUBSET S
      BY <1>2
    <3>4. sum(u)[v] = sum(v)[v]
      BY <2>1, <3>1, <3>2, <3>3, SumsAgree
    <3>5. QED
      BY <3>4 DEF v
  <2>4. QED
    BY <2>2, <2>3
<1>6. \A u \in SUBSET s : b(u) \in Int
  <2> SUFFICES ASSUME NEW u \in SUBSET s, u # {} PROVE b(u) \in Int
    OBVIOUS
  <2> DEFINE v == u \ {Chosen(u)}
  <2>1. v \in SUBSET s /\ v # s /\ Chosen(u) \in S
    BY <1>2, <1>4
  <2>2. sum(v)[v] \in Int
    <3> HIDE DEF v
    <3>1. sum(v) \in [SUBSET v -> Int]
      BY <1>3, <2>1
    <3>2. QED
      BY <3>1
  <2>3. QED
    BY <2>1, <2>2
<1>7. g \in [SUBSET s -> Int]
  <2> HIDE DEF b
  <2>1. QED
    BY <1>6
<1>8. \A u \in SUBSET s : u # {} => g[u \ {Chosen(u)}] = sum(u \ {Chosen(u)})[u \ {Chosen(u)}]
  <2> SUFFICES ASSUME NEW u \in SUBSET s, u # {}
               PROVE  g[u \ {Chosen(u)}] = sum(u \ {Chosen(u)})[u \ {Chosen(u)}]
    OBVIOUS
  <2> DEFINE v == u \ {Chosen(u)}
  <2>1. v \in SUBSET s /\ v # s
    BY <1>4
  <2> HIDE DEF v
  <2>2. b(v) = sum(v)[v]
    BY <1>5, <2>1
  <2> HIDE DEF b
  <2>3. g[v] = b(v)
    BY <2>1
  <2>4. QED
    BY <2>2, <2>3 DEF v
<1>9. Sums(F, s, g)
  <2> DEFINE c(u) == IF u = {} THEN 0 ELSE F[Chosen(u)] + g[u \ {Chosen(u)}]
  <2> HIDE DEF g
  <2>1. \A u \in SUBSET s : b(u) = c(u)
    BY <1>8
  <2>2. g = [u \in SUBSET s |-> b(u)]
    BY DEF g
  <2> HIDE DEF b, c
  <2>3. g = [u \in SUBSET s |-> c(u)]
    BY <2>1, <2>2
  <2>4. QED
    BY <2>3 DEF Sums, c
<1>10. QED
  BY <1>2, <1>7, <1>9 DEF Has

\* What is summed is an integer.  If nothing is negative, no summand is more than the sum.
LEMMA SumsGrow ==
    ASSUME NEW S, IsFiniteSet(S), NEW F \in [S -> Int], NEW h \in [SUBSET S -> Int], Sums(F, S, h),
           \A x \in S : F[x] >= 0
    PROVE  \A s \in SUBSET S : h[s] >= 0 /\ \A x \in s : h[s] >= F[x]
<1> DEFINE Good(s) == h[s] >= 0 /\ \A x \in s : h[s] >= F[x]
           T == {s \in SUBSET S : ~Good(s)}
<1>1. SUFFICES ASSUME T # {} PROVE FALSE
  OBVIOUS
<1>2. PICK s \in T : \A u \in T : u \subseteq s => u = s
  <2>1. T \subseteq SUBSET S
    OBVIOUS
  <2> HIDE DEF T
  <2>2. QED
    BY <1>1, <2>1, LeastSubset
<1>3. s \in SUBSET S /\ ~Good(s)
  BY <1>2
<1>4. h[s] = IF s = {} THEN 0 ELSE F[Chosen(s)] + h[s \ {Chosen(s)}]
  <2>1. \A u \in SUBSET S : h[u] = IF u = {} THEN 0 ELSE F[Chosen(u)] + h[u \ {Chosen(u)}]
    BY SumsAt
  <2> HIDE DEF T
  <2>2. QED
    BY <1>3, <2>1
<1>5. s # {}
  <2>1. ASSUME s = {} PROVE FALSE
    <3>1. h[s] = 0
      BY <1>4, <2>1
    <3>2. Good(s)
      BY <2>1, <3>1
    <3>3. QED
      BY <1>3, <3>2
  <2>2. QED
    BY <2>1
<1> DEFINE x == Chosen(s)
           r == s \ {x}
<1>6. x \in s /\ r \in SUBSET S /\ r \subseteq s /\ r # s
  BY <1>3, <1>5, ChosenIn
<1>7. Good(r)
  BY <1>2, <1>6
<1> HIDE DEF x
<1>8. h[s] = F[x] + h[r]
  BY <1>4, <1>5 DEF x
<1>9. F[x] \in Int /\ F[x] >= 0 /\ h[r] \in Int /\ h[r] >= 0 /\ \A y \in r : F[y] \in Int /\ h[r] >= F[y]
  BY <1>3, <1>6, <1>7
<1> HIDE DEF r
<1>10. h[s] >= 0 /\ h[s] >= F[x] /\ \A y \in r : h[s] >= F[y]
  BY <1>8, <1>9
<1>11. \A y \in s : y = x \/ y \in r
  BY DEF r
<1>12. QED
  BY <1>3, <1>10, <1>11

\* The same of SumFunction.
LEMMA SumIs ==
    ASSUME NEW S, IsFiniteSet(S), NEW F \in [S -> Int]
    PROVE  /\ SumFunction(F) \in Int
           /\ (\A x \in S : F[x] >= 0) => SumFunction(F) >= 0 /\ \A x \in S : SumFunction(F) >= F[x]
<1> DEFINE g == CHOOSE h : Sums(F, S, h)
<1>1. PICK h \in [SUBSET S -> Int] : Sums(F, S, h)
  BY SumsExist
<1>2. Sums(F, S, g)
  BY <1>1
<1> HIDE DEF g
<1>3. g[S] = h[S] /\ h[S] \in Int
  BY <1>1, <1>2, SumsAgree
<1>4. SumFunction(F) = g[S]
  <2>1. DOMAIN F = S
    OBVIOUS
  <2> DEFINE a(h2) == [s \in SUBSET S |-> IF s = {} THEN 0 ELSE F[Chosen(s)] + h2[s \ {Chosen(s)}]]
  <2>2. SumFunction(F) = (CHOOSE h2 : h2 = a(h2))[S]
    BY <2>1 DEF SumFunction, SumFunctionOnSet, FoldFunctionOnSet, MapThenFoldSet, Chosen
  <2>3. g = CHOOSE h2 : h2 = a(h2)
    BY DEF g, Sums
  <2>4. QED
    BY <2>2, <2>3
<1>5. (\A x \in S : F[x] >= 0) => h[S] >= 0 /\ \A x \in S : h[S] >= F[x]
  <2>1. S \in SUBSET S
    OBVIOUS
  <2>2. QED
    BY <1>1, <2>1, SumsGrow
<1>6. QED
  BY <1>3, <1>4, <1>5

-----------------------------------------------------------------------------
(***************************************************************************)
(* Sums, in any order.                                                     *)
(***************************************************************************)
\* The sum is the value of such a function at the whole set.
LEMMA SumAt ==
    ASSUME NEW S, IsFiniteSet(S), NEW F \in [S -> Int]
    PROVE  \E h \in [SUBSET S -> Int] : Sums(F, S, h) /\ SumFunction(F) = h[S]
<1> DEFINE g == CHOOSE h : Sums(F, S, h)
<1>1. PICK h \in [SUBSET S -> Int] : Sums(F, S, h)
  BY SumsExist
<1>2. Sums(F, S, g)
  BY <1>1
<1> HIDE DEF g
<1>3. g[S] = h[S]
  BY <1>1, <1>2, SumsAgree
<1>4. SumFunction(F) = g[S]
  <2>1. DOMAIN F = S
    OBVIOUS
  <2> DEFINE a(h2) == [s \in SUBSET S |-> IF s = {} THEN 0 ELSE F[Chosen(s)] + h2[s \ {Chosen(s)}]]
  <2>2. SumFunction(F) = (CHOOSE h2 : h2 = a(h2))[S]
    BY <2>1 DEF SumFunction, SumFunctionOnSet, FoldFunctionOnSet, MapThenFoldSet, Chosen
  <2>3. g = CHOOSE h2 : h2 = a(h2)
    BY DEF g, Sums
  <2>4. QED
    BY <2>2, <2>3
<1>5. QED
  BY <1>1, <1>3, <1>4

\* Any summand may be taken first.
AnyOrder(F, S, h) == \A x \in S : h[S] = F[x] + h[S \ {x}]

\* Whatever summand is taken first, the rest of them makes up the sum.
LEMMA SumsAnyOrder ==
    ASSUME NEW S, IsFiniteSet(S), NEW F \in [S -> Int], NEW h \in [SUBSET S -> Int], Sums(F, S, h)
    PROVE  AnyOrder(F, S, h)
<1> SUFFICES \A s \in SUBSET S : \A x \in s : h[s] = F[x] + h[s \ {x}]
  BY DEF AnyOrder
<1> DEFINE Good(s) == \A x \in s : h[s] = F[x] + h[s \ {x}]
           T == {s \in SUBSET S : ~Good(s)}
<1>1. SUFFICES ASSUME T # {} PROVE FALSE
  OBVIOUS
<1>2. PICK s \in T : \A u \in T : u \subseteq s => u = s
  <2>1. T \subseteq SUBSET S
    OBVIOUS
  <2> HIDE DEF T
  <2>2. QED
    BY <1>1, <2>1, LeastSubset
<1>3. s \in SUBSET S /\ ~Good(s)
  BY <1>2
<1>4. PICK x \in s : h[s] # F[x] + h[s \ {x}]
  BY <1>3
<1>5. \A u \in SUBSET S : u # {} => h[u] = F[Chosen(u)] + h[u \ {Chosen(u)}]
  <2>1. \A u \in SUBSET S : h[u] = IF u = {} THEN 0 ELSE F[Chosen(u)] + h[u \ {Chosen(u)}]
    BY SumsAt
  <2>2. QED
    BY <2>1
<1> DEFINE y == Chosen(s)
<1>6. y \in s /\ h[s] = F[y] + h[s \ {y}]
  BY <1>3, <1>4, <1>5, ChosenIn
<1> HIDE DEF y
<1>7. x # y
  BY <1>4, <1>6
<1> DEFINE p == s \ {x}
           q == s \ {y}
           r == (s \ {x}) \ {y}
<1>8. /\ p \in SUBSET S /\ q \in SUBSET S /\ r \in SUBSET S /\ r = q \ {x} /\ r = p \ {y}
      /\ p \subseteq s /\ q \subseteq s /\ p # s /\ q # s /\ y \in p /\ x \in q
  BY <1>3, <1>4, <1>6, <1>7
<1>9. Good(p) /\ Good(q)
  <2> HIDE DEF p, q, Good
  <2>1. p \notin T /\ q \notin T
    <3> HIDE DEF T
    <3>1. QED
      BY <1>2, <1>8
  <2>2. QED
    BY <1>8, <2>1
<1>10. h[p] = F[y] + h[r] /\ h[q] = F[x] + h[r]
  BY <1>8, <1>9
<1>11. h[s] \in Int /\ h[p] \in Int /\ h[q] \in Int /\ h[r] \in Int /\ F[x] \in Int /\ F[y] \in Int
  BY <1>3, <1>4, <1>6, <1>8
<1> DEFINE hs == h[s]
           hp == h[p]
           hq == h[q]
           hr == h[r]
           fx == F[x]
           fy == F[y]
<1>12. hs # fx + hp /\ hs = fy + hq /\ hp = fy + hr /\ hq = fx + hr
  BY <1>4, <1>6, <1>10
<1> HIDE DEF hs, hp, hq, hr, fx, fy
<1>13. hs \in Int /\ hp \in Int /\ hq \in Int /\ hr \in Int /\ fx \in Int /\ fy \in Int
  BY <1>11 DEF hs, hp, hq, hr, fx, fy
<1>14. QED
  BY <1>12, <1>13

\* A sum, and the one without a summand.
Without(G, R, F, S, x) ==
    /\ IsFiniteSet(S) /\ F \in [S -> Int] /\ x \in S
    /\ R = S \ {x} /\ G \in [R -> Int] /\ \A i \in R : G[i] = F[i]

\* The sum is the one without a summand, and the summand.
LEMMA SumWithout ==
    ASSUME NEW G, NEW R, NEW F, NEW S, NEW x, Without(G, R, F, S, x)
    PROVE  SumFunction(F) = F[x] + SumFunction(G) /\ SumFunction(G) \in Int
<1> USE DEF Without
<1>1. R \in SUBSET S /\ IsFiniteSet(R) /\ G \in [R -> Int]
  <2>1. R \in SUBSET S
    OBVIOUS
  <2>2. QED
    BY <2>1, FS_Subset
<1>2. PICK h \in [SUBSET S -> Int] : Sums(F, S, h) /\ SumFunction(F) = h[S]
  BY SumAt
<1>3. PICK g \in [SUBSET R -> Int] : Sums(G, R, g) /\ SumFunction(G) = g[R]
  BY <1>1, SumAt
<1>4. Sums(F, R, g)
  <2> DEFINE b(s) == IF s = {} THEN 0 ELSE G[Chosen(s)] + g[s \ {Chosen(s)}]
             c(s) == IF s = {} THEN 0 ELSE F[Chosen(s)] + g[s \ {Chosen(s)}]
  <2>1. g = [s \in SUBSET R |-> b(s)]
    BY <1>3 DEF Sums
  <2>2. \A s \in SUBSET R : b(s) = c(s)
    <3> SUFFICES ASSUME NEW s \in SUBSET R PROVE b(s) = c(s)
      OBVIOUS
    <3>1. CASE s = {}
      BY <3>1
    <3>2. CASE s # {}
      <4>1. Chosen(s) \in R
        BY <3>2, ChosenIn
      <4>2. G[Chosen(s)] = F[Chosen(s)]
        BY <4>1
      <4>3. QED
        BY <4>2
    <3>3. QED
      BY <3>1, <3>2
  <2> HIDE DEF b, c
  <2>3. g = [s \in SUBSET R |-> c(s)]
    BY <2>1, <2>2
  <2>4. QED
    BY <2>3 DEF c, Sums
<1>5. g[R] = h[R]
  <2>1. R \subseteq R /\ R \subseteq S /\ S \in SUBSET S /\ R \in SUBSET S
    BY <1>1
  <2>2. Sums(F, R, g) /\ Sums(F, S, h)
    BY <1>2, <1>4
  <2>3. QED
    BY <2>1, <2>2, SumsAgree
<1>6. h[S] = F[x] + h[S \ {x}]
  <2>1. S \in SUBSET S /\ Sums(F, S, h)
    BY <1>2
  <2>2. AnyOrder(F, S, h)
    BY <2>1, SumsAnyOrder
  <2>3. QED
    BY <2>2 DEF AnyOrder
<1>7. g[R] \in Int
  OBVIOUS
<1>8. QED
  BY <1>2, <1>3, <1>5, <1>6, <1>7

\* The sum of nothing.
LEMMA SumOfNone == ASSUME NEW F, DOMAIN F = {}, F \in [{} -> Int] PROVE SumFunction(F) = 0
<1>1. IsFiniteSet({})
  BY FS_EmptySet
<1>2. PICK h \in [SUBSET {} -> Int] : Sums(F, {}, h) /\ SumFunction(F) = h[{}]
  BY <1>1, SumAt
<1>3. h[{}] = 0
  <2>1. h[{}] = IF {} = {} THEN 0 ELSE F[Chosen({})] + h[{} \ {Chosen({})}]
    BY <1>2, SumOfAll
  <2>2. QED
    BY <2>1
<1>4. QED
  BY <1>2, <1>3

\* What a sum takes from a set, and the rest of it.
Taken(F, h, s) == IF s = {} THEN 0 ELSE F[Chosen(s)] + h[s \ {Chosen(s)}]

\* A sum takes its first summand from the set.
LEMMA SumsTake ==
    ASSUME NEW F, NEW S, NEW h, Sums(F, S, h)
    PROVE  \A s \in SUBSET S : h[s] = Taken(F, h, s)
<1>1. \A s \in SUBSET S : h[s] = IF s = {} THEN 0 ELSE F[Chosen(s)] + h[s \ {Chosen(s)}]
  BY SumsAt
<1>2. QED
  BY <1>1 DEF Taken

\* A factor of every summand is one of the sum.
LEMMA SumScaled ==
    ASSUME NEW S, IsFiniteSet(S), NEW F \in [S -> Int], NEW G \in [S -> Int], NEW d \in Int,
           \A x \in S : G[x] = d * F[x]
    PROVE  SumFunction(G) = d * SumFunction(F)
<1>1. PICK f \in [SUBSET S -> Int] : Sums(F, S, f) /\ SumFunction(F) = f[S]
  BY SumAt
<1>2. PICK g \in [SUBSET S -> Int] : Sums(G, S, g) /\ SumFunction(G) = g[S]
  BY SumAt
<1> DEFINE T == {s \in SUBSET S : g[s] # d * f[s]}
<1>3. T = {}
  <2>1. SUFFICES ASSUME T # {} PROVE FALSE
    OBVIOUS
  <2>2. PICK s \in T : \A u \in T : u \subseteq s => u = s
    <3>1. T \subseteq SUBSET S
      OBVIOUS
    <3> HIDE DEF T
    <3>2. QED
      BY <2>1, <3>1, LeastSubset
  <2>3. s \in SUBSET S /\ g[s] # d * f[s]
    BY <2>2
  <2>4. /\ s = {} => f[s] = 0 /\ g[s] = 0
        /\ s # {} => f[s] = F[Chosen(s)] + f[s \ {Chosen(s)}] /\ g[s] = G[Chosen(s)] + g[s \ {Chosen(s)}]
    <3>1. s \in SUBSET S /\ Sums(F, S, f) /\ Sums(G, S, g)
      BY <1>1, <1>2, <2>3
    <3> HIDE DEF T
    <3>2. f[s] = Taken(F, f, s) /\ g[s] = Taken(G, g, s)
      BY <3>1, SumsTake
    <3>3. QED
      BY <3>2 DEF Taken
  <2>5. s # {}
    <3>1. ASSUME s = {} PROVE FALSE
      <4>1. f[s] = 0 /\ g[s] = 0
        BY <2>4, <3>1
      <4>2. QED
        BY <2>3, <4>1
    <3>2. QED
      BY <3>1
  <2> DEFINE x == Chosen(s)
             r == s \ {x}
  <2>6. x \in s /\ x \in S /\ r \in SUBSET S /\ r \subseteq s /\ r # s
    BY <2>3, <2>5, ChosenIn
  <2>7. g[r] = d * f[r]
    <3> HIDE DEF r
    <3>1. r \notin T
      <4> HIDE DEF T
      <4>1. QED
        BY <2>2, <2>6
    <3>2. QED
      BY <2>6, <3>1
  <2>8. f[s] = F[x] + f[r] /\ g[s] = G[x] + g[r]
    BY <2>4, <2>5
  <2> HIDE DEF x
  <2> DEFINE fs == f[s]
             fr == f[r]
             fx == F[x]
  <2>9. fs \in Int /\ fr \in Int /\ fx \in Int /\ fs = fx + fr /\ g[s] = d * fx + d * fr
    BY <2>3, <2>6, <2>7, <2>8
  <2>10. g[s] # d * fs
    BY <2>3
  <2> HIDE DEF fs, fr, fx
  <2>11. d * (fx + fr) = d * fx + d * fr
    BY <2>9
  <2>12. QED
    BY <2>9, <2>10, <2>11
<1>4. S \in SUBSET S /\ S \notin T
  BY <1>3
<1>5. QED
  BY <1>1, <1>2, <1>4

-----------------------------------------------------------------------------
(***************************************************************************)
(* Finite sets, and the sequences that are made of them.                   *)
(***************************************************************************)
\* What a function makes of a finite set is finite.
LEMMA ImageIsFinite ==
    ASSUME NEW S, IsFiniteSet(S), NEW f
    PROVE  IsFiniteSet({f[x] : x \in S})
<1> DEFINE T == {f[x] : x \in S}
           g == [x \in S |-> f[x]]
<1>1. g \in Surjection(S, T)
  BY DEF Surjection
<1> HIDE DEF g, T
<1>2. IsFiniteSet(T)
  BY <1>1, FS_Surjection
<1>3. QED
  BY <1>2 DEF T

\* A set of two directions is finite.
LEMMA SidesAreFinite == IsFiniteSet(Sides)
<1>1. IsFiniteSet({1}) /\ IsFiniteSet({1} \cup {-1})
  BY FS_Singleton, FS_AddElement
<1>2. Sides = {1} \cup {-1}
  BY DEF Sides
<1>3. QED
  BY <1>1, <1>2

\* The least of finitely many numbers.
LEMMA MinIsOne ==
    ASSUME NEW S, IsFiniteSet(S), S # {}, S \subseteq Int
    PROVE  Min(S) \in S /\ \A y \in S : Min(S) <= y
<1> DEFINE f == [x \in S |-> -x]
           T == {f[x] : x \in S}
<1>1. IsFiniteSet(T)
  BY ImageIsFinite
<1>2. T # {} /\ T \subseteq Int
  <2>1. \A x \in S : f[x] = -x /\ f[x] \in Int
    OBVIOUS
  <2> HIDE DEF f
  <2>2. QED
    BY <2>1
<1>3. \A x \in S : -x \in T
  <2>1. \A x \in S : f[x] = -x /\ f[x] \in T
    OBVIOUS
  <2>2. QED
    BY <2>1
<1>4. PICK x \in S : Max(T) = -x
  <2> HIDE DEF T
  <2>1. Max(T) \in T
    BY <1>1, <1>2, MaxIsOne
  <2>2. QED
    BY <2>1 DEF T
<1>5. \A y \in S : Max(T) >= -y
  <2> HIDE DEF T
  <2>1. QED
    BY <1>1, <1>2, <1>3, MaxIsOne
<1> HIDE DEF T
<1>6. \A y \in S : x <= y
  BY <1>4, <1>5
<1>7. QED
  BY <1>6 DEF Min

\* A finite set as a sequence: its elements, each once.
LEMMA SeqOfSet ==
    ASSUME NEW S, IsFiniteSet(S)
    PROVE  /\ SetToSeq(S) \in Seq(S)
           /\ Range(SetToSeq(S)) = S
           /\ Len(SetToSeq(S)) = Cardinality(S)
           /\ IsInjective(SetToSeq(S))
<1> DEFINE n == Cardinality(S)
           f == SetToSeq(S)
<1>1. n \in Nat /\ \E g \in [1..n -> S] : IsInjective(g)
  BY FS_CardinalityType DEF ExistsBijection, Bijection, Injection
<1>2. f \in [1..n -> S] /\ IsInjective(f)
  BY <1>1 DEF SetToSeq
<1>3. f \in Injection(1..n, S)
  BY <1>2 DEF Injection
<1> HIDE DEF f
<1>4. f \in Surjection(1..n, S)
  <2>1. Cardinality(1..n) = n
    BY <1>1, FS_Interval
  <2> HIDE DEF n
  <2>2. QED
    BY <1>3, <2>1, FS_Injection DEF n
<1>5. Range(f) = S
  BY <1>2, <1>4 DEF Surjection, Range
<1>6. f \in Seq(S) /\ Len(f) = n
  BY <1>1, <1>2
<1>7. QED
  BY <1>2, <1>5, <1>6 DEF f

\* What a step adds to the results: the old ones stay, the others are the new ones.
LEMMA Added ==
    ASSUME NEW S, NEW q \in Seq(S), NEW e \in Seq(S)
    PROVE  /\ q \o e \in Seq(S)
           /\ Len(q \o e) = Len(q) + Len(e)
           /\ \A i \in DOMAIN (q \o e) :
                 \/ i \in DOMAIN q /\ (q \o e)[i] = q[i]
                 \/ \E j \in DOMAIN e : i = Len(q) + j /\ (q \o e)[i] = e[j]
           /\ \A i \in DOMAIN q : i \in DOMAIN (q \o e)
           /\ \A j \in DOMAIN e : Len(q) + j \in DOMAIN (q \o e)
<1>1. /\ q \o e \in Seq(S) /\ Len(q \o e) = Len(q) + Len(e)
      /\ DOMAIN q = 1..Len(q) /\ DOMAIN e = 1..Len(e) /\ DOMAIN (q \o e) = 1..(Len(q) + Len(e))
      /\ Len(q) \in Nat /\ Len(e) \in Nat
  BY ConcatProperties
<1>2. \A i \in DOMAIN (q \o e) : (q \o e)[i] = IF i <= Len(q) THEN q[i] ELSE e[i - Len(q)]
  BY ConcatProperties
<1>3. ASSUME NEW i \in DOMAIN (q \o e)
      PROVE  \/ i \in DOMAIN q /\ (q \o e)[i] = q[i]
             \/ \E j \in DOMAIN e : i = Len(q) + j /\ (q \o e)[i] = e[j]
  <2>1. i \in 1..(Len(q) + Len(e))
    BY <1>1
  <2>2. CASE i <= Len(q)
    BY <1>1, <1>2, <2>1, <2>2
  <2>3. CASE ~(i <= Len(q))
    <3>1. i - Len(q) \in DOMAIN e /\ i = Len(q) + (i - Len(q))
      BY <1>1, <2>1, <2>3
    <3>2. (q \o e)[i] = e[i - Len(q)]
      BY <1>2, <2>3
    <3>3. QED
      BY <3>1, <3>2
  <2>4. QED
    BY <2>2, <2>3
<1>4. QED
  BY <1>1, <1>3

-----------------------------------------------------------------------------
(***************************************************************************)
(* Lists of finite sets.                                                   *)
(***************************************************************************)
\* A list of anything.
IsList(q) == \E S : q \in Seq(S)

\* A list that has every element of a set once.
Lists(q, S) == IsList(q) /\ IsFiniteSet(S) /\ Range(q) = S /\ Len(q) = Cardinality(S)

\* Two of them, one after the other.
LEMMA ListsAdd ==
    ASSUME NEW q, NEW S, NEW e, NEW T, Lists(q, S), Lists(e, T), S \cap T = {}
    PROVE  Lists(q \o e, S \cup T)
<1>1. PICK A : q \in Seq(A)
  BY DEF Lists, IsList
<1>2. PICK B : e \in Seq(B)
  BY DEF Lists, IsList
<1>3. /\ q \o e \in Seq(A \cup B) /\ Len(q \o e) = Len(q) + Len(e)
      /\ Len(q) \in Nat /\ Len(e) \in Nat /\ DOMAIN q = 1..Len(q) /\ DOMAIN e = 1..Len(e)
      /\ DOMAIN (q \o e) = 1..(Len(q) + Len(e))
      /\ \A i \in 1..(Len(q) + Len(e)) : (q \o e)[i] = IF i <= Len(q) THEN q[i] ELSE e[i - Len(q)]
  BY <1>1, <1>2
<1>4. Range(q \o e) = S \cup T
  <2>1. \A i \in DOMAIN (q \o e) : (q \o e)[i] \in Range(q) \cup Range(e)
    <3> SUFFICES ASSUME NEW i \in DOMAIN (q \o e) PROVE (q \o e)[i] \in Range(q) \cup Range(e)
      OBVIOUS
    <3>1. CASE i <= Len(q)
      BY <1>3, <3>1 DEF Range
    <3>2. CASE ~(i <= Len(q))
      <4>1. i - Len(q) \in DOMAIN e /\ (q \o e)[i] = e[i - Len(q)]
        BY <1>3, <3>2
      <4>2. QED
        BY <4>1 DEF Range
    <3>3. QED
      BY <3>1, <3>2
  <2>2. \A i \in DOMAIN q : q[i] \in Range(q \o e)
    <3> SUFFICES ASSUME NEW i \in DOMAIN q PROVE q[i] \in Range(q \o e)
      OBVIOUS
    <3>1. i \in DOMAIN (q \o e) /\ (q \o e)[i] = q[i]
      BY <1>3
    <3>2. QED
      BY <3>1 DEF Range
  <2>3. \A i \in DOMAIN e : e[i] \in Range(q \o e)
    <3> SUFFICES ASSUME NEW i \in DOMAIN e PROVE e[i] \in Range(q \o e)
      OBVIOUS
    <3>1. Len(q) + i \in DOMAIN (q \o e) /\ (q \o e)[Len(q) + i] = e[i]
      BY <1>3
    <3>2. QED
      BY <3>1 DEF Range
  <2>4. Range(q \o e) = Range(q) \cup Range(e)
    BY <2>1, <2>2, <2>3 DEF Range
  <2>5. QED
    BY <2>4 DEF Lists
<1>5. IsFiniteSet(S \cup T) /\ Cardinality(S \cup T) = Cardinality(S) + Cardinality(T)
  <2>1. Cardinality(S) \in Nat /\ Cardinality(T) \in Nat /\ Cardinality({}) = 0
    BY FS_CardinalityType, FS_EmptySet DEF Lists
  <2>2. /\ IsFiniteSet(S \cup T)
        /\ Cardinality(S \cup T) = Cardinality(S) + Cardinality(T) - Cardinality(S \cap T)
    BY FS_Union DEF Lists
  <2>3. Cardinality(S \cap T) = 0
    BY <2>1
  <2>4. QED
    BY <2>1, <2>2, <2>3
<1>6. QED
  BY <1>3, <1>4, <1>5 DEF Lists, IsList

\* The list of a set, of nothing, and of one.
LEMMA SetLists ==
    ASSUME NEW S, IsFiniteSet(S)
    PROVE  Lists(SetToSeq(S), S)
BY SeqOfSet DEF Lists, IsList

\* No elements,
LEMMA NoneLists == Lists(<<>>, {})
<1>1. <<>> \in Seq({}) /\ Len(<<>>) = 0 /\ DOMAIN <<>> = {}
  OBVIOUS
<1>2. IsFiniteSet({}) /\ Cardinality({}) = 0
  BY FS_EmptySet
<1>3. QED
  BY <1>1, <1>2 DEF Lists, IsList, Range

\* or one of them.
LEMMA OneLists == ASSUME NEW s PROVE Lists(<<s>>, {s})
<1>1. <<s>> \in Seq({s}) /\ Len(<<s>>) = 1 /\ DOMAIN <<s>> = {1} /\ <<s>>[1] = s
  OBVIOUS
<1>2. IsFiniteSet({s}) /\ Cardinality({s}) = 1
  BY FS_Singleton
<1>3. Range(<<s>>) = {s}
  BY <1>1 DEF Range
<1>4. QED
  BY <1>1, <1>2, <1>3 DEF Lists, IsList

\* What a function gives on one more index.
LEMMA UnionNext ==
    ASSUME NEW f, NEW g, NEW m \in Int, NEW n \in Int, m <= n, \A k \in m..(n - 1) : g[k] = f[k]
    PROVE  UNION {g[k] : k \in m..n} = (UNION {f[k] : k \in m..(n - 1)}) \cup g[n]
<1>1. m..n = (m..(n - 1)) \cup {n}
  OBVIOUS
<1>2. ASSUME NEW k \in m..n PROVE g[k] \in {f[i] : i \in m..(n - 1)} \cup {g[n]}
  BY <1>1
<1>3. {g[k] : k \in m..n} \subseteq {f[k] : k \in m..(n - 1)} \cup {g[n]}
  BY <1>2
<1>4. ASSUME NEW k \in m..(n - 1) PROVE f[k] \in {g[i] : i \in m..n}
  <2>1. k \in m..n /\ g[k] = f[k]
    BY <1>1
  <2>2. QED
    BY <2>1
<1>5. g[n] \in {g[k] : k \in m..n}
  BY <1>1
<1>6. {g[k] : k \in m..n} = {f[k] : k \in m..(n - 1)} \cup {g[n]}
  BY <1>3, <1>4, <1>5
<1>7. QED
  BY <1>6

-----------------------------------------------------------------------------
(***************************************************************************)
(* Bars.                                                                   *)
(***************************************************************************)
\* A bar seen from the other side is a bar.
LEMMA FacingIsBar ==
    ASSUME NEW b \in Ohlc, NEW side \in Sides
    PROVE  /\ Facing(b, side) \in Ohlc
           /\ Facing(b, side).o = side * b.o
           /\ Facing(b, side).c = side * b.c
           /\ Facing(b, side).l <= side * b.c /\ side * b.c <= Facing(b, side).h
           /\ side * b.c \in Int /\ side * b.o \in Int
BY DEF Facing, Sides, Ohlc

\* The largest and the smallest of what a function makes of a finite set.
LEMMA ValuesMax ==
    ASSUME NEW S, IsFiniteSet(S), S # {}, NEW f, \A x \in S : f[x] \in Int
    PROVE  /\ Max({f[x] : x \in S}) \in Int
           /\ \E x \in S : Max({f[y] : y \in S}) = f[x]
           /\ \A x \in S : f[x] <= Max({f[y] : y \in S})
<1> DEFINE T == {f[x] : x \in S}
<1>1. IsFiniteSet(T) /\ T # {} /\ T \subseteq Int
  BY ImageIsFinite
<1>2. \A x \in S : f[x] \in T
  OBVIOUS
<1>3. \A y \in T : y \in Int /\ \E x \in S : y = f[x]
  OBVIOUS
<1> HIDE DEF T
<1>4. Max(T) \in T /\ \A y \in T : Max(T) >= y
  BY <1>1, MaxIsOne
<1>5. Max(T) \in Int /\ (\E x \in S : Max(T) = f[x]) /\ \A x \in S : f[x] <= Max(T)
  BY <1>2, <1>3, <1>4
<1>6. QED
  BY <1>5 DEF T

\* The least of the values of a function on a finite set, as ValuesMax.
LEMMA ValuesMin ==
    ASSUME NEW S, IsFiniteSet(S), S # {}, NEW f, \A x \in S : f[x] \in Int
    PROVE  /\ Min({f[x] : x \in S}) \in Int
           /\ \E x \in S : Min({f[y] : y \in S}) = f[x]
           /\ \A x \in S : Min({f[y] : y \in S}) <= f[x]
<1> DEFINE T == {f[x] : x \in S}
<1>1. IsFiniteSet(T) /\ T # {} /\ T \subseteq Int
  BY ImageIsFinite
<1>2. \A x \in S : f[x] \in T
  OBVIOUS
<1>3. \A y \in T : y \in Int /\ \E x \in S : y = f[x]
  OBVIOUS
<1> HIDE DEF T
<1>4. Min(T) \in T /\ \A y \in T : Min(T) <= y
  BY <1>1, MinIsOne
<1>5. Min(T) \in Int /\ (\E x \in S : Min(T) = f[x]) /\ \A x \in S : Min(T) <= f[x]
  BY <1>2, <1>3, <1>4
<1>6. QED
  BY <1>5 DEF T

\* The extremes of some bars of a tape.
LEMMA Extremes ==
    ASSUME NEW bars, NEW S, IsFiniteSet(S), S # {}, \A j \in S : bars[j] \in Ohlc
    PROVE  /\ Max({bars[j].h : j \in S}) \in Int
           /\ Min({bars[j].l : j \in S}) \in Int
           /\ \A j \in S : /\ bars[j].h <= Max({bars[i].h : i \in S})
                           /\ Min({bars[i].l : i \in S}) <= bars[j].l
           /\ \E j \in S : Max({bars[i].h : i \in S}) = bars[j].h
           /\ \E j \in S : Min({bars[i].l : i \in S}) = bars[j].l
<1> DEFINE h == [j \in S |-> bars[j].h]
           l == [j \in S |-> bars[j].l]
<1>1. {bars[j].h : j \in S} = {h[j] : j \in S} /\ {bars[j].l : j \in S} = {l[j] : j \in S}
  OBVIOUS
<1>2. \A j \in S : h[j] = bars[j].h /\ h[j] \in Int /\ l[j] = bars[j].l /\ l[j] \in Int
  BY DEF Ohlc
<1> HIDE DEF h, l
<1>3. /\ Max({h[x] : x \in S}) \in Int
      /\ \E x \in S : Max({h[y] : y \in S}) = h[x]
      /\ \A j \in S : h[j] <= Max({h[x] : x \in S})
  <2>1. \A x \in S : h[x] \in Int
    BY <1>2
  <2>2. Max({h[x] : x \in S}) \in Int /\ \A x \in S : h[x] <= Max({h[y] : y \in S})
    BY <2>1, ValuesMax
  <2>3. \E x \in S : Max({h[y] : y \in S}) = h[x]
    BY <2>1, ValuesMax
  <2>4. QED
    BY <2>2, <2>3
<1>4. /\ Min({l[x] : x \in S}) \in Int
      /\ \E x \in S : Min({l[y] : y \in S}) = l[x]
      /\ \A j \in S : Min({l[x] : x \in S}) <= l[j]
  BY <1>2, ValuesMin
<1>5. QED
  BY <1>1, <1>2, <1>3, <1>4

\* The same as a side sees them.
LEMMA ExtremesFacing ==
    ASSUME NEW bars, NEW S, IsFiniteSet(S), S # {}, \A j \in S : bars[j] \in Ohlc, NEW side \in Sides
    PROVE  /\ Max({Facing(bars[j], side).h : j \in S}) \in Int
           /\ Min({Facing(bars[j], side).l : j \in S}) \in Int
           /\ \A j \in S : /\ Facing(bars[j], side).h <= Max({Facing(bars[i], side).h : i \in S})
                           /\ Min({Facing(bars[i], side).l : i \in S}) <= Facing(bars[j], side).l
<1> DEFINE f == [j \in S |-> Facing(bars[j], side)]
<1>1. \A j \in S : f[j] = Facing(bars[j], side) /\ f[j] \in Ohlc
  BY FacingIsBar
<1> HIDE DEF f
<1>2. /\ {Facing(bars[j], side).h : j \in S} = {f[j].h : j \in S}
      /\ {Facing(bars[j], side).l : j \in S} = {f[j].l : j \in S}
  BY <1>1
<1>3. /\ Max({f[j].h : j \in S}) \in Int
      /\ Min({f[j].l : j \in S}) \in Int
      /\ \A j \in S : /\ f[j].h <= Max({f[i].h : i \in S})
                      /\ Min({f[i].l : i \in S}) <= f[j].l
  BY <1>1, Extremes
<1>4. QED
  BY <1>1, <1>2, <1>3

\* A tape of bars: its length and its positions.
LEMMA TapeIs ==
    ASSUME NEW S, NEW q \in Seq(S)
    PROVE  Len(q) \in Nat /\ DOMAIN q = 1..Len(q) /\ IsFiniteSet(DOMAIN q) /\ \A j \in DOMAIN q : q[j] \in S
<1>1. Len(q) \in Nat /\ DOMAIN q = 1..Len(q) /\ \A j \in DOMAIN q : q[j] \in S
  OBVIOUS
<1>2. IsFiniteSet(1..Len(q))
  BY <1>1, FS_Interval
<1>3. QED
  BY <1>1, <1>2

\* A step lengthens the tape by a bar of the study.
LEMMA NextTape ==
    ASSUME NEW s \in PriceStudies, NextBar(s), tape \in Seq(Ohlc)
    PROVE  /\ study = s /\ study' = s
           /\ tape' \in Seq(Ohlc) /\ Len(tape') = Len(tape) + 1 /\ Len(tape) \in Nat
           /\ DOMAIN tape' = 1..(Len(tape) + 1) /\ DOMAIN tape = 1..Len(tape)
           /\ \A j \in DOMAIN tape : tape'[j] = tape[j]
           /\ \A j \in DOMAIN tape' : tape'[j] \in Ohlc
<1>1. PICK bar \in Shapes[s] : tape' = Append(tape, bar)
  BY DEF NextBar
<1>2. bar \in Ohlc
  BY <1>1, DataAreBars
<1>3. QED
  BY <1>1, <1>2 DEF NextBar

\* What a study starts with.
LEMMA Started ==
    ASSUME NEW s, NEW memory, StartStudy(s, memory)
    PROVE  /\ study = s /\ tape = <<>> /\ out = <<>>
           /\ \A f \in DOMAIN memory \ {"times", "past"} : f \in DOMAIN mem /\ mem[f] = memory[f]
           /\ "past" \in DOMAIN mem /\ mem.past \in Pasts[s]
           /\ "times" \in DOMAIN mem /\ mem.times \in Times[s]
<1>1. PICK times \in Times[s], past \in Pasts[s] : mem = With([times |-> times, past |-> past], memory)
  BY DEF StartStudy
<1> DEFINE both == [times |-> times, past |-> past]
<1>2. DOMAIN both = {"times", "past"} /\ both.times = times /\ both.past = past
  OBVIOUS
<1> HIDE DEF both
<1>3. mem = [f \in {"times", "past"} \cup DOMAIN memory |->
                IF f \in {"times", "past"} THEN both[f] ELSE memory[f]]
  BY <1>1, <1>2 DEF With, both
<1>4. QED
  BY <1>2, <1>3 DEF StartStudy

\* The rows of the data that a timed study goes by are sorted.
LEMMA RowsAreSorted ==
    ASSUME NEW s \in TimedStudies, NEW n \in Nat, n <= Length[s], mem.times \in Times[s]
    PROVE  /\ \A j \in 1..n : Slot(j) \in Nat
           /\ \A j, k \in 1..n : j < k => Slot(j) < Slot(k)
<1> DEFINE times == mem.times
           last == Length[s]
<1>1. last \in Nat /\ \A j \in 1..n : j \in 1..last
  BY FrameIsSorted
<1>2. /\ \A j \in 1..last : j \in DOMAIN times /\ times[j] \in Nat
      /\ \A j, k \in 1..last : j < k => times[j] < times[k]
  BY FrameIsSorted
<1>3. \A j : Slot(j) = times[j]
  BY DEF Slot
<1> HIDE DEF times, last
<1>4. QED
  BY <1>1, <1>2, <1>3

-----------------------------------------------------------------------------
(***************************************************************************)
(* Recurrences.  A function that is defined from one index to the next, as  *)
(* powers and exponential averages are, exists and returns integers.       *)
(***************************************************************************)
\* f follows the recurrence from m to n: every value is c of its index and d times
\* the value before it.
Recurs(f, c, d, m, n) == f = [i \in m..n |-> IF i = m THEN c[m] ELSE c[i] + d * f[i - 1]]

\* Every set of integers that is bounded below has a least member.
LEMMA LeastIndex ==
    ASSUME NEW m \in Int, NEW n \in Int, NEW T, T \subseteq m..n, T # {}
    PROVE  \E i \in T : \A j \in T : i <= j
<1>1. IsFiniteSet(T) /\ T \subseteq Int
  <2>1. IsFiniteSet(m..n) /\ T \in SUBSET (m..n)
    BY FS_Interval
  <2>2. m..n \subseteq Int
    OBVIOUS
  <2>3. IsFiniteSet(T)
    BY <2>1, FS_Subset
  <2>4. QED
    BY <2>1, <2>2, <2>3
<1>2. Min(T) \in T /\ \A y \in T : Min(T) <= y
  BY <1>1, MinIsOne
<1>3. QED
  BY <1>2

\* Functions agree on an interval when they agree on its first index, and on every
\* other one if they agree on the one before it.
LEMMA StepByStep ==
    ASSUME NEW m \in Int, NEW n \in Int, NEW f, NEW g, m <= n => f[m] = g[m],
           \A i \in (m + 1)..n : f[i - 1] = g[i - 1] => f[i] = g[i]
    PROVE  \A i \in m..n : f[i] = g[i]
<1> DEFINE T == {i \in m..n : f[i] # g[i]}
<1>1. SUFFICES ASSUME T # {} PROVE FALSE
  OBVIOUS
<1>2. PICK j \in T : \A l \in T : j <= l
  <2>1. T \subseteq m..n
    OBVIOUS
  <2> HIDE DEF T
  <2>2. QED
    BY <1>1, <2>1, LeastIndex
<1>3. j \in m..n /\ f[j] # g[j] /\ j # m
  BY <1>2
<1>4. j \in (m + 1)..n /\ j - 1 \in m..n /\ ~(j <= j - 1)
  BY <1>3
<1>5. j - 1 \notin T
  <2> HIDE DEF T
  <2>1. QED
    BY <1>2, <1>4
<1>6. f[j - 1] = g[j - 1]
  BY <1>4, <1>5
<1>7. QED
  BY <1>3, <1>4, <1>6

\* What such a function returns.
LEMMA RecursAt ==
    ASSUME NEW f, NEW c, NEW d, NEW m, NEW n, Recurs(f, c, d, m, n), NEW i \in m..n
    PROVE  f[i] = IF i = m THEN c[m] ELSE c[i] + d * f[i - 1]
<1> DEFINE b(j) == IF j = m THEN c[m] ELSE c[j] + d * f[j - 1]
<1>1. f = [j \in m..n |-> b(j)]
  BY DEF Recurs
<1> HIDE DEF b
<1>2. f[i] = b(i)
  BY <1>1
<1>3. QED
  BY <1>2 DEF b

\* Two of them agree where both are defined.
LEMMA RecursAgree ==
    ASSUME NEW m \in Int, NEW n \in Int, NEW k \in Int, NEW c, NEW d, NEW f, NEW g,
           Recurs(f, c, d, m, n), Recurs(g, c, d, m, k), NEW i \in m..n, i <= k
    PROVE  f[i] = g[i]
<1>1. \A j \in m..i : j \in m..n /\ j \in m..k
  OBVIOUS
<1>2. \A j \in m..i : /\ f[j] = IF j = m THEN c[m] ELSE c[j] + d * f[j - 1]
                      /\ g[j] = IF j = m THEN c[m] ELSE c[j] + d * g[j - 1]
  BY <1>1, RecursAt
<1>3. m \in m..i /\ i \in Int /\ i \in m..i /\ \A j \in (m + 1)..i : j \in m..i /\ j # m
  OBVIOUS
<1>4. f[m] = g[m] /\ \A j \in (m + 1)..i : f[j - 1] = g[j - 1] => f[j] = g[j]
  BY <1>2, <1>3
<1>5. \A j \in m..i : f[j] = g[j]
  BY <1>3, <1>4, StepByStep
<1>6. QED
  BY <1>3, <1>5

\* There is one, and it returns integers.
LEMMA RecursExist ==
    ASSUME NEW m \in Int, NEW n \in Int, NEW c \in [m..n -> Int], NEW d \in Int
    PROVE  \E f \in [m..n -> Int] : Recurs(f, c, d, m, n)
<1> DEFINE Has(k) == \E f \in [m..k -> Int] : Recurs(f, c, d, m, k)
           T == {k \in (m - 1)..n : ~Has(k)}
<1>1. CASE n < m - 1
  <2>1. m..n = {}
    BY <1>1
  <2> DEFINE f == [i \in m..n |-> IF i = m THEN c[m] ELSE c[i] + d * c[i - 1]]
             g == [i \in m..n |-> IF i = m THEN c[m] ELSE c[i] + d * f[i - 1]]
  <2>2. f \in [m..n -> Int] /\ f = g
    BY <2>1
  <2>3. QED
    BY <2>2 DEF Recurs
<1>2. CASE ~(n < m - 1)
  <2> HIDE DEF Has
  <2>1. SUFFICES ASSUME T # {} PROVE FALSE
    <3>1. T = {} => Has(n)
      BY <1>2
    <3>2. QED
      BY <3>1 DEF Has
  <2>2. PICK k \in T : \A l \in T : k <= l
    <3>1. T \subseteq (m - 1)..n /\ m - 1 \in Int
      OBVIOUS
    <3> HIDE DEF T
    <3>2. QED
      BY <2>1, <3>1, LeastIndex
  <2>3. k \in (m - 1)..n /\ ~Has(k)
    BY <2>2
  <2>4. k # m - 1
    <3>1. m..(m - 1) = {}
      OBVIOUS
    <3> DEFINE f == [i \in m..(m - 1) |-> IF i = m THEN c[m] ELSE c[i] + d * c[i - 1]]
               g == [i \in m..(m - 1) |-> IF i = m THEN c[m] ELSE c[i] + d * f[i - 1]]
    <3>2. f \in [m..(m - 1) -> Int] /\ f = g
      BY <3>1
    <3>3. Has(m - 1)
      BY <3>2 DEF Recurs, Has
    <3>4. QED
      BY <2>3, <3>3
  <2>5. Has(k - 1)
    <3>1. k - 1 \in (m - 1)..n /\ ~(k <= k - 1)
      BY <2>3, <2>4
    <3> HIDE DEF T
    <3>2. k - 1 \notin T
      BY <2>2, <3>1
    <3>3. QED
      BY <3>1, <3>2 DEF T
  <2>6. PICK h \in [m..(k - 1) -> Int] : Recurs(h, c, d, m, k - 1)
    BY <2>5 DEF Has
  <2> DEFINE b(i) == IF i = m THEN c[m] ELSE c[i] + d * h[i - 1]
             f == [i \in m..k |-> b(i)]
  <2>7. \A i \in m..k : b(i) \in Int
    <3> SUFFICES ASSUME NEW i \in m..k PROVE b(i) \in Int
      OBVIOUS
    <3>1. i \in m..n /\ c[i] \in Int
      BY <2>3
    <3>2. CASE i = m
      BY <3>1, <3>2
    <3>3. CASE i # m
      <4>1. h[i - 1] \in Int
        BY <2>3, <3>3
      <4> DEFINE x == h[i - 1]
                 y == c[i]
      <4> HIDE DEF x, y
      <4>2. y + d * x \in Int
        BY <3>1, <4>1 DEF x, y
      <4>3. QED
        BY <3>3, <4>2 DEF x, y
    <3>4. QED
      BY <3>2, <3>3
  <2>8. f \in [m..k -> Int]
    <3> HIDE DEF b
    <3>1. QED
      BY <2>7
  <2>9. \A i \in m..(k - 1) : f[i] = h[i]
    <3> SUFFICES ASSUME NEW i \in m..(k - 1) PROVE f[i] = h[i]
      OBVIOUS
    <3>1. h = [j \in m..(k - 1) |-> b(j)]
      BY <2>6 DEF Recurs
    <3>2. i \in m..k
      BY <2>3
    <3> HIDE DEF b
    <3>3. h[i] = b(i)
      BY <3>1
    <3>4. QED
      BY <3>2, <3>3
  <2> DEFINE e(i) == IF i = m THEN c[m] ELSE c[i] + d * f[i - 1]
  <2>10. \A i \in m..k : b(i) = e(i)
    <3> SUFFICES ASSUME NEW i \in m..k, i # m PROVE h[i - 1] = f[i - 1]
      OBVIOUS
    <3>1. i - 1 \in m..(k - 1)
      BY <2>3
    <3> HIDE DEF f
    <3>2. QED
      BY <2>9, <3>1
  <2>11. Recurs(f, c, d, m, k)
    <3>1. f = [i \in m..k |-> b(i)]
      OBVIOUS
    <3> HIDE DEF f
    <3> HIDE DEF b, e
    <3>2. f = [i \in m..k |-> e(i)]
      BY <2>10, <3>1
    <3>3. QED
      BY <3>2 DEF e, Recurs
  <2>12. QED
    <3> HIDE DEF f
    <3>1. QED
      BY <2>3, <2>8, <2>11 DEF Has
<1>3. QED
  BY <1>1, <1>2

\* The one that is chosen.
LEMMA RecursIs ==
    ASSUME NEW m \in Int, NEW n \in Int, NEW c \in [m..n -> Int], NEW d \in Int
    PROVE  LET f == CHOOSE g : Recurs(g, c, d, m, n)
           IN  f \in [m..n -> Int] /\ Recurs(f, c, d, m, n)
<1> DEFINE f == CHOOSE g : Recurs(g, c, d, m, n)
<1>1. PICK h \in [m..n -> Int] : Recurs(h, c, d, m, n)
  BY RecursExist
<1>2. Recurs(f, c, d, m, n)
  BY <1>1
<1> HIDE DEF f
<1>3. \A i \in m..n : f[i] = h[i]
  BY <1>1, <1>2, RecursAgree
<1>4. f = [i \in m..n |-> f[i]] /\ h = [i \in m..n |-> h[i]]
  <2> DEFINE b(i) == IF i = m THEN c[m] ELSE c[i] + d * f[i - 1]
  <2>1. f = [i \in m..n |-> b(i)]
    BY <1>2 DEF Recurs
  <2> HIDE DEF b
  <2>2. f = [i \in m..n |-> f[i]]
    BY <2>1
  <2>3. QED
    BY <1>1, <2>2
<1>5. f = h
  BY <1>3, <1>4
<1>6. QED
  BY <1>1, <1>5 DEF f

\* Powers.
LEMMA PowerIs ==
    ASSUME NEW a \in Int, NEW n \in Nat
    PROVE  /\ Power(a, n) \in Int
           /\ Power(a, 0) = 1
           /\ Power(a, n + 1) = a * Power(a, n)
<1> DEFINE c(k) == [i \in 0..k |-> IF i = 0 THEN 1 ELSE 0]
           Goes(f, k) == f = [i \in 0..k |-> IF i = 0 THEN 1 ELSE a * f[i - 1]]
           p(k) == CHOOSE f : Goes(f, k)
<1>1. ASSUME NEW k \in Nat
      PROVE  Goes(p(k), k)
  <2> DEFINE q == c(k)
  <2>1. q \in [0..k -> Int] /\ k \in Int /\ 0 \in Int /\ 0 \in 0..k
    OBVIOUS
  <2>2. q[0] = 1 /\ \A i \in 0..k : i # 0 => q[i] = 0
    BY <2>1
  <2> HIDE DEF q
  <2>3. PICK f \in [0..k -> Int] : Recurs(f, q, a, 0, k)
    BY <2>1, RecursExist
  <2> DEFINE x(i) == IF i = 0 THEN q[0] ELSE q[i] + a * f[i - 1]
             y(i) == IF i = 0 THEN 1 ELSE a * f[i - 1]
  <2>4. \A i \in 0..k : x(i) = y(i)
    <3> SUFFICES ASSUME NEW i \in 0..k, i # 0 PROVE q[i] + a * f[i - 1] = a * f[i - 1]
      BY <2>2
    <3>1. i - 1 \in 0..k
      OBVIOUS
    <3>2. f[i - 1] \in Int /\ q[i] = 0
      BY <2>2, <3>1
    <3> DEFINE z == a * f[i - 1]
    <3>3. z \in Int
      BY <3>2
    <3> HIDE DEF z
    <3>4. QED
      BY <3>2, <3>3 DEF z
  <2>5. f = [i \in 0..k |-> x(i)]
    BY <2>3 DEF Recurs
  <2> HIDE DEF x, y
  <2>6. f = [i \in 0..k |-> y(i)]
    BY <2>4, <2>5
  <2>7. Goes(f, k)
    BY <2>6 DEF y
  <2> HIDE DEF Goes
  <2>8. QED
    BY <2>7
<1>2. ASSUME NEW f, NEW k \in Nat, Goes(f, k), NEW i \in 0..k
      PROVE  f[i] = IF i = 0 THEN 1 ELSE a * f[i - 1]
  <2> DEFINE y(j) == IF j = 0 THEN 1 ELSE a * f[j - 1]
  <2>1. f = [j \in 0..k |-> y(j)]
    BY <1>2
  <2> HIDE DEF y
  <2>2. f[i] = y(i)
    BY <2>1
  <2>3. QED
    BY <2>2 DEF y
<1>3. \A k \in Nat : Power(a, k) = p(k)[k]
  BY DEF Power
<1> HIDE DEF Goes, p
<1>4. \A k \in Nat : p(k)[0] = 1 /\ \A i \in 1..k : p(k)[i] = a * p(k)[i - 1]
  <2> SUFFICES ASSUME NEW k \in Nat PROVE p(k)[0] = 1 /\ \A i \in 1..k : p(k)[i] = a * p(k)[i - 1]
    OBVIOUS
  <2>1. 0 \in 0..k /\ \A i \in 1..k : i \in 0..k /\ i # 0
    OBVIOUS
  <2>2. QED
    BY <1>1, <1>2, <2>1
<1>5. p(n + 1)[n] = p(n)[n]
  <2>1. n + 1 \in Nat /\ 0 <= n /\ \A i \in 1..n : i \in 1..(n + 1)
    OBVIOUS
  <2>2. \A i \in (0 + 1)..n : i \in 1..n
    OBVIOUS
  <2>3. p(n + 1)[0] = p(n)[0] /\ \A i \in (0 + 1)..n : p(n + 1)[i - 1] = p(n)[i - 1] => p(n + 1)[i] = p(n)[i]
    BY <1>4, <2>1, <2>2
  <2>4. \A i \in 0..n : p(n + 1)[i] = p(n)[i]
    BY <2>3, StepByStep
  <2>5. QED
    BY <2>4
<1>6. \A i \in 0..n : p(n)[i] \in Int
  <2> DEFINE T == {i \in 0..n : p(n)[i] \notin Int}
  <2>1. SUFFICES ASSUME T # {} PROVE FALSE
    OBVIOUS
  <2>2. PICK j \in T : \A l \in T : j <= l
    <3>1. T \subseteq 0..n /\ 0 \in Int /\ n \in Int
      OBVIOUS
    <3> HIDE DEF T
    <3>2. QED
      BY <2>1, <3>1, LeastIndex
  <2>3. j \in 0..n /\ p(n)[j] \notin Int
    BY <2>2
  <2>4. j # 0
    <3>1. 1 \in Int
      OBVIOUS
    <3>2. QED
      BY <1>4, <2>3, <3>1
  <2>5. j \in 1..n /\ j - 1 \in 0..n /\ ~(j <= j - 1)
    BY <2>3, <2>4
  <2>6. j - 1 \notin T
    <3> HIDE DEF T
    <3>1. QED
      BY <2>2, <2>5
  <2>7. p(n)[j - 1] \in Int /\ p(n)[j] = a * p(n)[j - 1]
    BY <1>4, <2>5, <2>6
  <2> DEFINE x == p(n)[j - 1]
  <2> HIDE DEF x
  <2>8. a * x \in Int
    BY <2>7 DEF x
  <2>9. QED
    BY <2>3, <2>7, <2>8 DEF x
<1>7. QED
  <2>1. 0 \in Nat /\ n + 1 \in Nat /\ n \in 0..n /\ n + 1 \in 1..(n + 1) /\ (n + 1) - 1 = n
    OBVIOUS
  <2>2. p(n + 1)[n + 1] = a * p(n + 1)[n]
    BY <1>4, <2>1
  <2>3. Power(a, n) \in Int
    BY <1>3, <1>6, <2>1
  <2>4. Power(a, 0) = 1
    BY <1>3, <1>4, <2>1
  <2>5. Power(a, n + 1) = a * Power(a, n)
    BY <1>3, <1>5, <2>1, <2>2
  <2>6. QED
    BY <2>3, <2>4, <2>5

\* Exponential averages are integers.
LEMMA EmaIsWhole ==
    ASSUME NEW w \in Seq(Ohlc), NEW span \in Int, NEW i \in DOMAIN w
    PROVE  EmaTimes(w, span, i) \in Int /\ EmaScale(span, i) \in Int
<1> DEFINE q == [j \in 1..i |-> w[j].c]
           c == [j \in 1..i |-> IF j = 1 THEN q[1] ELSE 2 * q[j] * Power(span + 1, j - 2)]
<1>1. i \in Nat /\ 1..i \subseteq DOMAIN w /\ i >= 1 /\ span + 1 \in Int /\ span - 1 \in Int
  BY TapeIs
<1>2. \A j \in 1..i : q[j] \in Int
  <2>1. \A j \in 1..i : w[j] \in Ohlc
    BY <1>1, TapeIs
  <2>2. QED
    BY <2>1 DEF Ohlc
<1>3. DOMAIN q = 1..i /\ q \in Seq(Int) /\ Len(q) = i
  <2>1. q \in [1..i -> Int]
    BY <1>2
  <2>2. DOMAIN q = 1..i
    OBVIOUS
  <2> HIDE DEF q
  <2>3. QED
    BY <1>1, <2>1, <2>2
<1> HIDE DEF q
<1>4. c \in [1..i -> Int]
  <2> SUFFICES ASSUME NEW j \in 1..i PROVE (IF j = 1 THEN q[1] ELSE 2 * q[j] * Power(span + 1, j - 2)) \in Int
    OBVIOUS
  <2>1. CASE j = 1
    BY <1>2, <2>1
  <2>2. CASE j # 1
    <3>1. j - 2 \in Nat
      BY <1>1, <2>2
    <3>2. Power(span + 1, j - 2) \in Int
      BY <1>1, <3>1, PowerIs
    <3> DEFINE x == Power(span + 1, j - 2)
               y == q[j]
    <3>3. x \in Int /\ y \in Int
      BY <1>2, <3>2
    <3> HIDE DEF x, y
    <3>4. 2 * y * x \in Int
      BY <3>3
    <3>5. QED
      BY <2>2, <3>4 DEF x, y
  <2>3. QED
    BY <2>1, <2>2
<1> DEFINE Goes(f) == f = [j \in DOMAIN q |-> IF j = 1 THEN q[1]
                                             ELSE 2 * q[j] * Power(span + 1, j - 2) + (span - 1) * f[j - 1]]
           d == span - 1
<1>5. \A f : Goes(f) <=> Recurs(f, c, d, 1, i)
  <2> SUFFICES ASSUME NEW f PROVE Goes(f) <=> Recurs(f, c, d, 1, i)
    OBVIOUS
  <2> DEFINE x(j) == IF j = 1 THEN q[1] ELSE 2 * q[j] * Power(span + 1, j - 2) + (span - 1) * f[j - 1]
             y(j) == IF j = 1 THEN c[1] ELSE c[j] + d * f[j - 1]
  <2>1. \A j \in 1..i : x(j) = y(j)
    <3>1. 1 \in 1..i
      BY <1>1
    <3>2. c[1] = q[1] /\ \A j \in 1..i : j # 1 => c[j] = 2 * q[j] * Power(span + 1, j - 2)
      BY <3>1
    <3> HIDE DEF c
    <3>3. QED
      BY <3>2
  <2>2. Goes(f) <=> f = [j \in 1..i |-> x(j)]
    BY <1>3
  <2>3. Recurs(f, c, d, 1, i) <=> f = [j \in 1..i |-> y(j)]
    BY DEF Recurs
  <2> HIDE DEF x, y, Goes
  <2>4. QED
    BY <2>1, <2>2, <2>3
<1> DEFINE e == CHOOSE f : Goes(f)
           g == CHOOSE f : Recurs(f, c, d, 1, i)
<1>6. EmaTimes(w, span, i) = e[i]
  BY <1>3 DEF EmaTimes, EmaOf, q
<1> HIDE DEF Goes, c
<1>7. e = g
  BY <1>5
<1>8. g \in [1..i -> Int]
  <2>1. d \in Int /\ 1 \in Int /\ i \in Int
    BY <1>1
  <2> HIDE DEF d
  <2>2. QED
    BY <1>4, <2>1, RecursIs
<1> HIDE DEF e, g, d
<1>9. e[i] \in Int
  BY <1>1, <1>7, <1>8
<1>10. EmaScale(span, i) \in Int
  <2>1. i - 1 \in Nat
    BY <1>1
  <2>2. QED
    BY <1>1, <2>1, PowerIs DEF EmaScale
<1>11. QED
  BY <1>6, <1>9, <1>10

-----------------------------------------------------------------------------
(***************************************************************************)
(* The studies one by one.                                                 *)
(***************************************************************************)
\* The studies of signals begin and go on as their modules say.
Begin ==
    /\ study = "inverse" => InitInverse
    /\ study = "sweep" => InitSweep
    /\ study = "ote" => InitOte
    /\ study = "breaker" => InitBreaker
    /\ study = "news" => InitNews
    /\ study = "asia" => InitAsia
    /\ study = "sigma" => InitSigma
    /\ study = "book" => InitBook
    /\ study = "crypto" => InitCoin
    /\ study = "breakout" => InitBreakout
    /\ study \in ReplayStudies => InitReplays

\* A step of the lab that is not the final stuttering is a step of the study.
GoOn ==
    /\ study' = study
    /\ study = "inverse" => InverseStep
    /\ study = "sweep" => Sweep
    /\ study = "ote" => Ote
    /\ study = "breaker" => BreakerStep
    /\ study = "news" => News
    /\ study = "asia" => Asia
    /\ study = "sigma" => Sigma
    /\ study = "book" => Book
    /\ study = "crypto" => Generate
    /\ study = "breakout" => Breakout
    /\ study \in ReplayStudies => NextReplay

\* What is not one of them.
Elsewhere == study \notin PriceStudies

\* How each study is recognised, at its beginning and in its steps.
LEMMA BeginAs ==
    /\ InitInverse => study = "inverse"
    /\ InitSweep => study = "sweep"
    /\ InitOte => study = "ote"
    /\ InitBreaker => study = "breaker"
    /\ InitNews => study = "news"
    /\ InitAsia => study = "asia"
    /\ InitSigma => study = "sigma"
    /\ InitBook => study = "book"
    /\ InitCoin => study = "crypto"
    /\ InitBreakout => study = "breakout"
    /\ InitReplays => study \in ReplayStudies
    /\ InitEngines \/ InitTuned \/ InitEvents \/ InitMacro \/ InitReports \/ InitData => Elsewhere
<1>1. InitInverse => study = "inverse"
  BY DEF InitInverse, StartStudy
<1>2. InitSweep => study = "sweep"
  BY DEF InitSweep, StartStudy
<1>3. InitOte => study = "ote"
  BY DEF InitOte, StartStudy
<1>4. InitBreaker => study = "breaker"
  BY DEF InitBreaker, StartStudy
<1>5. InitNews => study = "news"
  BY DEF InitNews, StartStudy
<1>6. InitAsia => study = "asia"
  BY DEF InitAsia, StartStudy
<1>7. InitSigma => study = "sigma"
  BY DEF InitSigma, StartStudy
<1>8. InitBook => study = "book"
  BY DEF InitBook, StartStudy
<1>9. InitCoin => study = "crypto"
  BY DEF InitCoin, StartStudy
<1>10. InitBreakout => study = "breakout"
  BY DEF InitBreakout, StartStudy
<1>11. InitReplays => study \in ReplayStudies
  BY DEF InitReplays, StartStudy
<1>12. InitEngines \/ InitTuned \/ InitEvents \/ InitMacro \/ InitReports \/ InitData => Elsewhere
  BY DEF InitEngines, EngineStudies, InitTuned, InitEvents, InitMacro, InitReports, InitData, StartStudy,
     Elsewhere, PriceStudies
<1>13. QED
  BY <1>1, <1>2, <1>3, <1>4, <1>5, <1>6, <1>7, <1>8, <1>9, <1>10, <1>11, <1>12

\* The same of the steps.
LEMMA GoOnAs ==
    /\ InverseStep => study = "inverse"
    /\ Sweep => study = "sweep"
    /\ Ote => study = "ote"
    /\ BreakerStep => study = "breaker"
    /\ News => study = "news"
    /\ Asia => study = "asia"
    /\ Sigma => study = "sigma"
    /\ Book => study = "book"
    /\ Generate => study = "crypto"
    /\ Breakout => study = "breakout"
    /\ NextReplay => study \in ReplayStudies
    /\ NextEngine \/ Tuned \/ NextEvents \/ NextMacro \/ Report \/ Load => Elsewhere
<1>1. InverseStep => study = "inverse"
  BY DEF InverseStep, NextBar
<1>2. Sweep => study = "sweep"
  BY DEF Sweep, NextBar
<1>3. Ote => study = "ote"
  BY DEF Ote, NextBar
<1>4. BreakerStep => study = "breaker"
  BY DEF BreakerStep, NextBar
<1>5. News => study = "news"
  BY DEF News, NextBar
<1>6. Asia => study = "asia"
  BY DEF Asia, NextBar
<1>7. Sigma => study = "sigma"
  BY DEF Sigma, NextBar
<1>8. Book => study = "book"
  BY DEF Book, NextBar
<1>9. Generate => study = "crypto"
  BY DEF Generate, NextBar
<1>10. Breakout => study = "breakout"
  BY DEF Breakout, NextBar
<1>11. NextReplay => study \in ReplayStudies
  BY SMTT(30) DEF NextReplay, Var1, Var2, MicroStep, IctStep, ReadTape, NextBar, Finished, ReplayStudies
<1>12. NextEngine \/ Tuned => Elsewhere
  BY DEF NextEngine, Exec, Engine, Btc, Tuned, Prepare, Search, NextBar, Finished, Elsewhere, PriceStudies
<1>13. NextEvents \/ NextMacro => Elsewhere
  BY DEF NextEvents, BuildMonth, AskEvents, NextMacro, NextDay, AskMacro, Refresh, RestartStrategies, NextBar,
     Elsewhere, PriceStudies
<1>14. Report \/ Load => Elsewhere
  BY DEF Report, Load, NextBar, Finished, Elsewhere, PriceStudies
<1>15. QED
  BY <1>1, <1>2, <1>3, <1>4, <1>5, <1>6, <1>7, <1>8, <1>9, <1>10, <1>11, <1>12, <1>13, <1>14

\* So the lab begins with one of them,
LEMMA EachBegins == InitLab => Begin
<1> SUFFICES ASSUME InitLab PROVE Begin
  OBVIOUS
<1>1. CASE InitInverse
  BY <1>1, BeginAs DEF Begin, ReplayStudies
<1>2. CASE InitSweep
  BY <1>2, BeginAs DEF Begin, ReplayStudies
<1>3. CASE InitOte
  BY <1>3, BeginAs DEF Begin, ReplayStudies
<1>4. CASE InitBreaker
  BY <1>4, BeginAs DEF Begin, ReplayStudies
<1>5. CASE InitNews
  BY <1>5, BeginAs DEF Begin, ReplayStudies
<1>6. CASE InitAsia
  BY <1>6, BeginAs DEF Begin, ReplayStudies
<1>7. CASE InitSigma
  BY <1>7, BeginAs DEF Begin, ReplayStudies
<1>8. CASE InitBook
  BY <1>8, BeginAs DEF Begin, ReplayStudies
<1>9. CASE InitCoin
  BY <1>9, BeginAs DEF Begin, ReplayStudies
<1>10. CASE InitBreakout
  BY <1>10, BeginAs DEF Begin, ReplayStudies
<1>11. CASE InitReplays
  BY <1>11, BeginAs DEF Begin, ReplayStudies
<1>12. CASE InitEngines \/ InitTuned \/ InitEvents \/ InitMacro \/ InitReports \/ InitData
  BY <1>12, BeginAs DEF Begin, ReplayStudies, Elsewhere, PriceStudies
<1>13. QED
  BY <1>1, <1>2, <1>3, <1>4, <1>5, <1>6, <1>7, <1>8, <1>9, <1>10, <1>11, <1>12 DEF InitLab, InitDetectors

\* and goes on with the same one.
LEMMA EachGoesOn == NextLab => GoOn
<1> SUFFICES ASSUME NextLab PROVE GoOn
  OBVIOUS
<1>1. study' = study
  <2>1. NextEngine \/ NextMacro => study' = study
    BY DEF NextEngine, Exec, Engine, Btc, NextMacro, NextDay, AskMacro, Refresh, RestartStrategies, NextBar
  <2>2. QED
    BY SMTT(30), <2>1, OthersGoOn DEF NextLab, OtherSteps
<1>2. CASE InverseStep
  BY <1>1, <1>2, GoOnAs DEF GoOn, ReplayStudies
<1>3. CASE Sweep
  BY <1>1, <1>3, GoOnAs DEF GoOn, ReplayStudies
<1>4. CASE Ote
  BY <1>1, <1>4, GoOnAs DEF GoOn, ReplayStudies
<1>5. CASE BreakerStep
  BY <1>1, <1>5, GoOnAs DEF GoOn, ReplayStudies
<1>6. CASE News
  BY <1>1, <1>6, GoOnAs DEF GoOn, ReplayStudies
<1>7. CASE Asia
  BY <1>1, <1>7, GoOnAs DEF GoOn, ReplayStudies
<1>8. CASE Sigma
  BY <1>1, <1>8, GoOnAs DEF GoOn, ReplayStudies
<1>9. CASE Book
  BY <1>1, <1>9, GoOnAs DEF GoOn, ReplayStudies
<1>10. CASE Generate
  BY <1>1, <1>10, GoOnAs DEF GoOn, ReplayStudies
<1>11. CASE Breakout
  BY <1>1, <1>11, GoOnAs DEF GoOn, ReplayStudies
<1>12. CASE NextReplay
  BY <1>1, <1>12, GoOnAs DEF GoOn, ReplayStudies
<1>13. CASE NextEngine \/ Tuned \/ NextEvents \/ NextMacro \/ Report \/ Load
  BY <1>1, <1>13, GoOnAs DEF GoOn, ReplayStudies, Elsewhere, PriceStudies
<1>14. QED
  BY <1>1, <1>2, <1>3, <1>4, <1>5, <1>6, <1>7, <1>8, <1>9, <1>10, <1>11, <1>12, <1>13 DEF NextLab, NextDetectors

-----------------------------------------------------------------------------
(***************************************************************************)
(* The legs of Kronos fire once in a bar.                                  *)
(***************************************************************************)
Legs == Range(EvalOrder)

\* A leg has fired in the bar of a time, before that time.
FiredBefore(q, t, now) ==
    \E i \in DOMAIN q : q[i].leg = t.leg /\ q[i].now < now /\ Bucket(t.leg, q[i].now) = Bucket(t.leg, now)

\* What was answered at a time is the first of the trades whose legs had not fired.
AnsweredAt(q, trades, now) ==
    /\ {q[i] : i \in {j \in DOMAIN q : q[j].now = now}}
          = Range(FirstOf({t \in trades : ~FiredBefore(q, t, now)}))
    /\ \A i, j \in {x \in DOMAIN q : q[x].now = now} : i = j

\* The marks stand for the last answers of the legs.
MarksAre(q, fired) ==
    /\ fired \in [Legs -> Int]
    /\ \A leg \in Legs :
          fired[leg] = -1 \/ \E i \in DOMAIN q : q[i].leg = leg /\ fired[leg] = Bucket(leg, q[i].now)
    /\ \A i \in DOMAIN q : Bucket(q[i].leg, q[i].now) <= fired[q[i].leg]

\* The answers up to a time.
AnswersUpTo(q, now) == IsList(q) /\ \A i \in DOMAIN q : q[i].leg \in Legs /\ q[i].now \in Nat /\ q[i].now <= now

\* The invariant of the book.
BookInv ==
    /\ tape \in Seq(Ohlc)
    /\ {"times", "fired", "asked"} \subseteq DOMAIN mem /\ Slot(1) \in Nat
    /\ AnswersUpTo(out, Slot(1) + Len(tape)) /\ MarksAre(out, mem.fired)
    /\ IsList(mem.asked) /\ Len(mem.asked) = Len(tape)
    /\ \A n \in 1..Len(tape) : AnsweredAt(out, mem.asked[n], Slot(1) + n)

\* The bars of a leg follow each other.
LEMMA BucketsRise ==
    ASSUME NEW leg, NEW a \in Nat, NEW b \in Nat, a <= b
    PROVE  Bucket(leg, a) \in Nat /\ Bucket(leg, b) \in Nat /\ Bucket(leg, a) <= Bucket(leg, b)
<1>1. TimeFrame(leg) = 2 \/ TimeFrame(leg) = 4
  BY DEF TimeFrame, Quarter, FiveMinutes
<1>2. CASE TimeFrame(leg) = 2
  <2>1. a \div 2 \in Nat /\ b \div 2 \in Nat /\ a \div 2 <= b \div 2
    OBVIOUS
  <2>2. QED
    BY <1>2, <2>1 DEF Bucket
<1>3. CASE TimeFrame(leg) = 4
  <2>1. a \div 4 \in Nat /\ b \div 4 \in Nat /\ a \div 4 <= b \div 4
    OBVIOUS
  <2>2. QED
    BY <1>3, <2>1 DEF Bucket
<1>4. QED
  BY <1>1, <1>2, <1>3

\* Every leg has its turn.
LEMMA TurnIs ==
    ASSUME NEW leg \in Legs
    PROVE  Turn(leg) \in 1..10
<1>1. DOMAIN EvalOrder = 1..10
  BY DEF EvalOrder
<1>2. \E i \in DOMAIN EvalOrder : EvalOrder[i] = leg
  BY DEF Legs, Range
<1>3. Turn(leg) \in DOMAIN EvalOrder
  BY <1>2 DEF Turn
<1>4. QED
  BY <1>1, <1>3

\* Some trade is the first one.
LEMMA FirstIs ==
    ASSUME NEW S, \A t \in S : t.leg \in Legs
    PROVE  \/ S = {} /\ FirstOf(S) = <<>>
           \/ \E t \in S : FirstOf(S) = <<t>>
<1>1. CASE S = {}
  BY <1>1 DEF FirstOf
<1>2. CASE S # {}
  <2> DEFINE turn == [t \in S |-> Turn(t.leg)]
             T == {turn[t] : t \in S}
  <2>1. \A t \in S : turn[t] = Turn(t.leg) /\ turn[t] \in 1..10
    BY TurnIs
  <2> HIDE DEF turn
  <2>2. T \subseteq 1..10 /\ T \subseteq Int /\ T # {} /\ \A t \in S : turn[t] \in T
    BY <1>2, <2>1
  <2>3. IsFiniteSet(T)
    <3>1. IsFiniteSet(1..10)
      <4>1. 1 \in Int /\ 10 \in Int
        OBVIOUS
      <4>2. QED
        BY ONLY <4>1, FS_Interval
    <3> HIDE DEF T
    <3>2. QED
      BY <2>2, <3>1, FS_Subset
  <2>4. Min(T) \in T /\ \A y \in T : Min(T) <= y
    <3> HIDE DEF T
    <3>1. QED
      BY <2>2, <2>3, MinIsOne
  <2>5. PICK t \in S : Min(T) = turn[t]
    BY <2>4
  <2> HIDE DEF T
  <2>6. \A other \in S : Turn(t.leg) <= Turn(other.leg)
    BY <2>1, <2>2, <2>4, <2>5
  <2>7. FirstOf(S) = <<CHOOSE x \in S : \A other \in S : Turn(x.leg) <= Turn(other.leg)>>
    BY <1>2 DEF FirstOf
  <2>8. (CHOOSE x \in S : \A other \in S : Turn(x.leg) <= Turn(other.leg)) \in S
    BY <2>6
  <2>9. QED
    BY <2>7, <2>8
<1>3. QED
  BY <1>1, <1>2

\* The marks tell which legs have fired in the bar of the time that comes.
LEMMA MarksTell ==
    ASSUME NEW q, NEW fired, MarksAre(q, fired), NEW m \in Nat, AnswersUpTo(q, m), NEW t, t.leg \in Legs
    PROVE  fired[t.leg] = Bucket(t.leg, m + 1) <=> FiredBefore(q, t, m + 1)
<1> DEFINE leg == t.leg
<1>1. \A i \in DOMAIN q : q[i].now \in Nat /\ q[i].now <= m
  BY DEF AnswersUpTo
<1>2. leg \in Legs /\ fired[leg] \in Int
  BY DEF MarksAre
<1> HIDE DEF leg
<1>3. Bucket(leg, m + 1) \in Nat /\ \A i \in DOMAIN q : Bucket(leg, q[i].now) \in Nat
                                                      /\ Bucket(leg, q[i].now) <= Bucket(leg, m + 1)
  <2>1. m + 1 \in Nat /\ \A i \in DOMAIN q : q[i].now <= m + 1
    BY <1>1
  <2>2. QED
    BY <1>1, <2>1, BucketsRise
<1>4. ASSUME fired[leg] = Bucket(leg, m + 1)
      PROVE  \E i \in DOMAIN q : q[i].leg = leg /\ q[i].now < m + 1 /\ Bucket(leg, q[i].now) = Bucket(leg, m + 1)
  <2>1. PICK i \in DOMAIN q : q[i].leg = leg /\ fired[leg] = Bucket(leg, q[i].now)
    <3>1. fired[leg] # -1
      BY <1>3, <1>4
    <3>2. QED
      BY <1>2, <3>1 DEF MarksAre
  <2>2. q[i].now < m + 1
    BY <1>1
  <2>3. QED
    BY <1>4, <2>1, <2>2
<1>5. ASSUME NEW i \in DOMAIN q, q[i].leg = leg, Bucket(leg, q[i].now) = Bucket(leg, m + 1)
      PROVE  fired[leg] = Bucket(leg, m + 1)
  <2>1. Bucket(leg, m + 1) <= fired[leg]
    BY <1>5 DEF MarksAre
  <2>2. fired[leg] # -1
    BY <1>2, <1>3, <2>1
  <2>3. PICK j \in DOMAIN q : fired[leg] = Bucket(leg, q[j].now)
    BY <1>2, <2>2 DEF MarksAre
  <2>4. fired[leg] <= Bucket(leg, m + 1)
    BY <1>3, <2>3
  <2>5. QED
    BY <1>2, <1>3, <2>1, <2>4
<1>6. QED
  BY <1>4, <1>5 DEF FiredBefore, leg

\* One more time is asked, and what was answered before stays answered.
LEMMA AskOnce ==
    ASSUME NEW q, NEW fired, NEW m \in Nat, AnswersUpTo(q, m), MarksAre(q, fired),
           NEW trades, \A t \in trades : t.leg \in Legs /\ t.now = m + 1,
           NEW found, found = GetSignal(trades, fired)
    PROVE  /\ AnswersUpTo(q \o found, m + 1)
           /\ MarksAre(q \o found, Marked(fired, found, trades))
           /\ AnsweredAt(q \o found, trades, m + 1)
           /\ \A asked, now : (now \in Nat /\ now <= m /\ AnsweredAt(q, asked, now)) => AnsweredAt(q \o found, asked, now)
<1> DEFINE now == m + 1
           S == {t \in trades : ~FiredBefore(q, t, now)}
           r == q \o found
<1>1. found = FirstOf(S)
  <2>1. found = FirstOf({t \in trades : fired[t.leg] # Bucket(t.leg, t.now)})
    BY DEF GetSignal
  <2>2. \A t \in trades : fired[t.leg] # Bucket(t.leg, t.now) <=> ~FiredBefore(q, t, now)
    BY MarksTell
  <2>3. {t \in trades : fired[t.leg] # Bucket(t.leg, t.now)} = S
    BY <2>2
  <2>4. QED
    BY <2>1, <2>3
<1>2. \A t \in S : t.leg \in Legs /\ t.now = now /\ ~FiredBefore(q, t, now)
  OBVIOUS
<1>3. (S = {} /\ found = <<>>) \/ \E t \in S : found = <<t>>
  BY <1>1, <1>2, FirstIs
<1>4. /\ now \in Nat /\ now > m
      /\ \A i \in DOMAIN q : q[i].leg \in Legs /\ q[i].now \in Nat /\ q[i].now <= m /\ q[i].now < now
  BY DEF AnswersUpTo
<1> HIDE DEF now, S
<1>5. IsList(found) /\ \A j \in DOMAIN found : j = 1 /\ found[j] \in S
  <2>1. CASE found = <<>>
    <3>1. <<>> \in Seq({}) /\ DOMAIN <<>> = {}
      OBVIOUS
    <3>2. QED
      BY <2>1, <3>1 DEF IsList
  <2>2. CASE \E t \in S : found = <<t>>
    <3>1. PICK t \in S : found = <<t>>
      BY <2>2
    <3>2. <<t>> \in Seq({t}) /\ DOMAIN <<t>> = {1} /\ <<t>>[1] = t
      OBVIOUS
    <3>3. QED
      BY <3>1, <3>2 DEF IsList
  <2>3. QED
    BY <1>3, <2>1, <2>2
<1>6. IsList(q)
  BY DEF AnswersUpTo
<1>7. PICK T : q \in Seq(T) /\ found \in Seq(T)
  <2>1. PICK U : q \in Seq(U)
    BY <1>6 DEF IsList
  <2>2. PICK V : found \in Seq(V)
    BY <1>5 DEF IsList
  <2>3. q \in Seq(U \cup V) /\ found \in Seq(U \cup V)
    BY <2>1, <2>2, SeqMonotonic
  <2>4. QED
    BY <2>3
<1>8. /\ IsList(r) /\ Len(q) \in Nat
      /\ \A i \in DOMAIN q : i \in DOMAIN r /\ r[i] = q[i]
      /\ \A j \in DOMAIN found : Len(q) + j \in DOMAIN r /\ r[Len(q) + j] = found[j]
      /\ \A i \in DOMAIN r : i \in DOMAIN q \/ \E j \in DOMAIN found : i = Len(q) + j
  <2>1. /\ r \in Seq(T) /\ Len(r) = Len(q) + Len(found) /\ Len(q) \in Nat /\ Len(found) \in Nat
        /\ DOMAIN q = 1..Len(q) /\ DOMAIN found = 1..Len(found) /\ DOMAIN r = 1..(Len(q) + Len(found))
        /\ \A i \in 1..(Len(q) + Len(found)) : r[i] = IF i <= Len(q) THEN q[i] ELSE found[i - Len(q)]
    BY <1>7, ConcatProperties
  <2> HIDE DEF r
  <2>2. \A i \in DOMAIN q : i \in DOMAIN r /\ r[i] = q[i]
    BY <2>1
  <2>3. ASSUME NEW j \in DOMAIN found PROVE Len(q) + j \in DOMAIN r /\ r[Len(q) + j] = found[j]
    <3>1. j \in 1..Len(found) /\ ~(Len(q) + j <= Len(q)) /\ Len(q) + j - Len(q) = j
      BY <2>1
    <3>2. QED
      BY <2>1, <3>1
  <2>4. ASSUME NEW i \in DOMAIN r, i \notin DOMAIN q PROVE \E j \in DOMAIN found : i = Len(q) + j
    <3>1. i - Len(q) \in DOMAIN found /\ i = Len(q) + (i - Len(q))
      BY <2>1, <2>4
    <3>2. QED
      BY <3>1
  <2>5. QED
    BY <2>1, <2>2, <2>3, <2>4 DEF IsList
<1> HIDE DEF r
<1>9. \A i \in DOMAIN r : \/ i \in DOMAIN q /\ r[i] = q[i]
                          \/ 1 \in DOMAIN found /\ i = Len(q) + 1 /\ r[i] = found[1] /\ r[i] \in S
  BY <1>5, <1>8
<1>10. AnswersUpTo(r, now)
  <2>1. ASSUME NEW i \in DOMAIN r PROVE r[i].leg \in Legs /\ r[i].now \in Nat /\ r[i].now <= now
    <3>1. CASE i \in DOMAIN q /\ r[i] = q[i]
      BY <1>4, <3>1
    <3>2. CASE r[i] \in S
      BY <1>2, <1>4, <3>2
    <3>3. QED
      BY <1>9, <3>1, <3>2
  <2>2. QED
    BY <1>8, <2>1 DEF AnswersUpTo
<1>11. \A t, n : (n \in Nat /\ n <= now) => (FiredBefore(r, t, n) <=> FiredBefore(q, t, n))
  <2> SUFFICES ASSUME NEW t, NEW n \in Nat, n <= now
               PROVE  FiredBefore(r, t, n) <=> FiredBefore(q, t, n)
    OBVIOUS
  <2>1. FiredBefore(q, t, n) => FiredBefore(r, t, n)
    BY <1>8 DEF FiredBefore
  <2>2. ASSUME NEW i \in DOMAIN r, r[i].now < n PROVE i \in DOMAIN q /\ r[i] = q[i]
    <3>1. r[i] \in S => r[i].now = now
      BY <1>2
    <3>2. QED
      BY <1>4, <1>9, <2>2, <3>1
  <2>3. FiredBefore(r, t, n) => FiredBefore(q, t, n)
    BY <2>2 DEF FiredBefore
  <2>4. QED
    BY <2>1, <2>3
<1>12. AnsweredAt(r, trades, now)
  <2>1. {t \in trades : ~FiredBefore(r, t, now)} = S
    BY <1>4, <1>11 DEF S
  <2>2. \A i \in DOMAIN r : r[i].now = now <=> (1 \in DOMAIN found /\ i = Len(q) + 1)
    <3> SUFFICES ASSUME NEW i \in DOMAIN r
                 PROVE  r[i].now = now <=> (1 \in DOMAIN found /\ i = Len(q) + 1)
      OBVIOUS
    <3>1. i \in DOMAIN q => r[i].now # now /\ i # Len(q) + 1
      <4>1. DOMAIN q = 1..Len(q)
        BY <1>7
      <4>2. i \in DOMAIN q => r[i] = q[i] /\ q[i].now < now /\ q[i].now \in Nat
        BY <1>4, <1>8
      <4>3. QED
        BY <1>4, <1>8, <4>1, <4>2
    <3>2. QED
      BY <1>2, <1>9, <3>1
  <2>3. {r[i] : i \in {j \in DOMAIN r : r[j].now = now}} = Range(found)
    <3>1. CASE found = <<>>
      BY <2>2, <3>1 DEF Range
    <3>2. CASE \E t \in S : found = <<t>>
      <4>1. PICK t \in S : found = <<t>>
        BY <3>2
      <4>2. 1 \in DOMAIN found /\ found[1] = t /\ Range(found) = {t}
        BY <4>1 DEF Range
      <4>3. Len(q) + 1 \in DOMAIN r /\ r[Len(q) + 1] = t
        BY <1>8, <4>2
      <4>4. {j \in DOMAIN r : r[j].now = now} = {Len(q) + 1}
        BY <2>2, <4>2, <4>3
      <4>5. {r[i] : i \in {Len(q) + 1}} = {t}
        BY <4>3
      <4>6. QED
        BY <4>2, <4>4, <4>5
    <3>3. QED
      BY <1>3, <3>1, <3>2
  <2>4. \A i, j \in {x \in DOMAIN r : r[x].now = now} : i = j
    BY <2>2
  <2>5. QED
    BY <1>1, <2>1, <2>3, <2>4 DEF AnsweredAt
<1>13. ASSUME NEW asked, NEW n \in Nat, n <= m, AnsweredAt(q, asked, n)
       PROVE  AnsweredAt(r, asked, n)
  <2>1. n <= now /\ n # now
    BY <1>4, <1>13
  <2>2. {t \in asked : ~FiredBefore(r, t, n)} = {t \in asked : ~FiredBefore(q, t, n)}
    BY <1>11, <2>1
  <2>3. {x \in DOMAIN r : r[x].now = n} = {x \in DOMAIN q : q[x].now = n}
    <3>1. \A x \in DOMAIN r : r[x].now = n => x \in DOMAIN q
      BY <1>2, <1>9, <2>1
    <3>2. QED
      BY <1>8, <3>1
  <2>4. {r[i] : i \in {x \in DOMAIN q : q[x].now = n}} = {q[i] : i \in {x \in DOMAIN q : q[x].now = n}}
    BY <1>8
  <2>5. QED
    BY <1>13, <2>2, <2>3, <2>4 DEF AnsweredAt
<1>14. MarksAre(r, Marked(fired, found, trades))
  <2>1. CASE found = <<>>
    <3>1. DOMAIN r = DOMAIN q
      <4>1. 1 \notin DOMAIN found
        BY <2>1
      <4>2. \A i \in DOMAIN r : i \in DOMAIN q
        BY <1>9, <4>1
      <4>3. \A i \in DOMAIN q : i \in DOMAIN r
        BY <1>8
      <4>4. QED
        BY <4>2, <4>3
    <3>2. \A i \in DOMAIN q : r[i] = q[i]
      BY <1>8
    <3>3. Marked(fired, found, trades) = fired
      BY <2>1 DEF Marked
    <3>4. QED
      BY <3>1, <3>2, <3>3 DEF MarksAre
  <2>2. CASE \E t \in S : found = <<t>>
    <3>1. PICK t \in S : found = <<t>>
      BY <2>2
    <3> DEFINE leg == t.leg
               b == Bucket(leg, now)
               marked == [fired EXCEPT ![leg] = b]
    <3>2. found # <<>> /\ found[1] = t /\ 1 \in DOMAIN found
      BY <3>1
    <3>3. leg \in Legs /\ t.now = now
      BY <1>2
    <3>4. Marked(fired, found, trades) = marked
      BY <3>2, <3>3 DEF Marked
    <3>5. b \in Nat /\ \A i \in DOMAIN q : Bucket(leg, q[i].now) \in Nat /\ Bucket(leg, q[i].now) <= b
      BY <1>4, BucketsRise
    <3>6. Len(q) + 1 \in DOMAIN r /\ r[Len(q) + 1] = t
      BY <1>8, <3>2
    <3> HIDE DEF leg, b
    <3>7. fired \in [Legs -> Int]
      BY DEF MarksAre
    <3>8. marked \in [Legs -> Int] /\ marked[leg] = b /\ \A x \in Legs : x # leg => marked[x] = fired[x]
      BY <3>3, <3>5, <3>7
    <3> HIDE DEF marked
    <3>9. ASSUME NEW x \in Legs
          PROVE  marked[x] = -1 \/ \E i \in DOMAIN r : r[i].leg = x /\ marked[x] = Bucket(x, r[i].now)
      <4>1. CASE x = leg
        BY <3>3, <3>6, <3>8, <4>1 DEF leg, b
      <4>2. CASE x # leg
        <5>1. fired[x] = -1 \/ \E i \in DOMAIN q : q[i].leg = x /\ fired[x] = Bucket(x, q[i].now)
          BY DEF MarksAre
        <5>2. QED
          BY <1>8, <3>8, <4>2, <5>1
      <4>3. QED
        BY <4>1, <4>2
    <3>10. ASSUME NEW i \in DOMAIN r PROVE Bucket(r[i].leg, r[i].now) <= marked[r[i].leg]
      <4>1. CASE i \in DOMAIN q /\ r[i] = q[i]
        <5>1. Bucket(q[i].leg, q[i].now) <= fired[q[i].leg] /\ q[i].leg \in Legs
          BY <1>4, <4>1 DEF MarksAre
        <5>2. CASE q[i].leg = leg
          BY <3>5, <3>8, <4>1, <5>2
        <5>3. CASE q[i].leg # leg
          BY <3>8, <4>1, <5>1, <5>3
        <5>4. QED
          BY <5>2, <5>3
      <4>2. CASE r[i] = t
        <5>1. Bucket(r[i].leg, r[i].now) = b
          BY <3>3, <4>2 DEF b, leg
        <5>2. marked[r[i].leg] = b
          BY <3>8, <4>2 DEF leg
        <5>3. b <= b
          BY <3>5
        <5>4. QED
          BY <5>1, <5>2, <5>3
      <4>3. QED
        BY <1>9, <3>2, <4>1, <4>2
    <3>11. QED
      BY <3>4, <3>8, <3>9, <3>10 DEF MarksAre
  <2>3. QED
    BY <1>3, <2>1, <2>2
<1>15. QED
  BY <1>10, <1>12, <1>13, <1>14 DEF r, now

\* The trades of the legs that are ready now.
LEMMA ReadyAre ==
    ASSUME NEW fives, NEW quarters, NEW now, NEW bias
    PROVE  \A t \in ReadyLegs(fives, quarters, now, bias) : t.leg \in Legs /\ t.now = now
<1>1. \A t \in ReadyLegs(fives, quarters, now, bias) :
         \E leg \in Range(EvalOrder) : \E side : t = Trade(leg, side, fives, quarters, now)
  BY DEF ReadyLegs
<1>2. \A leg, side : Trade(leg, side, fives, quarters, now).leg = leg
                     /\ Trade(leg, side, fives, quarters, now).now = now
  BY DEF Trade
<1>3. QED
  BY <1>1, <1>2 DEF Legs

\* The invariant of the book holds at the start.
LEMMA BookBegins == InitBook => BookInv
<1> SUFFICES ASSUME InitBook PROVE BookInv
  OBVIOUS
<1>1. PICK shut \in Shuts :
         StartStudy("book", [fired |-> NeverFired, replayed |-> NeverFired, replay |-> <<>>,
                             shut |-> shut, bias |-> NeutralBias(-1), asked |-> <<>>])
  BY DEF InitBook
<1> DEFINE memory == [fired |-> NeverFired, replayed |-> NeverFired, replay |-> <<>>,
                      shut |-> shut, bias |-> NeutralBias(-1), asked |-> <<>>]
<1>2. /\ "fired" \in DOMAIN memory \ {"times", "past"} /\ "asked" \in DOMAIN memory \ {"times", "past"}
      /\ memory.fired = NeverFired /\ memory.asked = <<>>
      /\ StartStudy("book", memory)
  BY <1>1
<1> HIDE DEF memory
<1>3. /\ tape = <<>> /\ out = <<>> /\ {"times", "fired", "asked"} \subseteq DOMAIN mem
      /\ mem.fired = NeverFired /\ mem.asked = <<>> /\ mem.times \in Times["book"]
  BY <1>2, Started
<1>4. Slot(1) \in Nat
  BY <1>3, BookIsTimed DEF Slot
<1>5. <<>> \in Seq({}) /\ DOMAIN <<>> = {} /\ Len(<<>>) = 0 /\ 1..0 = {}
  OBVIOUS
<1>6. MarksAre(<<>>, NeverFired)
  BY <1>5 DEF MarksAre, NeverFired, Legs
<1>7. AnswersUpTo(<<>>, Slot(1) + Len(tape))
  BY <1>5 DEF AnswersUpTo, IsList
<1>8. tape \in Seq(Ohlc)
  BY <1>3
<1>9. QED
  BY <1>3, <1>4, <1>5, <1>6, <1>7, <1>8 DEF BookInv, IsList

\* A tick of the book keeps it.
LEMMA BookGoesOn == BookInv /\ Book => BookInv'
<1> SUFFICES ASSUME BookInv, Book PROVE BookInv'
  OBVIOUS
<1>1. /\ tape' \in Seq(Ohlc) /\ Len(tape) \in Nat /\ Len(tape') = Len(tape) + 1
  BY NextTape DEF BookInv, Book, PriceStudies
<1>2. PICK bias :
         LET trades == LiveTrades(tape', bias)
             replays == ReplayedTrades(tape')
             found == GetSignal(trades, mem.fired)
             replayed == GetSignal(replays, mem.replayed)
         IN  /\ out' = out \o found
             /\ mem' = [mem EXCEPT !.bias = bias,
                                   !.asked = Append(@, trades),
                                   !.fired = Marked(mem.fired, found, trades),
                                   !.replay = @ \o replayed,
                                   !.replayed = Marked(mem.replayed, replayed, replays)]
  BY DEF Book
<1> DEFINE trades == LiveTrades(tape', bias)
           found == GetSignal(trades, mem.fired)
           m == Slot(1) + Len(tape)
<1>3. PICK replay, replayed :
         mem' = [mem EXCEPT !.bias = bias, !.asked = Append(@, trades), !.fired = Marked(mem.fired, found, trades),
                            !.replay = replay, !.replayed = replayed]
  BY <1>2
<1>4. out' = out \o found
  BY <1>2
<1>5. \A t \in trades : t.leg \in Legs /\ t.now = m + 1
  <2>1. \A t \in trades : t.leg \in Legs /\ t.now = Slot(1) + Len(tape')
    BY ReadyAre DEF LiveTrades
  <2>2. Slot(1) + Len(tape') = m + 1
    <3>1. Slot(1) \in Nat
      BY DEF BookInv
    <3>2. QED
      BY <1>1, <3>1
  <2>3. QED
    BY <2>1, <2>2
<1> HIDE DEF trades
<1>6. found = GetSignal(trades, mem.fired)
  OBVIOUS
<1> HIDE DEF found
<1>7. /\ mem'.times = mem.times /\ mem'.asked = Append(mem.asked, trades)
      /\ mem'.fired = Marked(mem.fired, found, trades)
      /\ {"times", "fired", "asked"} \subseteq DOMAIN mem'
  BY <1>3 DEF BookInv
<1>8. mem'.times[1] = mem.times[1]
  BY <1>7
<1>9. m \in Nat /\ AnswersUpTo(out, m) /\ MarksAre(out, mem.fired)
  BY <1>1 DEF BookInv
<1> HIDE DEF m
<1>10. /\ AnswersUpTo(out \o found, m + 1)
       /\ MarksAre(out \o found, Marked(mem.fired, found, trades))
       /\ AnsweredAt(out \o found, trades, m + 1)
       /\ \A asked, now : (now \in Nat /\ now <= m /\ AnsweredAt(out, asked, now))
                            => AnsweredAt(out \o found, asked, now)
  BY <1>5, <1>6, <1>9, AskOnce
<1>11. PICK S : mem.asked \in Seq(S)
  BY DEF BookInv, IsList
<1>12. /\ IsList(mem'.asked) /\ Len(mem'.asked) = Len(tape')
       /\ mem'.asked[Len(tape')] = trades
       /\ \A n \in 1..Len(tape) : mem'.asked[n] = mem.asked[n]
  <2> DEFINE q == mem.asked
  <2>1. q \in Seq(S \cup {trades}) /\ Len(q) = Len(tape)
    BY <1>11, SeqMonotonic DEF BookInv
  <2> HIDE DEF q
  <2>2. /\ Append(q, trades) \in Seq(S \cup {trades}) /\ Len(Append(q, trades)) = Len(q) + 1
        /\ Append(q, trades)[Len(q) + 1] = trades
        /\ \A n \in 1..Len(q) : Append(q, trades)[n] = q[n]
    BY <2>1
  <2>3. mem'.asked = Append(q, trades)
    BY <1>7 DEF q
  <2>4. QED
    BY <1>1, <2>1, <2>2, <2>3 DEF IsList, q
<1>13. Slot(1) \in Nat /\ (Slot(1))' = Slot(1) /\ m = Slot(1) + Len(tape) /\ m + 1 = Slot(1) + Len(tape')
  BY <1>1, <1>8 DEF BookInv, Slot, m
<1>14. ASSUME NEW n \in 1..Len(tape') PROVE AnsweredAt(out', mem'.asked[n], Slot(1) + n)
  <2>1. CASE n = Len(tape')
    BY <1>4, <1>10, <1>12, <1>13, <2>1
  <2>2. CASE n # Len(tape')
    <3>1. n \in 1..Len(tape)
      BY <1>1, <2>2
    <3>2. AnsweredAt(out, mem.asked[n], Slot(1) + n)
      BY <3>1 DEF BookInv
    <3>3. Slot(1) + n \in Nat /\ Slot(1) + n <= m
      BY <1>1, <1>13, <3>1
    <3>4. QED
      BY <1>4, <1>10, <1>12, <3>1, <3>2, <3>3
  <2>3. QED
    BY <2>1, <2>2
<1>15. AnswersUpTo(out', (Slot(1) + Len(tape))') /\ MarksAre(out', mem'.fired)
  BY <1>4, <1>7, <1>10, <1>13
<1>16. (Slot(1))' \in Nat /\ \A n \in 1..Len(tape') : AnsweredAt(out', mem'.asked[n], (Slot(1))' + n)
  BY <1>13, <1>14
<1>17. QED
  BY <1>1, <1>7, <1>12, <1>15, <1>16 DEF BookInv

\* The book answers in every minute with the first ready leg that has not fired in its
\* bar: each leg once in a bar, and none forgotten that lost to another.
THEOREM LegsFireInTurn == SpecLab => []BookFires
<1> DEFINE Inv == study = "book" => BookInv
<1>1. InitLab => Inv
  BY EachBegins, BookBegins DEF Begin
<1>2. Inv /\ NextLab => Inv'
  <2> SUFFICES ASSUME Inv, NextLab, study' = "book" PROVE BookInv'
    OBVIOUS
  <2>1. GoOn /\ study = "book"
    BY EachGoesOn DEF GoOn
  <2>2. QED
    BY <2>1, BookGoesOn DEF GoOn
<1>3. Inv /\ UNCHANGED vars => Inv'
  BY DEF vars, BookInv, Slot
<1>4. Inv => BookFires
  <2> SUFFICES ASSUME study = "book", BookInv PROVE BookFires
    BY DEF BookFires
  <2>1. \A n \in 1..Len(tape) : AnsweredAt(out, mem.asked[n], Slot(1) + n)
    BY DEF BookInv
  <2>2. QED
    BY <2>1 DEF BookFires, AnsweredAt, FiredBefore
<1>5. QED
  BY <1>1, <1>2, <1>3, <1>4, PTL DEF SpecLab

=============================================================================
