---------------------------- MODULE SweepReplays ----------------------------
(***************************************************************************)
(* The replays of the sweep strategies over a finished tape of minutes:     *)
(*   var1   backtest/backtest_engine.py, replay_var1 (its bars are single)  *)
(*   var2   backtest/backtest_engine.py, replay_var2                        *)
(*   micro  backtest/backtest_micro.py, replay                              *)
(* and ict, which asks ict_engine.check_entry on every bar.                 *)
(* A trade goes to out with the exit that the rest of the tape gives it.    *)
(* The prices of var2's tapes are even: it takes the middle of a gap.       *)
(***************************************************************************)
EXTENDS LiquidityPools

CONSTANT Replay     \* [entryWindow, poolOnly, warmup, lossLimit, profitTarget]

ASSUME WarmupIsBars == Replay.warmup \in Nat

ReplayStudies == {"var1", "var2", "micro", "ict"}
NeverEntered == -1

InitReplays == \E s \in ReplayStudies : StartStudy(s, [at |-> 0, last |-> NeverEntered, daily |-> <<>>])

\* The tape is read before the loop.
ReadTape(s) == NextBar(s) /\ UNCHANGED <<mem, out>>

\* A trade entered at the close of bar k; the rest of the tape is walked for its
\* first stop or target.
Exited(trade, k) ==
    LET hits == {j \in (k + 1)..Len(tape) : Touch(trade.side, trade.sl, trade.tp, tape[j]) # "none"}
        at == IF hits = {} THEN Len(tape) ELSE Min(hits)
        reason == IF hits = {} THEN "OPEN" ELSE Touch(trade.side, trade.sl, trade.tp, tape[at])
        exit == CASE reason = "SL" -> trade.sl
                  [] reason = "TP" -> trade.tp
                  [] reason = "OPEN" /\ k < Len(tape) -> tape[at].c
                  [] OTHER -> trade.fill
    IN  With(trade, [entered |-> Slot(k), from |-> k + 1, exit |-> at, reason |-> reason,
                     pnl |-> trade.side * (exit - trade.fill)])

\* What was found at the close of bar k is logged with its exit, and its time
\* for the cooldown.
Log(found, k) ==
    \E trades \in {[i \in DOMAIN found |-> Exited(found[i], k)]} :
        /\ out' = out \o trades
        /\ mem' = [mem EXCEPT !.at = @ + 1,
                              !.last = IF trades = <<>> THEN @ ELSE Slot(k),
                              !.daily = @ \o [i \in DOMAIN trades |->
                                                 [day |-> DayOf(k), pnl |-> trades[i].pnl]]]
        /\ UNCHANGED <<study, tape>>

CoolingDown(slot) == mem.last # NeverEntered /\ slot - mem.last < Scalp[study].cooldown

MinCandles(s) == 2 * Scalp[s].lookback + 3

--------------------------------------------------------------------------
\* VAR1: pools and sweep on one time frame; the decision on bar k.
Var1Trades(k) ==
    LET window == LastOf(SubSeq(tape, 1, k), Scalp[study].window)
    IN  IF CoolingDown(Slot(k)) THEN <<>>
        ELSE SweepTrade(window, Pools(window, Scalp.var1), {}, Scalp.var1)

Var1 ==
    \/ ReadTape("var1")
    \/ LET k == MinCandles("var1") + mem.at
       IN  /\ Finished("var1") /\ k < Len(tape) - 1
           /\ \E found \in {Var1Trades(k)} : Log(found, k)

--------------------------------------------------------------------------
\* VAR2: the pools of the quarters, swept by a bar of five minutes, entered on
\* the first minute with a rejection wick.
Fives == BegunBy(mem.past.fives, tape, FiveMinutes, Len(tape))
MinuteAt(slot) == slot - Slot(1) + 1

\* Every quarter that has begun when the swept bar opens, with all its minutes.
QuartersFor(slot) ==
    LastOf(BegunBy(mem.past.quarters, tape, Quarter, Max({0, MinuteAt(slot)})), Scalp[study].window)

\* The minutes in which the entry is looked for.
EntryMinutes(i) ==
    LET until == Fives[Min({i + 1 + Replay.entryWindow, Len(Fives)})].t
    IN  {m \in DOMAIN tape : Fives[i].t < Slot(m) /\ Slot(m) <= until}

Var2Trades(i) ==
    LET swept == Fives[i]
        quarters == QuartersFor(swept.t)
        pools == Pools(quarters, Scalp.var2)
        side == -FirstPool(SweptBy(swept, pools)).side
        Trade2(m) == With([side |-> side, fill |-> tape[m].c, at |-> m],
                          TpSl(swept, side, tape[m].c, pools, Fvgs(quarters, Ict.gap), Scalp.var2))
    IN  IF \/ CoolingDown(swept.t)
           \/ Len(quarters) < MinCandles("var2")
           \/ SweptBy(swept, pools) = {}
        THEN {}
        ELSE {t \in {Trade2(m) : m \in EntryMinutes(i)} :
                 RejectionWick(tape[t.at], Scalp.var2.wick) /\ (Replay.poolOnly => t.mode = "POOL")}

\* The first of them.
Var2 ==
    \/ ReadTape("var2")
    \/ LET i == MinCandles("var2") + mem.at
       IN  /\ Finished("var2") /\ i < Len(Fives) - 1
           /\ \E found \in {Var2Trades(i)} :
                IF found = {} THEN Log(<<>>, Len(tape))
                ELSE \E t \in found : (\A u \in found : t.at <= u.at) /\ Log(<<t>>, t.at)

--------------------------------------------------------------------------
\* VAR3, in its session, while the day's trades are within the limits.  A trade
\* counts with its final result from its entry on.
Realized(day) ==
    FoldSeq(LAMBDA t, sum : IF t.day = day THEN sum + t.pnl ELSE sum, 0, mem.daily)

WithinLimits(day) == Replay.lossLimit < Realized(day) /\ Realized(day) < Replay.profitTarget

MicroTrades(k) ==
    IF \/ Hour(k) \notin 7..15
       \/ CoolingDown(Slot(k))
       \/ ~WithinLimits(DayOf(k))
    THEN <<>>
    ELSE MicroSignal(LastOf(SubSeq(tape, 1, k), Scalp[study].window),
                     BegunBy(mem.past.fives, tape, FiveMinutes, k), Scalp.micro)

MicroStep ==
    \/ ReadTape("micro")
    \/ LET k == Replay.warmup + 1 + mem.at
       IN  /\ Finished("micro") /\ k < Len(tape)
           /\ \E found \in {MicroTrades(k)} : Log(found, k)

--------------------------------------------------------------------------
\* The entry at the close of bar k, for the trend of the hours.
IctTrades(k) ==
    CheckEntry(SubSeq(tape, 1, k), tape[k].c, StructureBias(mem.past.fours, mem.past.ones))

IctStep ==
    \/ ReadTape("ict")
    \/ LET k == mem.at + 1
       IN  /\ Finished("ict") /\ k <= Len(tape)
           /\ \E found \in {IctTrades(k)} : Log(found, k)

NextReplay == Var1 \/ Var2 \/ MicroStep \/ IctStep

-----------------------------------------------------------------------------
\* A replay's trade has its stop and its target on the right sides of the fill.
\* VAR2 does not promise it: its entry may lie beyond the wick that the stop is
\* set from.
FairReplays == study \in ReplayStudies \ {"var2"} =>
    \A i \in DOMAIN out :
        LET t == out[i] IN t.side * t.sl < t.side * t.fill /\ t.side * t.fill < t.side * t.tp

=============================================================================
