------------------------------ MODULE Backtests ------------------------------
(***************************************************************************)
(* The engines that turn signals into trades:                               *)
(*   exec    research/exec_sim.py, the simulator of the s90 studies         *)
(*   engine  xauusd_strategies/engine.py, with pending orders               *)
(*   btc     btc_research/engine.py, one position and a cooldown            *)
(* The detector of an engine is any detector: it may find any of Setups on  *)
(* any bar.  Trades go to out when they end.                                *)
(***************************************************************************)
EXTENDS Bars

CONSTANTS
    Setups,         \* what a detector may find: [side, entry, sl, tp, cancel, type]
    HalfSpread, Slip,
    MaxHold,        \* exec: the limits tried, 0 is none;  btc: their maximum
    ValidBars,      \* engine: bars for which a pending order is kept
    Spread,
    Cooldown        \* btc: bars after a trade

EngineStudies == {"exec", "engine", "btc"}

ASSUME CostsAreCosts ==
    /\ {HalfSpread, Slip, ValidBars, Spread, Cooldown} \subseteq Nat
    /\ IsFiniteSet(MaxHold) /\ MaxHold \subseteq Nat /\ MaxHold # {}

\* The data are bars, and a detector gives a setup all of its prices.
ASSUME InputsAreFull ==
    /\ EngineStudies \subseteq DOMAIN Length
    /\ \A s \in EngineStudies : \A b \in Shapes[s] :
          /\ b \in [o : Int, h : Int, l : Int, c : Int]
          /\ b.l <= b.o /\ b.o <= b.h /\ b.l <= b.c /\ b.c <= b.h
    /\ Setups \subseteq [side : Sides, entry : Int, sl : Int, tp : Int, cancel : Int,
                         type : {"market", "limit"}]

\* The replays of other modules end their trades in the same way.
TradeStudies == EngineStudies \cup {"var1", "var2", "micro", "ict"}

NoTrade == [none |-> TRUE]
Idle == [pending |-> NoTrade, trade |-> NoTrade, limit |-> 0, busy |-> 0]
FlatEngine == mem.trade = NoTrade

InitEngines ==
    /\ study \in EngineStudies
    /\ tape = <<>>
    /\ out = <<>>
    /\ \E limit \in IF study = "exec" THEN MaxHold ELSE {Max(MaxHold)} :
         mem = [Idle EXCEPT !.limit = limit]

\* A trade as it is opened on bar k, and as it ends, with what it earned.
Opened(setup, k, fill, tp, order) ==
    [side |-> setup.side, from |-> k, sl |-> setup.sl, tp |-> tp, fill |-> fill,
     order |-> order, exit |-> 0, reason |-> "open", pnl |-> 0]

Ended(trade, index, reason, exit, costs) ==
    [trade EXCEPT !.exit = index, !.reason = reason,
                  !.pnl = trade.side * (exit - trade.fill) - costs]

--------------------------------------------------------------------------
\* research/exec_sim.py

ValidSignal(setup, open) ==
    /\ setup.side * setup.sl < setup.side * open
    /\ setup.side * open < setup.side * setup.tp

\* The fill pays half the spread and the slippage.
ExecEntry(setup, bar, k) ==
    Opened(setup, k, bar.o + setup.side * (HalfSpread + Slip), setup.tp, NoTrade)

\* What a trade's bar does to it: the target is a limit order and pays no
\* slippage, every other exit does.
ExecScan(trade, bar, k) ==
    LET touch == Touch(trade.side, trade.sl, trade.tp, bar)
        worse == trade.side * (HalfSpread + Slip)
        last == mem.limit # 0 /\ k = trade.from + mem.limit - 1
    IN  CASE touch = "SL" -> <<Ended(trade, k, "SL", trade.sl - worse, 0)>>
          [] touch = "TP" -> <<Ended(trade, k, "TP", trade.tp - trade.side * HalfSpread, 0)>>
          [] touch = "none" /\ last -> <<Ended(trade, k, "TIMEOUT", bar.c - worse, 0)>>
          [] touch = "none" /\ ~last /\ k = Length["exec"] ->
                <<Ended(trade, k, "EOD", bar.c - worse, 0)>>
          [] OTHER -> <<>>

\* One signal per tape: simulate() runs every signal by itself.
Exec ==
    /\ NextBar("exec")
    /\ LET k == Len(tape')
           bar == tape'[k]
           Simulate(trade) ==
               LET ended == ExecScan(trade, bar, k)
               IN  /\ mem' = [mem EXCEPT !.trade = IF ended = <<>> THEN trade ELSE NoTrade]
                   /\ out' = out \o ended
       IN  \/ ~FlatEngine /\ Simulate(mem.trade)
           \/ FlatEngine /\ UNCHANGED <<mem, out>>
           \/ /\ FlatEngine /\ out = <<>>
              /\ \E setup \in Setups :
                   ValidSignal(setup, bar.o) /\ Simulate(ExecEntry(setup, bar, k))

--------------------------------------------------------------------------
\* xauusd_strategies/engine.py

\* 1) the open position.
Manage(bar, k) ==
    IF FlatEngine THEN <<>>
    ELSE LET t == mem.trade
             touch == Touch(t.side, t.sl, t.tp, bar)
         IN  IF touch = "none" THEN <<>>
             ELSE <<Ended(t, k, touch, (IF touch = "SL" THEN t.sl ELSE t.tp) - t.side * Spread, 0)>>

\* A mutant of Dead that looks at the open for the cancel level.
DeadAtOpen(order, bar, k) ==
    \/ k - order.detected > ValidBars
    \/ order.side * bar.o < order.side * order.cancel

Dead(order, bar, k) ==
    \/ k - order.detected > ValidBars
    \/ order.side * bar.c < order.side * order.cancel

Fills(order, bar) == order.type = "market" \/ (bar.l <= order.entry /\ order.entry <= bar.h)

\* The stop stays where it was; the target keeps its distance.
FillOrder(order, bar, k) ==
    LET fill == (IF order.type = "market" THEN bar.o ELSE order.entry) + order.side * Spread
    IN  Opened(order, k, fill, fill + order.tp - order.entry, order)

\* A setup that waits for its price from bar k on.
Ordered(setup, k) ==
    [side |-> setup.side, entry |-> setup.entry, sl |-> setup.sl, tp |-> setup.tp,
     cancel |-> setup.cancel, type |-> setup.type, detected |-> k]

\* 2) the pending order, once there is no position, 3) a new one.
Engine ==
    /\ NextBar("engine")
    /\ LET k == Len(tape')
           bar == tape'[k]
           ended == Manage(bar, k)
           flat == FlatEngine \/ ended # <<>>
           order == mem.pending
           waiting == flat /\ order # NoTrade
           dead == waiting /\ Dead(order, bar, k)
           filled == waiting /\ ~dead /\ Fills(order, bar)
           kept == IF dead \/ filled THEN NoTrade ELSE order
       IN  /\ out' = out \o ended
           /\ \E found \in {NoTrade} \cup {Ordered(s, k) : s \in Setups} :
                /\ found # NoTrade => flat /\ ~filled /\ kept = NoTrade
                /\ mem' = [mem EXCEPT
                       !.trade = IF filled THEN FillOrder(order, bar, k)
                                 ELSE IF flat THEN NoTrade ELSE mem.trade,
                       !.pending = IF found # NoTrade THEN found ELSE kept]

--------------------------------------------------------------------------
\* btc_research/engine.py

\* A trade and the bars after it that no other one may use.
OccupiedShort(k) == k < mem.busy    \* a mutant: the last of them is free

Occupied(k) == k <= mem.busy

\* The last bar of the holding.
TimeLimit(trade) == Min({Length["btc"], trade.from + mem.limit})

\* From its fill on a trade may last max_hold_bars further bars.
BtcScan(trade, bar, k) ==
    LET touch == Touch(trade.side, trade.sl, trade.tp, bar)
    IN  IF touch # "none"
        THEN <<Ended(trade, k, touch, IF touch = "SL" THEN trade.sl ELSE trade.tp, Spread)>>
        ELSE IF k = TimeLimit(trade) THEN <<Ended(trade, k, "TIME", bar.c, Spread)>>
        ELSE <<>>

BtcFill(setup, bar, k) == Opened(setup, k, bar.o, setup.tp, NoTrade)

\* An entry of the bar before is filled at this open, unless a trade or its
\* cooldown still lasts.
Btc ==
    /\ NextBar("btc")
    /\ LET k == Len(tape')
           bar == tape'[k]
       IN  \E trade \in IF ~FlatEngine THEN {mem.trade}
                        ELSE {NoTrade} \cup
                             IF k = 1 \/ Occupied(k) THEN {}
                             ELSE {BtcFill(s, bar, k) : s \in Setups} :
             LET ended == IF trade = NoTrade THEN <<>> ELSE BtcScan(trade, bar, k)
             IN  /\ out' = out \o ended
                 /\ mem' = [mem EXCEPT
                        !.trade = IF ended # <<>> THEN NoTrade ELSE trade,
                        !.busy = IF ended # <<>> THEN k + Cooldown ELSE mem.busy]

NextEngine == Exec \/ Engine \/ Btc

-----------------------------------------------------------------------------
\* The first bar in which an engine looks at the stop and the target: a fill
\* of engine.py is managed from the next bar on.
Watched(trade) == IF study = "engine" THEN trade.from + 1 ELSE trade.from

\* The bars on which a level is reached, from the tape alone.
StopBars(t) == {j \in Watched(t)..Len(tape) :
    IF t.side = 1 THEN tape[j].l <= t.sl ELSE tape[j].h >= t.sl}
TargetBars(t) == {j \in Watched(t)..Len(tape) :
    IF t.side = 1 THEN tape[j].h >= t.tp ELSE tape[j].l <= t.tp}

\* A trade ends on the first bar that reaches its stop or its target, as a loss
\* if that bar reaches both, and for no other reason before its time is up:
\* exec_sim.py, engine.py, btc_research/engine.py and the replays each scan for
\* themselves.
ExitIsFirst == study \in TradeStudies => \A i \in DOMAIN out :
    LET t == out[i]
        touched == StopBars(t) \cup TargetBars(t)
    IN  /\ \A j \in touched : t.exit <= j
        /\ t.reason = "SL" <=> t.exit \in StopBars(t)
        /\ t.reason = "TP" <=> t.exit \in TargetBars(t) \ StopBars(t)

\* A trade lasts as long as its limit allows and no longer, one that the limit
\* ends had it in full, the simulators leave none open at the end of the data, and
\* the engines hold one at a time; the one for Bitcoin lets the cooldown pass
\* after each.
Lasts == IF study = "btc" THEN mem.limit + 1 ELSE mem.limit
EndsInTime == study \in EngineStudies =>
    /\ \A i \in DOMAIN out :
         /\ mem.limit # 0 /\ study # "engine" => out[i].exit - out[i].from < Lasts
         /\ out[i].reason = "TIMEOUT" => out[i].exit - out[i].from + 1 = Lasts
         /\ out[i].reason = "EOD" => out[i].exit = Length["exec"]
    /\ study # "engine" /\ Len(tape) = Length[study] => FlatEngine
    /\ \A i, j \in DOMAIN out :
         i < j => out[j].from > out[i].exit + IF study = "btc" THEN Cooldown ELSE 0

\* engine.py fills a pending order on the first bar that reaches it while it is
\* flat, within the order's life and with no close beyond its cancel level since
\* it was found, at a price of that bar.
PendingHonest == study = "engine" =>
    \A t \in Range(out) \cup ({mem.trade} \ {NoTrade}) :
      LET since == t.order.detected + 1
          free(j) == \A i \in DOMAIN out : ~(out[i].from < j /\ j < out[i].exit)
      IN  /\ t.from \in since..(t.order.detected + ValidBars)
          /\ \A j \in since..t.from : t.side * tape[j].c >= t.side * t.order.cancel
          /\ \A j \in since..(t.from - 1) : free(j) => ~Fills(t.order, tape[j])
          /\ t.fill - t.side * Spread \in tape[t.from].l..tape[t.from].h
          /\ t.side * (t.tp - t.fill) = t.side * (t.order.tp - t.order.entry)

==============================================================================
