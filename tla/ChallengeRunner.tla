--------------------------- MODULE ChallengeRunner ---------------------------
(***************************************************************************)
(* The challenge runner of strategies/challenge: one thread that looks at  *)
(* the account once per closed H4 bar.  A tick reads the equity, starts the*)
(* guard's day, compares its own position with the broker's, and then      *)
(* trails the stop or, when flat, may enter.  Every request may fail, and  *)
(* the broker acts between two requests; a restart forgets everything but  *)
(* adopts the position that it finds.                                      *)
(*                                                                         *)
(* A request that is not answered, or answered with 429, 502, 503 or 504,  *)
(* is sent again, also the one that opens a position: its attempts are     *)
(* steps of their own, each carried out or not.  The other requests read,  *)
(* or move a stop to a given price, and repeating them changes nothing:    *)
(* each is one step that stands for its attempts.                          *)
(*                                                                         *)
(* Prices are numbers of a price unit and money is the gain of the minimum *)
(* lot per price unit; volumes are numbers of minimum lots.  Rates are per *)
(* mille.  Indicators are left out: a bar carries the signal it gives, if  *)
(* any, and its reach, the distance atr_mult * atr.                        *)
(***************************************************************************)
EXTENDS Integers, FiniteSets, FiniteSetsExt

CONSTANTS
    Tickets,            \* ids of broker positions
    NoTicket,
    Prices, Reaches,    \* what a bar may reach, and its values of atr_mult * atr
    MaxBars,            \* bound: closed bars
    BarsPerDay,
    InitialBalance,
    RiskPm, MaxTradeRiskPm,                 \* RISK_PCT, MAX_TRADE_RISK_PCT
    TargetPm, DailyPm, OverallPm,           \* profit_target_pct, max_*_dd_pct
    MaxLosses,                              \* max_consec_losses
    Attempts,           \* _RETRY_ATTEMPTS
    Hazards             \* what may go wrong in this instance

AllHazards == {"refused",    \* the broker may refuse a request
               "lost",       \* an order may go unanswered, be it carried out or not
               "unconfirmed", \* so may the move of a stop
               "unreadable", \* the list of positions may be unreadable
               "noequity",   \* the equity may be unreadable
               "nopnl",      \* the deals of a closed position may be unreadable
               "drift",      \* the price may move during a tick
               "restart"}

ASSUME ConstantsOK ==
    /\ IsFiniteSet(Tickets) /\ NoTicket \notin Tickets
    /\ Prices \subseteq Int /\ Reaches \subseteq Nat \ {0}
    /\ MaxBars \in Nat /\ BarsPerDay \in Nat \ {0}
    /\ {InitialBalance, RiskPm, MaxTradeRiskPm, TargetPm, DailyPm, OverallPm} \subseteq Nat
    /\ MaxLosses \in Nat /\ Attempts \in Nat \ {0}
    /\ Hazards \subseteq AllHazards

Directions == {"BUY", "SELL"}
Bar == [high : Prices, low : Prices, close : Prices,
        signal : Directions \cup {"none"}, reach : Reaches]
BrokerPosition == [state : {"none", "open", "closed"}, direction : Directions,
                   entry : Int, stop : Int, volume : Nat]
Position == [id : Tickets \cup {NoTicket}, direction : Directions, stop : Int, extreme : Int]
Guard == [start : Int, realized : Int, losses : Nat]

NoPosition == [id |-> NoTicket, direction |-> "BUY", stop |-> 0, extreme |-> 0]
NoBrokerPosition == [state |-> "none", direction |-> "BUY", entry |-> 0, stop |-> 0, volume |-> 0]
FreshGuard == [start |-> InitialBalance, realized |-> 0, losses |-> 0]

VARIABLES
    price,      \* the market
    bar,        \* number of closed bars
    last,       \* the last closed bar
    positions,  \* the broker's: Tickets -> position, open, closed or never opened
    balance,    \* the broker's
    guard,      \* the ChallengeGuard (its start is InitialBalance before a day is started)
    position,   \* Runner.position
    seen,       \* Runner.last_bar_seen, 0 for None
    day,        \* Runner.current_day, 0 for None
    step,       \* what the tick does next
    equity,     \* the equity the tick has read
    tries,      \* attempts of the running order that were not answered
    entry       \* history: the positions that the last entry has opened

market == <<price, bar, last>>
account == <<positions, balance>>
runner == <<guard, position, seen, day, step, equity>>
order == <<tries, entry>>
vars == <<market, account, runner, order>>

Steps == {"idle", "reconcile", "closed", "trail", "enter"}

TypeOK ==
    /\ price \in Prices /\ bar \in Nat \ {0} /\ last \in Bar
    /\ positions \in [Tickets -> BrokerPosition] /\ balance \in Int
    /\ guard \in Guard /\ position \in Position
    /\ seen \in Nat /\ day \in Nat /\ step \in Steps /\ equity \in Int
    /\ tries \in 0..(Attempts - 1) /\ entry \subseteq Tickets

Day(b) == 1 + (b - 1) \div BarsPerDay
Open == {t \in Tickets : positions[t].state = "open"}
InTrade == position.id # NoTicket

Init ==
    /\ price \in Prices
    /\ bar = 1
    /\ last \in {b \in Bar : b.high = price /\ b.low = price /\ b.close = price}
    /\ positions = [t \in Tickets |-> NoBrokerPosition]
    /\ balance = InitialBalance
    /\ guard = FreshGuard
    /\ position = NoPosition
    /\ seen = 0 /\ day = 0 /\ step = "idle" /\ equity = 0
    /\ tries = 0 /\ entry = {}
-----------------------------------------------------------------------------
(***************************************************************************)
(* The market and the broker.  A position is closed when the price reaches *)
(* its stop, at the stop.  A tick is over before the next bar closes.      *)
(***************************************************************************)
Gain(p, at) == p.volume * (IF p.direction = "BUY" THEN at - p.entry ELSE p.entry - at)
AtStop(p) == Gain(p, p.stop)
Floating == MapThenSumSet(LAMBDA t : Gain(positions[t], price), Open)
Equity == balance + Floating
Stopped(hit) == MapThenSumSet(LAMBDA t : AtStop(positions[t]), hit)

Hit(high, low) ==
    {t \in Open : IF positions[t].direction = "BUY" THEN positions[t].stop >= low
                                                    ELSE positions[t].stop <= high}

StopOut(hit) ==
    /\ positions' = [t \in Tickets |-> IF t \in hit THEN [positions[t] EXCEPT !.state = "closed"]
                                                    ELSE positions[t]]
    /\ balance' = balance + Stopped(hit)

NewBar ==
    /\ bar < MaxBars
    /\ step = "idle"
    /\ bar' = bar + 1
    /\ last' \in {b \in Bar : b.low <= price /\ price <= b.high /\ b.low <= b.close /\ b.close <= b.high}
    /\ price' = last'.close
    /\ StopOut(Hit(last'.high, last'.low))
    /\ UNCHANGED <<runner, order>>

Drift ==
    /\ "drift" \in Hazards /\ step # "idle"
    /\ \E p \in Prices \ {price} : price' = p /\ StopOut(Hit(p, p))
    /\ UNCHANGED <<bar, last, runner, order>>
-----------------------------------------------------------------------------
(***************************************************************************)
(* The guard.                                                              *)
(***************************************************************************)
\* Levels, in thousandths of the money unit.
daily_loss_limit == guard.start * DailyPm
overall_floor == InitialBalance * (1000 - OverallPm)
target_equity == InitialBalance * (1000 + TargetPm)

can_trade ==
    /\ 1000 * equity < target_equity
    /\ 1000 * equity > overall_floor
    /\ 1000 * guard.realized > -daily_loss_limit
    /\ guard.losses < MaxLosses

WithinBudget(risk) ==
    /\ 1000 * risk <= daily_loss_limit + 1000 * guard.realized
    /\ 1000 * risk <= 1000 * equity - overall_floor

\* Mutant: a win takes one loss off the streak.
record_trade_decays(pnl) ==
    [guard EXCEPT !.realized = @ + pnl,
                  !.losses = IF pnl < 0 THEN @ + 1 ELSE IF pnl > 0 THEN @ - 1 ELSE @]

record_trade(pnl) ==
    [guard EXCEPT !.realized = @ + pnl,
                  !.losses = IF pnl < 0 THEN @ + 1 ELSE IF pnl > 0 THEN 0 ELSE @]

\* Rounded down to lots; the minimum lot is allowed up to a higher risk.
position_size(reach) ==
    LET lots == (equity * RiskPm) \div (1000 * reach)
    IN IF equity <= 0 \/ RiskPm = 0 THEN 0
       ELSE IF lots >= 1 THEN lots
       ELSE IF 1000 * reach <= MaxTradeRiskPm * equity THEN 1
       ELSE 0
-----------------------------------------------------------------------------
(***************************************************************************)
(* A tick.  A bar is looked at once, also when the equity is unreadable.   *)
(***************************************************************************)
Begin ==
    /\ step = "idle" /\ seen < bar
    /\ seen' = bar
    /\ \/ /\ equity' = Equity
          /\ day' = Day(bar)
          /\ guard' = IF day = Day(bar) THEN guard ELSE [start |-> Equity, realized |-> 0, losses |-> 0]
          /\ step' = "reconcile"
       \/ "noequity" \in Hazards /\ UNCHANGED <<equity, day, guard, step>>
    /\ UNCHANGED <<market, account, position, order>>

Adopted(t) == [id |-> t, direction |-> positions[t].direction,
               stop |-> positions[t].stop, extreme |-> positions[t].entry]

\* Mutant: a position that was not opened by this process is not adopted.
ReconcileForgets ==
    /\ step = "reconcile"
    /\ IF InTrade /\ (Open = {} \/ "unreadable" \in Hazards) THEN step' = "closed"
       ELSE step' = IF InTrade THEN "trail" ELSE "enter"
    /\ UNCHANGED <<market, account, guard, position, seen, day, equity, order>>

\* open_position() answers None both when flat and when it cannot tell.
Reconcile ==
    /\ step = "reconcile"
    /\ \/ /\ Open = {} \/ "unreadable" \in Hazards
          /\ step' = IF InTrade THEN "closed" ELSE "enter"
          /\ UNCHANGED position
       \/ /\ \E t \in Open : position' = IF InTrade THEN position ELSE Adopted(t)
          /\ step' = "trail"
    /\ UNCHANGED <<market, account, guard, seen, day, equity, order>>

OnPositionClosed ==
    /\ step = "closed"
    /\ LET p == positions[position.id]
           pnl == IF p.state = "closed" THEN AtStop(p) ELSE 0
       IN \E x \in {pnl} \cup (IF "nopnl" \in Hazards THEN {0} ELSE {}) : guard' = record_trade(x)
    /\ position' = NoPosition
    /\ step' = "enter"
    /\ UNCHANGED <<market, account, seen, day, equity, order>>
-----------------------------------------------------------------------------
(***************************************************************************)
(* The chandelier stop hangs one reach from the extreme since the entry    *)
(* and only moves toward the price.                                        *)
(***************************************************************************)
Tighter(d, a, b) == IF d = "BUY" THEN a > b ELSE a < b

Extreme == IF position.direction = "BUY"
           THEN IF last.high > position.extreme THEN last.high ELSE position.extreme
           ELSE IF last.low < position.extreme THEN last.low ELSE position.extreme

Candidate == IF position.direction = "BUY" THEN Extreme - last.reach ELSE Extreme + last.reach

\* Mutant: the stop follows the candidate both ways.
chandelier_trail_loose == Candidate

chandelier_trail ==
    IF Tighter(position.direction, Candidate, position.stop) THEN Candidate ELSE position.stop

Valid(d, stop) == Tighter(d, price, stop)

\* modify_sl() answers True to any answer but an error of the request.
Trail ==
    /\ step = "trail"
    /\ LET new == chandelier_trail
           t == position.id
           moved == [positions EXCEPT ![t].stop = new]
           can == t \in Open /\ Valid(positions[t].direction, new)
       IN \/ /\ new = position.stop
             /\ position' = [position EXCEPT !.extreme = Extreme]
             /\ UNCHANGED positions
          \/ /\ new # position.stop /\ can
             /\ positions' = moved
             /\ \/ position' = [position EXCEPT !.extreme = Extreme, !.stop = new]
                \/ "unconfirmed" \in Hazards /\ position' = [position EXCEPT !.extreme = Extreme]
          \/ /\ new # position.stop /\ (can => "refused" \in Hazards)
             /\ position' \in {[position EXCEPT !.extreme = Extreme],
                               [position EXCEPT !.extreme = Extreme, !.stop = new]}
             /\ UNCHANGED positions
    /\ step' = "idle" /\ equity' = 0
    /\ UNCHANGED <<market, balance, guard, seen, day, order>>

InitialStop == IF last.signal = "BUY" THEN last.close - last.reach ELSE last.close + last.reach

\* Mutant: the budget is not consulted.
WillEnterUnbudgeted == last.signal # "none" /\ can_trade /\ position_size(last.reach) > 0

WillEnter ==
    /\ last.signal # "none"
    /\ can_trade
    /\ position_size(last.reach) > 0
    /\ WithinBudget(position_size(last.reach) * last.reach)

EndEntry == step' = "idle" /\ equity' = 0 /\ tries' = 0

Pass ==
    /\ step = "enter" /\ ~WillEnter
    /\ EndEntry
    /\ UNCHANGED <<market, account, guard, position, seen, day, entry>>

Ordered == [state |-> "open", direction |-> last.signal, entry |-> price,
            stop |-> InitialStop, volume |-> position_size(last.reach)]

\* What the earlier attempts of the running order have opened.
Sent == IF tries = 0 THEN {} ELSE entry

\* One attempt of the order is carried out, or not.
Opens(t) ==
    /\ positions[t].state = "none" /\ Valid(last.signal, InitialStop)
    /\ positions' = [positions EXCEPT ![t] = Ordered]
    /\ entry' = Sent \cup {t}

OpensNone == entry' = Sent /\ UNCHANGED positions

\* The order is answered.
Place ==
    /\ step = "enter" /\ WillEnter
    /\ \/ \E t \in Tickets :
             /\ Opens(t)
             /\ position' = [id |-> t, direction |-> last.signal,
                             stop |-> InitialStop, extreme |-> last.close]
       \/ /\ "refused" \in Hazards \/ ~Valid(last.signal, InitialStop)
          /\ OpensNone /\ UNCHANGED position
    /\ EndEntry
    /\ UNCHANGED <<market, balance, guard, seen, day>>

\* It is not, and is sent again as long as there are attempts.
PlaceAgain ==
    /\ "lost" \in Hazards /\ step = "enter" /\ WillEnter
    /\ OpensNone \/ \E t \in Tickets : Opens(t)
    /\ \/ /\ tries + 1 < Attempts /\ tries' = tries + 1
          /\ UNCHANGED <<step, equity>>
       \/ tries + 1 = Attempts /\ EndEntry
    /\ UNCHANGED <<market, balance, guard, position, seen, day>>

Restart ==
    /\ "restart" \in Hazards
    /\ guard' = FreshGuard /\ position' = NoPosition
    /\ seen' = 0 /\ day' = 0 /\ step' = "idle" /\ equity' = 0 /\ tries' = 0
    /\ UNCHANGED <<market, account, entry>>

Next ==
    \/ NewBar \/ Drift \/ Restart
    \/ Begin \/ Reconcile \/ OnPositionClosed \/ Trail \/ Pass \/ Place \/ PlaceAgain

Spec == Init /\ [][Next]_vars
-----------------------------------------------------------------------------
(***************************************************************************)
(* Properties.                                                             *)
(***************************************************************************)
\* A stop at the broker is never loosened, whatever the runner remembers.
StopsOnlyTighten ==
    [][\A t \in Open : ~Tighter(positions[t].direction, positions[t].stop, positions'[t].stop)]_vars

\* The account holds the positions of one entry: one, or as many copies of one
\* order as attempts of it may have gone unanswered.  (ChallengeBroker._request
\* repeats the order; Runner.tick enters when the broker shows no position.)
Copies == IF "lost" \in Hazards THEN Attempts ELSE 1

OneEntry ==
    /\ Cardinality(Open) <= Copies
    /\ \A t, u \in Open : /\ positions[t].direction = positions[u].direction
                          /\ positions[t].volume = positions[u].volume

\* The balance before the last entry: a position closes at its stop.
Stake == balance - Stopped(entry \ Open)

\* No position of the last entry can fail the challenge by itself: with it stopped
\* out at its stop and no other position opened, the account would still be at or
\* above the overall floor.  What is lost beyond is lost by copies of the order.
FloorHeld ==
    /\ entry = {} => 1000 * balance >= overall_floor
    /\ \A t \in entry : 1000 * (Stake + AtStop(positions[t])) >= overall_floor
-----------------------------------------------------------------------------
(***************************************************************************)
(* What the properties rest on.                                            *)
(***************************************************************************)
\* A position is found closed only by a runner that remembers it, and the runner
\* remembers none where it may enter.
Remembering == /\ step = "closed" => InTrade
               /\ step = "enter" => ~InTrade

\* The stop the runner remembers for an open position is at least as tight as
\* the broker's.
Abreast ==
    InTrade /\ position.id \in Open =>
        LET p == positions[position.id]
        IN p.direction = position.direction /\ ~Tighter(p.direction, p.stop, position.stop)

\* What is open is of the last entry; where the runner may enter, nothing is open
\* but what the attempts so far have opened.
FlatToEnter ==
    /\ Open \subseteq entry
    /\ step = "closed" => Open = {}
    /\ step = "enter" /\ tries = 0 => Open = {}
    /\ step # "enter" => tries = 0

\* The last entry opened one position per attempt at most, of one direction and volume.
Alike ==
    /\ Cardinality(entry) <= Copies
    /\ tries > 0 => "lost" \in Hazards /\ Cardinality(entry) <= tries
    /\ \A t, u \in entry : /\ positions[t].direction = positions[u].direction
                           /\ positions[t].volume = positions[u].volume
    /\ tries > 0 => \A t \in entry : /\ positions[t].direction = last.signal
                                     /\ positions[t].volume = position_size(last.reach)

\* Within a tick the runner knows the market and, when flat or ordering, the balance.
Informed ==
    /\ price = last.close
    /\ tries > 0 => Open = entry
    /\ step \in {"reconcile", "closed", "enter"} /\ (Open = {} \/ tries > 0) => equity = balance

\* Stopped out at the stop the runner remembers, be it older than the broker's,
\* a position would still leave the account at or above the floor.
Covered ==
    \A t \in Open : position.id = t =>
        /\ positions[t].direction = position.direction
        /\ 1000 * (Stake + Gain(positions[t], position.stop)) >= overall_floor
=============================================================================
