---------------------------- MODULE OrderSubmit ----------------------------
(***************************************************************************)
(* How one signal becomes orders: place_order() of live_trader.py and, in   *)
(* metaapi_orders.py, build_order_plan() and submit_signal_orders() with   *)
(* the requests below them.  One plan is shared by all accounts; then each *)
(* account sends one order per take-profit (a slice) from a thread of its  *)
(* own.  A request is one attempt of _request(): the broker may carry it   *)
(* out and the answer be lost, and _request() sends it again.              *)
(*                                                                         *)
(* Prices are integers, `price` the one the signal's side deals at (ask to *)
(* buy, bid to sell), the same for all accounts.  An account's own stops   *)
(* level is StopLevel[a].  A ticket is the number of an order at its       *)
(* account.  Left out: volumes, comments, dry run, missing credentials,    *)
(* a plan that raises (each account then plans for itself), and a          *)
(* position's own end at its stop or target.                               *)
(***************************************************************************)
EXTENDS Integers, Sequences, FiniteSets

CONSTANTS
    Accounts,
    StopLevel,  \* Accounts -> the least distance of a stop, target or open price
    Signals,    \* the signals that may arrive: side, entry, sl, tps
    Prices,     \* bound: the range of the market price
    Attempts,   \* _RETRY_ATTEMPTS
    MaxUnsure,  \* bound: accounts on which answers are lost
    Faults,     \* what may go wrong in this instance
    None

ASSUME ConstantsOK ==
    /\ StopLevel \in [Accounts -> Nat]
    /\ Prices \subseteq Int
    /\ Attempts \in Nat \ {0} /\ MaxUnsure \in Nat
    /\ Faults \subseteq {"busy",     \* a request is not carried out: no connection, or a
                                     \* 429, 502, 503 or 504
                         "lost",     \* a request is carried out, its answer lost
                         "refused",  \* the broker answers with an error (margin, symbol)
                         "noprice"}  \* the price cannot be read
    /\ None \notin Int
    \* The strictest of the accounts' levels.
    /\ \E a \in Accounts : \A b \in Accounts : StopLevel[b] <= StopLevel[a]

ASSUME SignalsOK ==
    \A s \in Signals : /\ s.side \in {"buy", "sell"} /\ s.entry \in Int /\ s.sl \in Int
                       /\ s.tps \in Seq(Int)

VARIABLES
    sig,        \* the signal
    price,      \* the market price now
    plan,       \* the shared order plan
    book,       \* Accounts -> the orders the broker took, in order
    job,        \* Accounts -> where its submission is
    unsure,     \* history: accounts one of whose orders has no ticket
    loose       \* history: Accounts -> the orders that have no ticket, or whose cancel
                \* or close failed

vars == <<sig, price, plan, book, job, unsure, loose>>

Slices == DOMAIN sig.tps
-----------------------------------------------------------------------------
(***************************************************************************)
(* Pure parts.  Ahead(p, q) is how far p lies beyond q in the direction    *)
(* the signal earns in.                                                    *)
(***************************************************************************)
Ahead(p, q) == IF sig.side = "buy" THEN p - q ELSE q - p
Beyond(p, d) == IF sig.side = "buy" THEN p + d ELSE p - d

\* The strictest of the accounts' levels, so that one plan satisfies all.
MinDist == CHOOSE d \in {StopLevel[a] : a \in Accounts} : \A a \in Accounts : StopLevel[a] <= d

\* Stop and target, pushed outward to MinDist from the reference price.
StopsFloor(ref, sl, tp) ==
    [sl |-> IF Ahead(ref, sl) < MinDist THEN Beyond(ref, -MinDist) ELSE sl,
     tp |-> IF Ahead(tp, ref) < MinDist THEN Beyond(ref, MinDist) ELSE tp]

NoPlan == [built |-> FALSE, market |-> FALSE, cur |-> None, levels |-> <<>>]

OrderPlan(cur) ==
    LET market == cur # None /\ Ahead(cur, sig.entry) < MinDist
        ref == IF market THEN cur ELSE sig.entry
    IN [built |-> TRUE, market |-> market, cur |-> cur,
        levels |-> [i \in Slices |-> StopsFloor(ref, sig.sl, sig.tps[i])]]

PendingKind(cur) == IF cur = None \/ Ahead(cur, sig.entry) >= 0 THEN "limit" ELSE "stop"

Order(i, kind, level) ==
    [slice |-> i, kind |-> kind, sl |-> level.sl, tp |-> level.tp,
     state |-> IF kind = "market" THEN "live" ELSE "pending"]

\* What the broker thinks of an order at the present price.
Verdict(a, o) ==
    LET ref == IF o.kind = "market" THEN price ELSE sig.entry
    IN CASE o.kind = "limit" /\ Ahead(price, sig.entry) < StopLevel[a] -> "invalid price"
         [] o.kind = "stop" /\ Ahead(sig.entry, price) < StopLevel[a] -> "invalid price"
         [] Ahead(ref, o.sl) < StopLevel[a] \/ Ahead(o.tp, ref) < StopLevel[a] -> "invalid stops"
         [] OTHER -> "done"
-----------------------------------------------------------------------------
Idle == [at |-> "waiting", slice |-> 1, order |-> None, tries |-> 0,
         tickets |-> <<>>, result |-> "pending"]

Init ==
    /\ sig \in Signals
    /\ price \in Prices
    /\ plan = NoPlan
    /\ book = [a \in Accounts |-> <<>>]
    /\ job = [a \in Accounts |-> Idle]
    /\ unsure = {}
    /\ loose = [a \in Accounts |-> {}]

\* The market moves; a limit order fills once the price has come to it.
PriceMoves ==
    /\ price' \in Prices \ {price}
    /\ UNCHANGED <<sig, plan, book, job, unsure, loose>>

Fill(a, n) ==
    /\ book[a][n].state = "pending" /\ Ahead(price, sig.entry) <= 0
    /\ book' = [book EXCEPT ![a][n].state = "live"]
    /\ UNCHANGED <<sig, price, plan, job, unsure, loose>>
-----------------------------------------------------------------------------
(***************************************************************************)
(* submit_signal_orders() on account a.                                    *)
(***************************************************************************)
\* Mutant: reports the batch one slice too early.
TurnTooFar(j, i, market) ==
    IF i + 1 \notin Slices THEN [j EXCEPT !.at = "returned", !.result = "all", !.order = None]
    ELSE [j EXCEPT !.at = "send", !.slice = i, !.tries = 0,
                   !.order = Order(i, IF market THEN "market" ELSE PendingKind(plan.cur),
                                   plan.levels[i])]

\* The job that turns to slice i: sends its order, or reports the batch.
Turn(j, i, market) ==
    IF i \notin Slices THEN [j EXCEPT !.at = "returned", !.result = "all", !.order = None]
    ELSE [j EXCEPT !.at = "send", !.slice = i, !.tries = 0,
                   !.order = Order(i, IF market THEN "market" ELSE PendingKind(plan.cur),
                                   plan.levels[i])]

\* No ticket: undo what was placed, then report nothing.
Failed(j) == IF j.tickets = <<>>
             THEN [j EXCEPT !.at = "returned", !.result = "none", !.order = None]
             ELSE [j EXCEPT !.at = "undo", !.order = None, !.tries = 0]

\* The reference account's price decides for all.
BuildPlan ==
    /\ ~plan.built
    /\ \E cur \in {price} \cup (IF "noprice" \in Faults THEN {None} ELSE {}) :
          plan' = OrderPlan(cur)
    /\ job' = [a \in Accounts |-> [Idle EXCEPT !.at = "start"]]
    /\ UNCHANGED <<sig, price, book, unsure, loose>>

\* An empty list of targets returns an empty list.
Start(a) ==
    /\ job[a].at = "start"
    /\ job' = [job EXCEPT ![a] = IF sig.tps = <<>> THEN Failed(@) ELSE Turn(@, 1, plan.market)]
    /\ UNCHANGED <<sig, price, plan, book, unsure, loose>>

\* Mutant: the slice a fallback has placed is placed once more as a limit.
TicketedAgain(a) ==
    LET j == [job[a] EXCEPT !.tickets = Append(@, Len(book[a]) + 1)]
    IN job' = [job EXCEPT ![a] = Turn(j, IF j.order.kind = "market" /\ ~plan.market
                                            /\ Len(j.tickets) <= Len(sig.tps)
                                         THEN j.slice ELSE j.slice + 1,
                                      j.order.kind = "market")]

\* A ticket: a fallback that got one sends the remaining slices to market.
Ticketed(a) ==
    LET j == [job[a] EXCEPT !.tickets = Append(@, Len(book[a]) + 1)]
    IN job' = [job EXCEPT ![a] = Turn(j, j.slice + 1, j.order.kind = "market")]

\* Mutant: one attempt too many.
AgainOnceMore(a) ==
    job' = [job EXCEPT ![a] = IF @.tries + 1 <= Attempts THEN [@ EXCEPT !.tries = job[a].tries + 1]
                              ELSE Failed(@)]

\* The attempt met no answer or a transient one: send again, or give up.
Again(a) ==
    job' = [job EXCEPT ![a] = IF @.tries + 1 < Attempts THEN [@ EXCEPT !.tries = job[a].tries + 1]
                              ELSE Failed(@)]

\* The order is placed on account a, but its ticket is lost.
LosesTicket(a) ==
    /\ "lost" \in Faults
    /\ unsure' = unsure \cup {a}
    /\ Cardinality(unsure') <= MaxUnsure
    /\ loose' = [loose EXCEPT ![a] = @ \cup {Len(book[a]) + 1}]

\* One attempt to send the order.  A refused pending order with an invalid
\* price is priced anew; any other refusal ends the batch.
Send(a) ==
    /\ job[a].at = "send"
    /\ LET o == job[a].order
           verdict == Verdict(a, o)
       IN \/ /\ verdict = "done"
             /\ book' = [book EXCEPT ![a] = Append(@, o)]
             /\ \/ Ticketed(a) /\ UNCHANGED <<unsure, loose>>
                \/ LosesTicket(a) /\ Again(a)
          \/ /\ verdict # "done" \/ "refused" \in Faults
             /\ job' = [job EXCEPT ![a] = IF verdict = "invalid price"
                                          THEN [@ EXCEPT !.at = "reprice"]
                                          ELSE Failed(@)]
             /\ UNCHANGED <<book, unsure, loose>>
          \/ "busy" \in Faults /\ Again(a) /\ UNCHANGED <<book, unsure, loose>>
    /\ UNCHANGED <<sig, price, plan>>

\* The price has left the limit: enter at market unless it has come too close
\* to the stop, or no price is known.
\* Mutant: whatever room is left.
RoomAny(cur, sl) == cur # None

Room(cur, sl) == cur # None /\ Ahead(cur, sl) >= MinDist

Reprice(a) ==
    /\ job[a].at = "reprice"
    /\ \E cur \in {price} \cup (IF "noprice" \in Faults THEN {plan.cur} ELSE {}) :
          LET o == job[a].order
          IN job' = [job EXCEPT ![a] =
                        IF Room(cur, o.sl)
                        THEN [@ EXCEPT !.at = "send", !.tries = 0,
                                       !.order = Order(o.slice, "market",
                                                       StopsFloor(cur, o.sl, o.tp))]
                        ELSE Failed(@)]
    /\ UNCHANGED <<sig, price, plan, book, unsure, loose>>

\* Abort: a slice placed as a limit is cancelled, one placed at market is
\* closed.  A cancel does not touch an order that has filled.
Undone(o) == CASE o.kind # "market" /\ o.state = "pending" -> [o EXCEPT !.state = "gone"]
               [] o.kind = "market" /\ o.state = "live" -> [o EXCEPT !.state = "gone"]
               [] OTHER -> o

\* On to the next ticket, whatever became of this one.
NextTicket(a) == job' = [job EXCEPT ![a] = Failed([@ EXCEPT !.tickets = Tail(job[a].tickets)])]

UndoAgain(a) ==
    IF job[a].tries + 1 < Attempts THEN job' = [job EXCEPT ![a].tries = @ + 1]
    ELSE NextTicket(a)

\* Mutant: the loop does not go on to the next ticket.
UndoStays(a) ==
    /\ job[a].at = "undo"
    /\ book' = [book EXCEPT ![a][Head(job[a].tickets)] = Undone(@)]
    /\ UNCHANGED <<sig, price, plan, job, unsure, loose>>

\* Mutant: the clean-up ends with the first ticket whose request fails.
UndoBreaksOff(a) ==
    /\ job[a].at = "undo"
    /\ \/ /\ book' = [book EXCEPT ![a][Head(job[a].tickets)] = Undone(@)]
          /\ NextTicket(a)
          /\ UNCHANGED loose
       \/ /\ "refused" \in Faults
          /\ loose' = [loose EXCEPT ![a] = @ \cup {Head(job[a].tickets)}]
          /\ job' = [job EXCEPT ![a] = Failed([@ EXCEPT !.tickets = <<>>])]
          /\ UNCHANGED book
    /\ UNCHANGED <<sig, price, plan, unsure>>

\* One attempt to cancel or close the order of the next ticket.  An answer that
\* says no is ignored, as is a request that fails to the last attempt.
Undo(a) ==
    /\ job[a].at = "undo"
    /\ LET n == Head(job[a].tickets)
       IN \/ /\ book' = [book EXCEPT ![a][n] = Undone(@)]
             /\ \/ NextTicket(a)
                \/ "lost" \in Faults /\ UndoAgain(a)
             /\ UNCHANGED loose
          \/ /\ \/ "refused" \in Faults /\ NextTicket(a)
                \/ "busy" \in Faults /\ UndoAgain(a)
             /\ loose' = IF job'[a].tickets = job[a].tickets THEN loose
                         ELSE [loose EXCEPT ![a] = @ \cup {n}]
             /\ UNCHANGED book
    /\ UNCHANGED <<sig, price, plan, unsure>>

Submit(a) == Start(a) \/ Send(a) \/ Reprice(a) \/ Undo(a)

Next ==
    \/ PriceMoves
    \/ \E a \in Accounts : \E n \in DOMAIN book[a] : Fill(a, n)
    \/ BuildPlan
    \/ \E a \in Accounts : Submit(a)

Spec == Init /\ [][Next]_vars

\* Each request has a timeout, and the attempts are bounded.
FairSpec == Spec /\ WF_vars(BuildPlan) /\ \A a \in Accounts : WF_vars(Submit(a))
-----------------------------------------------------------------------------
Kinds == {"limit", "stop", "market"}
States == {"pending", "live", "gone"}
Live(o) == o.state \in {"pending", "live"}

TypeOK ==
    /\ sig \in Signals /\ price \in Prices
    /\ plan.market \in BOOLEAN /\ plan.cur \in Int \cup {None}
    /\ \A a \in Accounts :
          /\ \A n \in DOMAIN book[a] :
                book[a][n].slice \in Slices /\ book[a][n].kind \in Kinds /\ book[a][n].state \in States
          /\ job[a].at \in {"waiting", "start", "send", "reprice", "undo", "returned"}
          /\ job[a].slice \in 1..(Len(sig.tps) + 1) /\ job[a].tries \in 0..(Attempts - 1)
          /\ \A k \in DOMAIN job[a].tickets : job[a].tickets[k] \in DOMAIN book[a]
          /\ (job[a].at = "returned") = (job[a].result # "pending")
    /\ unsure \subseteq Accounts
    /\ \A a \in Accounts : loose[a] \subseteq DOMAIN book[a]

\* Whatever the accounts' prices, faults and fallbacks, all orders of a signal
\* share one stop; orders of one slice share one target unless one of them was
\* sent to market by the fallback, which may only push its target outward.
MirrorsAligned ==
    \A a, b \in Accounts : \A m \in DOMAIN book[a], n \in DOMAIN book[b] :
        LET o == book[a][m]
            p == book[b][n]
        IN /\ o.sl = p.sl
           /\ o.slice = p.slice /\ o.kind = p.kind /\ plan.market => o.tp = p.tp
           /\ o.slice = p.slice /\ o.kind = "limit" /\ p.kind = "market" => Ahead(p.tp, o.tp) >= 0

\* A batch that is given up leaves nothing at the broker by oversight: what is
\* still there is a limit that filled before it was cancelled, or an order one of
\* whose own requests failed: its ticket never came, or its cancel or close was
\* refused or met no answer (submit_signal_orders() ignores what these return).
AbortLeavesOnlyFailed ==
    \A a \in Accounts : job[a].result = "none" =>
        \A n \in DOMAIN book[a] : Live(book[a][n]) =>
            \/ book[a][n].kind = "limit" /\ book[a][n].state = "live"
            \/ n \in loose[a]

\* An account all of whose orders have a ticket and that reports its batch has
\* placed one order for each slice.
OneOrderPerSlice ==
    \A a \in Accounts \ unsure : job[a].result = "all" =>
        [n \in DOMAIN book[a] |-> book[a][n].slice] = [i \in Slices |-> i]

\* However often answers are lost, a slice reaches the broker a bounded number
\* of times: one attempt of the limit is the refusal that leads to the market.
ExposureBounded ==
    \A a \in Accounts : \A i \in Slices :
        Cardinality({n \in DOMAIN book[a] : book[a][n].slice = i}) <= 2 * Attempts - 1

\* Every account's submission comes to an end.
SubmissionEnds == \A a \in Accounts : <>(job[a].at = "returned")

\* Every account reports all slices only once all have reached the broker, in
\* the order of the targets, and places nothing after its report.
Reached(orders) == IF orders = <<>> THEN 0 ELSE orders[Len(orders)].slice
Batch == INSTANCE SignalBatch WITH
            size <- IF plan.built THEN Len(sig.tps) ELSE None,
            reached <- [a \in Accounts |-> Reached(book[a])],
            report <- [a \in Accounts |-> job[a].result]
KeepsPromise == Batch!Spec
=============================================================================
