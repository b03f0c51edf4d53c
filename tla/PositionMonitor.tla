-------------------------- MODULE PositionMonitor --------------------------
(***************************************************************************)
(* position_monitor.py: every second it asks the feed for the last price   *)
(* and then, in one transaction, queries the open rows and visits each,    *)
(* closing those a trigger of which has fired.  A stop or a target is      *)
(* taken to have been closed by the broker; a time exit is closed at the   *)
(* broker first, in the middle of the transaction, and recorded whatever   *)
(* the answer.  The price may move and an entry may be sent and recorded   *)
(* between the price and the query: such a row is judged by a price older  *)
(* than the position.                                                      *)
(* Left out: the profit columns, the price copied to CurrencyPair (which   *)
(* no process here reads), and the hours in which the market is shut.      *)
(***************************************************************************)
EXTENDS Desk

Resting == [at |-> "idle", price |-> 0, todo |-> {}, closed |-> {}, younger |-> {}, fails |-> FALSE]

\* fetch_latest_ltp(), a request of its own (without an answer there is no tick).
ReadPrice ==
    /\ mon.at = "idle"
    /\ mon' = [Resting EXCEPT !.at = "priced", !.price = price]
    /\ UNCHANGED <<bar, price, pos, runner>>

\* _check_triggers(): the query of the open rows.  "fails" foretells whether this
\* transaction will be rolled back, which only the fairness looks at (without rows
\* it would change nothing).
QueryRows(f) ==
    /\ mon.at = "priced"
    /\ LET rows == {i \in Ids : pos[i].row = "open"}
       IN /\ f => "monitor" \in Faults /\ rows # {}
          /\ mon' = [mon EXCEPT !.at = "visit", !.todo = rows, !.younger = @ \cap rows, !.fails = f]
    /\ UNCHANGED <<bar, price, pos, runner>>

Expired(i) == pos[i].expires # None /\ bar >= pos[i].expires
Fired(i) == Hit(pos[i].side, pos[i].sl, pos[i].tp, mon.price)

\* Mutant: a time exit is recorded without a request to the broker.
BrokerCloseNone(i) == pos' = pos

BrokerClose(i) ==
    \/ pos' = [pos EXCEPT ![i].at = IF @ = "live" THEN "gone" ELSE @]
    \/ "unconfirmed" \in Faults /\ pos' = [pos EXCEPT ![i].unsure = TRUE]

\* The pending triggers of a row come in no order; the first that has fired
\* closes it.
Visit(i) ==
    /\ mon.at = "visit" /\ i \in mon.todo
    /\ \/ Expired(i) /\ BrokerClose(i) /\ mon' = [mon EXCEPT !.todo = @ \ {i}, !.closed = @ \cup {i}]
       \/ Fired(i) /\ mon' = [mon EXCEPT !.todo = @ \ {i}, !.closed = @ \cup {i}] /\ UNCHANGED pos
       \/ ~Expired(i) /\ ~Fired(i) /\ mon' = [mon EXCEPT !.todo = @ \ {i}] /\ UNCHANGED pos
    /\ UNCHANGED <<bar, price, runner>>

\* The rows of c as they are committed; "stale" marks one that a price older than
\* its position has closed.
ClosedRows(c) ==
    [i \in Ids |-> IF i \in c
                   THEN [pos[i] EXCEPT !.row = "closed", !.stale = i \in mon.younger /\ Fired(i)]
                   ELSE pos[i]]

\* Mutant: rows that were found to be closed are left out of the commit.
CommitLoses ==
    /\ mon.at = "visit" /\ mon.todo = {} /\ ~mon.fails
    /\ \E c \in SUBSET mon.closed : pos' = ClosedRows(c)
    /\ mon' = Resting
    /\ UNCHANGED <<bar, price, runner>>

Commit ==
    /\ mon.at = "visit" /\ mon.todo = {} /\ ~mon.fails
    /\ pos' = ClosedRows(mon.closed)
    /\ mon' = Resting
    /\ UNCHANGED <<bar, price, runner>>

\* A query or the commit fails, or the process restarts: all is rolled back.
Rollback ==
    /\ mon.at = "visit" /\ mon.fails
    /\ mon' = Resting
    /\ UNCHANGED <<bar, price, pos, runner>>

Monitor ==
    \/ ReadPrice
    \/ \E f \in BOOLEAN : QueryRows(f)
    \/ \E i \in Ids : Visit(i)
    \/ Commit \/ Rollback

\* The loop goes on for ever, and the database does not fail for ever.
MonitorFairness ==
    /\ WF_vars(ReadPrice)
    /\ SF_vars(QueryRows(FALSE))
    /\ \A i \in Ids : WF_vars(Visit(i))
    /\ WF_vars(Commit \/ Rollback)
=============================================================================
