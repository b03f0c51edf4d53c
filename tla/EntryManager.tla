---------------------------- MODULE EntryManager ----------------------------
(***************************************************************************)
(* place_entry() of strategy/entry_manager.py, called by a runner with a   *)
(* signal: the check of the open rows against the cap, the broker's market *)
(* order with stops widened to the broker's level, and the rows in one     *)
(* transaction.  Each is a step of its own: another process may act in     *)
(* between.  Left out: the StrategySignal log, quantities, the look-up of  *)
(* the context, and accounts without credentials (which refuse).           *)
(***************************************************************************)
EXTENDS Desk

CONSTANTS Cap       \* Runners -> max_concurrent_positions

ASSUME CapOK == Cap \in [Runners -> Nat \ {0}]

\* What a signal asks for, and what a process holds between the steps.
NoSetup == [side |-> "BUY", entry |-> 0, sl |-> 0, tp |-> 0, hold |-> None, bar |-> 0]

Finished(r) == runner' = [runner EXCEPT ![r].at = "idle", ![r].setup = NoSetup, ![r].id = None]

\* Mutant: the cap is reached only beyond it.
CountRowsLate(r) ==
    /\ runner[r].at = "count"
    /\ IF Cardinality(OpenRows(r)) > Cap[r] THEN Finished(r)
       ELSE runner' = [runner EXCEPT ![r].at = "order"]
    /\ UNCHANGED <<bar, price, pos, mon>>

CountRows(r) ==
    /\ runner[r].at = "count"
    /\ IF Cardinality(OpenRows(r)) >= Cap[r] THEN Finished(r)
       ELSE runner' = [runner EXCEPT ![r].at = "order"]
    /\ UNCHANGED <<bar, price, pos, mon>>

\* The stops the broker gets: no nearer to the entry than its level.
WidenedStop(s) == IF Ahead(s.side, s.entry, s.sl) < MinStop
                  THEN Beyond(s.side, s.entry, -MinStop) ELSE s.sl
WidenedTarget(s) == IF Ahead(s.side, s.tp, s.entry) < MinStop
                    THEN Beyond(s.side, s.entry, MinStop) ELSE s.tp

Opened(r, s) ==
    [NoPos EXCEPT !.owner = r, !.signal = s.bar, !.run = runner[r].run, !.at = "live",
                  !.side = s.side, !.stop = WidenedStop(s), !.target = WidenedTarget(s)]

\* The broker refuses stops that the price has already passed.  Without an
\* answer the order counts as refused.  (mon.younger is a history: the positions
\* opened since the monitor has read the price it will judge the rows by.)
SendOrder(r) ==
    /\ runner[r].at = "order"
    /\ LET s == runner[r].setup
           ok == ~Hit(s.side, WidenedStop(s), WidenedTarget(s), price)
       IN \/ /\ ok
             /\ Free # {}
             /\ pos' = [pos EXCEPT ![Fresh] = Opened(r, s)]
             /\ mon' = [mon EXCEPT !.younger = IF mon.at = "priced" THEN @ \cup {Fresh} ELSE @]
             /\ \/ runner' = [runner EXCEPT ![r].at = "persist", ![r].id = Fresh]
                \/ "lost" \in Faults /\ Finished(r)
          \/ (~ok \/ "refused" \in Faults) /\ Finished(r) /\ UNCHANGED <<pos, mon>>
    /\ UNCHANGED <<bar, price>>

\* The rows carry the signal's own levels.  An entry that was recorded sets the
\* guard of an xauusd_runner and starts the cooldown of the others.
Recorded(p, s) ==
    [p EXCEPT !.row = "open", !.sl = s.sl, !.tp = s.tp,
              !.expires = IF s.hold = None THEN None ELSE bar + s.hold]

\* Mutant: the process does not notice that the rows were written.
PersistStays(r) ==
    /\ runner[r].at = "persist"
    /\ pos' = [pos EXCEPT ![runner[r].id] = Recorded(@, runner[r].setup)]
    /\ UNCHANGED <<bar, price, runner, mon>>

Persist(r) ==
    /\ runner[r].at = "persist"
    /\ LET s == runner[r].setup
       IN \/ /\ pos' = [pos EXCEPT ![runner[r].id] = Recorded(@, s)]
             /\ runner' = [runner EXCEPT ![r] =
                   [@ EXCEPT !.at = "idle", !.setup = NoSetup, !.id = None,
                             !.guard = TRUE, !.last = bar]]
          \/ "rows" \in Faults /\ Finished(r) /\ UNCHANGED pos
    /\ UNCHANGED <<bar, price, mon>>

PlaceEntry(r) == CountRows(r) \/ SendOrder(r) \/ Persist(r)
=============================================================================
