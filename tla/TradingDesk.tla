---------------------------- MODULE TradingDesk ----------------------------
(***************************************************************************)
(* The strategy runners composed with entry manager, position monitor and  *)
(* broker.  A runner polls for candles, evaluates a new bar once and calls *)
(* place_entry() with the signal it found.  xauusd_runner.py takes its     *)
(* first bar as a warm-up, and after an entry never looks again; the       *)
(* others (research_runner.py, micro_scalper.py) evaluate the first bar    *)
(* they see and pause for a cooldown after an entry.                       *)
(*                                                                         *)
(* fetch_candles() returns the bars that are complete (on an error those   *)
(* of the last call, which hold no new bar), and every runner drops the    *)
(* last of them, so it is the one before the last that is evaluated.  What *)
(* a strategy finds in a bar is left open, as are session hours and the    *)
(* daily cap (they only make a bar pass without a signal).                 *)
(***************************************************************************)
EXTENDS EntryManager, PositionMonitor

CONSTANTS
    Cooldown,   \* the bars the others pause after an entry
    Setups,     \* Runners -> its signals: side, distances of stop and target, hold
    MaxRuns     \* bound: the restarts of a runner

ASSUME RunnersOK ==
    /\ Cooldown \in Nat /\ MaxRuns \in Nat
    /\ Setups \in [Runners -> SUBSET [side : {"BUY", "SELL"}, stop : Int, gain : Int,
                                      hold : Int \cup {None}]]

\* "warm" tells an xauusd_runner from the others.
Started(w) == [warm |-> w, at |-> "idle", seen |-> None, guard |-> FALSE, last |-> None,
               setup |-> NoSetup, id |-> None, run |-> 0]

Init ==
    /\ bar = 2
    /\ price \in Prices
    /\ pos = [i \in Ids |-> NoPos]
    /\ runner \in [Runners -> {Started(w) : w \in BOOLEAN}]
    /\ mon = Resting
-----------------------------------------------------------------------------
\* The bar evaluated when bar closed last.
Evaluated == bar - 1

CoolingDown(r) ==
    ~runner[r].warm /\ runner[r].last # None /\ bar < runner[r].last + Cooldown

Quiet(r) ==
    \/ runner[r].warm /\ runner[r].guard
    \/ CoolingDown(r)

\* The signal a strategy found in the bar, at the price its entry is sent with.
Signal(t) == [side |-> t.side, entry |-> price, hold |-> t.hold, bar |-> Evaluated,
              sl |-> Beyond(t.side, price, -t.stop), tp |-> Beyond(t.side, price, t.gain)]

NewBar(r) == runner[r].seen # None => Evaluated > runner[r].seen

\* Mutant: a bar is not remembered before its signal is acted upon.
PollForgets(r) ==
    /\ runner[r].at = "idle" /\ NewBar(r) /\ ~Quiet(r)
    /\ \E t \in Setups[r] :
          runner' = [runner EXCEPT ![r].at = "count", ![r].setup = Signal(t)]
    /\ UNCHANGED <<bar, price, pos, mon>>

\* One poll with a bar that is new to the runner, with or without a signal.
Poll(r) ==
    /\ runner[r].at = "idle" /\ NewBar(r)
    /\ \/ runner' = [runner EXCEPT ![r].seen = Evaluated]
       \/ /\ runner[r].warm => runner[r].seen # None
          /\ ~Quiet(r)
          /\ \E t \in Setups[r] :
                runner' = [runner EXCEPT ![r].seen = Evaluated, ![r].at = "count",
                                         ![r].setup = Signal(t)]
    /\ UNCHANGED <<bar, price, pos, mon>>

\* A restart forgets everything a runner held in memory.
Restart(r) ==
    /\ "restart" \in Faults /\ runner[r].run < MaxRuns
    /\ runner' = [runner EXCEPT ![r] = [Started(@.warm) EXCEPT !.run = runner[r].run + 1]]
    /\ UNCHANGED <<bar, price, pos, mon>>

Next ==
    \/ BarCloses
    \/ PriceMoves
    \/ \E r \in Runners : Poll(r) \/ PlaceEntry(r) \/ Restart(r)
    \/ Monitor

Spec == Init /\ [][Next]_vars
FairSpec == Spec /\ MonitorFairness
-----------------------------------------------------------------------------
TypeOK ==
    /\ bar \in 2..(MaxBars + 2) /\ price \in Prices
    /\ \A i \in Ids :
          /\ pos[i].owner \in Runners \cup {None} /\ pos[i].at \in {"none", "live", "gone"}
          /\ pos[i].row \in {"none", "open", "closed"} /\ pos[i].side \in {"BUY", "SELL"}
          /\ pos[i].row # "none" => pos[i].at # "none"
    /\ \A r \in Runners :
          /\ runner[r].at \in {"idle", "count", "order", "persist"}
          /\ runner[r].id \in Ids \cup {None}
          /\ runner[r].at = "persist" => runner[r].id # None /\ pos[runner[r].id].row = "none"
    /\ mon.at \in {"idle", "priced", "visit"}
    /\ mon.todo \cup mon.closed \cup mon.younger \subseteq Ids

\* position_monitor.py:128: stop and target are "attached at the broker,
\* auto-closed there", a time exit is closed by the monitor: what the rows call
\* closed has left the broker, unless it did not confirm the request to close, or
\* the row was judged by a price older than the position it records.
ClosedIsFlat ==
    \A i \in Ids : pos[i].row = "closed" => pos[i].at = "gone" \/ pos[i].unsure \/ pos[i].stale

\* The positions a strategy has at the broker, recorded or about to be, stay
\* within its cap, although rows and broker change at different times.  Those the
\* monitor could not close, or closed in the rows by an older price, come on top.
Held(r) == {i \in Ids : /\ pos[i].owner = r /\ pos[i].at = "live"
                        /\ ~pos[i].unsure /\ ~pos[i].stale
                        /\ pos[i].row # "none" \/ runner[r].id = i}
CapHolds == \A r \in Runners : Cardinality(Held(r)) <= Cap[r]

\* A bar leads to one order at most: within one run of a process, and for an
\* xauusd_runner, whose first bar is a warm-up, also across its restarts.
OneEntryPerBar ==
    \A i, j \in Ids :
        /\ pos[i].owner = pos[j].owner /\ pos[i].owner # None
        /\ pos[i].signal = pos[j].signal
        /\ pos[i].run = pos[j].run \/ (pos[i].owner # None => runner[pos[i].owner].warm)
        => i = j

\* A position with a time limit is closed in the rows some time after it,
\* however often the transaction that closes it is rolled back.
TimeExitHappens == \A i \in Ids : pos[i].row = "open" /\ Expired(i) ~> pos[i].row = "closed"
=============================================================================
