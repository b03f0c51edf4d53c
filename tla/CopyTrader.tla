----------------------------- MODULE CopyTrader -----------------------------
(***************************************************************************)
(* The copy trader of Telegram_Bot/live_trader.py: one asyncio process that *)
(* mirrors each channel signal onto every broker account, one order per    *)
(* take-profit (a "slice"), and follows the slices until the broker, a     *)
(* channel reply or the stale sweep ends the signal.                       *)
(*                                                                         *)
(* The process runs one task per channel message, a sweeper and a poller.  *)
(* Nothing is locked.  A task loses control at every run_in_executor, so   *)
(* one action is the effect of one such call or the code between two calls *)
(* (the state store is the in-process MemoryStore, whose coroutines never  *)
(* suspend).  A task works on a copy (`local`) of the stored record and    *)
(* writes the whole record back.                                           *)
(*                                                                         *)
(* Left out: the dashboard rows (apis_persist; only the write-back of the  *)
(* record that goes with them is here), stop and target prices, volumes    *)
(* and PnL.                                                                *)
(***************************************************************************)
EXTENDS Naturals, FiniteSets

CONSTANTS
    Signals,        \* ids of the channel messages that carry a signal
    Accounts,       \* the broker accounts a signal is mirrored onto
    Tps,            \* the numbers of a signal's take-profits
    Repliers,       \* ids of the channel messages that reply to a signal
    Sweeper, Poller,
    NoSignal,
    ConfirmPolls,   \* ABSENT_CONFIRM_POLLS
    MaxBlips,       \* bound: spurious empty answers of the broker's position list
    Hazards         \* what the environment may do in this instance

AllHazards == {"limit",     \* the order plan may choose pending limit entries
               "overlap",   \* a signal may arrive while another is being handled
               "outage",    \* a position or order query may fail
               "flaky",     \* a cancel or close request may fail
               "database",  \* a read or write of the rows may fail, and is only logged
               "age",       \* a signal may stay open past MAX_OPEN_AGE_SEC
               "crash"}     \* the process may restart

ASSUME ConstantsOK ==
    /\ ConfirmPolls \in Nat /\ ConfirmPolls >= 1
    /\ MaxBlips \in Nat
    /\ Tps \subseteq Nat
    /\ Hazards \subseteq AllHazards

ASSUME TasksDistinct ==
    /\ Sweeper # Poller
    /\ {Sweeper, Poller} \cap (Signals \cup Repliers) = {}
    /\ Signals \cap Repliers = {}
    /\ NoSignal \notin Signals

Slices == Accounts \X Tps
Account(o) == o[1]
Messages == Signals \cup Repliers
Tasks == Messages \cup {Sweeper, Poller}

(***************************************************************************)
(* Records.  An order record whose state is "none" stands for a slice the  *)
(* signal has no order for; a position record whose status is "none" for a *)
(* key that is not in the store.                                           *)
(***************************************************************************)
Order == [kind     : {"limit", "market"},
          state    : {"none", "pending", "filled", "closed", "cancelled"},
          observed : BOOLEAN,
          miss     : Nat]
Position == [status : {"none", "submitted", "closed"}, orders : [Slices -> Order]]
Snapshot == [asked    : SUBSET Accounts,
             verified : SUBSET Accounts,
             live     : SUBSET (Signals \X Slices),
             pending  : SUBSET (Signals \X Slices)]

NoOrder == [kind |-> "limit", state |-> "none", observed |-> FALSE, miss |-> 0]
NoPosition == [status |-> "none", orders |-> [o \in Slices |-> NoOrder]]
NoSnapshot == [asked |-> {}, verified |-> {}, live |-> {}, pending |-> {}]

Ended == {"closed", "cancelled"}
Submitted(pos) == {o \in Slices : pos.orders[o].state # "none"}
\* Mutant: a cancelled slice does not count as ended.
AllClosed(pos) == \A o \in Submitted(pos) : pos.orders[o].state = "closed"

AllEnded(pos) == \A o \in Submitted(pos) : pos.orders[o].state \in Ended

VARIABLES
    broker,     \* the truth at the broker: Signals -> Slices -> state
    blips,      \* spurious empty answers so far
    stale,      \* signals older than MAX_OPEN_AGE_SEC
    store,      \* hft:tg:signal:<id>
    open,       \* hft:tg:open
    db,         \* tg_signals and tg_orders
    booting,    \* main() has not started the handlers yet
    pc,         \* Tasks -> what the task does next
    resume,     \* Tasks -> where close_order() returns to
    target,     \* Tasks -> the signal whose record the task works on
    local,      \* Tasks -> its copy of that record
    todo,       \* Tasks -> slices or accounts its loop has yet to visit
    queue,      \* Tasks -> signals its loop has yet to visit
    snap        \* Tasks -> what the broker has answered

world == <<broker, blips, stale>>
state == <<store, open, db>>
tasks == <<booting, pc, resume, target, local, todo, queue, snap>>
vars == <<world, state, tasks>>

Labels == {"new", "idle", "sweep", "classify", "supersede", "place",
           "insert", "done", "reply", "close", "closedb", "modify", "fetch",
           "observe", "mirror", "conclude"}
Working == {"close", "closedb", "modify", "observe", "mirror", "conclude"}
BrokerStates == {"none", "pending", "live", "closed", "cancelled"}

TypeOK ==
    /\ broker \in [Signals -> [Slices -> BrokerStates]]
    /\ blips \in Nat
    /\ stale \subseteq Signals
    /\ store \in [Signals -> Position]
    /\ open \subseteq Signals
    /\ db \in [Signals -> Position]
    /\ booting \in BOOLEAN
    /\ pc \in [Tasks -> Labels]
    /\ resume \in [Tasks -> {"sweep", "supersede", "reply", "done"}]
    /\ target \in [Tasks -> Signals \cup {NoSignal}]
    /\ local \in [Tasks -> Position]
    /\ todo \in [Tasks -> SUBSET (Slices \cup Accounts)]
    /\ queue \in [Tasks -> SUBSET Signals]
    /\ snap \in [Tasks -> Snapshot]
    /\ \A t \in Tasks : pc[t] \in Working \cup {"reply"} => target[t] \in Signals

Init ==
    /\ broker = [s \in Signals |-> [o \in Slices |-> "none"]]
    /\ blips = 0
    /\ stale = {}
    /\ store = [s \in Signals |-> NoPosition]
    /\ open = {}
    /\ db = [s \in Signals |-> NoPosition]
    /\ booting = FALSE
    /\ pc = [t \in Tasks |-> IF t \in Messages THEN "new" ELSE "idle"]
    /\ resume = [t \in Tasks |-> "done"]
    /\ target = [t \in Tasks |-> NoSignal]
    /\ local = [t \in Tasks |-> NoPosition]
    /\ todo = [t \in Tasks |-> {}]
    /\ queue = [t \in Tasks |-> {}]
    /\ snap = [t \in Tasks |-> NoSnapshot]
-----------------------------------------------------------------------------
(***************************************************************************)
(* The broker.  A pending order fills or is dropped, a live position is    *)
(* closed by its stop, its target or by hand, and time passes.             *)
(***************************************************************************)
SliceMoves(s, o, from, to) ==
    /\ broker[s][o] = from
    /\ broker' = [broker EXCEPT ![s][o] = to]
    /\ UNCHANGED <<blips, stale, state, tasks>>

Fill(s, o) == SliceMoves(s, o, "pending", "live")
Drop(s, o) == SliceMoves(s, o, "pending", "cancelled")
Leave(s, o) == SliceMoves(s, o, "live", "closed")

Age(s) ==
    /\ "age" \in Hazards /\ s \in open \ stale
    /\ stale' = stale \cup {s}
    /\ UNCHANGED <<broker, blips, state, tasks>>

At(what, a) ==
    {so \in Signals \X Slices : Account(so[2]) = a /\ broker[so[1]][so[2]] = what}
-----------------------------------------------------------------------------
(***************************************************************************)
(* close_order(): cancel or close every slice by its recorded kind, with   *)
(* the answers ignored; then mark the record closed, drop the id and tell  *)
(* the database.  A signal without a record is left alone.                 *)
(***************************************************************************)
Forget(t) ==
    /\ target' = [target EXCEPT ![t] = NoSignal]
    /\ local' = [local EXCEPT ![t] = NoPosition]

BeginClose(t, s, back) ==
    /\ target' = [target EXCEPT ![t] = s]
    /\ local' = [local EXCEPT ![t] = store[s]]
    /\ todo' = [todo EXCEPT ![t] = Submitted(store[s])]
    /\ resume' = [resume EXCEPT ![t] = back]
    /\ pc' = [pc EXCEPT ![t] = "close"]

Flattened(kind, was) ==
    CASE kind = "limit" /\ was = "pending" -> "cancelled"
      [] kind = "market" /\ was = "live" -> "closed"
      [] OTHER -> was

CloseSlice(t, o) ==
    /\ pc[t] = "close" /\ o \in todo[t]
    /\ LET s == target[t]
       IN \/ broker' = [broker EXCEPT ![s][o] =
                            Flattened(local[t].orders[o].kind, broker[s][o])]
          \/ "flaky" \in Hazards /\ UNCHANGED broker
    /\ todo' = [todo EXCEPT ![t] = @ \ {o}]
    /\ UNCHANGED <<blips, stale, state, booting, pc, resume, target, local, queue, snap>>

\* Mutants: the id stays in the open set; the record is closed before the
\* broker requests are made.
CloseRecordKeepsOpen(t) ==
    /\ pc[t] = "close" /\ todo[t] = {}
    /\ store' = [store EXCEPT ![target[t]] = [local[t] EXCEPT !.status = "closed"]]
    /\ pc' = [pc EXCEPT ![t] = "closedb"]
    /\ UNCHANGED <<world, open, db, booting, resume, target, local, todo, queue, snap>>

CloseRecordFirst(t) ==
    /\ pc[t] = "close"
    /\ store' = [store EXCEPT ![target[t]] = [local[t] EXCEPT !.status = "closed"]]
    /\ open' = open \ {target[t]}
    /\ todo' = [todo EXCEPT ![t] = {}]
    /\ pc' = [pc EXCEPT ![t] = "closedb"]
    /\ UNCHANGED <<world, db, booting, resume, target, local, queue, snap>>

CloseRecord(t) ==
    /\ pc[t] = "close" /\ todo[t] = {}
    /\ store' = [store EXCEPT ![target[t]] = [local[t] EXCEPT !.status = "closed"]]
    /\ open' = open \ {target[t]}
    /\ pc' = [pc EXCEPT ![t] = "closedb"]
    /\ UNCHANGED <<world, db, booting, resume, target, local, todo, queue, snap>>

\* A write of rows that fails is logged and forgotten.
Write(rows) == \/ db' = rows
               \/ "database" \in Hazards /\ db' = db

\* An UPDATE of a row that was never inserted changes nothing.
DbClosed(s) == IF db[s].status = "none" THEN db
               ELSE [db EXCEPT ![s].status = "closed"]

CloseDb(t) ==
    /\ pc[t] = "closedb"
    /\ Write(DbClosed(target[t]))
    /\ pc' = [pc EXCEPT ![t] = resume[t]]
    /\ resume' = [resume EXCEPT ![t] = "done"]
    /\ IF resume[t] = "reply"
       THEN local' = [local EXCEPT ![t] = NoPosition] /\ UNCHANGED target
       ELSE Forget(t)
    /\ UNCHANGED <<world, store, open, booting, todo, queue, snap>>
-----------------------------------------------------------------------------
(***************************************************************************)
(* sweep_stale_open(), run by the sweeper, by main() at start-up and first *)
(* of all by every new signal.                                             *)
(***************************************************************************)
Expired == {s \in open : store[s].status = "none" \/ s \in stale}

BeginSweep(t) ==
    /\ queue' = [queue EXCEPT ![t] = Expired]
    /\ pc' = [pc EXCEPT ![t] = "sweep"]
    /\ UNCHANGED <<world, state, booting, resume, target, local, todo, snap>>

SweeperWakes ==
    /\ pc[Sweeper] = "idle" /\ Expired # {}
    /\ BeginSweep(Sweeper)

\* An id without a record is dangling and only leaves the open set.
SweepNext(t) ==
    /\ pc[t] = "sweep"
    /\ \E s \in queue[t] :
          /\ queue' = [queue EXCEPT ![t] = @ \ {s}]
          /\ IF store[s].status = "none"
             THEN open' = open \ {s} /\ UNCHANGED <<pc, resume, target, local, todo>>
             ELSE BeginClose(t, s, "sweep") /\ UNCHANGED open
    /\ UNCHANGED <<world, store, db, booting, snap>>

SweepDone ==
    /\ pc[Sweeper] = "sweep" /\ queue[Sweeper] = {}
    /\ pc' = [pc EXCEPT ![Sweeper] = "idle"]
    /\ booting' = FALSE
    /\ UNCHANGED <<world, state, resume, target, local, todo, queue, snap>>
-----------------------------------------------------------------------------
(***************************************************************************)
(* handle_new_signal(): sweep, then the no-pyramiding guard.  With signals *)
(* open it asks every account for its live positions; a signal seen live   *)
(* on any answering account ends the handler, as does an answer from none. *)
(* Otherwise the open signals are superseded and the orders are placed.    *)
(***************************************************************************)
Handling == {s \in Signals : pc[s] \notin {"new", "done"}}

\* Mutant: orders are placed whatever is open.
EnterGuardAlwaysPlaces(s) ==
    /\ todo' = [todo EXCEPT ![s] = Accounts]
    /\ queue' = [queue EXCEPT ![s] = {}]
    /\ pc' = [pc EXCEPT ![s] = "place"]
    /\ UNCHANGED <<world, state, booting, resume, target, local, snap>>

EnterGuard(s) ==
    /\ todo' = [todo EXCEPT ![s] = Accounts]
    /\ queue' = [queue EXCEPT ![s] = open]
    /\ pc' = [pc EXCEPT ![s] = IF open = {} THEN "place" ELSE "classify"]
    /\ UNCHANGED <<world, state, booting, resume, target, local, snap>>

Arrive(s) ==
    /\ pc[s] = "new" /\ ~booting
    /\ Handling # {} => "overlap" \in Hazards
    /\ IF Expired = {} THEN EnterGuard(s) ELSE BeginSweep(s)

Guard(s) ==
    /\ pc[s] = "sweep" /\ queue[s] = {}
    /\ EnterGuard(s)

Query(s, a) ==
    /\ pc[s] = "classify" /\ a \in todo[s]
    /\ \/ snap' = [snap EXCEPT ![s] = [snap[s] EXCEPT !.verified = @ \cup {a},
                                                    !.live = @ \cup At("live", a)]]
       \/ "outage" \in Hazards /\ UNCHANGED snap
    /\ todo' = [todo EXCEPT ![s] = @ \ {a}]
    /\ UNCHANGED <<world, state, booting, pc, resume, target, local, queue>>

\* Mutant: only a signal live on every account counts.
SeenLiveEverywhere(s) == {x \in queue[s] : /\ store[x].status # "none"
                                           /\ \A o \in Slices : <<x, o>> \in snap[s].live}

SeenLive(s) == {x \in queue[s] : /\ store[x].status # "none"
                                 /\ \E o \in Slices : <<x, o>> \in snap[s].live}

Decide(s) ==
    /\ pc[s] = "classify" /\ todo[s] = {}
    /\ IF snap[s].verified = {} \/ SeenLive(s) # {}
       THEN /\ pc' = [pc EXCEPT ![s] = "done"]
            /\ queue' = [queue EXCEPT ![s] = {}]
       ELSE pc' = [pc EXCEPT ![s] = "supersede"] /\ UNCHANGED queue
    /\ snap' = [snap EXCEPT ![s] = NoSnapshot]
    /\ UNCHANGED <<world, state, booting, resume, target, local, todo>>

Supersede(s) ==
    /\ pc[s] = "supersede"
    /\ \E x \in queue[s] :
          /\ queue' = [queue EXCEPT ![s] = @ \ {x}]
          /\ IF store[x].status = "none"
             THEN UNCHANGED <<pc, resume, target, local, todo>>
             ELSE BeginClose(s, x, "supersede")
    /\ UNCHANGED <<world, state, booting, snap>>

Superseded(s) ==
    /\ pc[s] = "supersede" /\ queue[s] = {}
    /\ pc' = [pc EXCEPT ![s] = "place"]
    /\ todo' = [todo EXCEPT ![s] = Accounts]
    /\ UNCHANGED <<world, state, booting, resume, target, local, queue, snap>>

(***************************************************************************)
(* place_order() hands the plan to every account at once.  An account ends *)
(* with an order per take-profit or with none; within an account, a limit  *)
(* refused for its price turns the rest of the batch into market orders.   *)
(***************************************************************************)
Kinds == {k \in [Tps -> {"limit", "market"}] :
            /\ \A i, j \in Tps : i < j /\ k[i] = "market" => k[j] = "market"
            /\ "limit" \notin Hazards => \A i \in Tps : k[i] = "market"}

\* Mutant: a slice is born in a state the reconciler does not know.
PlacedOpen(kind) == [kind |-> kind, state |-> "open", observed |-> FALSE, miss |-> 0]

Placed(kind) == [kind |-> kind, state |-> IF kind = "market" THEN "filled" ELSE "pending",
                 observed |-> FALSE, miss |-> 0]

Submit(s, a) ==
    /\ pc[s] = "place" /\ a \in todo[s]
    /\ \/ UNCHANGED <<broker, local>>
       \/ \E k \in Kinds :
             /\ local' = [local EXCEPT ![s].orders =
                   [o \in Slices |-> IF Account(o) = a THEN Placed(k[o[2]]) ELSE @[o]]]
             /\ broker' = [broker EXCEPT ![s] =
                   [o \in Slices |-> IF Account(o) # a THEN @[o]
                                     ELSE IF k[o[2]] = "market" THEN "live" ELSE "pending"]]
    /\ todo' = [todo EXCEPT ![s] = @ \ {a}]
    /\ UNCHANGED <<blips, stale, state, booting, pc, resume, target, queue, snap>>

Track(s) ==
    /\ pc[s] = "place" /\ todo[s] = {}
    /\ IF Submitted(local[s]) = {}
       THEN /\ pc' = [pc EXCEPT ![s] = "done"]
            /\ UNCHANGED <<store, open, local>>
       ELSE LET pos == [local[s] EXCEPT !.status = "submitted"]
            IN /\ local' = [local EXCEPT ![s] = pos]
               /\ store' = [store EXCEPT ![s] = pos]
               /\ open' = open \cup {s}
               /\ pc' = [pc EXCEPT ![s] = "insert"]
    /\ UNCHANGED <<world, db, booting, resume, target, todo, queue, snap>>

Insert(s) ==
    /\ pc[s] = "insert"
    /\ Write([db EXCEPT ![s] = local[s]])
    /\ pc' = [pc EXCEPT ![s] = "done"]
    /\ Forget(s)
    /\ UNCHANGED <<world, store, open, booting, resume, todo, queue, snap>>
-----------------------------------------------------------------------------
(***************************************************************************)
(* handle_reply(): a typo fix and breakeven go through modify_sl(), which  *)
(* writes back the record it read before its requests; "sl" and "tp3"      *)
(* close the parent signal.  One reply may do both, in this order, and may *)
(* close twice.                                                            *)
(***************************************************************************)
ReplyTo(k, s) ==
    /\ \/ pc[k] = "new" /\ ~booting
       \/ pc[k] = "reply" /\ target[k] = s
    /\ store[s].status # "none"

ReplyClose(k, s) ==
    /\ ReplyTo(k, s)
    /\ \E back \in {"reply", "done"} : BeginClose(k, s, back)
    /\ UNCHANGED <<world, state, booting, queue, snap>>

ReplyModify(k, s) ==
    /\ ReplyTo(k, s) /\ pc[k] = "new"
    /\ target' = [target EXCEPT ![k] = s]
    /\ local' = [local EXCEPT ![k] = store[s]]
    /\ pc' = [pc EXCEPT ![k] = "modify"]
    /\ UNCHANGED <<world, state, booting, resume, todo, queue, snap>>

ModifyRecord(k) ==
    /\ pc[k] = "modify"
    /\ store' = [store EXCEPT ![target[k]] = local[k]]
    /\ \/ pc' = [pc EXCEPT ![k] = "done"] /\ Forget(k)
       \/ /\ pc' = [pc EXCEPT ![k] = "reply"]
          /\ local' = [local EXCEPT ![k] = NoPosition]
          /\ UNCHANGED target
    /\ UNCHANGED <<world, open, db, booting, resume, todo, queue, snap>>
-----------------------------------------------------------------------------
(***************************************************************************)
(* reconcile_broker(): for each account the positions and then, in a       *)
(* second request, the pending orders; then each open signal in turn.      *)
(***************************************************************************)
PollerWakes ==
    /\ pc[Poller] = "idle" /\ ~booting /\ open # {}
    /\ queue' = [queue EXCEPT ![Poller] = open]
    /\ todo' = [todo EXCEPT ![Poller] = Accounts]
    /\ snap' = [snap EXCEPT ![Poller] = NoSnapshot]
    /\ pc' = [pc EXCEPT ![Poller] = "fetch"]
    /\ UNCHANGED <<world, state, booting, resume, target, local>>

FetchPositions(a) ==
    /\ pc[Poller] = "fetch" /\ a \in todo[Poller]
    /\ todo[Poller] \cap snap[Poller].asked = {}
    /\ \/ /\ snap' = [snap EXCEPT ![Poller] = [snap[Poller] EXCEPT !.asked = @ \cup {a},
                                                                 !.live = @ \cup At("live", a)]]
          /\ UNCHANGED <<blips, todo>>
       \/ /\ blips < MaxBlips
          /\ blips' = blips + 1
          /\ snap' = [snap EXCEPT ![Poller] = [snap[Poller] EXCEPT !.asked = @ \cup {a}]]
          /\ UNCHANGED todo
       \/ /\ "outage" \in Hazards
          /\ todo' = [todo EXCEPT ![Poller] = @ \ {a}]
          /\ UNCHANGED <<blips, snap>>
    /\ UNCHANGED <<broker, stale, state, booting, pc, resume, target, local, queue>>

FetchOrders(a) ==
    /\ pc[Poller] = "fetch" /\ a \in todo[Poller] \cap snap[Poller].asked
    /\ \/ snap' = [snap EXCEPT ![Poller] = [snap[Poller] EXCEPT !.verified = @ \cup {a},
                                                              !.pending = @ \cup At("pending", a)]]
       \/ "outage" \in Hazards /\ UNCHANGED snap
    /\ todo' = [todo EXCEPT ![Poller] = @ \ {a}]
    /\ UNCHANGED <<world, state, booting, pc, resume, target, local, queue>>

\* Mutant: one miss too few.
MissedTooSoon(ord) ==
    IF ord.state \in Ended \/ ~ord.observed THEN ord
    ELSE [ord EXCEPT !.miss = @ + 1,
                     !.state = IF ord.miss + 2 < ConfirmPolls THEN @
                               ELSE IF @ = "filled" THEN "closed" ELSE "cancelled"]

\* A slice that is in neither list counts a miss; after ConfirmPolls in a row
\* it is ended.  A slice that was never seen is left as it is.
Missed(ord) ==
    IF ord.state \in Ended \/ ~ord.observed THEN ord
    ELSE [ord EXCEPT !.miss = @ + 1,
                     !.state = IF ord.miss + 1 < ConfirmPolls THEN @
                               ELSE IF @ = "filled" THEN "closed" ELSE "cancelled"]

Observed(s, o, ord) ==
    LET p == snap[Poller]
    IN IF ord.state = "none" \/ Account(o) \notin p.verified THEN ord
       ELSE IF <<s, o>> \in p.live
       THEN [kind |-> "market", state |-> "filled", observed |-> TRUE, miss |-> 0]
       ELSE IF <<s, o>> \in p.pending
       THEN [kind |-> ord.kind, state |-> "pending", observed |-> TRUE, miss |-> 0]
       ELSE Missed(ord)

Reconciled(s) ==
    [store[s] EXCEPT !.orders = [o \in Slices |-> Observed(s, o, @[o])]]

\* Fills and ends are written to the database before the record is stored.
ToRecord(s) ==
    {o \in Slices : /\ Reconciled(s).orders[o].state # store[s].orders[o].state
                    /\ Reconciled(s).orders[o].state # "pending"}

\* The record is stored and, once every slice has ended, the signal concluded.
\* With a filled slice the dashboards are told first.
Filled(pos) == {o \in Submitted(pos) : pos.orders[o].state = "filled"}

Carry(label, s, pos) ==
    /\ pc' = [pc EXCEPT ![Poller] = label]
    /\ target' = [target EXCEPT ![Poller] = s]
    /\ local' = [local EXCEPT ![Poller] = pos]

Settle(s, pos) ==
    \/ /\ Submitted(pos) # {} /\ AllEnded(pos)
       /\ store' = [store EXCEPT ![s] = [pos EXCEPT !.status = "closed"]]
       /\ open' = open \ {s}
       /\ Carry("conclude", s, pos)
    \/ /\ Filled(pos) # {}
       /\ store' = [store EXCEPT ![s] = pos]
       /\ Carry("mirror", s, pos)
       /\ UNCHANGED open
    \/ /\ Filled(pos) = {} /\ ~(Submitted(pos) # {} /\ AllEnded(pos))
       /\ store' = [store EXCEPT ![s] = pos]
       /\ pc' = [pc EXCEPT ![Poller] = "fetch"]
       /\ Forget(Poller)
       /\ UNCHANGED open

Observe(s) ==
    /\ pc[Poller] = "fetch" /\ todo[Poller] = {} /\ s \in queue[Poller]
    /\ store[s].status # "none"
    /\ todo' = [todo EXCEPT ![Poller] = ToRecord(s)]
    /\ queue' = [queue EXCEPT ![Poller] = @ \ {s}]
    /\ IF ToRecord(s) = {}
       THEN Settle(s, Reconciled(s))
       ELSE /\ target' = [target EXCEPT ![Poller] = s]
            /\ local' = [local EXCEPT ![Poller] = Reconciled(s)]
            /\ pc' = [pc EXCEPT ![Poller] = "observe"]
            /\ UNCHANGED <<store, open>>
    /\ UNCHANGED <<world, db, booting, resume, snap>>

RecordSlice(o) ==
    /\ pc[Poller] = "observe" /\ o \in todo[Poller]
    /\ LET s == target[Poller]
           ord == local[Poller].orders[o]
           row == db[s].orders[o]
       IN Write(IF row.state = "none" THEN db
                ELSE [db EXCEPT ![s].orders[o] =
                         [row EXCEPT !.state = ord.state,
                                     !.kind = IF ord.state = "filled" THEN "market" ELSE @]])
    /\ todo' = [todo EXCEPT ![Poller] = @ \ {o}]
    /\ UNCHANGED <<world, store, open, booting, pc, resume, target, local, queue, snap>>

SaveObserved ==
    /\ pc[Poller] = "observe" /\ todo[Poller] = {}
    /\ Settle(target[Poller], local[Poller])
    /\ UNCHANGED <<world, db, booting, resume, todo, queue, snap>>

\* A dashboard's answer to a first fill is kept in the record, which is written
\* back as it was before the request.
Mirror ==
    /\ pc[Poller] = "mirror"
    /\ store' \in {store, [store EXCEPT ![target[Poller]] = local[Poller]]}
    /\ pc' = [pc EXCEPT ![Poller] = "fetch"]
    /\ Forget(Poller)
    /\ UNCHANGED <<world, open, db, booting, resume, todo, queue, snap>>

ConcludeDb ==
    /\ pc[Poller] = "conclude"
    /\ Write(DbClosed(target[Poller]))
    /\ pc' = [pc EXCEPT ![Poller] = "fetch"]
    /\ Forget(Poller)
    /\ UNCHANGED <<world, store, open, booting, resume, todo, queue, snap>>

\* Signals whose record has gone are skipped.
PollDone ==
    /\ pc[Poller] = "fetch" /\ todo[Poller] = {}
    /\ \A s \in queue[Poller] : store[s].status = "none"
    /\ queue' = [queue EXCEPT ![Poller] = {}]
    /\ snap' = [snap EXCEPT ![Poller] = NoSnapshot]
    /\ pc' = [pc EXCEPT ![Poller] = "idle"]
    /\ UNCHANGED <<world, state, booting, resume, target, local, todo>>
-----------------------------------------------------------------------------
(***************************************************************************)
(* A restart loses the tasks and the in-memory store; hydrate_from_db()    *)
(* reloads the rows that are not closed (without `observed` and `miss`),   *)
(* and main() sweeps once before it listens.  A message whose handler was  *)
(* cut off is not delivered again.                                         *)
(***************************************************************************)
Hydrated == {s \in Signals : db[s].status = "submitted"}

\* A load that fails leaves the trader with nothing.
Loads == {Hydrated} \cup (IF "database" \in Hazards THEN {{}} ELSE {})

\* Mutant: the records are reloaded but not the open set.
RestartWithoutOpen ==
    /\ "crash" \in Hazards
    /\ store' = [s \in Signals |-> IF s \in Hydrated THEN db[s] ELSE NoPosition]
    /\ open' = {}
    /\ queue' = [t \in Tasks |-> {}]
    /\ booting' = TRUE
    /\ pc' = [t \in Tasks |-> IF t = Sweeper THEN "sweep"
                              ELSE IF t \notin Messages THEN "idle"
                              ELSE IF pc[t] = "new" THEN "new" ELSE "done"]
    /\ resume' = [t \in Tasks |-> "done"]
    /\ local' = [t \in Tasks |-> NoPosition]
    /\ todo' = [t \in Tasks |-> {}]
    /\ target' = [t \in Tasks |-> NoSignal]
    /\ snap' = [t \in Tasks |-> NoSnapshot]
    /\ UNCHANGED <<world, db>>

Restart ==
    /\ "crash" \in Hazards
    /\ \E loaded \in Loads :
          /\ store' = [s \in Signals |-> IF s \in loaded THEN db[s] ELSE NoPosition]
          /\ open' = loaded
          /\ queue' = [t \in Tasks |-> IF t = Sweeper THEN loaded \cap stale ELSE {}]
    /\ booting' = TRUE
    /\ pc' = [t \in Tasks |-> IF t = Sweeper THEN "sweep"
                              ELSE IF t \notin Messages THEN "idle"
                              ELSE IF pc[t] = "new" THEN "new" ELSE "done"]
    /\ resume' = [t \in Tasks |-> "done"]
    /\ local' = [t \in Tasks |-> NoPosition]
    /\ todo' = [t \in Tasks |-> {}]
    /\ target' = [t \in Tasks |-> NoSignal]
    /\ snap' = [t \in Tasks |-> NoSnapshot]
    /\ UNCHANGED <<world, db>>
-----------------------------------------------------------------------------
Environment ==
    \/ \E s \in Signals, o \in Slices : Fill(s, o) \/ Drop(s, o) \/ Leave(s, o)
    \/ \E s \in Signals : Age(s)
    \/ Restart

Closing(t) ==
    \/ \E o \in Slices : CloseSlice(t, o)
    \/ CloseRecord(t) \/ CloseDb(t) \/ SweepNext(t)

Sweeping == SweeperWakes \/ SweepDone

Handler(s) ==
    \/ Arrive(s) \/ Guard(s) \/ Decide(s) \/ Supersede(s) \/ Superseded(s)
    \/ \E a \in Accounts : Query(s, a) \/ Submit(s, a)
    \/ Track(s) \/ Insert(s)

Reply(k) ==
    \/ \E s \in Signals : ReplyClose(k, s) \/ ReplyModify(k, s)
    \/ ModifyRecord(k)

Polling ==
    \/ PollerWakes \/ SaveObserved \/ Mirror \/ ConcludeDb \/ PollDone
    \/ \E a \in Accounts : FetchPositions(a) \/ FetchOrders(a)
    \/ \E s \in Signals : Observe(s)
    \/ \E o \in Slices : RecordSlice(o)

Next ==
    \/ Environment
    \/ \E t \in Tasks : Closing(t)
    \/ Sweeping
    \/ \E s \in Signals : Handler(s)
    \/ \E k \in Repliers : Reply(k)
    \/ Polling

Spec == Init /\ [][Next]_vars

(***************************************************************************)
(* Every request has a timeout and a bounded number of retries, so a task  *)
(* that has started goes on.  The poller and the sweeper wake up again and *)
(* again, and time passes.  Nothing is assumed of messages, of the market  *)
(* or of a restart.                                                        *)
(***************************************************************************)
Fairness ==
    /\ \A t \in Tasks : WF_vars(Closing(t))
    /\ WF_vars(Sweeping)
    /\ WF_vars(Polling)
    /\ \A s \in Signals : WF_vars(pc[s] # "new" /\ Handler(s))
    /\ \A k \in Repliers : WF_vars(ModifyRecord(k))
    /\ \A s \in Signals : WF_vars(Age(s))

FairSpec == Spec /\ Fairness
-----------------------------------------------------------------------------
(***************************************************************************)
(* Properties.                                                             *)
(***************************************************************************)
Holders(s) == {t \in Tasks : pc[t] \in Working /\ target[t] = s}
Copies(s) == {store[s], db[s]} \cup {local[t] : t \in Holders(s)}

\* A slice that any record calls closed or cancelled has left the broker, and
\* one called closed had been a live position: the reconciler's two requests
\* per account are not atomic, and other tasks write old records back.
FateSound ==
    \A s \in Signals : \A o \in Slices : \A pos \in Copies(s) :
        /\ pos.orders[o].state \in Ended => broker[s][o] \in Ended
        /\ pos.orders[o].state = "closed" => broker[s][o] = "closed"

\* No pyramiding: positions of two signals are never in the market together.
OneAtATime ==
    \A s, x \in Signals : \A o, p \in Slices :
        broker[s][o] = "live" /\ broker[x][p] = "live" => s = x

\* Whatever is at the broker is followed: its signal is in the open set or its
\* orders are just being placed.
NothingForgotten ==
    \A s \in Signals : \A o \in Slices :
        broker[s][o] \in {"pending", "live"} => s \in open \/ pc[s] = "place"

\* A superseding handler never closes a position that is live in the market.
SupersedeSparesLive ==
    [][\A s \in Signals : \A o \in Slices :
          pc[s] = "close" /\ resume[s] = "supersede" /\ o \in todo[s] \ todo'[s]
          => broker'[target[s]][o] = broker[target[s]][o] \/ broker[target[s]][o] # "live"]_vars

\* What the database holds as open and the broker still has is tracked, also
\* after a restart, unless its close is being carried out.
RowsAreTracked ==
    \A s \in Signals : \A o \in Slices :
        db[s].status = "submitted" /\ broker[s][o] \in {"pending", "live"}
        => s \in open \/ \E t \in Tasks : pc[t] = "closedb" /\ target[t] = s

\* No signal stays in the open set for ever, whatever the channel and the
\* broker do: the guard is never wedged for good.
OpenDrains == \A s \in Signals : s \in open ~> s \notin open

\* The poller alone releases a signal whose slices are all gone once it has seen
\* each of them at least once.
AllGone(s) == s \in open /\ \A o \in Submitted(store[s]) : broker[s][o] \in Ended
AllSeen(s) == \A o \in Submitted(store[s]) : store[s].orders[o].observed
PollerReleasesSeen == \A s \in Signals : AllGone(s) /\ AllSeen(s) ~> s \notin open
-----------------------------------------------------------------------------
(***************************************************************************)
(* The inductive invariant behind FateSound.                               *)
(***************************************************************************)
\* What a record may say of a slice whose truth is b.
SoundOrder(b, ord) ==
    /\ ord.state # "none" => b # "none"
    /\ ord.state = "filled" => b \in {"live", "closed"}
    /\ ord.state = "closed" => b = "closed"
    /\ ord.state = "cancelled" => b \in Ended
    /\ ord.miss > 0 => b \notin {"none", "pending"}

Sound(truth, pos) == \A o \in Slices : SoundOrder(truth[o], pos.orders[o])

\* The stored rows, the copies tasks hold, and the record a handler is building.
RecordsSound ==
    /\ \A s \in Signals : Sound(broker[s], store[s]) /\ Sound(broker[s], db[s])
    /\ \A t \in Tasks : pc[t] \in Working => Sound(broker[target[t]], local[t])
    /\ \A s \in Signals : pc[s] \notin Working => Sound(broker[s], local[s])

\* Rows and records that are being built count no misses.
NoMiss(pos) == \A o \in Slices : pos.orders[o].miss = 0
FreshRecords ==
    \A s \in Signals : NoMiss(db[s]) /\ (pc[s] \notin Working => NoMiss(local[s]))

\* A signal's slices reach the broker only while its handler places them, and
\* only signals that have been placed are known to anybody else.
PlacedOnce ==
    \A s \in Signals :
        /\ pc[s] \notin {"place", "insert", "done"} => \A o \in Slices : broker[s][o] = "none"
        /\ pc[s] = "place" => \A o \in Slices : Account(o) \in todo[s] => broker[s][o] = "none"
        /\ s \in open \/ s \in queue[Poller] \/ db[s].status # "none"
           => pc[s] \in {"insert", "done"}

\* What the answers p tell of signal s: a slice shown live has filled, one that
\* was asked for and is in neither list is not waiting, and one whose record
\* pos already has a miss and is not shown live is gone.
ShownLive(truth, p, s) == \A o \in Slices : <<s, o>> \in p.live => truth[o] \in {"live", "closed"}
NotWaiting(truth, p, s) ==
    \A o \in Slices : Account(o) \in p.verified /\ <<s, o>> \notin p.live \cup p.pending
                      => truth[o] # "pending"
MissesGone(truth, p, s, pos) ==
    \A o \in Slices : Account(o) \in p.asked /\ <<s, o>> \notin p.live /\ pos.orders[o].miss > 0
                      => truth[o] \in Ended

\* The poller's answers while it has signals to visit.
AnswersSound ==
    /\ snap[Poller].verified \subseteq snap[Poller].asked
    /\ \A s \in Signals : ShownLive(broker[s], snap[Poller], s)
    /\ \A s \in queue[Poller] :
          /\ NotWaiting(broker[s], snap[Poller], s)
          /\ MissesGone(broker[s], snap[Poller], s, store[s])
          /\ \A t \in Tasks : pc[t] \in Working /\ target[t] = s
                              => MissesGone(broker[s], snap[Poller], s, local[t])

IInv == TypeOK /\ RecordsSound /\ FreshRecords /\ PlacedOnce /\ AnswersSound
=============================================================================
