-------------------------- MODULE CopyTrader_proofs --------------------------
(***************************************************************************)
(* Theorems about the copy trader, for any number of signals, accounts,    *)
(* take-profits and replies.                                               *)
(***************************************************************************)
EXTENDS CopyTrader, TLAPS

\* The record constructors of the trader return records of their types.
LEMMA RecordTypes ==
    /\ NoOrder \in Order
    /\ NoPosition \in Position
    /\ NoSnapshot \in Snapshot
    /\ \A kind \in {"limit", "market"} : Placed(kind) \in Order
BY DEF NoOrder, Order, NoPosition, Position, NoSnapshot, Snapshot, Placed

\* Updates of a record keep its type.
LEMMA PositionUpdates ==
    ASSUME NEW pos \in Position
    PROVE  /\ \A st \in {"none", "submitted", "closed"} : [pos EXCEPT !.status = st] \in Position
           /\ \A f \in [Slices -> Order] : [pos EXCEPT !.orders = f] \in Position
           /\ pos.orders \in [Slices -> Order]
           /\ Submitted(pos) \subseteq Slices
BY DEF Position, Submitted

\* Updates of the answers a task holds keep their type.
LEMMA SnapshotUpdates ==
    ASSUME NEW p \in Snapshot, NEW a \in Accounts, NEW x \in SUBSET (Signals \X Slices)
    PROVE  /\ [p EXCEPT !.asked = @ \cup {a}, !.live = @ \cup x] \in Snapshot
           /\ [p EXCEPT !.asked = @ \cup {a}] \in Snapshot
           /\ [p EXCEPT !.verified = @ \cup {a}, !.live = @ \cup x] \in Snapshot
           /\ [p EXCEPT !.verified = @ \cup {a}, !.pending = @ \cup x] \in Snapshot
BY DEF Snapshot

\* What the broker shows is a set of slices of signals.
LEMMA AtType == \A what, a : At(what, a) \in SUBSET (Signals \X Slices)
BY DEF At

\* What the reconciler makes of an order record is an order record.
LEMMA ObservedType ==
    ASSUME TypeOK, NEW s, NEW o, NEW ord \in Order
    PROVE  Observed(s, o, ord) \in Order
<1>1. Missed(ord) \in Order
  <2>1. ord.miss + 1 \in Nat
    BY DEF Order
  <2>2. [ord EXCEPT !.miss = ord.miss + 1] \in Order
    BY <2>1 DEF Order
  <2>3. \A st \in {"closed", "cancelled"} :
           [ord EXCEPT !.miss = ord.miss + 1, !.state = st] \in Order
    BY <2>1 DEF Order
  <2>4. QED
    BY <2>2, <2>3 DEF Missed, Order
<1>2. QED
  BY <1>1 DEF Observed, Order

\* So is the record that the reconciler makes of a stored one a record.
LEMMA ReconciledType ==
    ASSUME TypeOK, NEW s \in Signals
    PROVE  Reconciled(s) \in Position
<1>1. store[s] \in Position /\ store[s].orders \in [Slices -> Order]
  BY DEF TypeOK, Position
<1>2. [o \in Slices |-> Observed(s, o, store[s].orders[o])] \in [Slices -> Order]
  BY <1>1, ObservedType
<1>3. QED
  BY <1>1, <1>2 DEF Reconciled, Position

\* The first answer of the initial state: every variable has its type.
LEMMA InitTypeOK == Init => TypeOK
<1> SUFFICES ASSUME Init PROVE TypeOK
  OBVIOUS
<1>1. /\ broker \in [Signals -> [Slices -> BrokerStates]]
      /\ blips \in Nat /\ stale \subseteq Signals
      /\ store \in [Signals -> Position] /\ open \subseteq Signals
      /\ db \in [Signals -> Position]
  BY RecordTypes DEF Init, BrokerStates
<1>2. /\ booting \in BOOLEAN
      /\ pc \in [Tasks -> Labels]
      /\ \A t \in Tasks : pc[t] \notin Working \cup {"reply"}
  BY DEF Init, Labels, Working
<1>3. /\ resume \in [Tasks -> {"sweep", "supersede", "reply", "done"}]
      /\ target \in [Tasks -> Signals \cup {NoSignal}]
      /\ local \in [Tasks -> Position]
      /\ todo \in [Tasks -> SUBSET (Slices \cup Accounts)]
      /\ queue \in [Tasks -> SUBSET Signals]
      /\ snap \in [Tasks -> Snapshot]
  BY RecordTypes DEF Init
<1>4. QED
  BY <1>1, <1>2, <1>3 DEF TypeOK, Working

\* Every step keeps the types.
LEMMA StepTypeOK == TypeOK /\ [Next]_vars => TypeOK'
<1> SUFFICES ASSUME TypeOK, [Next]_vars PROVE TypeOK'
  OBVIOUS
<1> USE DEF TypeOK, Tasks, Messages
<1>1. ASSUME NEW s \in Signals, NEW o \in Slices, Fill(s, o) \/ Drop(s, o) \/ Leave(s, o)
      PROVE  TypeOK'
  <2>1. PICK from \in BrokerStates, to \in BrokerStates : SliceMoves(s, o, from, to)
    BY <1>1 DEF Fill, Drop, Leave, BrokerStates
  <2>2. broker' \in [Signals -> [Slices -> BrokerStates]]
    BY <2>1 DEF SliceMoves
  <2>3. QED
    BY <2>1, <2>2 DEF SliceMoves, state, tasks
<1>2. ASSUME NEW s \in Signals, Age(s) PROVE TypeOK'
  BY <1>2 DEF Age, state, tasks
<1>3. CASE Restart
  <2> PICK loaded \in Loads : Restart!2!(loaded)
    BY <1>3 DEF Restart
  <2>1. /\ store' \in [Signals -> Position] /\ open' \subseteq Signals
        /\ queue' \in [Tasks -> SUBSET Signals]
    BY RecordTypes DEF Loads, Hydrated
  <2>2. pc' \in [Tasks -> Labels] /\ \A t \in Tasks : pc'[t] \notin Working \cup {"reply"}
    BY <1>3 DEF Restart, Labels, Working
  <2>3. QED
    BY <1>3, <2>1, <2>2, RecordTypes DEF Restart, world
<1>4. ASSUME NEW t \in Tasks, NEW o \in Slices, CloseSlice(t, o) PROVE TypeOK'
  <2>1. target[t] \in Signals /\ broker[target[t]][o] \in BrokerStates
    BY <1>4 DEF CloseSlice, Working
  <2>2. Flattened(local[t].orders[o].kind, broker[target[t]][o]) \in BrokerStates
    BY <2>1 DEF Flattened, BrokerStates
  <2>3. broker' \in [Signals -> [Slices -> BrokerStates]]
    <3>1. CASE UNCHANGED broker
      BY <3>1
    <3>2. CASE broker' = [broker EXCEPT ![target[t]][o] =
                              Flattened(local[t].orders[o].kind, broker[target[t]][o])]
      BY <2>1, <2>2, <3>2
    <3>3. QED
      BY <1>4, <3>1, <3>2 DEF CloseSlice
  <2>4. QED
    BY <1>4, <2>3 DEF CloseSlice, state
<1>5. ASSUME NEW t \in Tasks, CloseRecord(t) PROVE TypeOK'
  <2>1. [local[t] EXCEPT !.status = "closed"] \in Position
    BY PositionUpdates
  <2>2. QED
    BY <1>5, <2>1 DEF CloseRecord, world, Labels, Working
<1>6. ASSUME NEW s \in Signals PROVE DbClosed(s) \in [Signals -> Position]
  <2>1. [db EXCEPT ![s].status = "closed"] = [db EXCEPT ![s] = [db[s] EXCEPT !.status = "closed"]]
    OBVIOUS
  <2>2. [db[s] EXCEPT !.status = "closed"] \in Position
    BY PositionUpdates
  <2>3. QED
    BY <2>1, <2>2 DEF DbClosed
<1>7. ASSUME NEW t \in Tasks, CloseDb(t) PROVE TypeOK'
  <2>1. DbClosed(target[t]) \in [Signals -> Position]
    BY <1>6, <1>7 DEF CloseDb, Working, Write
  <2>2. QED
    BY <1>7, <2>1, RecordTypes DEF CloseDb, Forget, world, Labels, Working, Write
<1>8. ASSUME NEW t \in Tasks, NEW s \in Signals, NEW back \in {"sweep", "supersede", "reply", "done"},
             BeginClose(t, s, back)
      PROVE  /\ target' \in [Tasks -> Signals \cup {NoSignal}]
             /\ local' \in [Tasks -> Position]
             /\ todo' \in [Tasks -> SUBSET (Slices \cup Accounts)]
             /\ resume' \in [Tasks -> {"sweep", "supersede", "reply", "done"}]
             /\ pc' \in [Tasks -> Labels]
             /\ \A u \in Tasks : pc'[u] \in Working \cup {"reply"} => target'[u] \in Signals
  BY <1>8, PositionUpdates DEF BeginClose, Labels
<1>9. ASSUME NEW t \in Tasks, SweepNext(t) PROVE TypeOK'
  <2> PICK s \in queue[t] : SweepNext(t)!2!(s)
    BY <1>9 DEF SweepNext
  <2> s \in Signals
    OBVIOUS
  <2>1. CASE store[s].status = "none"
    BY <1>9, <2>1 DEF SweepNext, world
  <2>2. CASE store[s].status # "none"
    BY <1>8, <1>9, <2>2 DEF SweepNext, world
  <2>3. QED
    BY <2>1, <2>2
<1>10. ASSUME NEW t \in Tasks, BeginSweep(t) PROVE TypeOK'
  BY <1>10 DEF BeginSweep, Expired, world, state, Labels, Working
<1>11. CASE SweeperWakes \/ SweepDone
  BY <1>10, <1>11 DEF SweeperWakes, SweepDone, world, state, Labels, Working
<1>12. ASSUME NEW s \in Signals, EnterGuard(s) PROVE TypeOK'
  BY <1>12 DEF EnterGuard, world, state, Labels, Working
<1>13. ASSUME NEW s \in Signals, Arrive(s) \/ Guard(s) PROVE TypeOK'
  BY <1>10, <1>12, <1>13 DEF Arrive, Guard
<1>14. ASSUME NEW s \in Signals, NEW a \in Accounts, Query(s, a) PROVE TypeOK'
  <2>1. At("live", a) \in SUBSET (Signals \X Slices) /\ snap[s] \in Snapshot
    BY AtType
  <2>2. [snap[s] EXCEPT !.verified = @ \cup {a}, !.live = @ \cup At("live", a)] \in Snapshot
    BY <2>1, SnapshotUpdates
  <2>3. snap' \in [Tasks -> Snapshot]
    BY <1>14, <2>2 DEF Query
  <2>4. QED
    BY <1>14, <2>3 DEF Query, world, state
<1>15. ASSUME NEW s \in Signals, Decide(s) PROVE TypeOK'
  BY <1>15, RecordTypes DEF Decide, world, state, Labels, Working
<1>16. ASSUME NEW s \in Signals, Superseded(s) PROVE TypeOK'
  BY <1>16 DEF Superseded, world, state, Labels, Working
<1>17. ASSUME NEW s \in Signals, Supersede(s) PROVE TypeOK'
  <2> PICK x \in queue[s] : Supersede(s)!2!(x)
    BY <1>17 DEF Supersede
  <2> x \in Signals
    OBVIOUS
  <2>1. CASE store[x].status = "none"
    BY <1>17, <2>1 DEF Supersede, world, state
  <2>2. CASE store[x].status # "none"
    BY <1>8, <1>17, <2>2 DEF Supersede, world, state
  <2>3. QED
    BY <2>1, <2>2
<1>18. ASSUME NEW s \in Signals, NEW a \in Accounts, Submit(s, a) PROVE TypeOK'
  <2>1. SUFFICES ASSUME NEW k \in Kinds
                 PROVE /\ [o \in Slices |-> IF Account(o) = a THEN Placed(k[o[2]])
                              ELSE local[s].orders[o]] \in [Slices -> Order]
                       /\ [o \in Slices |-> IF Account(o) # a THEN broker[s][o]
                              ELSE IF k[o[2]] = "market" THEN "live" ELSE "pending"]
                          \in [Slices -> BrokerStates]
    <3>1. CASE UNCHANGED <<broker, local>>
      BY <1>18, <3>1 DEF Submit, state
    <3>2. ASSUME NEW k \in Kinds, Submit(s, a)!2!2!(k) PROVE TypeOK'
      <4>1. local' \in [Tasks -> Position]
        BY <2>1, <3>2, PositionUpdates
      <4>2. broker' \in [Signals -> [Slices -> BrokerStates]]
        BY <2>1, <3>2
      <4>3. QED
        BY <1>18, <4>1, <4>2 DEF Submit, state
    <3>3. QED
      BY <1>18, <3>1, <3>2 DEF Submit
  <2>2. \A o \in Slices : k[o[2]] \in {"limit", "market"}
    BY DEF Kinds, Slices
  <2>3. local[s].orders \in [Slices -> Order]
    BY PositionUpdates
  <2>4. QED
    BY <2>2, <2>3, RecordTypes DEF BrokerStates
<1>19. ASSUME NEW s \in Signals, Track(s) PROVE TypeOK'
  <2>1. [local[s] EXCEPT !.status = "submitted"] \in Position
    BY PositionUpdates
  <2>2. CASE Submitted(local[s]) = {}
    BY <1>19, <2>2 DEF Track, world, Labels, Working
  <2>3. CASE Submitted(local[s]) # {}
    <3> DEFINE pos == [local[s] EXCEPT !.status = "submitted"]
    <3>0. /\ local' = [local EXCEPT ![s] = pos] /\ store' = [store EXCEPT ![s] = pos]
          /\ open' = open \cup {s}
      BY <1>19, <2>3 DEF Track
    <3> HIDE DEF pos
    <3>1. /\ local' \in [Tasks -> Position] /\ store' \in [Signals -> Position]
          /\ open' \subseteq Signals
      BY <2>1, <3>0 DEF pos
    <3>2. pc' \in [Tasks -> Labels] /\ \A t \in Tasks : pc'[t] \in Working => pc[t] \in Working
      BY <1>19, <2>3 DEF Track, Labels, Working
    <3>3. QED
      BY <1>19, <3>1, <3>2 DEF Track, world
  <2>4. QED
    BY <2>2, <2>3
<1>20. ASSUME NEW s \in Signals, Insert(s) PROVE TypeOK'
  BY <1>20, RecordTypes DEF Insert, Forget, world, Labels, Working, Write
<1>21. ASSUME NEW k \in Repliers, NEW s \in Signals, ReplyClose(k, s) PROVE TypeOK'
  BY <1>8, <1>21 DEF ReplyClose, ReplyTo, world, state
<1>22. ASSUME NEW k \in Repliers, NEW s \in Signals, ReplyModify(k, s) PROVE TypeOK'
  BY <1>22 DEF ReplyModify, ReplyTo, world, state, Labels, Working
<1>23. ASSUME NEW k \in Repliers, ModifyRecord(k) PROVE TypeOK'
  <2>1. pc[k] = "modify" /\ target[k] \in Signals /\ store' = [store EXCEPT ![target[k]] = local[k]]
    BY <1>23 DEF ModifyRecord, Working
  <2>2. CASE pc' = [pc EXCEPT ![k] = "done"] /\ Forget(k)
    BY <1>23, <2>1, <2>2, RecordTypes DEF ModifyRecord, Forget, world, Labels, Working
  <2>3. CASE /\ pc' = [pc EXCEPT ![k] = "reply"]
             /\ local' = [local EXCEPT ![k] = NoPosition]
             /\ UNCHANGED target
    BY <1>23, <2>1, <2>3, RecordTypes DEF ModifyRecord, world, Labels, Working
  <2>4. QED
    BY <1>23, <2>2, <2>3 DEF ModifyRecord
<1>24. CASE PollerWakes \/ PollDone
  BY <1>24, RecordTypes DEF PollerWakes, PollDone, world, state, Labels, Working
<1>25. ASSUME NEW a \in Accounts, FetchPositions(a) PROVE TypeOK'
  <2>1. At("live", a) \in SUBSET (Signals \X Slices) /\ snap[Poller] \in Snapshot
    BY AtType
  <2>2. /\ [snap[Poller] EXCEPT !.asked = @ \cup {a}, !.live = @ \cup At("live", a)] \in Snapshot
        /\ [snap[Poller] EXCEPT !.asked = @ \cup {a}] \in Snapshot
    BY <2>1, SnapshotUpdates
  <2>3. snap' \in [Tasks -> Snapshot]
    BY <1>25, <2>2 DEF FetchPositions
  <2>4. blips' \in Nat /\ todo' \in [Tasks -> SUBSET (Slices \cup Accounts)]
    BY <1>25 DEF FetchPositions
  <2>5. QED
    BY <1>25, <2>3, <2>4 DEF FetchPositions, state
<1>26. ASSUME NEW a \in Accounts, FetchOrders(a) PROVE TypeOK'
  <2>1. At("pending", a) \in SUBSET (Signals \X Slices) /\ snap[Poller] \in Snapshot
    BY AtType
  <2>2. [snap[Poller] EXCEPT !.verified = @ \cup {a}, !.pending = @ \cup At("pending", a)]
           \in Snapshot
    BY <2>1, SnapshotUpdates
  <2>3. snap' \in [Tasks -> Snapshot]
    BY <1>26, <2>2 DEF FetchOrders
  <2>4. QED
    BY <1>26, <2>3 DEF FetchOrders, world, state
<1>27. ASSUME NEW s \in Signals, NEW pos \in Position, Settle(s, pos)
       PROVE  /\ store' \in [Signals -> Position] /\ open' \subseteq Signals
              /\ pc' \in [Tasks -> Labels] /\ target' \in [Tasks -> Signals \cup {NoSignal}]
              /\ local' \in [Tasks -> Position]
              /\ \A t \in Tasks : pc'[t] \in Working \cup {"reply"} => target'[t] \in Signals
  <2> DEFINE done == [pos EXCEPT !.status = "closed"]
  <2>1. done \in Position
    BY PositionUpdates
  <2>2. store' \in [Signals -> Position] /\ open' \subseteq Signals
    <3>1. \/ store' = [store EXCEPT ![s] = done]
          \/ store' = [store EXCEPT ![s] = pos]
      BY <1>27 DEF Settle
    <3>2. open' \subseteq open
      BY <1>27 DEF Settle
    <3> HIDE DEF done
    <3>3. store' \in [Signals -> Position]
      BY <2>1, <3>1
    <3>4. QED
      BY <3>2, <3>3
  <2>3. CASE Carry("conclude", s, pos) \/ Carry("mirror", s, pos)
    BY <1>27, <2>2, <2>3 DEF Carry, Labels, Working
  <2>4. CASE pc' = [pc EXCEPT ![Poller] = "fetch"] /\ Forget(Poller)
    BY <2>2, <2>4, RecordTypes DEF Forget, Labels, Working
  <2>5. QED
    BY <1>27, <2>3, <2>4 DEF Settle
<1>28. ASSUME NEW s \in Signals, Observe(s) PROVE TypeOK'
  <2>1. Reconciled(s) \in Position /\ ToRecord(s) \subseteq Slices
    BY ReconciledType DEF ToRecord
  <2>2. CASE ToRecord(s) = {}
    BY <1>28, <2>1, <2>2, <1>27 DEF Observe, world
  <2>3. CASE ToRecord(s) # {}
    BY <1>28, <2>1, <2>3 DEF Observe, world, Labels, Working
  <2>4. QED
    BY <2>2, <2>3
<1>29. ASSUME NEW o \in Slices, RecordSlice(o) PROVE TypeOK'
  <2> DEFINE s == target[Poller]
             ord == local[Poller].orders[o]
             new == [db[s].orders[o] EXCEPT !.state = ord.state,
                        !.kind = IF ord.state = "filled" THEN "market" ELSE @]
  <2>1. s \in Signals /\ ord \in Order /\ db[s].orders \in [Slices -> Order]
    BY <1>29, PositionUpdates DEF RecordSlice, Working, Write
  <2>2. new \in Order
    BY <2>1 DEF Order
  <2>3. \/ db' = db
        \/ db' = [db EXCEPT ![s].orders[o] = new]
    BY <1>29 DEF RecordSlice, Write
  <2> HIDE DEF new
  <2>4. [db[s] EXCEPT !.orders[o] = new] \in Position
    <3>1. [db[s].orders EXCEPT ![o] = new] \in [Slices -> Order]
      BY <2>1, <2>2
    <3>2. [db[s] EXCEPT !.orders = [db[s].orders EXCEPT ![o] = new]] \in Position
      BY <2>1, <3>1, PositionUpdates
    <3>3. QED
      BY <2>1, <3>2
  <2>5. db' \in [Signals -> Position]
    BY <2>1, <2>3, <2>4
  <2>6. QED
    BY <1>29, <2>5 DEF RecordSlice, world, Write
<1>30. CASE SaveObserved
  <2>1. target[Poller] \in Signals
    BY <1>30 DEF SaveObserved, Working
  <2>2. QED
    BY <1>27, <1>30, <2>1 DEF SaveObserved, world
<1>31. CASE ConcludeDb
  <2>1. DbClosed(target[Poller]) \in [Signals -> Position]
    BY <1>6, <1>31 DEF ConcludeDb, Working, Write
  <2>2. QED
    BY <1>31, <2>1, RecordTypes DEF ConcludeDb, Forget, world, Labels, Working, Write
<1>32. CASE Mirror
  <2>1. target[Poller] \in Signals /\ local[Poller] \in Position
    BY <1>32 DEF Mirror, Working
  <2>2. store' \in [Signals -> Position]
    BY <1>32, <2>1 DEF Mirror
  <2>3. QED
    BY <1>32, <2>2, RecordTypes DEF Mirror, Forget, world, Labels, Working
<1>33. CASE UNCHANGED vars
  BY <1>33 DEF vars, world, state, tasks
<1>34. QED
  BY <1>1, <1>2, <1>3, <1>4, <1>5, <1>7, <1>9, <1>11, <1>13, <1>14, <1>15, <1>16, <1>17,
     <1>18, <1>19, <1>20, <1>21, <1>22, <1>23, <1>24, <1>25, <1>26, <1>28, <1>29, <1>30,
     <1>31, <1>32, <1>33
     DEF Next, Environment, Closing, Sweeping, Handler, Reply, Polling

\* Type correctness of the copy trader: the record a task copies, works on and
\* writes back, the rows and the answers of the broker keep their shapes, and a
\* task that works on a signal knows which.
THEOREM TypeCorrect == Spec => []TypeOK
<1>1. QED
  BY InitTypeOK, StepTypeOK, PTL DEF Spec
-----------------------------------------------------------------------------
(***************************************************************************)
(* FateSound, where the broker's position list is never spuriously empty   *)
(* and an absence must be confirmed: a record calls a slice ended only     *)
(* when it has left the broker.                                            *)
(***************************************************************************)

\* The life of a slice at the broker only moves forward.
Later(b, c) ==
    \/ b = c
    \/ b = "none"
    \/ b = "pending" /\ c \in {"live", "cancelled"}
    \/ b = "live" /\ c = "closed"

\* A record without orders says nothing false of any slice.
LEMMA NoPositionSound ==
    /\ \A truth : Sound(truth, NoPosition)
    /\ NoMiss(NoPosition)
    /\ \A truth, p, s : MissesGone(truth, p, s, NoPosition)
BY DEF Sound, SoundOrder, NoMiss, MissesGone, NoPosition, NoOrder

\* What is known of a slice stays true as its life moves forward.
LEMMA SoundLater ==
    ASSUME NEW truth \in [Slices -> BrokerStates], NEW then \in [Slices -> BrokerStates],
           \A o \in Slices : Later(truth[o], then[o]),
           NEW pos \in Position
    PROVE  /\ Sound(truth, pos) => Sound(then, pos)
           /\ \A p, s : MissesGone(truth, p, s, pos) => MissesGone(then, p, s, pos)
<1>1. \A o \in Slices : pos.orders[o].miss \in Nat
  BY DEF Position, Order
<1>2. Sound(truth, pos) => Sound(then, pos)
  BY <1>1 DEF Sound, SoundOrder, Later, Ended
<1>3. \A p, s : MissesGone(truth, p, s, pos) => MissesGone(then, p, s, pos)
  BY DEF MissesGone, Later, Ended
<1>4. QED
  BY <1>2, <1>3

\* The status of a record says nothing about its slices.
LEMMA StatusIrrelevant ==
    ASSUME NEW pos \in Position, NEW st
    PROVE  /\ \A truth : Sound(truth, [pos EXCEPT !.status = st]) <=> Sound(truth, pos)
           /\ NoMiss([pos EXCEPT !.status = st]) <=> NoMiss(pos)
           /\ \A truth, p, s : MissesGone(truth, p, s, [pos EXCEPT !.status = st])
                               <=> MissesGone(truth, p, s, pos)
<1>1. [pos EXCEPT !.status = st].orders = pos.orders
  BY SMTT(30) DEF Position
<1>2. QED
  BY <1>1 DEF Sound, NoMiss, MissesGone

\* Every step moves the broker forward: in particular a handler only places
\* slices that have not been placed before.
LEMMA BrokerMovesForward ==
    ASSUME TypeOK, PlacedOnce, [Next]_vars
    PROVE  \A s \in Signals, o \in Slices : Later(broker[s][o], broker'[s][o])
<1> USE DEF TypeOK
<1>1. ASSUME UNCHANGED broker PROVE \A s \in Signals, o \in Slices : Later(broker[s][o], broker'[s][o])
  BY <1>1 DEF Later
<1>2. ASSUME NEW s \in Signals, NEW o \in Slices, Fill(s, o) \/ Drop(s, o) \/ Leave(s, o)
      PROVE  \A x \in Signals, p \in Slices : Later(broker[x][p], broker'[x][p])
  <2>1. PICK from \in BrokerStates, to \in BrokerStates :
           SliceMoves(s, o, from, to) /\ Later(from, to)
    BY <1>2 DEF Fill, Drop, Leave, BrokerStates, Later
  <2>2. broker[s][o] = from /\ broker' = [broker EXCEPT ![s][o] = to]
    BY <2>1 DEF SliceMoves
  <2>3. QED
    BY <2>1, <2>2 DEF Later
<1>3. ASSUME NEW t \in Tasks, NEW o \in Slices, CloseSlice(t, o)
      PROVE  \A x \in Signals, p \in Slices : Later(broker[x][p], broker'[x][p])
  <2>1. target[t] \in Signals
    BY <1>3 DEF CloseSlice, Working
  <2>2. \A kind, b : Later(b, Flattened(kind, b))
    BY DEF Flattened, Later
  <2>3. CASE broker' = [broker EXCEPT ![target[t]][o] =
                            Flattened(local[t].orders[o].kind, broker[target[t]][o])]
    BY <2>1, <2>2, <2>3 DEF Later
  <2>4. QED
    BY <1>1, <1>3, <2>3 DEF CloseSlice
<1>4. ASSUME NEW s \in Signals, NEW a \in Accounts, Submit(s, a)
      PROVE  \A x \in Signals, p \in Slices : Later(broker[x][p], broker'[x][p])
  <2>1. \A p \in Slices : Account(p) = a => broker[s][p] = "none"
    BY <1>4 DEF Submit, PlacedOnce
  <2>2. ASSUME NEW k \in Kinds, Submit(s, a)!2!2!(k)
        PROVE  \A x \in Signals, p \in Slices : Later(broker[x][p], broker'[x][p])
    BY <2>1, <2>2 DEF Later
  <2>3. QED
    BY <1>1, <1>4, <2>2 DEF Submit
<1>5. CASE UNCHANGED broker
  BY <1>1, <1>5
<1>6. QED
  BY <1>2, <1>3, <1>4, <1>5
     DEF Next, Environment, Age, Restart, Closing, CloseRecord, CloseDb, SweepNext, Sweeping,
         SweeperWakes, SweepDone, BeginSweep, Handler, Arrive, Guard, EnterGuard, Query, Decide,
         Supersede, Superseded, Track, Insert, Reply, ReplyClose, ReplyModify, ModifyRecord,
         Polling, PollerWakes, FetchPositions, FetchOrders, Observe, RecordSlice, SaveObserved,
         Mirror, ConcludeDb, PollDone, world, vars

\* What a write of the reconciler changes in a row: the state and the kind of
\* one slice of the poller's signal.
LEMMA RecordedRow ==
    ASSUME TypeOK, NEW o \in Slices, RecordSlice(o)
    PROVE  /\ \A s \in Signals : db'[s].status = db[s].status
           /\ \A s \in Signals, p \in Slices : db'[s].orders[p].miss = db[s].orders[p].miss
<1> DEFINE s == target[Poller]
           ord == local[Poller].orders[o]
           row == db[s].orders[o]
           new == [row EXCEPT !.state = ord.state,
                              !.kind = IF ord.state = "filled" THEN "market" ELSE @]
<1>1. /\ s \in Signals /\ row \in Order /\ db \in [Signals -> Position]
      /\ db[s].orders \in [Slices -> Order]
  BY PositionUpdates DEF TypeOK, RecordSlice, Working, Tasks
<1>2. new.miss = row.miss
  BY <1>1 DEF Order
<1>3. db' = db \/ db' = [db EXCEPT ![s].orders[o] = new]
  BY DEF RecordSlice, Write
<1> HIDE DEF new
<1>4. CASE db' = [db EXCEPT ![s].orders[o] = new]
  <2>1. \A x \in Signals \ {s} : db'[x] = db[x]
    BY <1>1, <1>4
  <2>2. db'[s] = [db[s] EXCEPT !.orders[o] = new]
    BY <1>1, <1>4
  <2>3. db'[s].status = db[s].status /\ db'[s].orders = [db[s].orders EXCEPT ![o] = new]
    BY <1>1, <2>2 DEF Position
  <2>4. \A p \in Slices : db'[s].orders[p].miss = db[s].orders[p].miss
    BY <1>1, <1>2, <2>3
  <2>5. QED
    BY <2>1, <2>3, <2>4
<1>5. QED
  BY <1>3, <1>4

\* Closing a row does not make one.
LEMMA ClosedRow ==
    ASSUME TypeOK, NEW s \in Signals, Write(DbClosed(s))
    PROVE  \A x \in Signals : db[x].status = "none" => db'[x].status = "none"
BY DEF TypeOK, Write, DbClosed

-----------------------------------------------------------------------------
\* A step that places nothing and makes no signal known that was not.
Quiet ==
    \A s \in Signals :
        /\ \A o \in Slices : broker[s][o] = "none" => broker'[s][o] = "none"
        /\ \/ pc'[s] = "done"
           \/ /\ \/ pc'[s] = pc[s] /\ todo'[s] \subseteq todo[s]
                 \/ {pc[s], pc'[s]} \cap {"place", "insert", "done"} = {}
              /\ s \in open' => s \in open
              /\ s \in queue'[Poller] => s \in queue[Poller] \cup open
              /\ db[s].status = "none" => db'[s].status = "none"

\* A quiet step keeps PlacedOnce.
LEMMA QuietPlacedOnce == TypeOK /\ PlacedOnce /\ Quiet => PlacedOnce'
BY DEF TypeOK, PlacedOnce, Quiet

\* The broker, the clock and a restart are quiet.
LEMMA QuietEnvironment == TypeOK /\ PlacedOnce /\ Environment => Quiet
<1> SUFFICES ASSUME TypeOK, PlacedOnce, Environment PROVE Quiet
  OBVIOUS
<1> USE DEF TypeOK, Tasks, Messages
<1>1. ASSUME NEW s \in Signals, NEW o \in Slices, Fill(s, o) \/ Drop(s, o) \/ Leave(s, o)
      PROVE  Quiet
  <2>1. PICK from \in BrokerStates, to \in BrokerStates : SliceMoves(s, o, from, to) /\ from # "none"
    BY <1>1 DEF Fill, Drop, Leave, BrokerStates
  <2>2. QED
    BY <2>1 DEF SliceMoves, Quiet, state, tasks
<1>2. ASSUME NEW s \in Signals, Age(s) PROVE Quiet
  BY <1>2 DEF Age, Quiet, state, tasks
<1>3. CASE Restart
  <2>1. \A s \in Signals : (pc'[s] = pc[s] /\ pc[s] = "new") \/ pc'[s] = "done"
    BY <1>3, TasksDistinct DEF Restart
  <2>2. queue'[Poller] = {}
    BY <1>3, TasksDistinct DEF Restart
  <2>3. \A s \in Signals : s \in open' => pc'[s] = "done"
    <3> PICK loaded \in Loads : Restart!2!(loaded)
      BY <1>3 DEF Restart
    <3>1. \A s \in open' : db[s].status # "none"
      BY DEF Loads, Hydrated
    <3>2. QED
      BY <2>1, <3>1 DEF PlacedOnce
  <2>4. QED
    BY <1>3, <2>1, <2>2, <2>3 DEF Restart, Quiet, world
<1>4. QED
  BY <1>1, <1>2, <1>3 DEF Environment

\* close_order() and the sweeps are quiet.
LEMMA QuietClosing == ASSUME TypeOK, PlacedOnce, NEW t \in Tasks, Closing(t) PROVE Quiet
<1> USE DEF TypeOK
<1>1. ASSUME NEW o \in Slices, CloseSlice(t, o) PROVE Quiet
  <2>1. target[t] \in Signals
    BY <1>1 DEF CloseSlice, Working
  <2>2. \A kind : Flattened(kind, "none") = "none"
    BY DEF Flattened
  <2>3. \A s \in Signals, p \in Slices : broker[s][p] = "none" => broker'[s][p] = "none"
    <3>1. CASE broker' = [broker EXCEPT ![target[t]][o] =
                              Flattened(local[t].orders[o].kind, broker[target[t]][o])]
      BY <2>1, <2>2, <3>1
    <3>2. QED
      BY <1>1, <3>1 DEF CloseSlice
  <2>4. QED
    BY <1>1, <2>3 DEF CloseSlice, Quiet, state
<1>2. CASE CloseRecord(t)
  BY <1>2 DEF CloseRecord, Quiet, world
<1>3. CASE CloseDb(t)
  <2>1. \A s \in Signals : db[s].status = "none" => db'[s].status = "none"
    BY <1>3, ClosedRow DEF CloseDb, Working
  <2>2. QED
    BY <1>3, <2>1 DEF CloseDb, Quiet, world, Write
<1>4. CASE SweepNext(t)
  <2> PICK s \in queue[t] : SweepNext(t)!2!(s)
    BY <1>4 DEF SweepNext
  <2>1. pc[t] = "sweep" /\ open' \subseteq open /\ UNCHANGED <<broker, db>>
    BY <1>4 DEF SweepNext, world
  <2>2. queue' = [queue EXCEPT ![t] = @ \ {s}]
    BY <1>4
  <2>3. \/ UNCHANGED <<pc, todo>>
        \/ pc' = [pc EXCEPT ![t] = "close"] /\ \E x : todo' = [todo EXCEPT ![t] = x]
    BY <1>4 DEF SweepNext, BeginClose
  <2>4. QED
    BY <2>1, <2>2, <2>3 DEF Quiet
<1>5. QED
  BY <1>1, <1>2, <1>3, <1>4 DEF Closing

\* The sweeper is quiet.
LEMMA QuietSweeping == TypeOK /\ Sweeping => Quiet
BY TasksDistinct DEF TypeOK, Sweeping, SweeperWakes, SweepDone, BeginSweep, Quiet, world, state,
   Tasks, Messages

\* handle_reply() is quiet.
LEMMA QuietReplies == ASSUME TypeOK, NEW k \in Repliers, Reply(k) PROVE Quiet
BY TasksDistinct DEF TypeOK, Reply, ReplyClose, ReplyModify, ReplyTo, ModifyRecord, BeginClose, Quiet,
   world, state, Tasks, Messages

\* reconcile_broker() is quiet.
LEMMA QuietPolling == TypeOK /\ Polling => Quiet
<1> SUFFICES ASSUME TypeOK, Polling PROVE Quiet
  OBVIOUS
<1> USE TasksDistinct DEF TypeOK, Tasks, Messages
<1>1. CASE PollerWakes \/ PollDone
  BY <1>1 DEF PollerWakes, PollDone, Quiet, world, state
<1>2. ASSUME NEW a \in Accounts, FetchPositions(a) \/ FetchOrders(a) PROVE Quiet
  BY <1>2 DEF FetchPositions, FetchOrders, Quiet, world, state
<1>3. ASSUME NEW s, NEW pos, Settle(s, pos)
      PROVE  open' \subseteq open /\ \A x \in Signals : pc'[x] = pc[x]
  BY <1>3 DEF Settle, Carry
<1>4. ASSUME NEW s \in Signals, Observe(s) PROVE Quiet
  <2>1. open' \subseteq open /\ \A x \in Signals : pc'[x] = pc[x]
    BY <1>3, <1>4 DEF Observe
  <2>2. QED
    BY <1>4, <2>1 DEF Observe, Quiet, world
<1>5. CASE SaveObserved
  BY <1>3, <1>5 DEF SaveObserved, Quiet, world
<1>6. ASSUME NEW o \in Slices, RecordSlice(o) PROVE Quiet
  <2>1. \A s \in Signals : db'[s].status = db[s].status
    BY <1>6, RecordedRow
  <2>2. QED
    BY <1>6, <2>1 DEF RecordSlice, Quiet, world, Write
<1>7. CASE ConcludeDb
  <2>1. \A s \in Signals : db[s].status = "none" => db'[s].status = "none"
    BY <1>7, ClosedRow DEF ConcludeDb, Working
  <2>2. QED
    BY <1>7, <2>1 DEF ConcludeDb, Quiet, world, Write
<1>8. CASE Mirror
  BY <1>8 DEF Mirror, Quiet, world
<1>9. QED
  BY <1>1, <1>2, <1>4, <1>5, <1>6, <1>7, <1>8 DEF Polling

\* Every step keeps PlacedOnce: a handler places once, tracks what it has
\* placed, and inserts the row of what it has tracked.
LEMMA StepPlacedOnce == TypeOK /\ PlacedOnce /\ [Next]_vars => PlacedOnce'
<1> SUFFICES ASSUME TypeOK, PlacedOnce, [Next]_vars PROVE PlacedOnce'
  OBVIOUS
<1> USE TasksDistinct DEF TypeOK, Tasks, Messages
<1>1. ASSUME NEW s \in Signals, EnterGuard(s), pc[s] \in {"new", "sweep"} PROVE PlacedOnce'
  BY <1>1 DEF EnterGuard, PlacedOnce, world, state
<1>2. ASSUME NEW s \in Signals, BeginSweep(s), pc[s] = "new" PROVE PlacedOnce'
  BY <1>2 DEF BeginSweep, PlacedOnce, world, state
<1>3. ASSUME NEW s \in Signals, Arrive(s) \/ Guard(s) PROVE PlacedOnce'
  BY <1>1, <1>2, <1>3 DEF Arrive, Guard
<1>4. ASSUME NEW s \in Signals, NEW a \in Accounts, Query(s, a) PROVE PlacedOnce'
  BY <1>4, QuietPlacedOnce DEF Query, Quiet, world, state
<1>5. ASSUME NEW s \in Signals, Decide(s) PROVE PlacedOnce'
  BY <1>5, QuietPlacedOnce DEF Decide, Quiet, world, state
<1>6. ASSUME NEW s \in Signals, Supersede(s) PROVE PlacedOnce'
  BY <1>6, QuietPlacedOnce DEF Supersede, BeginClose, Quiet, world, state
<1>7. ASSUME NEW s \in Signals, Superseded(s) PROVE PlacedOnce'
  BY <1>7 DEF Superseded, PlacedOnce, world, state
<1>8. ASSUME NEW s \in Signals, NEW a \in Accounts, Submit(s, a) PROVE PlacedOnce'
  <2>1. \A x \in Signals, p \in Slices :
           broker'[x][p] = broker[x][p] \/ (x = s /\ Account(p) = a)
    <3>1. ASSUME NEW k \in Kinds, Submit(s, a)!2!2!(k)
          PROVE  /\ \A x \in Signals \ {s} : broker'[x] = broker[x]
                 /\ \A p \in Slices : Account(p) # a => broker'[s][p] = broker[s][p]
      BY <3>1
    <3>2. CASE UNCHANGED broker
      BY <3>2
    <3>3. QED
      BY <1>8, <3>1, <3>2 DEF Submit
  <2>2. QED
    BY <1>8, <2>1 DEF Submit, PlacedOnce, state
<1>9. ASSUME NEW s \in Signals, Track(s) PROVE PlacedOnce'
  <2>1. /\ pc[s] = "place" /\ todo[s] = {} /\ open' \subseteq open \cup {s}
        /\ \/ pc' = [pc EXCEPT ![s] = "done"]
           \/ pc' = [pc EXCEPT ![s] = "insert"]
        /\ UNCHANGED <<broker, db, todo, queue>>
    BY <1>9 DEF Track, world
  <2>2. QED
    BY <2>1 DEF PlacedOnce
<1>10. ASSUME NEW s \in Signals, Insert(s) PROVE PlacedOnce'
  BY <1>10 DEF Insert, PlacedOnce, world, Write
<1>11. CASE UNCHANGED vars
  BY <1>11 DEF vars, world, state, tasks, PlacedOnce
<1>12. QED
  BY <1>3, <1>4, <1>5, <1>6, <1>7, <1>8, <1>9, <1>10, <1>11, QuietPlacedOnce, QuietEnvironment,
     QuietClosing, QuietSweeping, QuietReplies, QuietPolling DEF Next, Handler
-----------------------------------------------------------------------------
\* Rows and records under construction never count a miss: the poller's misses
\* stay in the store.
LEMMA StepFresh == TypeOK /\ FreshRecords /\ [Next]_vars => FreshRecords'
<1> SUFFICES ASSUME TypeOK, FreshRecords, [Next]_vars PROVE FreshRecords'
  OBVIOUS
<1> USE TasksDistinct, NoPositionSound, StatusIrrelevant DEF TypeOK, Tasks, Messages
<1>1. ASSUME UNCHANGED <<db, local>>, \A s \in Signals : pc'[s] \notin Working => pc[s] \notin Working
      PROVE  FreshRecords'
  BY <1>1 DEF FreshRecords
<1>2. CASE Environment
  <2>1. CASE Restart
    BY <1>2, <2>1 DEF Restart, FreshRecords
  <2>2. CASE ~Restart
    BY <1>1, <1>2, <2>2 DEF Environment, Fill, Drop, Leave, SliceMoves, Age, state, tasks
  <2>3. QED
    BY <2>1, <2>2
<1>3. ASSUME NEW s \in Signals PROVE \A x \in Signals : NoMiss(db[x]) => NoMiss(DbClosed(s)[x])
  <2>1. [db EXCEPT ![s].status = "closed"] = [db EXCEPT ![s] = [db[s] EXCEPT !.status = "closed"]]
    OBVIOUS
  <2>2. QED
    BY ZenonT(40), <2>1 DEF DbClosed
<1>4. ASSUME NEW t \in Tasks, Closing(t) PROVE FreshRecords'
  <2>1. ASSUME NEW o \in Slices, CloseSlice(t, o) PROVE FreshRecords'
    BY <1>1, <2>1 DEF CloseSlice, state
  <2>2. CASE CloseRecord(t)
    BY <1>1, <2>2 DEF CloseRecord, Working
  <2>3. CASE CloseDb(t)
    <3>1. target[t] \in Signals
      BY <2>3 DEF CloseDb, Working, Write
    <3>2. QED
      BY <1>3, <2>3, <3>1 DEF CloseDb, Forget, FreshRecords, Write
  <2>4. CASE SweepNext(t)
    BY <2>4 DEF SweepNext, BeginClose, FreshRecords, Working
  <2>5. QED
    BY <1>4, <2>1, <2>2, <2>3, <2>4 DEF Closing
<1>5. CASE Sweeping
  BY <1>1, <1>5 DEF Sweeping, SweeperWakes, SweepDone, BeginSweep, state
<1>6. ASSUME NEW s \in Signals, Handler(s) PROVE FreshRecords'
  <2>1. CASE Arrive(s) \/ Guard(s) \/ Decide(s) \/ Superseded(s)
    BY <1>1, <2>1 DEF Arrive, Guard, Decide, Superseded, EnterGuard, BeginSweep, state, Working
  <2>2. CASE Supersede(s)
    BY <2>2 DEF Supersede, BeginClose, FreshRecords, Working, state
  <2>3. ASSUME NEW a \in Accounts, Query(s, a) PROVE FreshRecords'
    BY <1>1, <2>3 DEF Query, state
  <2>4. ASSUME NEW a \in Accounts, Submit(s, a) PROVE FreshRecords'
    <3>1. ASSUME NEW k \in Kinds, Submit(s, a)!2!2!(k) PROVE NoMiss(local'[s])
      <4>1. local'[s].orders = [o \in Slices |-> IF Account(o) = a THEN Placed(k[o[2]])
                                                 ELSE local[s].orders[o]]
        BY <3>1 DEF Position
      <4>2. NoMiss(local[s])
        BY <2>4 DEF Submit, FreshRecords, Working
      <4>3. QED
        BY <4>1, <4>2 DEF NoMiss, Placed
    <3>2. \A x \in Signals \ {s} : local'[x] = local[x]
      BY <2>4 DEF Submit
    <3>3. UNCHANGED local \/ NoMiss(local'[s])
      BY <2>4, <3>1 DEF Submit
    <3>4. QED
      BY <2>4, <3>2, <3>3 DEF Submit, FreshRecords, state
  <2>5. CASE Track(s)
    <3>1. CASE UNCHANGED local
      BY <2>5, <3>1 DEF Track, FreshRecords, Working
    <3>2. CASE local' = [local EXCEPT ![s] = [local[s] EXCEPT !.status = "submitted"]]
      <4>1. NoMiss(local[s])
        BY <2>5 DEF Track, FreshRecords, Working
      <4>2. NoMiss([local[s] EXCEPT !.status = "submitted"])
        BY <4>1
      <4>3. QED
        BY <2>5, <3>2, <4>2 DEF Track, FreshRecords
    <3>3. QED
      BY <2>5, <3>1, <3>2 DEF Track
  <2>6. CASE Insert(s)
    BY <2>6 DEF Insert, Forget, FreshRecords, Working, Write
  <2>7. QED
    BY <1>6, <2>1, <2>2, <2>3, <2>4, <2>5, <2>6 DEF Handler
<1>7. ASSUME NEW k \in Repliers, Reply(k) PROVE FreshRecords'
  BY <1>7 DEF Reply, ReplyClose, ReplyModify, ReplyTo, ModifyRecord, BeginClose, Forget, FreshRecords, state
<1>8. ASSUME UNCHANGED db, \A t \in Tasks \ {Poller} : pc'[t] = pc[t] /\ local'[t] = local[t]
      PROVE  FreshRecords'
  BY <1>8 DEF FreshRecords
<1>9. CASE Polling
  <2>1. ASSUME NEW s, NEW pos, Settle(s, pos)
        PROVE  \A t \in Tasks \ {Poller} : pc'[t] = pc[t] /\ local'[t] = local[t]
    BY <2>1 DEF Settle, Carry, Forget
  <2>2. CASE PollerWakes \/ PollDone \/ SaveObserved \/ Mirror
    BY <1>8, <2>1, <2>2 DEF PollerWakes, PollDone, SaveObserved, Mirror, Forget, state
  <2>3. ASSUME NEW a \in Accounts, FetchPositions(a) \/ FetchOrders(a) PROVE FreshRecords'
    BY <1>8, <2>3 DEF FetchPositions, FetchOrders, state
  <2>4. ASSUME NEW s \in Signals, Observe(s) PROVE FreshRecords'
    <3>1. \A t \in Tasks \ {Poller} : pc'[t] = pc[t] /\ local'[t] = local[t]
      BY <2>1, <2>4 DEF Observe
    <3>2. QED
      BY <1>8, <2>4, <3>1 DEF Observe
  <2>5. ASSUME NEW o \in Slices, RecordSlice(o) PROVE FreshRecords'
    <3>1. \A s \in Signals, p \in Slices : db'[s].orders[p].miss = db[s].orders[p].miss
      BY <2>5, RecordedRow
    <3>2. QED
      BY SMTT(30), <2>5, <3>1 DEF RecordSlice, FreshRecords, NoMiss
  <2>6. CASE ConcludeDb
    <3>1. target[Poller] \in Signals
      BY <2>6 DEF ConcludeDb, Working, Write
    <3>2. QED
      BY <1>3, <2>6, <3>1 DEF ConcludeDb, Forget, FreshRecords, Write
  <2>7. QED
    BY <1>9, <2>2, <2>3, <2>4, <2>5, <2>6 DEF Polling
<1>10. CASE UNCHANGED vars
  BY <1>10 DEF vars, state, tasks, FreshRecords
<1>11. QED
  BY <1>2, <1>4, <1>5, <1>6, <1>7, <1>9, <1>10 DEF Next
-----------------------------------------------------------------------------
\* The reconciler keeps a record sound: it ends a slice only on a second miss,
\* when the positions were asked for before the orders and showed it in neither.
LEMMA ReconciledSound ==
    ASSUME MaxBlips = 0, ConfirmPolls >= 2, TypeOK, RecordsSound, AnswersSound,
           NEW s \in queue[Poller]
    PROVE  Sound(broker[s], Reconciled(s))
<1> DEFINE p == snap[Poller]
<1>0. s \in Signals /\ Poller \in Tasks
  BY DEF TypeOK, Tasks
<1>1. Sound(broker[s], store[s])
  BY <1>0 DEF RecordsSound
<1>2. /\ ShownLive(broker[s], p, s) /\ NotWaiting(broker[s], p, s)
      /\ MissesGone(broker[s], p, s, store[s]) /\ p.verified \subseteq p.asked
  BY <1>0 DEF AnswersSound
<1>3. ASSUME NEW o \in Slices PROVE SoundOrder(broker[s][o], Observed(s, o, store[s].orders[o]))
  <2> DEFINE ord == store[s].orders[o]
             b == broker[s][o]
  <2>1. ord \in Order /\ SoundOrder(b, ord) /\ b \in BrokerStates
    BY <1>0, <1>1 DEF TypeOK, Position, Sound
  <2>2. CASE ord.state = "none" \/ Account(o) \notin p.verified
    BY <2>1, <2>2 DEF Observed
  <2>3. CASE ord.state # "none" /\ Account(o) \in p.verified /\ <<s, o>> \in p.live
    <3>1. b \in {"live", "closed"}
      BY <1>2, <2>3 DEF ShownLive
    <3>2. Observed(s, o, ord) = [kind |-> "market", state |-> "filled", observed |-> TRUE, miss |-> 0]
      BY <2>3 DEF Observed
    <3>3. QED
      BY <3>1, <3>2 DEF SoundOrder
  <2>4. CASE ord.state # "none" /\ Account(o) \in p.verified /\ <<s, o>> \notin p.live
             /\ <<s, o>> \in p.pending
    <3>1. Observed(s, o, ord) = [kind |-> ord.kind, state |-> "pending", observed |-> TRUE, miss |-> 0]
      BY <2>4 DEF Observed
    <3>2. QED
      BY <2>1, <2>4, <3>1 DEF SoundOrder
  <2>5. CASE ord.state # "none" /\ Account(o) \in p.verified /\ <<s, o>> \notin p.live \cup p.pending
    <3>1. Observed(s, o, ord) = Missed(ord)
      BY <2>5 DEF Observed
    <3>2. b \notin {"none", "pending"}
      BY <1>2, <2>1, <2>5 DEF NotWaiting, SoundOrder
    <3>3. ord.miss > 0 => b \in Ended
      BY <1>2, <2>5 DEF MissesGone
    <3>4. ord.miss \in Nat /\ ord.state \in {"pending", "filled", "closed", "cancelled"}
      BY <2>1, <2>5 DEF Order
    <3>5. CASE ord.state \in Ended \/ ~ord.observed
      BY <2>1, <3>1, <3>5 DEF Missed
    <3>6. CASE ~(ord.state \in Ended \/ ~ord.observed) /\ ord.miss + 1 < ConfirmPolls
      <4>1. Missed(ord) = [ord EXCEPT !.miss = ord.miss + 1, !.state = ord.state]
        BY <3>6 DEF Missed
      <4>2. /\ Missed(ord).state = ord.state /\ Missed(ord).miss = ord.miss + 1
        BY <2>1, <4>1 DEF Order
      <4>3. QED
        BY <2>1, <3>1, <3>2, <4>2 DEF SoundOrder
    <3>7. CASE ~(ord.state \in Ended \/ ~ord.observed) /\ ~(ord.miss + 1 < ConfirmPolls)
      <4>1. ord.miss > 0
        BY <3>4, <3>7, ConstantsOK
      <4>2. b \in Ended /\ ord.state \in {"pending", "filled"}
        BY <3>3, <3>4, <3>7, <4>1 DEF Ended
      <4>3. Missed(ord) = [ord EXCEPT !.miss = ord.miss + 1,
                                      !.state = IF ord.state = "filled" THEN "closed" ELSE "cancelled"]
        BY <3>7 DEF Missed
      <4>4. Missed(ord).state = IF ord.state = "filled" THEN "closed" ELSE "cancelled"
        BY <2>1, <4>3 DEF Order
      <4>5. ord.state = "filled" => b = "closed"
        BY <2>1, <4>2 DEF SoundOrder, Ended
      <4>6. QED
        BY <3>1, <3>2, <4>2, <4>4, <4>5 DEF SoundOrder, Ended
    <3>8. QED
      BY <3>5, <3>6, <3>7
  <2>6. QED
    BY <2>2, <2>3, <2>4, <2>5
<1>4. Reconciled(s).orders = [o \in Slices |-> Observed(s, o, store[s].orders[o])]
  BY <1>0 DEF Reconciled, TypeOK, Position
<1>5. QED
  BY <1>3, <1>4 DEF Sound

\* Every step keeps the records sound.
LEMMA StepRecordsSound ==
    ASSUME MaxBlips = 0, ConfirmPolls >= 2, IInv, TypeOK', [Next]_vars
    PROVE  RecordsSound'
<1> TypeOK /\ RecordsSound /\ PlacedOnce /\ AnswersSound
  BY DEF IInv
<1> USE TasksDistinct, NoPositionSound DEF TypeOK, Tasks, Messages
<1>1. \A s \in Signals, pos \in Position : Sound(broker[s], pos) => Sound(broker'[s], pos)
  <2>1. \A s \in Signals, o \in Slices : Later(broker[s][o], broker'[s][o])
    BY BrokerMovesForward
  <2>2. QED
    BY <2>1, SoundLater
<1>2. \A pos \in Position : \A truth, st :
           Sound(truth, pos) => Sound(truth, [pos EXCEPT !.status = st])
  BY StatusIrrelevant
<1>3. ASSUME UNCHANGED <<store, db, local, target>>,
             \A t \in Tasks : pc'[t] \in Working <=> pc[t] \in Working
      PROVE  RecordsSound'
  BY <1>1, <1>3 DEF RecordsSound
<1>4. ASSUME NEW s \in Signals PROVE \A x \in Signals : Sound(broker[x], DbClosed(s)[x])
  <2>1. [db EXCEPT ![s].status = "closed"] = [db EXCEPT ![s] = [db[s] EXCEPT !.status = "closed"]]
    OBVIOUS
  <2>2. Sound(broker[s], [db[s] EXCEPT !.status = "closed"])
    BY <1>2 DEF RecordsSound
  <2>3. QED
    BY <2>1, <2>2 DEF DbClosed, RecordsSound
<1>5. CASE Environment
  <2>1. CASE Restart
    BY <2>1 DEF Restart, RecordsSound, world, Working
  <2>2. CASE ~Restart
    BY <1>3, <1>5, <2>2 DEF Environment, Fill, Drop, Leave, SliceMoves, Age, state, tasks
  <2>3. QED
    BY <2>1, <2>2
<1>6. ASSUME NEW t \in Tasks, NEW s \in Signals, NEW back, BeginClose(t, s, back),
             UNCHANGED <<broker, store, db>>
      PROVE  RecordsSound'
  BY <1>6 DEF BeginClose, RecordsSound, Working
<1>7. ASSUME NEW t \in Tasks, Closing(t) PROVE RecordsSound'
  <2>1. ASSUME NEW o \in Slices, CloseSlice(t, o) PROVE RecordsSound'
    BY <1>3, <2>1 DEF CloseSlice, state
  <2>2. CASE CloseRecord(t)
    <3>1. target[t] \in Signals /\ Sound(broker[target[t]], local[t])
      BY <2>2 DEF CloseRecord, RecordsSound, Working
    <3>2. Sound(broker[target[t]], [local[t] EXCEPT !.status = "closed"])
      BY <1>2, <3>1
    <3>3. QED
      BY <2>2, <3>1, <3>2 DEF CloseRecord, RecordsSound, world, Working
  <2>3. CASE CloseDb(t)
    <3>1. target[t] \in Signals
      BY <2>3 DEF CloseDb, Working, Write
    <3>2. QED
      BY <1>4, <2>3, <3>1 DEF CloseDb, Forget, RecordsSound, world, Working, Write
  <2>4. CASE SweepNext(t)
    <3> PICK s \in queue[t] : SweepNext(t)!2!(s)
      BY <2>4 DEF SweepNext
    <3>1. CASE store[s].status = "none"
      BY <1>3, <2>4, <3>1 DEF SweepNext, world
    <3>2. CASE store[s].status # "none"
      BY <1>6, <2>4, <3>2 DEF SweepNext, world
    <3>3. QED
      BY <3>1, <3>2
  <2>5. QED
    BY <1>7, <2>1, <2>2, <2>3, <2>4 DEF Closing
<1>8. CASE Sweeping
  BY <1>3, <1>8 DEF Sweeping, SweeperWakes, SweepDone, BeginSweep, state, Working
<1>9. ASSUME NEW s \in Signals, Handler(s) PROVE RecordsSound'
  <2>1. CASE Arrive(s) \/ Guard(s) \/ Decide(s) \/ Superseded(s)
    BY <1>3, <2>1 DEF Arrive, Guard, Decide, Superseded, EnterGuard, BeginSweep, state, Working
  <2>2. CASE Supersede(s)
    <3> PICK x \in queue[s] : Supersede(s)!2!(x)
      BY <2>2 DEF Supersede
    <3>1. CASE store[x].status = "none"
      BY <1>3, <2>2, <3>1 DEF Supersede, state
    <3>2. CASE store[x].status # "none"
      BY <1>6, <2>2, <3>2 DEF Supersede, world, state
    <3>3. QED
      BY <3>1, <3>2
  <2>3. ASSUME NEW a \in Accounts, Query(s, a) PROVE RecordsSound'
    BY <1>3, <2>3 DEF Query, state
  <2>4. ASSUME NEW a \in Accounts, Submit(s, a) PROVE RecordsSound'
    <3>0. pc[s] = "place" /\ UNCHANGED <<store, db, target, pc>> /\ Sound(broker[s], local[s])
      BY <2>4 DEF Submit, state, RecordsSound, Working
    <3>1. ASSUME NEW k \in Kinds, Submit(s, a)!2!2!(k) PROVE RecordsSound'
      <4>1. local'[s].orders = [o \in Slices |-> IF Account(o) = a THEN Placed(k[o[2]])
                                                 ELSE local[s].orders[o]]
        BY <3>1 DEF Position
      <4>2. broker'[s] = [o \in Slices |-> IF Account(o) # a THEN broker[s][o]
                                           ELSE IF k[o[2]] = "market" THEN "live" ELSE "pending"]
        BY <3>1
      <4>3. Sound(broker'[s], local'[s])
        BY <3>0, <4>1, <4>2 DEF Sound, SoundOrder, Placed
      <4>4. \A t \in Tasks \ {s} : local'[t] = local[t]
        BY <3>1
      <4>5. QED
        BY <1>1, <3>0, <4>3, <4>4 DEF RecordsSound, Working
    <3>2. CASE UNCHANGED <<broker, local>>
      BY <1>3, <3>0, <3>2
    <3>3. QED
      BY <2>4, <3>1, <3>2 DEF Submit
  <2>5. CASE Track(s)
    <3>1. CASE Submitted(local[s]) = {}
      BY <1>3, <2>5, <3>1 DEF Track, Working
    <3>2. CASE Submitted(local[s]) # {}
      <4> DEFINE pos == [local[s] EXCEPT !.status = "submitted"]
      <4>1. /\ pc[s] = "place" /\ pc' = [pc EXCEPT ![s] = "insert"]
            /\ local' = [local EXCEPT ![s] = pos] /\ store' = [store EXCEPT ![s] = pos]
            /\ UNCHANGED <<broker, db, target>>
        BY <2>5, <3>2 DEF Track, world
      <4>2. Sound(broker[s], pos)
        BY <1>2, <4>1 DEF RecordsSound, Working
      <4> HIDE DEF pos
      <4>3. QED
        BY <4>1, <4>2 DEF RecordsSound, Working
    <3>3. QED
      BY <3>1, <3>2
  <2>6. CASE Insert(s)
    BY <2>6 DEF Insert, Forget, RecordsSound, Working, world, Write
  <2>7. QED
    BY <1>9, <2>1, <2>2, <2>3, <2>4, <2>5, <2>6 DEF Handler
<1>10. ASSUME NEW k \in Repliers, Reply(k) PROVE RecordsSound'
  <2>1. ASSUME NEW s \in Signals, ReplyClose(k, s) PROVE RecordsSound'
    BY <1>6, <2>1 DEF ReplyClose, ReplyTo, world, state
  <2>2. ASSUME NEW s \in Signals, ReplyModify(k, s) PROVE RecordsSound'
    BY <2>2 DEF ReplyModify, ReplyTo, RecordsSound, Working, world, state
  <2>3. CASE ModifyRecord(k)
    <3>1. /\ pc[k] = "modify" /\ target[k] \in Signals
          /\ store' = [store EXCEPT ![target[k]] = local[k]]
          /\ local' = [local EXCEPT ![k] = NoPosition]
          /\ \E x \in {"done", "reply"} : pc' = [pc EXCEPT ![k] = x]
          /\ \A t \in Tasks \ {k} : target'[t] = target[t]
          /\ UNCHANGED <<broker, db>>
      BY <2>3 DEF ModifyRecord, Forget, Working, world
    <3>2. Sound(broker[target[k]], local[k])
      BY <3>1 DEF RecordsSound, Working
    <3>3. QED
      BY <3>1, <3>2 DEF RecordsSound, Working
  <2>4. QED
    BY <1>10, <2>1, <2>2, <2>3 DEF Reply
<1>11. ASSUME NEW s \in Signals, NEW pos \in Position, Settle(s, pos), Sound(broker[s], pos),
              UNCHANGED <<broker, db>>
       PROVE  RecordsSound'
  <2>1. Sound(broker[s], [pos EXCEPT !.status = "closed"])
    BY <1>2, <1>11
  <2>2. \A x \in Signals : Sound(broker[x], store'[x])
    <3>1. \/ store' = [store EXCEPT ![s] = [pos EXCEPT !.status = "closed"]]
          \/ store' = [store EXCEPT ![s] = pos]
      BY <1>11 DEF Settle
    <3>2. QED
      BY <1>11, <2>1, <3>1 DEF RecordsSound
  <2>3. CASE Carry("conclude", s, pos) \/ Carry("mirror", s, pos)
    BY <1>11, <2>2, <2>3 DEF Carry, RecordsSound
  <2>4. CASE pc' = [pc EXCEPT ![Poller] = "fetch"] /\ Forget(Poller)
    BY <1>11, <2>2, <2>4 DEF Forget, RecordsSound, Working
  <2>5. QED
    BY <1>11, <2>3, <2>4 DEF Settle
<1>12. CASE Polling
  <2>1. CASE PollerWakes \/ PollDone
    BY <1>3, <2>1 DEF PollerWakes, PollDone, state, Working
  <2>2. ASSUME NEW a \in Accounts, FetchPositions(a) \/ FetchOrders(a) PROVE RecordsSound'
    BY <1>3, <2>2 DEF FetchPositions, FetchOrders, state
  <2>3. ASSUME NEW s \in Signals, Observe(s) PROVE RecordsSound'
    <3>1. Reconciled(s) \in Position /\ Sound(broker[s], Reconciled(s))
      BY <2>3, ReconciledType, ReconciledSound DEF Observe
    <3>2. CASE ToRecord(s) = {}
      BY <1>11, <2>3, <3>1, <3>2 DEF Observe, world
    <3>3. CASE ToRecord(s) # {}
      BY <2>3, <3>1, <3>3 DEF Observe, RecordsSound, Working, world
    <3>4. QED
      BY <3>2, <3>3
  <2>4. ASSUME NEW o \in Slices, RecordSlice(o) PROVE RecordsSound'
    <3> DEFINE s == target[Poller]
               ord == local[Poller].orders[o]
               row == db[s].orders[o]
               new == [row EXCEPT !.state = ord.state,
                                  !.kind = IF ord.state = "filled" THEN "market" ELSE @]
    <3>1. /\ s \in Signals /\ Sound(broker[s], local[Poller]) /\ Sound(broker[s], db[s])
          /\ ord \in Order /\ row \in Order
      BY <2>4 DEF RecordSlice, RecordsSound, Working, Position, Write
    <3>2. new.state = ord.state /\ new.miss = row.miss
      BY <3>1 DEF Order
    <3>3. SoundOrder(broker[s][o], new)
      BY <3>1, <3>2 DEF Sound, SoundOrder
    <3>4. \/ db' = db
          \/ db' = [db EXCEPT ![s].orders[o] = new]
      BY <2>4 DEF RecordSlice, Write
    <3> HIDE DEF new
    <3>5. db'[s].orders = db[s].orders \/ db'[s].orders = [db[s].orders EXCEPT ![o] = new]
      <4>1. CASE db' = [db EXCEPT ![s].orders[o] = new]
        <5>1. db'[s] = [db[s] EXCEPT !.orders[o] = new]
          BY <3>1, <4>1
        <5>2. QED
          BY <3>1, <5>1 DEF Position
      <4>2. QED
        BY <3>4, <4>1
    <3>6. Sound(broker[s], db'[s])
      <4>1. db[s].orders \in [Slices -> Order]
        BY <3>1 DEF Position
      <4>2. \A x \in Slices : db'[s].orders[x] = IF x = o /\ db'[s].orders # db[s].orders
                                                 THEN new ELSE db[s].orders[x]
        BY <3>5, <4>1
      <4>3. QED
        BY <3>1, <3>3, <4>2 DEF Sound
    <3>7. \A x \in Signals \ {s} : db'[x] = db[x]
      BY <3>1, <3>4
    <3>8. QED
      BY <2>4, <3>1, <3>6, <3>7 DEF RecordSlice, RecordsSound, world, Write
  <2>5. CASE SaveObserved
    <3>1. target[Poller] \in Signals /\ Sound(broker[target[Poller]], local[Poller])
      BY <2>5 DEF SaveObserved, RecordsSound, Working
    <3>2. QED
      BY <1>11, <2>5, <3>1 DEF SaveObserved, world
  <2>6. CASE ConcludeDb
    <3>1. target[Poller] \in Signals
      BY <2>6 DEF ConcludeDb, Working, Write
    <3>2. QED
      BY <1>4, <2>6, <3>1 DEF ConcludeDb, Forget, RecordsSound, world, Working, Write
  <2>7. CASE Mirror
    <3>1. target[Poller] \in Signals /\ Sound(broker[target[Poller]], local[Poller])
      BY <2>7 DEF Mirror, RecordsSound, Working
    <3>2. \A x \in Signals : Sound(broker[x], store'[x]) /\ Sound(broker[x], db[x])
      BY SMTT(30), <2>7, <3>1 DEF Mirror, RecordsSound
    <3>3. /\ pc' = [pc EXCEPT ![Poller] = "fetch"]
          /\ \A t \in Tasks \ {Poller} : target'[t] = target[t] /\ local'[t] = local[t]
          /\ UNCHANGED <<broker, db>>
      BY <2>7 DEF Mirror, Forget, world
    <3>4. QED
      BY <3>2, <3>3 DEF RecordsSound, Working
  <2>8. QED
    BY <1>12, <2>1, <2>2, <2>3, <2>4, <2>5, <2>6, <2>7 DEF Polling
<1>13. CASE UNCHANGED vars
  BY <1>13 DEF vars, world, state, tasks, RecordsSound
<1>14. QED
  BY <1>5, <1>7, <1>8, <1>9, <1>10, <1>12, <1>13 DEF Next
-----------------------------------------------------------------------------
\* A slice starts to wait at the broker only while its handler places it.
LEMMA WaitsFromPlacing ==
    ASSUME TypeOK, [Next]_vars, NEW s \in Signals, NEW o \in Slices,
           broker'[s][o] = "pending", broker[s][o] # "pending"
    PROVE  pc[s] = "place"
<1> USE DEF TypeOK
<1>1. broker' # broker
  OBVIOUS
<1>2. ASSUME NEW x \in Signals, NEW p \in Slices, Fill(x, p) \/ Drop(x, p) \/ Leave(x, p) PROVE FALSE
  <2>1. PICK from \in BrokerStates, to \in BrokerStates :
           SliceMoves(x, p, from, to) /\ to # "pending"
    BY <1>2 DEF Fill, Drop, Leave, BrokerStates
  <2>2. broker' = [broker EXCEPT ![x][p] = to]
    BY <2>1 DEF SliceMoves
  <2>3. QED
    BY <2>1, <2>2
<1>3. ASSUME NEW t \in Tasks, NEW p \in Slices, CloseSlice(t, p) PROVE FALSE
  <2>1. \A kind, b : Flattened(kind, b) = "pending" => b = "pending"
    BY DEF Flattened
  <2>2. broker' = [broker EXCEPT ![target[t]][p] =
                       Flattened(local[t].orders[p].kind, broker[target[t]][p])]
    BY <1>1, <1>3 DEF CloseSlice
  <2>3. QED
    BY <2>1, <2>2
<1>4. ASSUME NEW x \in Signals, NEW a \in Accounts, Submit(x, a) PROVE pc[s] = "place"
  <2>1. ASSUME NEW k \in Kinds, Submit(x, a)!2!2!(k) PROVE s = x
    BY <2>1
  <2>2. QED
    BY <1>1, <1>4, <2>1 DEF Submit
<1>5. QED
  BY <1>1, <1>2, <1>3, <1>4
     DEF Next, Environment, Age, Restart, Closing, CloseRecord, CloseDb, SweepNext, Sweeping,
         SweeperWakes, SweepDone, BeginSweep, Handler, Arrive, Guard, EnterGuard, Query, Decide,
         Supersede, Superseded, Track, Insert, Reply, ReplyClose, ReplyModify, ModifyRecord,
         Polling, PollerWakes, FetchPositions, FetchOrders, Observe, RecordSlice, SaveObserved,
         Mirror, ConcludeDb, PollDone, world, vars

\* Every step keeps what the poller's answers tell true.
LEMMA StepAnswersSound ==
    ASSUME MaxBlips = 0, IInv, TypeOK', [Next]_vars
    PROVE  AnswersSound'
<1> TypeOK /\ RecordsSound /\ PlacedOnce /\ AnswersSound
  BY DEF IInv
<1> USE TasksDistinct, NoPositionSound DEF TypeOK, Tasks, Messages
<1>0. \A s \in Signals, o \in Slices : Later(broker[s][o], broker'[s][o])
  BY BrokerMovesForward
<1>1. \A s \in Signals : \A p : ShownLive(broker[s], p, s) => ShownLive(broker'[s], p, s)
  BY <1>0 DEF ShownLive, Later
<1>2. \A s \in queue[Poller] : \A p : NotWaiting(broker[s], p, s) => NotWaiting(broker'[s], p, s)
  <2>1. \A s \in queue[Poller], o \in Slices :
           broker'[s][o] = "pending" => broker[s][o] = "pending"
    BY WaitsFromPlacing DEF PlacedOnce
  <2>2. QED
    BY <2>1 DEF NotWaiting
<1>3. \A s \in Signals, pos \in Position :
         \A p : MissesGone(broker[s], p, s, pos) => MissesGone(broker'[s], p, s, pos)
  BY <1>0, SoundLater
<1>4. \A pos \in Position : \A truth, p, s, st :
         MissesGone(truth, p, s, pos) => MissesGone(truth, p, s, [pos EXCEPT !.status = st])
  BY StatusIrrelevant
<1>5. ASSUME snap'[Poller] = NoSnapshot PROVE AnswersSound'
  BY <1>5 DEF AnswersSound, NoSnapshot, ShownLive, NotWaiting, MissesGone
\* Steps that leave the answers alone: it remains to look at the copies.
<1>6. ASSUME snap'[Poller] = snap[Poller], queue'[Poller] \subseteq queue[Poller],
             \A s \in queue'[Poller] :
                 /\ MissesGone(broker'[s], snap[Poller], s, store'[s])
                 /\ \A t \in Tasks : pc'[t] \in Working /\ target'[t] = s
                                     => MissesGone(broker'[s], snap[Poller], s, local'[t])
      PROVE  AnswersSound'
  BY <1>1, <1>2, <1>6 DEF AnswersSound
<1>7. ASSUME snap'[Poller] = snap[Poller], queue'[Poller] \subseteq queue[Poller],
             UNCHANGED <<store, local, target>>, \A t \in Tasks : pc'[t] \in Working => pc[t] \in Working
      PROVE  AnswersSound'
  BY <1>3, <1>6, <1>7 DEF AnswersSound
<1>8. CASE Environment
  <2>1. CASE Restart
    BY <1>5, <2>1 DEF Restart
  <2>2. CASE ~Restart
    BY <1>7, <1>8, <2>2 DEF Environment, Fill, Drop, Leave, SliceMoves, Age, state, tasks
  <2>3. QED
    BY <2>1, <2>2
<1>9. ASSUME NEW t \in Tasks, NEW s \in Signals, NEW back, BeginClose(t, s, back),
             UNCHANGED <<store, snap>>, queue'[Poller] \subseteq queue[Poller]
      PROVE  AnswersSound'
  BY <1>3, <1>6, <1>9 DEF BeginClose, AnswersSound, Working
<1>10. ASSUME NEW t \in Tasks, Closing(t) PROVE AnswersSound'
  <2>1. ASSUME NEW o \in Slices, CloseSlice(t, o) PROVE AnswersSound'
    BY <1>7, <2>1 DEF CloseSlice, state
  <2>2. CASE CloseRecord(t)
    <3>1. target[t] \in Signals
      BY <2>2 DEF CloseRecord, Working
    <3>2. \A s \in queue[Poller] :
             target[t] = s => MissesGone(broker'[s], snap[Poller], s, [local[t] EXCEPT !.status = "closed"])
      BY <1>3, <1>4, <2>2, <3>1 DEF CloseRecord, AnswersSound, Working
    <3>3. QED
      <4>1. /\ pc[t] = "close" /\ pc' = [pc EXCEPT ![t] = "closedb"]
            /\ store' = [store EXCEPT ![target[t]] = [local[t] EXCEPT !.status = "closed"]]
            /\ UNCHANGED <<target, local, queue, snap>>
        BY <2>2 DEF CloseRecord
      <4>2. \A s \in queue[Poller] : MissesGone(broker'[s], snap[Poller], s, store'[s])
        BY <1>3, <3>1, <3>2, <4>1 DEF AnswersSound
      <4>3. \A s \in queue[Poller], u \in Tasks :
               pc'[u] \in Working /\ target[u] = s => MissesGone(broker'[s], snap[Poller], s, local[u])
        BY <1>3, <4>1 DEF AnswersSound, Working
      <4>4. QED
        BY <1>6, <4>1, <4>2, <4>3
  <2>3. CASE CloseDb(t)
    BY <1>3, <1>6, <2>3 DEF CloseDb, Forget, AnswersSound, Working, Write
  <2>4. CASE SweepNext(t)
    <3> PICK s \in queue[t] : SweepNext(t)!2!(s)
      BY <2>4 DEF SweepNext
    <3>1. CASE store[s].status = "none"
      BY <1>7, <2>4, <3>1 DEF SweepNext
    <3>2. CASE store[s].status # "none"
      BY <1>9, <2>4, <3>2 DEF SweepNext
    <3>3. QED
      BY <3>1, <3>2
  <2>5. QED
    BY <1>10, <2>1, <2>2, <2>3, <2>4 DEF Closing
<1>11. CASE Sweeping
  BY <1>7, <1>11 DEF Sweeping, SweeperWakes, SweepDone, BeginSweep, state, Working
<1>12. ASSUME NEW s \in Signals, Handler(s) PROVE AnswersSound'
  <2>1. CASE Arrive(s) \/ Guard(s) \/ Decide(s) \/ Superseded(s)
    BY <1>7, <2>1 DEF Arrive, Guard, Decide, Superseded, EnterGuard, BeginSweep, state, Working
  <2>2. CASE Supersede(s)
    <3> PICK x \in queue[s] : Supersede(s)!2!(x)
      BY <2>2 DEF Supersede
    <3>1. CASE store[x].status = "none"
      BY <1>7, <2>2, <3>1 DEF Supersede, state
    <3>2. CASE store[x].status # "none"
      BY <1>9, <2>2, <3>2 DEF Supersede, state
    <3>3. QED
      BY <3>1, <3>2
  <2>3. ASSUME NEW a \in Accounts, Query(s, a) PROVE AnswersSound'
    BY <1>7, <2>3 DEF Query, state
  <2>4. ASSUME NEW a \in Accounts, Submit(s, a) PROVE AnswersSound'
    <3>1. pc[s] = "place" /\ UNCHANGED <<store, target, pc, queue, snap>>
      BY <2>4 DEF Submit, state
    <3>2. \A t \in Tasks \ {s} : local'[t] = local[t]
      BY <2>4 DEF Submit
    <3>3. QED
      BY <1>3, <1>6, <3>1, <3>2 DEF AnswersSound, Working
  <2>5. CASE Track(s)
    <3>1. /\ pc[s] = "place" /\ pc'[s] \notin Working
          /\ \A t \in Tasks \ {s} : pc'[t] = pc[t] /\ local'[t] = local[t]
          /\ \A x \in Signals \ {s} : store'[x] = store[x]
          /\ UNCHANGED <<target, queue, snap>>
      BY <2>5 DEF Track, Working
    <3>2. s \notin queue[Poller]
      BY <3>1 DEF PlacedOnce
    <3>3. QED
      <4>1. \A x \in queue[Poller] : MissesGone(broker'[x], snap[Poller], x, store'[x])
        BY <1>3, <3>1, <3>2 DEF AnswersSound
      <4>2. \A x \in queue[Poller], t \in Tasks :
               pc'[t] \in Working /\ target[t] = x => MissesGone(broker'[x], snap[Poller], x, local'[t])
        BY <1>3, <3>1 DEF AnswersSound
      <4>3. QED
        BY <1>6, <3>1, <4>1, <4>2
  <2>6. CASE Insert(s)
    BY <1>3, <1>6, <2>6 DEF Insert, Forget, AnswersSound, Working, Write
  <2>7. QED
    BY <1>12, <2>1, <2>2, <2>3, <2>4, <2>5, <2>6 DEF Handler
<1>13. ASSUME NEW k \in Repliers, Reply(k) PROVE AnswersSound'
  <2>1. ASSUME NEW s \in Signals, ReplyClose(k, s) PROVE AnswersSound'
    BY <1>9, <2>1 DEF ReplyClose, ReplyTo, state
  <2>2. ASSUME NEW s \in Signals, ReplyModify(k, s) PROVE AnswersSound'
    BY <1>3, <1>6, <2>2 DEF ReplyModify, ReplyTo, AnswersSound, Working, state
  <2>3. CASE ModifyRecord(k)
    <3>1. /\ pc[k] = "modify" /\ target[k] \in Signals
          /\ store' = [store EXCEPT ![target[k]] = local[k]]
          /\ \A t \in Tasks \ {k} : target'[t] = target[t] /\ local'[t] = local[t]
          /\ \A t \in Tasks : pc'[t] \in Working => pc[t] \in Working /\ t # k
          /\ UNCHANGED <<queue, snap>>
      BY <2>3 DEF ModifyRecord, Forget, Working
    <3>2. \A x \in queue[Poller] : MissesGone(broker'[x], snap[Poller], x, store'[x])
      BY <1>3, <3>1 DEF AnswersSound, Working
    <3>3. \A x \in queue[Poller], t \in Tasks :
             pc'[t] \in Working /\ target'[t] = x => MissesGone(broker'[x], snap[Poller], x, local'[t])
      BY <1>3, <3>1 DEF AnswersSound
    <3>4. QED
      BY <1>6, <3>1, <3>2, <3>3
  <2>4. QED
    BY <1>13, <2>1, <2>2, <2>3 DEF Reply
<1>14. ASSUME NEW s \in Signals, NEW pos \in Position, Settle(s, pos),
              UNCHANGED snap, queue'[Poller] \subseteq queue[Poller],
              s \in queue'[Poller] => MissesGone(broker'[s], snap[Poller], s, pos)
       PROVE  AnswersSound'
  <2>1. \A x \in queue'[Poller] : MissesGone(broker'[x], snap[Poller], x, store'[x])
    <3>1. \/ store' = [store EXCEPT ![s] = [pos EXCEPT !.status = "closed"]]
          \/ store' = [store EXCEPT ![s] = pos]
      BY <1>14 DEF Settle
    <3>2. s \in queue'[Poller]
             => MissesGone(broker'[s], snap[Poller], s, [pos EXCEPT !.status = "closed"])
      BY <1>4, <1>14
    <3>3. \A x \in queue'[Poller] \ {s} : MissesGone(broker'[x], snap[Poller], x, store'[x])
      BY <1>3, <1>14, <3>1 DEF AnswersSound
    <3>4. QED
      BY <1>14, <3>1, <3>2, <3>3
  <2>2. \A x \in queue'[Poller], t \in Tasks :
           pc'[t] \in Working /\ target'[t] = x => MissesGone(broker'[x], snap[Poller], x, local'[t])
    <3>1. CASE Carry("conclude", s, pos) \/ Carry("mirror", s, pos)
      BY <1>3, <1>14, <3>1 DEF Carry, AnswersSound
    <3>2. CASE pc' = [pc EXCEPT ![Poller] = "fetch"] /\ Forget(Poller)
      BY <1>3, <1>14, <3>2 DEF Forget, AnswersSound, Working
    <3>3. QED
      BY <1>14, <3>1, <3>2 DEF Settle
  <2>3. QED
    BY <1>6, <1>14, <2>1, <2>2
<1>15. CASE Polling
  <2>1. CASE PollerWakes \/ PollDone
    BY <1>5, <2>1 DEF PollerWakes, PollDone
  <2>2. ASSUME NEW a \in Accounts, FetchPositions(a) PROVE AnswersSound'
    <3> DEFINE p == snap[Poller]
               q == snap'[Poller]
    <3>1. /\ UNCHANGED <<broker, store, local, target, pc, queue>>
          /\ MaxBlips = 0 => ~(blips < MaxBlips)
      BY <2>2 DEF FetchPositions, state
    <3>2. CASE UNCHANGED snap
      BY <1>7, <3>1, <3>2
    <3>3. CASE snap' = [snap EXCEPT ![Poller] = [snap[Poller] EXCEPT !.asked = @ \cup {a},
                                                    !.live = @ \cup At("live", a)]]
      <4>1. /\ q.asked = p.asked \cup {a} /\ q.live = p.live \cup At("live", a)
            /\ q.verified = p.verified /\ q.pending = p.pending
        BY <3>3 DEF Snapshot
      <4> HIDE DEF q
      <4>2. \A s \in Signals : ShownLive(broker[s], q, s)
        BY <4>1 DEF AnswersSound, ShownLive, At
      <4>3. \A s \in queue[Poller] : NotWaiting(broker[s], q, s)
        BY <4>1 DEF AnswersSound, NotWaiting
      <4>4. ASSUME NEW s \in Signals, NEW pos \in Position, Sound(broker[s], pos),
                   MissesGone(broker[s], p, s, pos)
            PROVE  MissesGone(broker[s], q, s, pos)
        <5>1. \A o \in Slices : Account(o) = a /\ <<s, o>> \notin q.live => broker[s][o] # "live"
          BY <4>1 DEF At
        <5>2. \A o \in Slices : pos.orders[o].miss > 0 => broker[s][o] \in {"live", "closed", "cancelled"}
          BY <4>4 DEF Sound, SoundOrder, BrokerStates
        <5>3. QED
          BY <4>1, <4>4, <5>1, <5>2 DEF MissesGone, Ended
      <4>5. \A s \in queue[Poller] : MissesGone(broker[s], q, s, store[s])
        BY <4>4 DEF AnswersSound, RecordsSound
      <4>6. \A s \in queue[Poller], t \in Tasks :
               pc[t] \in Working /\ target[t] = s => MissesGone(broker[s], q, s, local[t])
        BY <4>4 DEF AnswersSound, RecordsSound
      <4>7. q.verified \subseteq q.asked
        BY <4>1 DEF AnswersSound
      <4>8. QED
        BY <3>1, <4>2, <4>3, <4>5, <4>6, <4>7 DEF AnswersSound, q
    <3>4. QED
      BY <2>2, <3>1, <3>2, <3>3 DEF FetchPositions
  <2>3. ASSUME NEW a \in Accounts, FetchOrders(a) PROVE AnswersSound'
    <3> DEFINE p == snap[Poller]
               q == snap'[Poller]
    <3>1. UNCHANGED <<broker, store, local, target, pc, queue>> /\ a \in p.asked
      BY <2>3 DEF FetchOrders, world, state
    <3>2. CASE UNCHANGED snap
      BY <1>7, <3>1, <3>2
    <3>3. CASE snap' = [snap EXCEPT ![Poller] = [snap[Poller] EXCEPT !.verified = @ \cup {a},
                                                    !.pending = @ \cup At("pending", a)]]
      <4>1. /\ q.asked = p.asked /\ q.live = p.live
            /\ q.verified = p.verified \cup {a} /\ q.pending = p.pending \cup At("pending", a)
        BY <3>3 DEF Snapshot
      <4> HIDE DEF q
      <4>2. \A s \in Signals : ShownLive(broker[s], q, s)
        BY <4>1 DEF AnswersSound, ShownLive
      <4>3. \A s \in queue[Poller] : NotWaiting(broker[s], q, s)
        BY <4>1 DEF AnswersSound, NotWaiting, At
      <4>4. \A s, pos : MissesGone(broker[s], p, s, pos) => MissesGone(broker[s], q, s, pos)
        BY <4>1 DEF MissesGone
      <4>5. q.verified \subseteq q.asked
        BY <3>1, <4>1 DEF AnswersSound
      <4>6. QED
        BY <3>1, <4>2, <4>3, <4>4, <4>5 DEF AnswersSound, q
    <3>4. QED
      BY <2>3, <3>2, <3>3 DEF FetchOrders
  <2>4. ASSUME NEW s \in Signals, Observe(s) PROVE AnswersSound'
    <3>1. Reconciled(s) \in Position
      BY ReconciledType
    <3>2. queue'[Poller] = queue[Poller] \ {s} /\ UNCHANGED <<snap, broker>>
      BY <2>4 DEF Observe, world
    <3>3. CASE ToRecord(s) = {}
      BY <1>14, <2>4, <3>1, <3>2, <3>3 DEF Observe
    <3>4. CASE ToRecord(s) # {}
      BY <1>3, <1>6, <2>4, <3>2, <3>4 DEF Observe, AnswersSound, Working
    <3>5. QED
      BY <3>3, <3>4
  <2>5. ASSUME NEW o \in Slices, RecordSlice(o) PROVE AnswersSound'
    BY <1>7, <2>5 DEF RecordSlice, Write
  <2>6. CASE SaveObserved
    <3>1. target[Poller] \in Signals
      BY <2>6 DEF SaveObserved, Working
    <3>2. target[Poller] \in queue[Poller]
             => MissesGone(broker'[target[Poller]], snap[Poller], target[Poller], local[Poller])
      BY <1>3, <2>6, <3>1 DEF SaveObserved, AnswersSound, Working
    <3>3. QED
      BY <1>14, <2>6, <3>1, <3>2 DEF SaveObserved
  <2>7. CASE ConcludeDb
    BY <1>3, <1>6, <2>7 DEF ConcludeDb, Forget, AnswersSound, Working, Write
  <2>8. CASE Mirror
    <3>1. target[Poller] \in Signals
      BY <2>8 DEF Mirror, Working
    <3>2. target[Poller] \in queue[Poller]
             => MissesGone(broker'[target[Poller]], snap[Poller], target[Poller], local[Poller])
      BY <1>3, <2>8, <3>1 DEF Mirror, AnswersSound, Working
    <3>3. \A x \in queue[Poller] : MissesGone(broker'[x], snap[Poller], x, store'[x])
      BY <1>3, <2>8, <3>2 DEF Mirror, AnswersSound
    <3>4. QED
      BY <1>3, <1>6, <2>8, <3>3 DEF Mirror, Forget, AnswersSound, Working
  <2>9. QED
    BY <1>15, <2>1, <2>2, <2>3, <2>4, <2>5, <2>6, <2>7, <2>8 DEF Polling
<1>16. CASE UNCHANGED vars
  BY <1>7, <1>16 DEF vars, state, tasks
<1>17. QED
  BY <1>8, <1>10, <1>11, <1>12, <1>13, <1>15, <1>16 DEF Next
-----------------------------------------------------------------------------
\* Before anything has happened the records are sound.
LEMMA InitSound == Init => IInv
<1> SUFFICES ASSUME Init PROVE IInv
  OBVIOUS
<1> TypeOK
  BY InitTypeOK
<1> USE TasksDistinct, NoPositionSound DEF Init, Tasks, Messages
<1>1. RecordsSound /\ FreshRecords
  BY DEF RecordsSound, FreshRecords, Working
<1>2. PlacedOnce
  BY DEF PlacedOnce, NoPosition
<1>3. AnswersSound
  BY DEF AnswersSound, NoSnapshot, ShownLive
<1>4. QED
  BY <1>1, <1>2, <1>3 DEF IInv

\* Every step keeps them sound.
LEMMA StepSound ==
    ASSUME MaxBlips = 0, ConfirmPolls >= 2, IInv, [Next]_vars
    PROVE  IInv'
<1>1. TypeOK'
  BY StepTypeOK DEF IInv
<1>2. QED
  BY <1>1, StepRecordsSound, StepFresh, StepPlacedOnce, StepAnswersSound DEF IInv

\* Where absences are confirmed and the position list is never spuriously
\* empty, whatever else fails or interleaves: a slice that the store, a row or a
\* task's copy calls closed was a position and has left the broker, and one
\* called cancelled has left it too (reconcile_broker() and its races).
THEOREM FateSoundHolds ==
    ASSUME MaxBlips = 0, ConfirmPolls >= 2
    PROVE  Spec => []FateSound
<1>1. Init => IInv
  BY InitSound
<1>2. IInv /\ [Next]_vars => IInv'
  BY StepSound
<1>3. IInv => FateSound
  <2> SUFFICES ASSUME IInv, NEW s \in Signals, NEW o \in Slices, NEW pos \in Copies(s)
               PROVE  /\ pos.orders[o].state \in Ended => broker[s][o] \in Ended
                      /\ pos.orders[o].state = "closed" => broker[s][o] = "closed"
    BY DEF FateSound
  <2>1. Sound(broker[s], pos)
    BY DEF IInv, RecordsSound, Copies, Holders
  <2>2. QED
    BY <2>1 DEF Sound, SoundOrder, Ended
<1>4. QED
  BY <1>1, <1>2, <1>3, PTL DEF Spec
-----------------------------------------------------------------------------
(***************************************************************************)
(* What is tracked, where all entries are market orders.                   *)
(***************************************************************************)
\* The order plans hold no limit entries.
MarketEntries == "limit" \notin Hazards

\* Absences are confirmed, and never spurious.
Patient == MaxBlips = 0 /\ ConfirmPolls >= 2

\* The records are sound in every state of such a trader.
LEMMA RecordsHold == ASSUME Patient PROVE Spec => []IInv
<1>1. Init => IInv
  BY InitSound
<1>2. IInv /\ [Next]_vars => IInv'
  BY StepSound DEF Patient
<1>3. QED
  BY <1>1, <1>2, PTL DEF Spec

\* A handler that has placed its orders.
Entered == {"insert", "done"}

\* Whoever is at work holds a record, every open signal has one, and only what
\* has been placed is on record.
Recorded ==
    /\ \A s \in open : store[s].status # "none"
    /\ \A s \in Signals : store[s].status # "none" => pc[s] \in Entered
    /\ \A t \in Tasks : pc[t] \in Working => local[t].status # "none" /\ pc[target[t]] \in Entered

\* A handler places its orders once.
LEMMA EnteredStays ==
    ASSUME TypeOK, [Next]_vars, NEW s \in Signals, pc[s] \in Entered
    PROVE  pc'[s] \in Entered
<1> USE TasksDistinct DEF TypeOK, Tasks, Messages, Entered
<1>1. ASSUME NEW t \in Tasks, NEW l, pc[t] \notin Entered \/ l \in Entered,
             pc' = [pc EXCEPT ![t] = l]
      PROVE  pc'[s] \in Entered
  BY <1>1
<1>2. CASE UNCHANGED pc
  BY <1>2
<1>3. CASE Restart
  BY <1>3 DEF Restart
<1>4. ASSUME NEW t \in Tasks, Closing(t) PROVE pc'[s] \in Entered
  BY <1>1, <1>2, <1>4 DEF Closing, CloseSlice, CloseRecord, CloseDb, SweepNext, BeginClose
<1>5. CASE Sweeping
  BY <1>1, <1>5 DEF Sweeping, SweeperWakes, SweepDone, BeginSweep
<1>6. ASSUME NEW x \in Signals, Handler(x) PROVE pc'[s] \in Entered
  <2>1. CASE Arrive(x) \/ Guard(x)
    BY <1>1, <2>1 DEF Arrive, Guard, EnterGuard, BeginSweep
  <2>2. CASE Decide(x) \/ Supersede(x) \/ Superseded(x)
    BY <1>1, <1>2, <2>2 DEF Decide, Supersede, Superseded, BeginClose
  <2>3. ASSUME NEW a \in Accounts, Query(x, a) \/ Submit(x, a) PROVE pc'[s] \in Entered
    BY <1>2, <2>3 DEF Query, Submit
  <2>4. CASE Track(x) \/ Insert(x)
    BY <1>1, <2>4 DEF Track, Insert
  <2>5. QED
    BY <1>6, <2>1, <2>2, <2>3, <2>4 DEF Handler
<1>7. ASSUME NEW k \in Repliers, Reply(k) PROVE pc'[s] \in Entered
  BY <1>7 DEF Reply, ReplyClose, ReplyModify, ModifyRecord, BeginClose
<1>8. CASE Polling
  <2>1. Poller \in Tasks /\ Poller # s
    OBVIOUS
  <2>2. \A x, pos : Settle(x, pos) => pc'[s] = pc[s]
    BY <2>1 DEF Settle, Carry
  <2>3. CASE PollerWakes \/ PollDone \/ Mirror \/ ConcludeDb
    BY <2>1, <2>3 DEF PollerWakes, PollDone, Mirror, ConcludeDb
  <2>4. CASE SaveObserved \/ \E x \in Signals : Observe(x)
    BY <2>1, <2>2, <2>4 DEF SaveObserved, Observe
  <2>5. ASSUME NEW a \in Accounts, FetchPositions(a) \/ FetchOrders(a) PROVE pc'[s] = pc[s]
    BY <2>5 DEF FetchPositions, FetchOrders
  <2>6. ASSUME NEW o \in Slices, RecordSlice(o) PROVE pc'[s] = pc[s]
    BY <2>6 DEF RecordSlice
  <2>7. QED
    BY <1>8, <2>3, <2>4, <2>5, <2>6 DEF Polling
<1>9. CASE \E x \in Signals, o \in Slices : Fill(x, o) \/ Drop(x, o) \/ Leave(x, o)
  BY <1>2, <1>9 DEF Fill, Drop, Leave, SliceMoves, tasks
<1>10. CASE \E x \in Signals : Age(x)
  BY <1>2, <1>10 DEF Age, tasks
<1>11. QED
  BY <1>2, <1>3, <1>4, <1>5, <1>6, <1>7, <1>8, <1>9, <1>10 DEF Next, Environment, vars, tasks

\* The reconciler leaves the status of a record alone.
LEMMA ReconciledStatus ==
    ASSUME TypeOK, NEW s \in Signals
    PROVE  /\ Reconciled(s).status = store[s].status
           /\ Reconciled(s).orders = [o \in Slices |-> Observed(s, o, store[s].orders[o])]
BY DEF Reconciled, TypeOK, Position

\* A record keeps a status when it is given one.
LEMMA StatusGiven ==
    ASSUME NEW pos \in Position, NEW st
    PROVE  /\ [pos EXCEPT !.status = st].status = st
           /\ [pos EXCEPT !.status = st].orders = pos.orders
<1>1. pos = [status |-> pos.status, orders |-> pos.orders]
  BY DEF Position
<1>2. [pos EXCEPT !.status = st] = [status |-> st, orders |-> pos.orders]
  BY <1>1
<1>3. QED
  BY <1>2

\* Every step keeps Recorded: nobody works on a signal without a record, and a
\* restart reloads the rows of the signals it opens.
LEMMA StepRecorded == ASSUME TypeOK, PlacedOnce, Recorded, [Next]_vars PROVE Recorded'
<1> USE TasksDistinct DEF TypeOK, Tasks, Messages
<1>0. \A s \in Signals : pc[s] \in Entered => pc'[s] \in Entered
  BY EnteredStays
<1>1. ASSUME UNCHANGED <<store, local, target>>, open' \subseteq open,
             \A t \in Tasks : pc'[t] \in Working => pc[t] \in Working
      PROVE  Recorded'
  BY <1>0, <1>1 DEF Recorded
<1>2. ASSUME NEW t \in Tasks, NEW s \in Signals, NEW back, BeginClose(t, s, back),
             store[s].status # "none", UNCHANGED <<store, open>>
      PROVE  Recorded'
  BY <1>0, <1>2 DEF BeginClose, Recorded
<1>3. CASE Environment
  <2>1. CASE Restart
    <3> PICK loaded \in Loads : Restart!2!(loaded)
      BY <2>1 DEF Restart
    <3>1. /\ \A s \in open' : store'[s].status # "none"
          /\ \A s \in Signals : store'[s].status # "none" => db[s].status # "none"
      BY DEF Loads, Hydrated, NoPosition
    <3>2. \A t \in Tasks : pc'[t] \notin Working
      BY <2>1 DEF Restart, Working
    <3>3. QED
      BY <1>0, <3>1, <3>2 DEF Recorded, PlacedOnce, Entered
  <2>2. CASE ~Restart
    BY <1>1, <1>3, <2>2 DEF Environment, Fill, Drop, Leave, SliceMoves, Age, state, tasks
  <2>3. QED
    BY <2>1, <2>2
<1>4. ASSUME NEW t \in Tasks, Closing(t) PROVE Recorded'
  <2>1. ASSUME NEW o \in Slices, CloseSlice(t, o) PROVE Recorded'
    BY <1>1, <2>1 DEF CloseSlice, state
  <2>2. CASE CloseRecord(t)
    <3>1. target[t] \in Signals /\ [local[t] EXCEPT !.status = "closed"].status = "closed"
      BY <2>2, StatusGiven DEF CloseRecord, Working
    <3>2. QED
      BY <1>0, <2>2, <3>1 DEF CloseRecord, Recorded, Working
  <2>3. CASE CloseDb(t)
    BY <1>0, <2>3 DEF CloseDb, Forget, Recorded, Working
  <2>4. CASE SweepNext(t)
    <3> PICK s \in queue[t] : SweepNext(t)!2!(s)
      BY <2>4 DEF SweepNext
    <3>1. CASE store[s].status = "none"
      BY <1>1, <2>4, <3>1 DEF SweepNext
    <3>2. CASE store[s].status # "none"
      BY <1>2, <2>4, <3>2 DEF SweepNext
    <3>3. QED
      BY <3>1, <3>2
  <2>5. QED
    BY <1>4, <2>1, <2>2, <2>3, <2>4 DEF Closing
<1>5. CASE Sweeping
  BY <1>1, <1>5 DEF Sweeping, SweeperWakes, SweepDone, BeginSweep, state, Working
<1>6. ASSUME NEW s \in Signals, Handler(s) PROVE Recorded'
  <2>1. CASE Arrive(s) \/ Guard(s) \/ Decide(s) \/ Superseded(s)
    BY <1>1, <2>1 DEF Arrive, Guard, Decide, Superseded, EnterGuard, BeginSweep, state, Working
  <2>2. CASE Supersede(s)
    <3> PICK x \in queue[s] : Supersede(s)!2!(x)
      BY <2>2 DEF Supersede
    <3>1. CASE store[x].status = "none"
      BY <1>1, <2>2, <3>1 DEF Supersede, state
    <3>2. CASE store[x].status # "none"
      BY <1>2, <2>2, <3>2 DEF Supersede, state
    <3>3. QED
      BY <3>1, <3>2
  <2>3. ASSUME NEW a \in Accounts, Query(s, a) PROVE Recorded'
    BY <1>1, <2>3 DEF Query, state
  <2>4. ASSUME NEW a \in Accounts, Submit(s, a) PROVE Recorded'
    <3>1. pc[s] = "place" /\ \A t \in Tasks \ {s} : local'[t] = local[t]
      BY <2>4 DEF Submit
    <3>2. QED
      BY <1>0, <2>4, <3>1 DEF Submit, Recorded, Working, state
  <2>5. CASE Track(s)
    <3>1. CASE Submitted(local[s]) = {}
      BY <1>1, <2>5, <3>1 DEF Track, Working
    <3>2. CASE Submitted(local[s]) # {}
      <4> DEFINE pos == [local[s] EXCEPT !.status = "submitted"]
      <4>1. pos.status = "submitted"
        BY StatusGiven
      <4>2. /\ pc' = [pc EXCEPT ![s] = "insert"] /\ open' = open \cup {s}
            /\ local' = [local EXCEPT ![s] = pos] /\ store' = [store EXCEPT ![s] = pos]
            /\ UNCHANGED target
        BY <2>5, <3>2 DEF Track
      <4> HIDE DEF pos
      <4>3. \A x \in open' : store'[x].status # "none"
        BY <4>1, <4>2 DEF Recorded
      <4>4. \A x \in Signals : store'[x].status # "none" => pc'[x] \in Entered
        BY <1>0, <4>2 DEF Recorded, Entered
      <4>5. ASSUME NEW t \in Tasks, pc'[t] \in Working
            PROVE  local'[t].status # "none" /\ pc'[target'[t]] \in Entered
        <5>1. t # s /\ pc[t] \in Working /\ local'[t] = local[t] /\ target[t] \in Signals
          BY <4>2, <4>5 DEF Working
        <5>2. QED
          BY <1>0, <4>2, <5>1 DEF Recorded
      <4>6. QED
        BY <4>3, <4>4, <4>5 DEF Recorded
    <3>3. QED
      BY <3>1, <3>2
  <2>6. CASE Insert(s)
    BY <1>0, <2>6 DEF Insert, Forget, Recorded, Working
  <2>7. QED
    BY <1>6, <2>1, <2>2, <2>3, <2>4, <2>5, <2>6 DEF Handler
<1>7. ASSUME NEW k \in Repliers, Reply(k) PROVE Recorded'
  <2>1. ASSUME NEW s \in Signals, ReplyClose(k, s) PROVE Recorded'
    BY <1>2, <2>1 DEF ReplyClose, ReplyTo, state
  <2>2. ASSUME NEW s \in Signals, ReplyModify(k, s) PROVE Recorded'
    BY <1>0, <2>2 DEF ReplyModify, ReplyTo, Recorded, Working, state
  <2>3. CASE ModifyRecord(k)
    <3>1. target[k] \in Signals /\ local[k].status # "none"
      BY <1>0, <2>3 DEF ModifyRecord, Recorded, Working
    <3>2. QED
      BY <1>0, <2>3, <3>1 DEF ModifyRecord, Forget, Recorded, Working
  <2>4. QED
    BY <1>7, <2>1, <2>2, <2>3 DEF Reply
<1>8. ASSUME NEW s \in Signals, NEW pos \in Position, Settle(s, pos), pos.status # "none",
             pc[s] \in Entered
      PROVE  Recorded'
  <2>1. /\ \A x \in open' : store'[x].status # "none"
        /\ \A x \in Signals : store'[x].status # "none" => pc'[x] \in Entered
    <3>1. [pos EXCEPT !.status = "closed"].status = "closed"
      BY StatusGiven
    <3>2. \/ store' = [store EXCEPT ![s] = [pos EXCEPT !.status = "closed"]]
          \/ store' = [store EXCEPT ![s] = pos]
      BY <1>8 DEF Settle
    <3>3. open' \subseteq open
      BY <1>8 DEF Settle
    <3>4. \A x \in Signals \ {s} : store'[x] = store[x]
      BY <3>2
    <3>5. store'[s].status # "none"
      BY <1>8, <3>1, <3>2
    <3>6. QED
      BY <1>0, <1>8, <3>3, <3>4, <3>5 DEF Recorded
  <2>2. CASE Carry("conclude", s, pos) \/ Carry("mirror", s, pos)
    BY <1>0, <1>8, <2>1, <2>2 DEF Carry, Recorded
  <2>3. CASE pc' = [pc EXCEPT ![Poller] = "fetch"] /\ Forget(Poller)
    BY <1>0, <2>1, <2>3 DEF Forget, Recorded, Working
  <2>4. QED
    BY <1>8, <2>2, <2>3 DEF Settle
<1>9. CASE Polling
  <2>1. CASE PollerWakes \/ PollDone
    BY <1>1, <2>1 DEF PollerWakes, PollDone, state, Working
  <2>2. ASSUME NEW a \in Accounts, FetchPositions(a) \/ FetchOrders(a) PROVE Recorded'
    BY <1>1, <2>2 DEF FetchPositions, FetchOrders, world, state
  <2>3. ASSUME NEW s \in Signals, Observe(s) PROVE Recorded'
    <3>1. Reconciled(s) \in Position /\ Reconciled(s).status # "none" /\ pc[s] \in Entered
      BY <2>3, ReconciledType, ReconciledStatus DEF Observe, Recorded
    <3>2. CASE ToRecord(s) = {}
      BY <1>8, <2>3, <3>1, <3>2 DEF Observe
    <3>3. CASE ToRecord(s) # {}
      BY <1>0, <2>3, <3>1, <3>3 DEF Observe, Recorded, Working
    <3>4. QED
      BY <3>2, <3>3
  <2>4. ASSUME NEW o \in Slices, RecordSlice(o) PROVE Recorded'
    BY <1>1, <2>4 DEF RecordSlice
  <2>5. CASE SaveObserved
    <3>1. target[Poller] \in Signals /\ local[Poller].status # "none" /\ pc[target[Poller]] \in Entered
      BY <2>5 DEF SaveObserved, Recorded, Working
    <3>2. QED
      BY <1>8, <2>5, <3>1 DEF SaveObserved
  <2>6. CASE ConcludeDb
    BY <1>0, <2>6 DEF ConcludeDb, Forget, Recorded, Working
  <2>7. CASE Mirror
    <3>1. target[Poller] \in Signals /\ local[Poller].status # "none"
      BY <1>0, <2>7 DEF Mirror, Recorded, Working
    <3>2. QED
      BY <1>0, <2>7, <3>1 DEF Mirror, Forget, Recorded, Working
  <2>8. QED
    BY <1>9, <2>1, <2>2, <2>3, <2>4, <2>5, <2>6, <2>7 DEF Polling
<1>10. CASE UNCHANGED vars
  BY <1>0, <1>10 DEF vars, state, tasks, Recorded
<1>11. QED
  BY <1>3, <1>4, <1>5, <1>6, <1>7, <1>9, <1>10 DEF Next
-----------------------------------------------------------------------------
\* Nothing waits at the broker.
NoneWaits == \A s \in Signals, o \in Slices : broker[s][o] # "pending"

\* What a record must say for close_order() to close what is live.
Knows(truth, pos) ==
    \A o \in Slices : truth[o] = "live" => /\ pos.orders[o].state # "none"
                                           /\ pos.orders[o].kind = "market"

\* A step after which nothing is live that was not.
Calm == \A s \in Signals, o \in Slices : broker'[s][o] = "live" => broker[s][o] = "live"

\* A handler's batch: on one account every slice of its signal becomes live and
\* is in the record it builds as a market order, or nothing happens.
LEMMA SubmitPlaces ==
    ASSUME TypeOK, NoneWaits, MarketEntries, NEW s \in Signals, NEW a \in Accounts, Submit(s, a)
    PROVE  /\ NoneWaits'
           /\ \A x \in Signals \ {s} : broker'[x] = broker[x]
           /\ \A t \in Tasks \ {s} : local'[t] = local[t]
           /\ Knows(broker[s], local[s]) => Knows(broker'[s], local'[s])
<1> USE DEF TypeOK, Tasks, Messages
<1> DEFINE Placing == /\ NoneWaits'
                      /\ \A x \in Signals \ {s} : broker'[x] = broker[x]
                      /\ \A t \in Tasks \ {s} : local'[t] = local[t]
                      /\ Knows(broker[s], local[s]) => Knows(broker'[s], local'[s])
<1>1. ASSUME UNCHANGED <<broker, local>> PROVE Placing
  BY <1>1 DEF NoneWaits
<1>2. ASSUME NEW k \in Kinds, Submit(s, a)!2!2!(k) PROVE Placing
  <2>1. \A o \in Slices : k[o[2]] = "market"
    BY DEF Kinds, MarketEntries, Slices
  <2>2. local'[s].orders = [o \in Slices |-> IF Account(o) = a THEN Placed(k[o[2]])
                                             ELSE local[s].orders[o]]
    BY <1>2 DEF Position
  <2>3. broker'[s] = [o \in Slices |-> IF Account(o) # a THEN broker[s][o]
                                       ELSE IF k[o[2]] = "market" THEN "live" ELSE "pending"]
    BY <1>2
  <2>4. /\ \A x \in Signals \ {s} : broker'[x] = broker[x]
        /\ \A t \in Tasks \ {s} : local'[t] = local[t]
    BY <1>2
  <2>5. NoneWaits'
    BY <2>1, <2>3, <2>4 DEF NoneWaits
  <2>6. Knows(broker[s], local[s]) => Knows(broker'[s], local'[s])
    BY <2>1, <2>2, <2>3 DEF Knows, Placed
  <2>7. QED
    BY <2>4, <2>5, <2>6
<1> HIDE DEF Placing
<1>3. Placing
  BY <1>1, <1>2 DEF Submit
<1>4. QED
  BY <1>3 DEF Placing

\* No other step opens a position.
LEMMA OthersAreCalm ==
    ASSUME TypeOK, NoneWaits, [Next]_vars,
           \A s \in Signals, a \in Accounts : ~Submit(s, a)
    PROVE  NoneWaits' /\ Calm
<1> USE DEF TypeOK
<1>1. ASSUME UNCHANGED broker PROVE NoneWaits' /\ Calm
  BY <1>1 DEF NoneWaits, Calm
<1>2. ASSUME NEW s \in Signals, NEW o \in Slices, Fill(s, o) \/ Drop(s, o) \/ Leave(s, o)
      PROVE  NoneWaits' /\ Calm
  <2>1. SliceMoves(s, o, "live", "closed")
    BY <1>2 DEF Fill, Drop, Leave, SliceMoves, NoneWaits
  <2>2. broker' = [broker EXCEPT ![s][o] = "closed"]
    BY <2>1 DEF SliceMoves
  <2>3. QED
    BY <2>2 DEF NoneWaits, Calm
<1>3. ASSUME NEW t \in Tasks, NEW o \in Slices, CloseSlice(t, o) PROVE NoneWaits' /\ Calm
  <2>1. target[t] \in Signals
    BY <1>3 DEF CloseSlice, Working
  <2>2. \A kind, b : /\ Flattened(kind, b) = "live" => b = "live"
                     /\ Flattened(kind, b) = "pending" => b = "pending"
    BY DEF Flattened
  <2>3. CASE broker' = [broker EXCEPT ![target[t]][o] =
                            Flattened(local[t].orders[o].kind, broker[target[t]][o])]
    BY <2>1, <2>2, <2>3 DEF NoneWaits, Calm
  <2>4. QED
    BY <1>1, <1>3, <2>3 DEF CloseSlice
<1>4. CASE UNCHANGED broker
  BY <1>1, <1>4
<1>5. QED
  BY <1>2, <1>3, <1>4
     DEF Next, Environment, Age, Restart, Closing, CloseRecord, CloseDb, SweepNext, Sweeping,
         SweeperWakes, SweepDone, BeginSweep, Handler, Arrive, Guard, EnterGuard, Query, Decide,
         Supersede, Superseded, Track, Insert, Reply, ReplyClose, ReplyModify, ModifyRecord,
         Polling, PollerWakes, FetchPositions, FetchOrders, Observe, RecordSlice, SaveObserved,
         Mirror, ConcludeDb, PollDone, world, vars

\* So nothing ever waits.
LEMMA StepNoneWaits ==
    ASSUME TypeOK, NoneWaits, MarketEntries, [Next]_vars
    PROVE  NoneWaits'
BY OthersAreCalm, SubmitPlaces

\* Where no position opens, what a record must say grows no larger.
LEMMA KnowsLater ==
    ASSUME Calm, NEW s \in Signals, NEW pos, Knows(broker[s], pos)
    PROVE  Knows(broker'[s], pos)
BY DEF Calm, Knows

\* The reconciler never drops a slice from a record, nor makes a market order of
\* it anything else.
LEMMA ReconciledKnows ==
    ASSUME TypeOK, NEW s \in Signals, Knows(broker[s], store[s])
    PROVE  Knows(broker[s], Reconciled(s))
<1>1. ASSUME NEW o \in Slices, NEW ord \in Order, ord.state # "none", ord.kind = "market"
      PROVE  Observed(s, o, ord).state # "none" /\ Observed(s, o, ord).kind = "market"
  <2>1. Missed(ord).kind = "market" /\ Missed(ord).state # "none"
    <3>1. CASE ord.state \in Ended \/ ~ord.observed
      BY <1>1, <3>1 DEF Missed
    <3>2. CASE ~(ord.state \in Ended \/ ~ord.observed)
      <4>1. PICK st \in {ord.state, "closed", "cancelled"} :
               Missed(ord) = [ord EXCEPT !.miss = ord.miss + 1, !.state = st]
        BY <3>2 DEF Missed
      <4>2. QED
        BY <1>1, <4>1 DEF Order
    <3>3. QED
      BY <3>1, <3>2
  <2>2. QED
    BY <1>1, <2>1 DEF Observed
<1>2. \A o \in Slices : store[s].orders[o] \in Order
  BY DEF TypeOK, Position
<1>3. QED
  BY <1>1, <1>2, ReconciledStatus DEF Knows

\* The status of a record is no part of what it must say.
LEMMA StatusKnows ==
    ASSUME NEW pos \in Position, NEW st, NEW truth, Knows(truth, pos)
    PROVE  Knows(truth, [pos EXCEPT !.status = st])
BY StatusGiven DEF Knows

\* A record of which every slice has ended holds none that is live.
LEMMA AllEndedIsFlat ==
    ASSUME NEW truth, NEW pos, Sound(truth, pos), Knows(truth, pos), AllEnded(pos)
    PROVE  \A o \in Slices : truth[o] # "live"
BY DEF Sound, SoundOrder, Knows, AllEnded, Submitted, Ended

\* Whatever a signal has at the broker is in each of its records, as a market order.
Known ==
    /\ \A s \in Signals : store[s].status # "none" => Knows(broker[s], store[s])
    /\ \A s \in Signals : db[s].status # "none" => Knows(broker[s], db[s])
    /\ \A t \in Tasks : pc[t] \in Working => Knows(broker[target[t]], local[t])
    /\ \A s \in Signals : pc[s] \in {"place", "insert"} => Knows(broker[s], local[s])

\* Every step keeps Known.
LEMMA StepKnown ==
    ASSUME TypeOK, PlacedOnce, Recorded, NoneWaits, MarketEntries, Known, [Next]_vars
    PROVE  Known'
<1> USE TasksDistinct DEF TypeOK, Tasks, Messages
<1>1. ASSUME NEW s \in Signals, NEW a \in Accounts, Submit(s, a) PROVE Known'
  <2>1. /\ pc[s] = "place" /\ UNCHANGED <<store, db, target, pc>>
        /\ \A x \in Signals \ {s} : broker'[x] = broker[x]
        /\ \A t \in Tasks \ {s} : local'[t] = local[t]
    BY <1>1, SubmitPlaces DEF Submit, state
  <2>2. Knows(broker'[s], local'[s])
    BY <1>1, <2>1, SubmitPlaces DEF Known
  <2>3. store[s].status = "none" /\ db[s].status = "none"
    BY <2>1 DEF Recorded, PlacedOnce, Entered
  <2>4. \A t \in Tasks : pc[t] \in Working => t # s /\ target[t] # s
    BY <2>1 DEF Recorded, Entered, Working
  <2>5. QED
    BY <2>1, <2>2, <2>3, <2>4 DEF Known
<1>2. SUFFICES ASSUME Calm, \A s \in Signals, a \in Accounts : ~Submit(s, a) PROVE Known'
  BY <1>1, OthersAreCalm
<1>3. \A s \in Signals : \A pos : Knows(broker[s], pos) => Knows(broker'[s], pos)
  BY <1>2, KnowsLater
<1>4. ASSUME UNCHANGED <<store, db, local, target>>,
             \A t \in Tasks : pc'[t] \in Working => pc[t] \in Working,
             \A s \in Signals : pc'[s] \in {"place", "insert"} => pc[s] \in {"place", "insert"}
      PROVE  Known'
  BY <1>3, <1>4 DEF Known
<1>5. ASSUME NEW s \in Signals,
             \A x \in Signals : DbClosed(s)[x].status # "none" => Knows(broker[x], db[x])
      PROVE  \A x \in Signals : DbClosed(s)[x].status # "none" => Knows(broker[x], DbClosed(s)[x])
  <2>1. [db EXCEPT ![s].status = "closed"] = [db EXCEPT ![s] = [db[s] EXCEPT !.status = "closed"]]
    OBVIOUS
  <2>2. [db[s] EXCEPT !.status = "closed"].orders = db[s].orders
    BY StatusGiven
  <2>3. \A x \in Signals : DbClosed(s)[x].orders = db[x].orders
    BY <2>1, <2>2 DEF DbClosed
  <2>4. QED
    BY <1>5, <2>3 DEF Knows
<1>6. ASSUME NEW s \in Signals, NEW x \in Signals, DbClosed(s)[x].status # "none"
      PROVE  Knows(broker[x], DbClosed(s)[x])
  <2>1. \A y \in Signals : DbClosed(s)[y].status # "none" => db[y].status # "none"
    BY DEF DbClosed
  <2>2. QED
    BY <1>5, <1>6, <2>1 DEF Known
<1>7. ASSUME NEW t \in Tasks, NEW s \in Signals, NEW back, BeginClose(t, s, back),
             store[s].status # "none", UNCHANGED <<store, db>>
      PROVE  Known'
  BY <1>3, <1>7 DEF BeginClose, Known, Working
<1>8. CASE Environment
  <2>1. CASE Restart
    <3> PICK loaded \in Loads : Restart!2!(loaded)
      BY <2>1 DEF Restart
    <3>1. \A s \in Signals : store'[s].status # "none" => store'[s] = db[s] /\ db[s].status # "none"
      BY DEF Loads, Hydrated, NoPosition
    <3>2. /\ \A t \in Tasks : pc'[t] \notin Working /\ pc'[t] \notin {"place", "insert"}
          /\ UNCHANGED <<broker, db>>
      BY <2>1 DEF Restart, Working, world
    <3>3. QED
      BY <3>1, <3>2 DEF Known
  <2>2. CASE ~Restart
    BY <1>4, <1>8, <2>2 DEF Environment, Fill, Drop, Leave, SliceMoves, Age, state, tasks
  <2>3. QED
    BY <2>1, <2>2
<1>9. ASSUME NEW t \in Tasks, Closing(t) PROVE Known'
  <2>1. ASSUME NEW o \in Slices, CloseSlice(t, o) PROVE Known'
    BY <1>4, <2>1 DEF CloseSlice, state
  <2>2. CASE CloseRecord(t)
    <3>1. target[t] \in Signals /\ Knows(broker[target[t]], local[t])
      BY <2>2 DEF CloseRecord, Known, Working
    <3>2. Knows(broker'[target[t]], [local[t] EXCEPT !.status = "closed"])
      BY <1>3, <3>1, StatusKnows
    <3>3. QED
      BY <1>3, <2>2, <3>1, <3>2 DEF CloseRecord, Known, Working
  <2>3. CASE CloseDb(t)
    <3>1. target[t] \in Signals /\ \A x \in Signals : db'[x].status # "none" => Knows(broker[x], db'[x])
      BY <1>6, <2>3 DEF CloseDb, Working, Write, Known
    <3>2. /\ UNCHANGED <<broker, store>>
          /\ \A u \in Tasks \ {t} : pc'[u] = pc[u] /\ target'[u] = target[u] /\ local'[u] = local[u]
          /\ pc'[t] \notin Working /\ pc'[t] \notin {"place", "insert"}
      BY <2>3 DEF CloseDb, Forget, Working, world
    <3>3. QED
      BY <3>1, <3>2 DEF Known
  <2>4. CASE SweepNext(t)
    <3> PICK s \in queue[t] : SweepNext(t)!2!(s)
      BY <2>4 DEF SweepNext
    <3>1. CASE store[s].status = "none"
      BY <1>4, <2>4, <3>1 DEF SweepNext, world
    <3>2. CASE store[s].status # "none"
      BY <1>7, <2>4, <3>2 DEF SweepNext, world
    <3>3. QED
      BY <3>1, <3>2
  <2>5. QED
    BY <1>9, <2>1, <2>2, <2>3, <2>4 DEF Closing
<1>10. CASE Sweeping
  BY <1>4, <1>10 DEF Sweeping, SweeperWakes, SweepDone, BeginSweep, state, Working
<1>11. ASSUME NEW s \in Signals, EnterGuard(s), pc[s] \in {"new", "sweep"} PROVE Known'
  <2>1. /\ UNCHANGED <<broker, store, db, local, target>>
        /\ \A t \in Tasks \ {s} : pc'[t] = pc[t]
        /\ pc'[s] \in {"place", "classify"}
    BY <1>11 DEF EnterGuard, world, state
  <2>2. \A o \in Slices : broker[s][o] = "none"
    BY <1>11 DEF PlacedOnce
  <2>3. Knows(broker[s], local[s])
    BY <2>2 DEF Knows
  <2>4. QED
    BY <2>1, <2>3 DEF Known, Working
<1>12. ASSUME NEW s \in Signals, Handler(s) PROVE Known'
  <2>1. CASE Arrive(s) \/ Guard(s)
    <3>1. ASSUME BeginSweep(s) PROVE Known'
      BY <1>4, <3>1 DEF BeginSweep, state, Working
    <3>2. QED
      BY <1>11, <2>1, <3>1 DEF Arrive, Guard
  <2>2. CASE Decide(s)
    BY <1>4, <2>2 DEF Decide, state, Working
  <2>3. CASE Superseded(s)
    <3>1. Knows(broker[s], local[s])
      BY <2>3 DEF Superseded, PlacedOnce, Knows
    <3>2. QED
      BY <2>3, <3>1 DEF Superseded, world, state, Known, Working
  <2>4. CASE Supersede(s)
    <3> PICK x \in queue[s] : Supersede(s)!2!(x)
      BY <2>4 DEF Supersede
    <3>1. CASE store[x].status = "none"
      BY <1>4, <2>4, <3>1 DEF Supersede, state
    <3>2. CASE store[x].status # "none"
      BY <1>7, <2>4, <3>2 DEF Supersede, world, state
    <3>3. QED
      BY <3>1, <3>2
  <2>5. ASSUME NEW a \in Accounts, Query(s, a) PROVE Known'
    BY <1>4, <2>5 DEF Query, state
  <2>6. CASE Track(s)
    <3>1. CASE Submitted(local[s]) = {}
      BY <1>4, <2>6, <3>1 DEF Track, Working
    <3>2. CASE Submitted(local[s]) # {}
      <4> DEFINE pos == [local[s] EXCEPT !.status = "submitted"]
      <4>1. /\ pc[s] = "place" /\ pc' = [pc EXCEPT ![s] = "insert"]
            /\ local' = [local EXCEPT ![s] = pos] /\ store' = [store EXCEPT ![s] = pos]
            /\ UNCHANGED <<broker, db, target>>
        BY <2>6, <3>2 DEF Track, world
      <4>2. Knows(broker[s], pos)
        BY <4>1, StatusKnows DEF Known
      <4> HIDE DEF pos
      <4>3. QED
        BY <4>1, <4>2 DEF Known, Working
    <3>3. QED
      BY <3>1, <3>2
  <2>7. CASE Insert(s)
    <3>1. pc[s] = "insert" /\ Knows(broker[s], local[s])
      BY <2>7 DEF Insert, Known
    <3>2. /\ db' = db \/ db' = [db EXCEPT ![s] = local[s]]
          /\ UNCHANGED <<broker, store>> /\ pc'[s] = "done"
          /\ \A u \in Tasks \ {s} : pc'[u] = pc[u] /\ target'[u] = target[u] /\ local'[u] = local[u]
      BY <2>7 DEF Insert, Forget, world, Write
    <3>3. QED
      BY <3>1, <3>2 DEF Known, Working
  <2>8. QED
    BY <1>2, <1>12, <2>1, <2>2, <2>3, <2>4, <2>5, <2>6, <2>7 DEF Handler
<1>13. ASSUME NEW k \in Repliers, Reply(k) PROVE Known'
  <2>1. ASSUME NEW s \in Signals, ReplyClose(k, s) PROVE Known'
    BY <1>7, <2>1 DEF ReplyClose, ReplyTo, world, state
  <2>2. ASSUME NEW s \in Signals, ReplyModify(k, s) PROVE Known'
    BY <2>2 DEF ReplyModify, ReplyTo, Known, Working, world, state
  <2>3. CASE ModifyRecord(k)
    <3>1. /\ pc[k] = "modify" /\ target[k] \in Signals
          /\ store' = [store EXCEPT ![target[k]] = local[k]]
          /\ \A t \in Tasks \ {k} : pc'[t] = pc[t] /\ target'[t] = target[t] /\ local'[t] = local[t]
          /\ pc'[k] \in {"done", "reply"}
          /\ UNCHANGED <<broker, db>>
      BY <2>3 DEF ModifyRecord, Forget, Working, world
    <3>2. Knows(broker[target[k]], local[k])
      BY <3>1 DEF Known, Working
    <3>3. QED
      BY <3>1, <3>2 DEF Known, Working
  <2>4. QED
    BY <1>13, <2>1, <2>2, <2>3 DEF Reply
<1>14. ASSUME NEW s \in Signals, NEW pos \in Position, Settle(s, pos), Knows(broker[s], pos),
              UNCHANGED <<broker, db>>
       PROVE  Known'
  <2>1. Knows(broker[s], [pos EXCEPT !.status = "closed"])
    BY <1>14, StatusKnows
  <2>2. \A x \in Signals : store'[x].status # "none" => Knows(broker[x], store'[x])
    <3>1. \/ store' = [store EXCEPT ![s] = [pos EXCEPT !.status = "closed"]]
          \/ store' = [store EXCEPT ![s] = pos]
      BY <1>14 DEF Settle
    <3>2. QED
      BY <1>14, <2>1, <3>1 DEF Known
  <2>3. CASE Carry("conclude", s, pos) \/ Carry("mirror", s, pos)
    BY <1>14, <2>2, <2>3 DEF Carry, Known
  <2>4. CASE pc' = [pc EXCEPT ![Poller] = "fetch"] /\ Forget(Poller)
    BY <1>14, <2>2, <2>4 DEF Forget, Known, Working
  <2>5. QED
    BY <1>14, <2>3, <2>4 DEF Settle
<1>15. ASSUME NEW o \in Slices, RecordSlice(o) PROVE Known'
  <2> DEFINE s == target[Poller]
             ord == local[Poller].orders[o]
             row == db[s].orders[o]
             new == [row EXCEPT !.state = ord.state,
                                !.kind = IF ord.state = "filled" THEN "market" ELSE @]
  <2>1. /\ s \in Signals /\ Knows(broker[s], local[Poller]) /\ ord \in Order /\ row \in Order
        /\ UNCHANGED <<broker, store, pc, target, local>>
    BY <1>15 DEF RecordSlice, Known, Working, Position, world
  <2>2. new.state = ord.state /\ new.kind = IF ord.state = "filled" THEN "market" ELSE row.kind
    BY <2>1 DEF Order
  <2>3. \/ db' = db
        \/ db' = [db EXCEPT ![s].orders[o] = new]
    BY <1>15 DEF RecordSlice, Write
  <2> HIDE DEF new
  <2>4. CASE db' = [db EXCEPT ![s].orders[o] = new]
    <3>1. db'[s] = [db[s] EXCEPT !.orders[o] = new] /\ \A x \in Signals \ {s} : db'[x] = db[x]
      BY <2>1, <2>4
    <3>2. db'[s].orders = [db[s].orders EXCEPT ![o] = new] /\ db'[s].status = db[s].status
      BY <2>1, <3>1 DEF Position
    <3>3. db[s].orders \in [Slices -> Order]
      BY <2>1 DEF Position
    <3>4. db[s].status # "none" => Knows(broker[s], db'[s])
      <4>1. SUFFICES ASSUME Knows(broker[s], db[s]) PROVE Knows(broker[s], db'[s])
        BY <2>1 DEF Known
      <4>2. \A p \in Slices : db'[s].orders[p] = IF p = o THEN new ELSE db[s].orders[p]
        BY <3>2, <3>3
      <4>3. broker[s][o] = "live" => new.state # "none" /\ new.kind = "market"
        BY <2>1, <2>2, <4>1 DEF Knows
      <4>4. QED
        BY <4>1, <4>2, <4>3 DEF Knows
    <3>5. QED
      BY <2>1, <3>1, <3>2, <3>4 DEF Known
  <2>5. CASE db' = db
    BY <2>1, <2>5 DEF Known
  <2>6. QED
    BY <2>3, <2>4, <2>5
<1>16. CASE Polling
  <2>1. CASE PollerWakes \/ PollDone
    BY <1>4, <2>1 DEF PollerWakes, PollDone, state, Working
  <2>2. ASSUME NEW a \in Accounts, FetchPositions(a) \/ FetchOrders(a) PROVE Known'
    BY <1>4, <2>2 DEF FetchPositions, FetchOrders, state, world
  <2>3. ASSUME NEW s \in Signals, Observe(s) PROVE Known'
    <3>1. Reconciled(s) \in Position /\ Knows(broker[s], Reconciled(s))
      BY <2>3, ReconciledType, ReconciledKnows DEF Observe, Known
    <3>2. CASE ToRecord(s) = {}
      BY <1>14, <2>3, <3>1, <3>2 DEF Observe, world
    <3>3. CASE ToRecord(s) # {}
      BY <2>3, <3>1, <3>3 DEF Observe, Known, Working, world
    <3>4. QED
      BY <3>2, <3>3
  <2>4. CASE SaveObserved
    <3>1. target[Poller] \in Signals /\ Knows(broker[target[Poller]], local[Poller])
      BY <2>4 DEF SaveObserved, Known, Working
    <3>2. QED
      BY <1>14, <2>4, <3>1 DEF SaveObserved, world
  <2>5. CASE ConcludeDb
    <3>1. target[Poller] \in Signals
          /\ \A x \in Signals : db'[x].status # "none" => Knows(broker[x], db'[x])
      BY <1>6, <2>5 DEF ConcludeDb, Working, Write, Known
    <3>2. QED
      BY <2>5, <3>1 DEF ConcludeDb, Forget, Known, world, Working
  <2>6. CASE Mirror
    <3>1. target[Poller] \in Signals /\ Knows(broker[target[Poller]], local[Poller])
      BY <2>6 DEF Mirror, Known, Working
    <3>2. \A x \in Signals : store'[x].status # "none" => Knows(broker[x], store'[x])
      <4>1. store' = store \/ store' = [store EXCEPT ![target[Poller]] = local[Poller]]
        BY <2>6 DEF Mirror
      <4>2. QED
        BY <3>1, <4>1 DEF Known
    <3>3. /\ pc' = [pc EXCEPT ![Poller] = "fetch"]
          /\ \A t \in Tasks \ {Poller} : target'[t] = target[t] /\ local'[t] = local[t]
          /\ UNCHANGED <<broker, db>>
      BY <2>6 DEF Mirror, Forget, world
    <3>4. QED
      BY <3>2, <3>3 DEF Known, Working
  <2>7. QED
    BY <1>15, <1>16, <2>1, <2>2, <2>3, <2>4, <2>5, <2>6 DEF Polling
<1>17. CASE UNCHANGED vars
  BY <1>4, <1>17 DEF vars, state, tasks
<1>18. QED
  BY <1>8, <1>9, <1>10, <1>12, <1>13, <1>16, <1>17 DEF Next
-----------------------------------------------------------------------------
\* Requests to close a position succeed, and a restart finds the rows.
ClosesSucceed == "flaky" \notin Hazards
Reloads == "crash" \in Hazards => "database" \notin Hazards

\* close_order() has yet to visit what is still live of its signal.
Visits ==
    \A t \in Tasks : pc[t] = "close" =>
        \A o \in Slices : broker[target[t]][o] = "live" => o \in todo[t]

\* Every step keeps Visits: the slices to visit are taken from a record that
\* knows them, and a visit closes.
LEMMA StepVisits ==
    ASSUME TypeOK, Recorded, NoneWaits, MarketEntries, ClosesSucceed, Known, Visits, [Next]_vars
    PROVE  Visits'
<1> USE TasksDistinct DEF TypeOK, Tasks, Messages
<1>1. ASSUME NEW s \in Signals, NEW a \in Accounts, Submit(s, a) PROVE Visits'
  <2>1. /\ pc[s] = "place" /\ UNCHANGED <<target, pc>>
        /\ \A x \in Signals \ {s} : broker'[x] = broker[x]
        /\ \A t \in Tasks \ {s} : todo'[t] = todo[t]
    BY <1>1, SubmitPlaces DEF Submit, state
  <2>2. \A t \in Tasks : pc[t] = "close" => t # s /\ target[t] # s
    BY <2>1 DEF Recorded, Entered, Working
  <2>3. \A t \in Tasks : pc[t] = "close" => target[t] \in Signals
    BY DEF Working
  <2>4. QED
    BY <2>1, <2>2, <2>3 DEF Visits
<1>2. SUFFICES ASSUME Calm, \A s \in Signals, a \in Accounts : ~Submit(s, a) PROVE Visits'
  BY <1>1, OthersAreCalm
<1>3. ASSUME \A t \in Tasks : pc'[t] = "close" =>
                 pc[t] = "close" /\ target'[t] = target[t] /\ todo[t] \subseteq todo'[t]
      PROVE  Visits'
  <2>1. \A t \in Tasks : pc[t] = "close" => target[t] \in Signals
    BY DEF Working
  <2>2. QED
    BY <1>2, <1>3, <2>1 DEF Visits, Calm
<1>4. ASSUME NEW t \in Tasks, NEW s \in Signals, NEW back, BeginClose(t, s, back),
             store[s].status # "none"
      PROVE  Visits'
  <2>1. /\ pc'[t] = "close" /\ target'[t] = s /\ todo'[t] = Submitted(store[s])
        /\ \A u \in Tasks \ {t} : pc'[u] = pc[u] /\ target'[u] = target[u] /\ todo'[u] = todo[u]
    BY <1>4, PositionUpdates DEF BeginClose
  <2>2. Knows(broker[s], store[s])
    BY <1>4 DEF Known
  <2>3. \A o \in Slices : broker'[s][o] = "live" => o \in Submitted(store[s])
    BY <1>2, <2>2 DEF Calm, Knows, Submitted
  <2>4. \A u \in Tasks : pc[u] = "close" => target[u] \in Signals
    BY DEF Working
  <2>5. ASSUME NEW u \in Tasks, u # t, pc[u] = "close", NEW o \in Slices,
               broker'[target[u]][o] = "live"
        PROVE  o \in todo[u]
    BY <1>2, <2>4, <2>5 DEF Visits, Calm
  <2>6. QED
    BY <2>1, <2>3, <2>5 DEF Visits
<1>5. CASE Environment
  <2>1. CASE Restart
    BY <1>3, <2>1 DEF Restart
  <2>2. CASE ~Restart
    BY <1>3, <1>5, <2>2 DEF Environment, Fill, Drop, Leave, SliceMoves, Age, tasks
  <2>3. QED
    BY <2>1, <2>2
<1>6. ASSUME NEW t \in Tasks, Closing(t) PROVE Visits'
  <2>1. ASSUME NEW o \in Slices, CloseSlice(t, o) PROVE Visits'
    <3>1. /\ pc[t] = "close" /\ target[t] \in Signals /\ Knows(broker[target[t]], local[t])
          /\ todo' = [todo EXCEPT ![t] = todo[t] \ {o}] /\ UNCHANGED <<pc, target>>
          /\ broker' = [broker EXCEPT ![target[t]][o] =
                            Flattened(local[t].orders[o].kind, broker[target[t]][o])]
      BY <2>1 DEF CloseSlice, Known, Working, ClosesSucceed
    <3>2. broker'[target[t]][o] # "live"
      BY <3>1 DEF Flattened, Knows
    <3>3. \A u \in Tasks : pc[u] = "close" => target[u] \in Signals
      BY DEF Working
    <3>4. QED
      BY <1>2, <3>1, <3>2, <3>3 DEF Visits, Calm
  <2>2. CASE CloseRecord(t) \/ CloseDb(t)
    BY <1>3, <2>2 DEF CloseRecord, CloseDb, Forget
  <2>3. CASE SweepNext(t)
    <3> PICK s \in queue[t] : SweepNext(t)!2!(s)
      BY <2>3 DEF SweepNext
    <3>1. CASE store[s].status = "none"
      BY <1>3, <2>3, <3>1 DEF SweepNext
    <3>2. CASE store[s].status # "none"
      BY <1>4, <2>3, <3>2 DEF SweepNext
    <3>3. QED
      BY <3>1, <3>2
  <2>4. QED
    BY <1>6, <2>1, <2>2, <2>3 DEF Closing
<1>7. CASE Sweeping
  BY <1>3, <1>7 DEF Sweeping, SweeperWakes, SweepDone, BeginSweep
<1>8. ASSUME NEW s \in Signals, Handler(s) PROVE Visits'
  <2>1. CASE Arrive(s) \/ Guard(s)
    BY <1>3, <2>1 DEF Arrive, Guard, EnterGuard, BeginSweep
  <2>2. CASE Decide(s) \/ Superseded(s)
    BY <1>3, <2>2 DEF Decide, Superseded
  <2>3. CASE Supersede(s)
    <3> PICK x \in queue[s] : Supersede(s)!2!(x)
      BY <2>3 DEF Supersede
    <3>1. CASE store[x].status = "none"
      BY <1>3, <2>3, <3>1 DEF Supersede
    <3>2. CASE store[x].status # "none"
      BY <1>4, <2>3, <3>2 DEF Supersede
    <3>3. QED
      BY <3>1, <3>2
  <2>4. ASSUME NEW a \in Accounts, Query(s, a) PROVE Visits'
    <3>1. pc[s] = "classify" /\ UNCHANGED <<pc, target>> /\ \A t \in Tasks \ {s} : todo'[t] = todo[t]
      BY <2>4 DEF Query
    <3>2. QED
      BY <1>3, <3>1
  <2>5. CASE Track(s) \/ Insert(s)
    BY <1>3, <2>5 DEF Track, Insert, Forget
  <2>6. QED
    BY <1>2, <1>8, <2>1, <2>2, <2>3, <2>4, <2>5 DEF Handler
<1>9. ASSUME NEW k \in Repliers, Reply(k) PROVE Visits'
  <2>1. ASSUME NEW s \in Signals, ReplyClose(k, s) PROVE Visits'
    BY <1>4, <2>1 DEF ReplyClose, ReplyTo
  <2>2. ASSUME NEW s \in Signals, ReplyModify(k, s) PROVE Visits'
    BY <1>3, <2>2 DEF ReplyModify
  <2>3. CASE ModifyRecord(k)
    BY <1>3, <2>3 DEF ModifyRecord, Forget
  <2>4. QED
    BY <1>9, <2>1, <2>2, <2>3 DEF Reply
<1>10. ASSUME \A t \in Tasks \ {Poller} : /\ pc'[t] = pc[t] /\ target'[t] = target[t]
                                          /\ todo'[t] = todo[t],
              pc'[Poller] # "close"
       PROVE  Visits'
  BY <1>3, <1>10
<1>11. CASE Polling
  <2>1. CASE PollerWakes \/ PollDone \/ Mirror \/ ConcludeDb
    BY <1>10, <2>1 DEF PollerWakes, PollDone, Mirror, ConcludeDb, Forget
  <2>2. ASSUME NEW a \in Accounts, FetchPositions(a) \/ FetchOrders(a) PROVE Visits'
    <3>1. /\ pc[Poller] = "fetch" /\ UNCHANGED <<pc, target>>
          /\ \A t \in Tasks \ {Poller} : todo'[t] = todo[t]
      BY <2>2 DEF FetchPositions, FetchOrders
    <3>2. QED
      BY <1>10, <3>1
  <2>3. ASSUME NEW s, NEW pos, Settle(s, pos)
        PROVE  /\ \A t \in Tasks \ {Poller} : pc'[t] = pc[t] /\ target'[t] = target[t]
               /\ pc'[Poller] # "close"
    BY <2>3 DEF Settle, Carry, Forget
  <2>4. ASSUME NEW s \in Signals, Observe(s) PROVE Visits'
    <3>1. \A t \in Tasks \ {Poller} : todo'[t] = todo[t]
      BY <2>4 DEF Observe
    <3>2. CASE ToRecord(s) = {}
      BY <1>10, <2>3, <2>4, <3>1, <3>2 DEF Observe
    <3>3. CASE ToRecord(s) # {}
      BY <1>10, <2>4, <3>1, <3>3 DEF Observe
    <3>4. QED
      BY <3>2, <3>3
  <2>5. ASSUME NEW o \in Slices, RecordSlice(o) PROVE Visits'
    BY <1>10, <2>5 DEF RecordSlice
  <2>6. CASE SaveObserved
    BY <1>10, <2>3, <2>6 DEF SaveObserved
  <2>7. QED
    BY <1>11, <2>1, <2>2, <2>4, <2>5, <2>6 DEF Polling
<1>12. CASE UNCHANGED vars
  BY <1>3, <1>12 DEF vars, tasks
<1>13. QED
  BY <1>5, <1>6, <1>7, <1>8, <1>9, <1>11, <1>12 DEF Next

\* What a crash cuts off between the orders and their row is followed by nobody.
Lost(s) == "crash" \in Hazards /\ pc[s] = "done" /\ db[s].status # "submitted"

\* A position is followed: its signal is open, or its orders are just being
\* placed.
Followed ==
    \A s \in Signals, o \in Slices :
        broker[s][o] = "live" => s \in open \/ pc[s] = "place" \/ Lost(s)

\* Every step keeps Followed: a signal leaves the open set only when nothing of
\* it is live.
LEMMA StepFollowed ==
    ASSUME Patient, MarketEntries, Reloads, IInv, Recorded, NoneWaits, Known, Visits, Followed,
           [Next]_vars
    PROVE  Followed'
<1> TypeOK /\ RecordsSound /\ PlacedOnce /\ AnswersSound
  BY DEF IInv
<1> USE TasksDistinct DEF TypeOK, Tasks, Messages
<1>1. ASSUME NEW s \in Signals, NEW a \in Accounts, Submit(s, a) PROVE Followed'
  <2>1. /\ pc[s] = "place" /\ UNCHANGED <<open, db, pc>>
        /\ \A x \in Signals \ {s} : broker'[x] = broker[x]
    BY <1>1, SubmitPlaces DEF Submit, state
  <2>2. QED
    BY <2>1 DEF Followed, Lost
<1>2. SUFFICES ASSUME Calm, \A s \in Signals, a \in Accounts : ~Submit(s, a) PROVE Followed'
  BY <1>1, OthersAreCalm
<1>3. ASSUME \A s \in open \ open' : \A o \in Slices : broker[s][o] # "live",
             \A s \in Signals : pc[s] \in {"place", "done"} => pc'[s] = pc[s],
             \A s \in Signals : db'[s].status \in {db[s].status, "closed"}
      PROVE  Followed'
  <2>1. ASSUME NEW s \in Signals, NEW o \in Slices, broker'[s][o] = "live"
        PROVE  s \in open' \/ pc'[s] = "place" \/ (pc'[s] = "done" /\ Lost(s))
    <3>1. broker[s][o] = "live"
      BY <1>2, <2>1 DEF Calm
    <3>2. s \in open \/ pc[s] = "place" \/ Lost(s)
      BY <3>1 DEF Followed
    <3>3. QED
      BY <1>3, <3>1, <3>2 DEF Lost
  <2>2. \A s \in Signals : db[s].status # "submitted" => db'[s].status # "submitted"
    BY <1>3
  <2>3. QED
    BY <2>1, <2>2 DEF Followed, Lost
<1>4. ASSUME NEW s \in Signals, Write(DbClosed(s))
      PROVE  \A x \in Signals : db'[x].status \in {db[x].status, "closed"}
  <2>1. [db EXCEPT ![s].status = "closed"] = [db EXCEPT ![s] = [db[s] EXCEPT !.status = "closed"]]
    OBVIOUS
  <2>2. [db[s] EXCEPT !.status = "closed"].status = "closed"
    BY StatusGiven
  <2>3. QED
    BY <1>4, <2>1, <2>2 DEF Write, DbClosed
<1>5. CASE Environment
  <2>1. CASE Restart
    <3>1. /\ Loads = {Hydrated} /\ UNCHANGED <<broker, db>> /\ "crash" \in Hazards
          /\ open' = Hydrated
      BY <2>1 DEF Restart, Loads, Reloads, world
    <3>2. ASSUME NEW s \in Signals, NEW o \in Slices, broker[s][o] = "live", db[s].status # "submitted"
          PROVE  pc'[s] = "done"
      <4>1. pc[s] # "new"
        BY <3>2 DEF PlacedOnce
      <4>2. QED
        BY <2>1, <4>1 DEF Restart
    <3>3. QED
      BY <3>1, <3>2 DEF Followed, Lost, Hydrated
  <2>2. CASE ~Restart
    BY <1>3, <1>5, <2>2 DEF Environment, Fill, Drop, Leave, SliceMoves, Age, state, tasks
  <2>3. QED
    BY <2>1, <2>2
<1>6. ASSUME NEW t \in Tasks, NEW s, NEW back, BeginClose(t, s, back), pc[t] \notin {"place", "done"},
             UNCHANGED <<open, db>>
      PROVE  Followed'
  BY <1>3, <1>6 DEF BeginClose
<1>7. ASSUME NEW t \in Tasks, Closing(t) PROVE Followed'
  <2>1. ASSUME NEW o \in Slices, CloseSlice(t, o) PROVE Followed'
    BY <1>3, <2>1 DEF CloseSlice, state
  <2>2. CASE CloseRecord(t)
    <3>1. /\ pc[t] = "close" /\ todo[t] = {} /\ open' = open \ {target[t]}
          /\ pc' = [pc EXCEPT ![t] = "closedb"] /\ UNCHANGED db
      BY <2>2 DEF CloseRecord
    <3>2. \A o \in Slices : broker[target[t]][o] # "live"
      BY <3>1 DEF Visits
    <3>3. QED
      BY <1>3, <3>1, <3>2
  <2>3. CASE CloseDb(t)
    <3>1. target[t] \in Signals /\ pc[t] = "closedb" /\ UNCHANGED open
      BY <2>3 DEF CloseDb, Working
    <3>2. \A x \in Signals : db'[x].status \in {db[x].status, "closed"}
      BY <1>4, <2>3, <3>1 DEF CloseDb
    <3>3. \A x \in Signals : pc[x] \in {"place", "done"} => pc'[x] = pc[x]
      BY <2>3, <3>1 DEF CloseDb
    <3>4. QED
      BY <1>3, <3>1, <3>2, <3>3
  <2>4. CASE SweepNext(t)
    <3> PICK s \in queue[t] : SweepNext(t)!2!(s)
      BY <2>4 DEF SweepNext
    <3>1. CASE store[s].status = "none"
      <4>1. s \notin open
        BY <3>1 DEF Recorded
      <4>2. QED
        BY <1>3, <2>4, <3>1, <4>1 DEF SweepNext
    <3>2. CASE store[s].status # "none"
      BY <1>6, <2>4, <3>2 DEF SweepNext
    <3>3. QED
      BY <3>1, <3>2
  <2>5. QED
    BY <1>7, <2>1, <2>2, <2>3, <2>4 DEF Closing
<1>8. CASE Sweeping
  BY <1>3, <1>8 DEF Sweeping, SweeperWakes, SweepDone, BeginSweep, state
<1>9. ASSUME NEW s \in Signals, Handler(s) PROVE Followed'
  <2>1. CASE Arrive(s) \/ Guard(s)
    BY <1>3, <2>1 DEF Arrive, Guard, EnterGuard, BeginSweep, state
  <2>2. CASE Decide(s) \/ Superseded(s)
    BY <1>3, <2>2 DEF Decide, Superseded, state
  <2>3. CASE Supersede(s)
    <3> PICK x \in queue[s] : Supersede(s)!2!(x)
      BY <2>3 DEF Supersede
    <3>1. CASE store[x].status = "none"
      BY <1>3, <2>3, <3>1 DEF Supersede, state
    <3>2. CASE store[x].status # "none"
      BY <1>6, <2>3, <3>2 DEF Supersede, state
    <3>3. QED
      BY <3>1, <3>2
  <2>4. ASSUME NEW a \in Accounts, Query(s, a) PROVE Followed'
    BY <1>3, <2>4 DEF Query, state
  <2>5. CASE Track(s)
    <3>1. CASE Submitted(local[s]) = {}
      <4>1. Knows(broker[s], local[s])
        BY <2>5 DEF Track, Known
      <4>2. \A o \in Slices : broker[s][o] # "live"
        BY <3>1, <4>1 DEF Knows, Submitted
      <4>3. UNCHANGED <<open, db>> /\ \A x \in Signals \ {s} : pc'[x] = pc[x]
        BY <2>5, <3>1 DEF Track
      <4>4. QED
        BY <1>2, <4>2, <4>3 DEF Followed, Lost, Calm
    <3>2. CASE Submitted(local[s]) # {}
      <4>1. open' = open \cup {s} /\ UNCHANGED db /\ \A x \in Signals \ {s} : pc'[x] = pc[x]
        BY <2>5, <3>2 DEF Track
      <4>2. QED
        BY <1>2, <4>1 DEF Followed, Lost, Calm
    <3>3. QED
      BY <3>1, <3>2
  <2>6. CASE Insert(s)
    <3>1. /\ pc[s] = "insert" /\ UNCHANGED open
          /\ \A x \in Signals \ {s} : pc'[x] = pc[x] /\ db'[x] = db[x]
      BY <2>6 DEF Insert, Write
    <3>2. \A o \in Slices : broker[s][o] = "live" => s \in open
      BY <3>1 DEF Followed, Lost
    <3>3. QED
      BY <1>2, <3>1, <3>2 DEF Followed, Lost, Calm
  <2>7. QED
    BY <1>2, <1>9, <2>1, <2>2, <2>3, <2>4, <2>5, <2>6 DEF Handler
<1>10. ASSUME NEW k \in Repliers, Reply(k) PROVE Followed'
  <2>1. k \notin Signals /\ k \in Tasks
    OBVIOUS
  <2>2. ASSUME NEW s \in Signals, ReplyClose(k, s) PROVE Followed'
    BY <1>6, <2>1, <2>2 DEF ReplyClose, ReplyTo, state
  <2>3. ASSUME NEW s \in Signals, ReplyModify(k, s) PROVE Followed'
    BY <1>3, <2>1, <2>3 DEF ReplyModify, state
  <2>4. CASE ModifyRecord(k)
    BY <1>3, <2>1, <2>4 DEF ModifyRecord
  <2>5. QED
    BY <1>10, <2>2, <2>3, <2>4 DEF Reply
<1>11. ASSUME NEW s \in Signals, NEW pos \in Position, Settle(s, pos), Sound(broker[s], pos),
              Knows(broker[s], pos), UNCHANGED db
       PROVE  Followed'
  <2>1. \A x \in Signals : pc'[x] = pc[x]
    BY <1>11 DEF Settle, Carry
  <2>2. open' = open \/ (open' = open \ {s} /\ AllEnded(pos))
    BY <1>11 DEF Settle
  <2>3. AllEnded(pos) => \A o \in Slices : broker[s][o] # "live"
    BY <1>11, AllEndedIsFlat
  <2>4. QED
    BY <1>3, <1>11, <2>1, <2>2, <2>3
<1>12. CASE Polling
  <2>1. CASE PollerWakes \/ PollDone \/ Mirror
    BY <1>3, <2>1 DEF PollerWakes, PollDone, Mirror, state
  <2>2. ASSUME NEW a \in Accounts, FetchPositions(a) \/ FetchOrders(a) PROVE Followed'
    BY <1>3, <2>2 DEF FetchPositions, FetchOrders, state
  <2>3. ASSUME NEW s \in Signals, Observe(s) PROVE Followed'
    <3>1. /\ Reconciled(s) \in Position /\ Sound(broker[s], Reconciled(s))
          /\ Knows(broker[s], Reconciled(s))
      BY <2>3, ReconciledType, ReconciledSound, ReconciledKnows DEF Observe, Known, Patient
    <3>2. CASE ToRecord(s) = {}
      BY <1>11, <2>3, <3>1, <3>2 DEF Observe
    <3>3. CASE ToRecord(s) # {}
      BY <1>3, <2>3, <3>3 DEF Observe
    <3>4. QED
      BY <3>2, <3>3
  <2>4. ASSUME NEW o \in Slices, RecordSlice(o) PROVE Followed'
    <3>1. \A s \in Signals : db'[s].status = db[s].status
      BY <2>4, RecordedRow
    <3>2. QED
      BY <1>3, <2>4, <3>1 DEF RecordSlice
  <2>5. CASE SaveObserved
    <3>1. /\ target[Poller] \in Signals /\ Sound(broker[target[Poller]], local[Poller])
          /\ Knows(broker[target[Poller]], local[Poller])
      BY <2>5 DEF SaveObserved, RecordsSound, Known, Working
    <3>2. QED
      BY <1>11, <2>5, <3>1 DEF SaveObserved
  <2>6. CASE ConcludeDb
    <3>1. target[Poller] \in Signals /\ UNCHANGED open /\ \A x \in Signals : pc'[x] = pc[x]
      BY <2>6 DEF ConcludeDb, Working
    <3>2. \A x \in Signals : db'[x].status \in {db[x].status, "closed"}
      BY <1>4, <2>6, <3>1 DEF ConcludeDb
    <3>3. QED
      BY <1>3, <3>1, <3>2
  <2>7. QED
    BY <1>12, <2>1, <2>2, <2>3, <2>4, <2>5, <2>6 DEF Polling
<1>13. CASE UNCHANGED vars
  BY <1>3, <1>13 DEF vars, state, tasks
<1>14. QED
  BY <1>5, <1>7, <1>8, <1>9, <1>10, <1>12, <1>13 DEF Next

\* The inductive invariant behind NothingForgotten and RowsAreTracked.
FollowInv == Recorded /\ NoneWaits /\ Known /\ Visits /\ Followed

LEMMA InitFollowed == Init => FollowInv
<1> SUFFICES ASSUME Init PROVE FollowInv
  OBVIOUS
<1> USE DEF Init, Tasks, Messages
<1>1. \A s \in Signals : store[s] = NoPosition /\ db[s] = NoPosition
  OBVIOUS
<1>2. \A t \in Tasks : pc[t] \in {"new", "idle"}
  OBVIOUS
<1>3. NoneWaits /\ Followed
  BY DEF NoneWaits, Followed
<1>4. Recorded /\ Known /\ Visits
  BY <1>1, <1>2 DEF Recorded, Known, Visits, NoPosition, Working
<1>5. QED
  BY <1>3, <1>4 DEF FollowInv

LEMMA FollowHolds ==
    ASSUME Patient, MarketEntries, ClosesSucceed, Reloads
    PROVE  Spec => []FollowInv
<1>1. Init => FollowInv
  BY InitFollowed
<1>2. IInv /\ FollowInv /\ [Next]_vars => FollowInv'
  <2> SUFFICES ASSUME IInv, FollowInv, [Next]_vars PROVE FollowInv'
    OBVIOUS
  <2>1. TypeOK /\ PlacedOnce
    BY DEF IInv
  <2>2. Recorded' /\ NoneWaits' /\ Known'
    BY <2>1, StepRecorded, StepNoneWaits, StepKnown DEF FollowInv
  <2>3. Visits' /\ Followed'
    BY <2>1, StepVisits, StepFollowed DEF FollowInv
  <2>4. QED
    BY <2>2, <2>3 DEF FollowInv
<1>3. QED
  BY <1>1, <1>2, RecordsHold, PTL DEF Spec

\* Without restarts nothing is forgotten: where entries are market orders,
\* requests to close succeed and absences are confirmed, a position in the market
\* belongs to an open signal or to one whose orders are just being placed,
\* however handlers, replies, sweeps and the reconciler interleave and whatever
\* queries and writes of rows fail (live_trader.py, hft:tg:open).
THEOREM NothingIsForgotten ==
    ASSUME Patient, MarketEntries, ClosesSucceed, "crash" \notin Hazards
    PROVE  Spec => []NothingForgotten
<1>1. FollowInv /\ IInv => NothingForgotten
  <2> SUFFICES ASSUME FollowInv, IInv, NEW s \in Signals, NEW o \in Slices,
                      broker[s][o] \in {"pending", "live"}
               PROVE  s \in open \/ pc[s] = "place"
    BY DEF NothingForgotten
  <2>1. broker[s][o] = "live"
    BY DEF FollowInv, NoneWaits
  <2>2. QED
    BY <2>1 DEF FollowInv, Followed, Lost
<1>2. Reloads
  BY DEF Reloads
<1>3. Spec => []FollowInv
  BY <1>2, FollowHolds
<1>4. QED
  BY <1>1, <1>3, RecordsHold, PTL

\* With restarts, what the rows hold open is tracked: after a restart every row
\* that is open and still at the broker is in the open set, and a signal leaves
\* that set only when its positions are closed (hydrate_from_db()).
THEOREM RowsStayTracked ==
    ASSUME Patient, MarketEntries, ClosesSucceed, Reloads
    PROVE  Spec => []RowsAreTracked
<1>1. FollowInv /\ IInv => RowsAreTracked
  <2> SUFFICES ASSUME FollowInv, IInv, NEW s \in Signals, NEW o \in Slices,
                      db[s].status = "submitted", broker[s][o] \in {"pending", "live"}
               PROVE  s \in open
    BY DEF RowsAreTracked
  <2>1. broker[s][o] = "live"
    BY DEF FollowInv, NoneWaits
  <2>2. pc[s] # "place"
    BY DEF IInv, PlacedOnce
  <2>3. QED
    BY <2>1, <2>2 DEF FollowInv, Followed, Lost
<1>2. QED
  BY <1>1, FollowHolds, RecordsHold, PTL
-----------------------------------------------------------------------------
(***************************************************************************)
(* The no-pyramiding guard of handle_new_signal().                         *)
(***************************************************************************)
\* Only a signal that is just being placed comes to life.
LEMMA EnteredIsCalm ==
    ASSUME TypeOK, NoneWaits, MarketEntries, [Next]_vars,
           NEW x \in Signals, pc[x] \in Entered
    PROVE  \A o \in Slices : broker'[x][o] = "live" => broker[x][o] = "live"
<1>1. ASSUME NEW s \in Signals, NEW a \in Accounts, Submit(s, a)
      PROVE  \A o \in Slices : broker'[x][o] = "live" => broker[x][o] = "live"
  <2>1. x # s
    BY <1>1 DEF Submit, Entered
  <2>2. broker'[x] = broker[x]
    BY <1>1, <2>1, SubmitPlaces
  <2>3. QED
    BY <2>2
<1>2. QED
  BY <1>1, OthersAreCalm DEF Calm

\* While the process runs, a record stays.
LEMMA RecordStays ==
    ASSUME TypeOK, Recorded, [Next]_vars, ~Restart, NEW x \in Signals, store[x].status # "none"
    PROVE  store'[x].status # "none"
<1> USE TasksDistinct DEF TypeOK, Tasks, Messages
<1>1. CASE UNCHANGED store
  BY <1>1
<1>2. \A t \in Tasks : pc[t] \in Working => local[t].status # "none" /\ target[t] \in Signals
  BY DEF Recorded
<1>3. \A pos \in Position : [pos EXCEPT !.status = "closed"].status # "none"
  BY StatusGiven
<1>4. ASSUME NEW t \in Tasks, CloseRecord(t) PROVE store'[x].status # "none"
  <2>1. store' = [store EXCEPT ![target[t]] = [local[t] EXCEPT !.status = "closed"]]
    BY <1>4 DEF CloseRecord
  <2>2. QED
    BY <1>3, <2>1
<1>5. ASSUME NEW s \in Signals, Track(s) PROVE store'[x].status # "none"
  <2>1. store' = store \/ store' = [store EXCEPT ![s] = [local[s] EXCEPT !.status = "submitted"]]
    BY <1>5 DEF Track
  <2>2. [local[s] EXCEPT !.status = "submitted"].status # "none"
    BY StatusGiven
  <2>3. QED
    BY <2>1, <2>2
<1>6. ASSUME NEW k \in Repliers, ModifyRecord(k) PROVE store'[x].status # "none"
  BY <1>2, <1>6 DEF ModifyRecord, Working
<1>7. ASSUME NEW s \in Signals, NEW pos \in Position, Settle(s, pos), pos.status # "none"
      PROVE  store'[x].status # "none"
  <2>1. \/ store' = [store EXCEPT ![s] = [pos EXCEPT !.status = "closed"]]
        \/ store' = [store EXCEPT ![s] = pos]
    BY <1>7 DEF Settle
  <2>2. QED
    BY <1>3, <1>7, <2>1
<1>8. ASSUME NEW s \in Signals, Observe(s) PROVE store'[x].status # "none"
  <2>1. Reconciled(s) \in Position /\ Reconciled(s).status # "none"
    BY <1>8, ReconciledType, ReconciledStatus DEF Observe
  <2>2. QED
    BY <1>1, <1>7, <1>8, <2>1 DEF Observe
<1>9. CASE SaveObserved
  BY <1>2, <1>7, <1>9 DEF SaveObserved, Working
<1>10. CASE Mirror
  BY <1>1, <1>2, <1>10 DEF Mirror, Working
<1>11. QED
  BY <1>1, <1>4, <1>5, <1>6, <1>8, <1>9, <1>10
     DEF Next, Environment, Age, Fill, Drop, Leave, SliceMoves, Closing, CloseSlice, CloseDb,
         SweepNext, Sweeping, SweeperWakes, SweepDone, BeginSweep, Handler, Arrive, Guard,
         EnterGuard, Query, Submit, Decide, Supersede, Superseded, Insert, Reply, ReplyClose,
         ReplyModify, Polling, PollerWakes, FetchPositions, FetchOrders, RecordSlice,
         ConcludeDb, PollDone, state, vars

\* A handler that closes what it supersedes.
Superseding(s) == \/ pc[s] = "supersede"
                  \/ pc[s] \in {"close", "closedb"} /\ resume[s] = "supersede"

\* What a handler holds of the broker between its queries and its requests: the
\* signals it asked about have a record, those seen live are in its snapshot as
\* soon as their account has answered, and what it supersedes is not live.
AskedOf(s) ==
    /\ pc[s] = "classify" \/ Superseding(s) =>
          \A x \in queue[s] : pc[x] \in Entered /\ store[x].status # "none"
    /\ pc[s] = "classify" =>
          \A x \in queue[s], o \in Slices :
              broker[x][o] = "live" /\ Account(o) \notin todo[s] => <<x, o>> \in snap[s].live
    /\ Superseding(s) => \A x \in queue[s], o \in Slices : broker[x][o] # "live"
    /\ Superseding(s) /\ pc[s] = "close" =>
          pc[target[s]] \in Entered /\ \A o \in Slices : broker[target[s]][o] # "live"

Asked == \A s \in Signals : AskedOf(s)

\* What is told of a task when a step leaves its part of the state alone.
Untouched(s) == /\ pc'[s] = pc[s] /\ resume'[s] = resume[s] /\ target'[s] = target[s]
                /\ todo'[s] = todo[s] /\ queue'[s] = queue[s] /\ snap'[s] = snap[s]

\* One task moves at a time, or the process restarts.
LEMMA OthersUntouched ==
    ASSUME TypeOK, [Next]_vars, ~Restart, NEW s \in Signals
    PROVE  Untouched(s) \/ Handler(s) \/ Closing(s)
<1> USE TasksDistinct DEF TypeOK, Tasks, Messages, Untouched
<1>1. CASE UNCHANGED tasks
  BY <1>1 DEF tasks
<1>2. ASSUME NEW t \in Tasks, t # s, Closing(t) PROVE Untouched(s)
  <2>1. ASSUME NEW o \in Slices, CloseSlice(t, o) PROVE Untouched(s)
    BY <1>2, <2>1 DEF CloseSlice
  <2>2. CASE CloseRecord(t) \/ CloseDb(t)
    BY <1>2, <2>2 DEF CloseRecord, CloseDb, Forget
  <2>3. CASE SweepNext(t)
    BY <1>2, <2>3 DEF SweepNext, BeginClose
  <2>4. QED
    BY <1>2, <2>1, <2>2, <2>3 DEF Closing
<1>3. CASE Sweeping
  BY <1>3 DEF Sweeping, SweeperWakes, SweepDone, BeginSweep
<1>4. ASSUME NEW x \in Signals, x # s, Handler(x) PROVE Untouched(s)
  <2>1. CASE Arrive(x) \/ Guard(x)
    BY <1>4, <2>1 DEF Arrive, Guard, EnterGuard, BeginSweep
  <2>2. CASE Decide(x) \/ Superseded(x)
    BY <1>4, <2>2 DEF Decide, Superseded
  <2>3. CASE Supersede(x)
    BY <1>4, <2>3 DEF Supersede, BeginClose
  <2>4. ASSUME NEW a \in Accounts, Query(x, a) PROVE Untouched(s)
    BY <1>4, <2>4 DEF Query
  <2>5. ASSUME NEW a \in Accounts, Submit(x, a) PROVE Untouched(s)
    BY <1>4, <2>5 DEF Submit
  <2>6. CASE Track(x) \/ Insert(x)
    BY <1>4, <2>6 DEF Track, Insert, Forget
  <2>7. QED
    BY <1>4, <2>1, <2>2, <2>3, <2>4, <2>5, <2>6 DEF Handler
<1>5. ASSUME NEW k \in Repliers, Reply(k) PROVE Untouched(s)
  BY <1>5 DEF Reply, ReplyClose, ReplyModify, ModifyRecord, BeginClose, Forget
<1>6. CASE Polling
  <2>1. Poller # s
    OBVIOUS
  <2>2. \A x, pos : Settle(x, pos) => pc'[s] = pc[s] /\ target'[s] = target[s]
    BY <2>1 DEF Settle, Carry, Forget
  <2>3. CASE PollerWakes \/ PollDone \/ Mirror \/ ConcludeDb
    BY <2>1, <2>3 DEF PollerWakes, PollDone, Mirror, ConcludeDb, Forget
  <2>4. CASE SaveObserved \/ \E x \in Signals : Observe(x)
    BY <2>1, <2>2, <2>4 DEF SaveObserved, Observe
  <2>5. ASSUME NEW a \in Accounts, FetchPositions(a) \/ FetchOrders(a) PROVE Untouched(s)
    BY <2>1, <2>5 DEF FetchPositions, FetchOrders
  <2>6. ASSUME NEW o \in Slices, RecordSlice(o) PROVE Untouched(s)
    BY <2>1, <2>6 DEF RecordSlice
  <2>7. QED
    BY <1>6, <2>3, <2>4, <2>5, <2>6 DEF Polling
<1>7. QED
  BY <1>1, <1>2, <1>3, <1>4, <1>5, <1>6
     DEF Next, Environment, Age, Fill, Drop, Leave, SliceMoves, vars

\* Every step keeps Asked, where accounts answer.
LEMMA StepAsked ==
    ASSUME TypeOK, Recorded, NoneWaits, MarketEntries, "outage" \notin Hazards, Asked, [Next]_vars
    PROVE  Asked'
<1> SUFFICES ASSUME NEW s \in Signals PROVE AskedOf(s)'
  BY DEF Asked
<1> USE TasksDistinct DEF TypeOK, Tasks, Messages
<1>1. CASE Restart
  <2>1. pc'[s] \in {"new", "done"}
    BY <1>1 DEF Restart
  <2>2. QED
    BY <2>1 DEF AskedOf, Superseding
<1>2. SUFFICES ASSUME ~Restart PROVE AskedOf(s)'
  BY <1>1
<1>3. \A x \in Signals : pc[x] \in Entered =>
          /\ pc'[x] \in Entered
          /\ \A o \in Slices : broker'[x][o] = "live" => broker[x][o] = "live"
  BY EnteredStays, EnteredIsCalm
<1>4. \A x \in Signals : store[x].status # "none" => store'[x].status # "none"
  BY <1>2, RecordStays
<1>5. AskedOf(s)
  BY DEF Asked
<1>6. CASE Untouched(s)
  <2>1. Superseding(s)' <=> Superseding(s)
    BY <1>6 DEF Untouched, Superseding
  <2>2. pc[s] = "close" => target[s] \in Signals
    BY DEF Working
  <2>3. QED
    BY <1>3, <1>4, <1>5, <1>6, <2>1, <2>2 DEF AskedOf, Untouched
<1>7. CASE pc'[s] # "classify" /\ ~Superseding(s)'
  BY <1>7 DEF AskedOf
<1>8. ASSUME Superseding(s), pc'[s] # "classify", queue'[s] = queue[s],
             pc'[s] = "close" => pc[s] = "close" /\ target'[s] = target[s]
      PROVE  AskedOf(s)'
  <2>1. pc[s] = "close" => target[s] \in Signals
    BY DEF Working
  <2>2. QED
    BY <1>3, <1>4, <1>5, <1>8, <2>1 DEF AskedOf
<1>9. CASE Closing(s)
  <2>1. ASSUME NEW o \in Slices, CloseSlice(s, o) PROVE AskedOf(s)'
    BY <1>7, <1>8, <2>1 DEF CloseSlice, Superseding
  <2>2. CASE CloseRecord(s)
    BY <1>7, <1>8, <2>2 DEF CloseRecord, Superseding
  <2>3. CASE CloseDb(s)
    BY <1>7, <1>8, <2>3 DEF CloseDb, Superseding
  <2>4. CASE SweepNext(s)
    BY <1>7, <2>4 DEF SweepNext, BeginClose, Superseding
  <2>5. QED
    BY <1>9, <2>1, <2>2, <2>3, <2>4 DEF Closing
<1>10. CASE Handler(s)
  <2>1. ASSUME EnterGuard(s) PROVE AskedOf(s)'
    <3>1. pc'[s] \in {"place", "classify"} /\ queue'[s] = open /\ todo'[s] = Accounts
      BY <2>1 DEF EnterGuard
    <3>2. \A o \in Slices : Account(o) \in Accounts
      BY DEF Slices, Account
    <3>3. \A x \in open : pc[x] \in Entered /\ store[x].status # "none"
      BY DEF Recorded
    <3>4. QED
      BY <1>3, <1>4, <3>1, <3>2, <3>3 DEF AskedOf, Superseding
  <2>2. CASE Arrive(s) \/ Guard(s)
    <3>1. BeginSweep(s) => AskedOf(s)'
      BY <1>7 DEF BeginSweep, Superseding
    <3>2. QED
      BY <2>1, <2>2, <3>1 DEF Arrive, Guard
  <2>3. ASSUME NEW a \in Accounts, Query(s, a) PROVE AskedOf(s)'
    <3>1. /\ pc[s] = "classify" /\ pc'[s] = "classify" /\ queue'[s] = queue[s]
          /\ todo'[s] = todo[s] \ {a} /\ UNCHANGED <<broker, store, pc>>
          /\ snap'[s] = [snap[s] EXCEPT !.verified = @ \cup {a}, !.live = @ \cup At("live", a)]
      BY <2>3 DEF Query, world, state
    <3>2. snap'[s].live = snap[s].live \cup At("live", a)
      BY <3>1 DEF Snapshot
    <3>3. ASSUME NEW x \in queue[s], NEW o \in Slices, broker[x][o] = "live", Account(o) \notin todo'[s]
          PROVE  <<x, o>> \in snap'[s].live
      <4>1. CASE Account(o) = a
        <5>1. <<x, o>> \in At("live", a)
          BY <3>3, <4>1 DEF At
        <5>2. QED
          BY <3>2, <5>1
      <4>2. CASE Account(o) # a
        BY <1>5, <3>1, <3>2, <3>3, <4>2 DEF AskedOf
      <4>3. QED
        BY <4>1, <4>2
    <3>4. QED
      BY <1>5, <3>1, <3>3 DEF AskedOf, Superseding
  <2>4. CASE Decide(s)
    <3>1. CASE snap[s].verified = {} \/ SeenLive(s) # {}
      BY <1>7, <2>4, <3>1 DEF Decide, Superseding
    <3>2. CASE ~(snap[s].verified = {} \/ SeenLive(s) # {})
      <4>1. /\ pc[s] = "classify" /\ todo[s] = {} /\ pc'[s] = "supersede" /\ queue'[s] = queue[s]
            /\ UNCHANGED <<broker, store>>
        BY <2>4, <3>2 DEF Decide, world, state
      <4>2. \A x \in queue[s] : pc[x] \in Entered /\ store[x].status # "none"
        BY <1>5, <4>1 DEF AskedOf
      <4>3. \A x \in queue[s], o \in Slices : broker[x][o] # "live"
        BY <1>5, <3>2, <4>1, <4>2 DEF AskedOf, SeenLive
      <4>4. QED
        BY <1>3, <4>1, <4>2, <4>3 DEF AskedOf, Superseding
    <3>3. QED
      BY <3>1, <3>2
  <2>5. CASE Supersede(s)
    <3> PICK x \in queue[s] : Supersede(s)!2!(x)
      BY <2>5 DEF Supersede
    <3>1. Superseding(s) /\ queue'[s] \subseteq queue[s] /\ pc[s] = "supersede"
      BY <2>5 DEF Supersede, Superseding
    <3>2. pc[x] \in Entered /\ store[x].status # "none" /\ \A o \in Slices : broker[x][o] # "live"
      BY <1>5, <3>1 DEF AskedOf
    <3>3. pc'[s] = "close" /\ target'[s] = x
      BY <3>2 DEF BeginClose
    <3>4. QED
      BY <1>3, <1>4, <1>5, <3>1, <3>2, <3>3 DEF AskedOf
  <2>6. CASE Superseded(s)
    BY <1>7, <2>6 DEF Superseded, Superseding
  <2>7. ASSUME NEW a \in Accounts, Submit(s, a) PROVE AskedOf(s)'
    BY <1>7, <2>7 DEF Submit, Superseding
  <2>8. CASE Track(s) \/ Insert(s)
    BY <1>7, <2>8 DEF Track, Insert, Superseding
  <2>9. QED
    BY <1>10, <2>2, <2>3, <2>4, <2>5, <2>6, <2>7, <2>8 DEF Handler
<1>11. QED
  BY <1>2, <1>6, <1>9, <1>10, OthersUntouched

\* What no restart, close or absence can disturb.
LEMMA RecordedHolds ==
    ASSUME MarketEntries
    PROVE  Spec => [](Recorded /\ NoneWaits)
<1>1. Init => PlacedOnce /\ Recorded /\ NoneWaits
  BY InitSound, InitFollowed DEF IInv, FollowInv
<1>2. TypeOK /\ PlacedOnce /\ Recorded /\ NoneWaits /\ [Next]_vars
      => (PlacedOnce /\ Recorded /\ NoneWaits)'
  BY StepPlacedOnce, StepRecorded, StepNoneWaits
<1>3. QED
  BY <1>1, <1>2, TypeCorrect, PTL DEF Spec

LEMMA AskedHolds ==
    ASSUME MarketEntries, "outage" \notin Hazards
    PROVE  Spec => []Asked
<1>1. Init => Asked
  <2> SUFFICES ASSUME Init, NEW s \in Signals PROVE AskedOf(s)
    BY DEF Asked
  <2>1. pc[s] = "new"
    BY DEF Init, Tasks, Messages
  <2>2. QED
    BY <2>1 DEF AskedOf, Superseding
<1>2. TypeOK /\ Recorded /\ NoneWaits /\ Asked /\ [Next]_vars => Asked'
  BY StepAsked
<1>3. QED
  BY <1>1, <1>2, RecordedHolds, TypeCorrect, PTL DEF Spec

\* A handler that supersedes open signals never closes a position that is live in
\* the market, though its answers are old when it acts on them: where entries are
\* market orders and accounts answer, a signal that was not live when its account
\* was asked is not live later (handle_new_signal()).
THEOREM SupersedesOnlyFlat ==
    ASSUME MarketEntries, "outage" \notin Hazards
    PROVE  Spec => SupersedeSparesLive
<1>1. Asked =>
        [\A s \in Signals : \A o \in Slices :
           pc[s] = "close" /\ resume[s] = "supersede" /\ o \in todo[s] \ todo'[s]
           => broker'[target[s]][o] = broker[target[s]][o] \/ broker[target[s]][o] # "live"]_vars
  BY DEF Asked, AskedOf, Superseding
<1>2. QED
  BY <1>1, AskedHolds, PTL DEF SupersedeSparesLive

\* Without overlaps one handler is at work at a time.
Alone == \A s, x \in Handling : s = x

LEMMA StepAlone ==
    ASSUME TypeOK, Alone, "overlap" \notin Hazards, [Next]_vars
    PROVE  Alone'
<1> USE TasksDistinct DEF TypeOK, Tasks, Messages
<1>1. CASE Restart
  <2>1. \A s \in Signals : pc'[s] \in {"new", "done"}
    BY <1>1 DEF Restart
  <2>2. QED
    BY <2>1 DEF Alone, Handling
<1>2. SUFFICES ASSUME ~Restart PROVE Alone'
  BY <1>1
<1>3. ASSUME NEW s \in Signals, Arrive(s) PROVE Alone'
  <2>1. Handling = {}
    BY <1>3 DEF Arrive
  <2>2. \A x \in Signals \ {s} : pc'[x] = pc[x]
    BY <1>3 DEF Arrive, EnterGuard, BeginSweep
  <2>3. QED
    BY <2>1, <2>2 DEF Alone, Handling
<1>4. ASSUME NEW s \in Signals, pc[s] = "new", ~Arrive(s) PROVE pc'[s] = "new"
  <2>1. ~Closing(s)
    BY <1>4 DEF Closing, CloseSlice, CloseRecord, CloseDb, SweepNext
  <2>2. ~Handler(s)
    BY <1>4 DEF Handler, Guard, Query, Decide, Supersede, Superseded, Submit, Track, Insert
  <2>3. QED
    BY <1>2, <1>4, <2>1, <2>2, OthersUntouched DEF Untouched
<1>5. ASSUME NEW s \in Signals, pc[s] = "done" PROVE pc'[s] = "done"
  <2>1. ~Closing(s)
    BY <1>5 DEF Closing, CloseSlice, CloseRecord, CloseDb, SweepNext
  <2>2. ~Handler(s)
    BY <1>5 DEF Handler, Arrive, Guard, Query, Decide, Supersede, Superseded, Submit, Track, Insert
  <2>3. QED
    BY <1>2, <1>5, <2>1, <2>2, OthersUntouched DEF Untouched
<1>6. CASE \A s \in Signals : ~Arrive(s)
  BY <1>4, <1>5, <1>6 DEF Alone, Handling
<1>7. QED
  BY <1>3, <1>6

\* What is live while a handler makes room for its own positions: what it has yet
\* to supersede, then nothing but what it places itself.
Making(s) == pc[s] = "classify" \/ Superseding(s)
RoomOf(s) ==
    /\ Making(s) => \A x \in Signals, o \in Slices :
                        broker[x][o] = "live" => x \in queue[s] \/ (pc[s] = "close" /\ x = target[s])
    /\ pc[s] = "place" => \A x \in Signals, o \in Slices : broker[x][o] = "live" => x = s

Room == \A s \in Signals : RoomOf(s)

\* Every step keeps Room: all that is live is in the open set when the handler
\* takes its queue from it, and a close that has ended leaves nothing live.
LEMMA StepRoom ==
    ASSUME TypeOK, FollowInv, MarketEntries, Alone, "overlap" \notin Hazards,
           "crash" \notin Hazards, Room, [Next]_vars
    PROVE  Room'
<1> USE TasksDistinct DEF TypeOK, Tasks, Messages
<1> Recorded /\ NoneWaits /\ Visits /\ Followed
  BY DEF FollowInv
<1> SUFFICES ASSUME NEW s \in Signals PROVE RoomOf(s)'
  BY DEF Room
<1>1. RoomOf(s)
  BY DEF Room
<1>2. ~Restart
  BY DEF Restart
<1>3. ASSUME NEW x \in Signals, NEW a \in Accounts, Submit(x, a) PROVE RoomOf(s)'
  <2>1. /\ pc[x] = "place" /\ UNCHANGED <<pc, resume>>
        /\ \A y \in Signals \ {x} : broker'[y] = broker[y]
    BY <1>3, SubmitPlaces DEF Submit
  <2>2. CASE s = x
    BY <1>1, <2>1, <2>2 DEF RoomOf, Making, Superseding
  <2>3. CASE s # x
    <3>1. s \notin Handling
      BY <2>1, <2>3 DEF Alone, Handling
    <3>2. pc'[s] \in {"new", "done"}
      BY <2>1, <3>1 DEF Handling
    <3>3. QED
      BY <3>2 DEF RoomOf, Making, Superseding
  <2>4. QED
    BY <2>2, <2>3
<1>4. SUFFICES ASSUME Calm, \A x \in Signals, a \in Accounts : ~Submit(x, a) PROVE RoomOf(s)'
  BY <1>3, OthersAreCalm
<1>5. CASE Untouched(s)
  <2>1. Making(s)' <=> Making(s)
    BY <1>5 DEF Untouched, Making, Superseding
  <2>2. QED
    BY <1>1, <1>4, <1>5, <2>1 DEF RoomOf, Untouched, Calm
<1>6. CASE ~Making(s)' /\ pc'[s] # "place"
  BY <1>6 DEF RoomOf
<1>7. ASSUME Making(s), pc'[s] # "place", queue'[s] = queue[s],
             (pc'[s] = pc[s] /\ target'[s] = target[s]) \/ pc[s] # "close"
      PROVE  RoomOf(s)'
  BY <1>1, <1>4, <1>7 DEF RoomOf, Calm
<1>8. CASE Closing(s)
  <2>1. ASSUME NEW o \in Slices, CloseSlice(s, o) PROVE RoomOf(s)'
    BY <1>6, <1>7, <2>1 DEF CloseSlice, Making, Superseding
  <2>2. CASE CloseRecord(s)
    <3>1. /\ pc[s] = "close" /\ todo[s] = {} /\ pc'[s] = "closedb"
          /\ UNCHANGED <<resume, queue, target>>
      BY <2>2 DEF CloseRecord
    <3>2. \A o \in Slices : broker[target[s]][o] # "live"
      BY <3>1 DEF Visits
    <3>3. QED
      BY <1>1, <1>4, <3>1, <3>2 DEF RoomOf, Making, Superseding, Calm
  <2>3. CASE CloseDb(s)
    <3>1. pc[s] = "closedb" /\ pc'[s] = resume[s] /\ queue'[s] = queue[s] /\ resume'[s] = "done"
      BY <2>3 DEF CloseDb
    <3>2. CASE resume[s] = "supersede"
      BY <1>7, <3>1, <3>2 DEF Making, Superseding
    <3>3. CASE resume[s] # "supersede"
      BY <1>6, <3>1, <3>3 DEF Making, Superseding
    <3>4. QED
      BY <3>2, <3>3
  <2>4. CASE SweepNext(s)
    BY <1>6, <2>4 DEF SweepNext, BeginClose, Making, Superseding
  <2>5. QED
    BY <1>8, <2>1, <2>2, <2>3, <2>4 DEF Closing
<1>9. CASE Handler(s)
  <2>1. ASSUME EnterGuard(s), \A x \in Signals : pc[x] # "place" PROVE RoomOf(s)'
    <3>1. \A x \in Signals, o \in Slices : broker[x][o] = "live" => x \in open
      BY <2>1 DEF Followed, Lost
    <3>2. /\ queue'[s] = open /\ UNCHANGED <<broker>>
          /\ pc'[s] = IF open = {} THEN "place" ELSE "classify"
      BY <2>1 DEF EnterGuard, world
    <3>3. QED
      BY <3>1, <3>2 DEF RoomOf
  <2>2. BeginSweep(s) => RoomOf(s)'
    BY <1>6 DEF BeginSweep, Making, Superseding
  <2>3. CASE Arrive(s)
    <3>1. \A x \in Signals : pc[x] # "place"
      BY <2>3 DEF Arrive, Handling
    <3>2. QED
      BY <2>1, <2>2, <2>3, <3>1 DEF Arrive
  <2>4. CASE Guard(s)
    <3>1. ASSUME NEW x \in Signals, pc[x] = "place" PROVE FALSE
      <4>1. pc[s] = "sweep" /\ s \in Handling /\ x \in Handling
        BY <2>4, <3>1 DEF Guard, Handling
      <4>2. QED
        BY <3>1, <4>1 DEF Alone
    <3>2. QED
      BY <2>1, <2>4, <3>1 DEF Guard
  <2>5. ASSUME NEW a \in Accounts, Query(s, a) PROVE RoomOf(s)'
    BY <1>7, <2>5 DEF Query, Making
  <2>6. CASE Decide(s)
    BY <1>6, <1>7, <2>6 DEF Decide, Making, Superseding
  <2>7. CASE Supersede(s)
    <3> PICK x \in queue[s] : Supersede(s)!2!(x)
      BY <2>7 DEF Supersede
    <3>1. pc[s] = "supersede" /\ queue'[s] = queue[s] \ {x} /\ UNCHANGED broker
      BY <2>7 DEF Supersede, world
    <3>2. \A y \in Signals, o \in Slices : broker[y][o] = "live" => y \in queue[s]
      BY <1>1, <3>1 DEF RoomOf, Making, Superseding
    <3>3. CASE store[x].status = "none"
      <4>1. pc[x] # "place"
        BY <3>1 DEF Alone, Handling
      <4>2. \A o \in Slices : broker[x][o] # "live"
        BY <3>3, <4>1 DEF Followed, Lost, Recorded
      <4>3. pc'[s] = "supersede"
        BY <3>1, <3>3
      <4>4. QED
        BY <3>1, <3>2, <4>2, <4>3 DEF RoomOf, Making
    <3>4. CASE store[x].status # "none"
      <4>1. pc'[s] = "close" /\ target'[s] = x
        BY <3>4 DEF BeginClose
      <4>2. QED
        BY <3>1, <3>2, <4>1 DEF RoomOf
    <3>5. QED
      BY <3>3, <3>4
  <2>8. CASE Superseded(s)
    <3>1. /\ pc[s] = "supersede" /\ queue[s] = {} /\ pc'[s] = "place" /\ UNCHANGED <<broker, resume>>
      BY <2>8 DEF Superseded, world
    <3>2. QED
      BY <1>1, <3>1 DEF RoomOf, Making, Superseding
  <2>9. CASE Track(s) \/ Insert(s)
    BY <1>6, <2>9 DEF Track, Insert, Making, Superseding
  <2>10. QED
    BY <1>4, <1>9, <2>3, <2>4, <2>5, <2>6, <2>7, <2>8, <2>9 DEF Handler
<1>10. QED
  BY <1>2, <1>5, <1>8, <1>9, OthersUntouched

\* Positions of two signals are never in the market together: where signals do
\* not overlap, entries are market orders, closes succeed and the process is not
\* restarted, the guard of handle_new_signal() holds even when an account does
\* not answer it, however replies, sweeps and the reconciler interleave.
THEOREM NoPyramiding ==
    ASSUME Patient, MarketEntries, ClosesSucceed, "crash" \notin Hazards, "overlap" \notin Hazards
    PROVE  Spec => []OneAtATime
<1> Reloads
  BY DEF Reloads
<1>1. Init => Alone /\ Room /\ OneAtATime
  <2> SUFFICES ASSUME Init PROVE Alone /\ Room /\ OneAtATime
    OBVIOUS
  <2>1. \A s \in Signals : pc[s] = "new" /\ \A o \in Slices : broker[s][o] = "none"
    BY DEF Init, Tasks, Messages
  <2>2. QED
    BY <2>1 DEF Alone, Handling, Room, RoomOf, Making, Superseding, OneAtATime
<1>2. TypeOK /\ FollowInv /\ Alone /\ Room /\ OneAtATime /\ [Next]_vars
      => (Alone /\ Room /\ OneAtATime)'
  <2> SUFFICES ASSUME TypeOK, FollowInv, Alone, Room, OneAtATime, [Next]_vars
               PROVE  (Alone /\ Room /\ OneAtATime)'
    OBVIOUS
  <2>1. Alone' /\ Room'
    BY StepAlone, StepRoom
  <2>2. ASSUME NEW s \in Signals, NEW a \in Accounts, Submit(s, a) PROVE OneAtATime'
    <3>1. /\ pc[s] = "place" /\ \A x \in Signals \ {s} : broker'[x] = broker[x]
      BY <2>2, SubmitPlaces DEF Submit, FollowInv
    <3>2. \A x \in Signals, o \in Slices : broker'[x][o] = "live" => x = s
      BY <3>1 DEF Room, RoomOf
    <3>3. QED
      BY <3>2 DEF OneAtATime
  <2>3. CASE \A s \in Signals, a \in Accounts : ~Submit(s, a)
    <3>1. Calm
      BY <2>3, OthersAreCalm DEF FollowInv
    <3>2. QED
      BY <2>1, <3>1 DEF Calm, OneAtATime
  <2>4. QED
    BY <2>1, <2>2, <2>3
<1>3. Spec => []FollowInv
  BY FollowHolds
<1>4. QED
  BY <1>1, <1>2, <1>3, TypeCorrect, PTL DEF Spec
=============================================================================
