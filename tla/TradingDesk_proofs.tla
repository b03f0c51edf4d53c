------------------------- MODULE TradingDesk_proofs -------------------------
(***************************************************************************)
(* Proofs about TradingDesk, for any runners, strategies, prices and        *)
(* faults: rows and broker agree, the cap holds over both, and a bar is     *)
(* traded once.                                                            *)
(***************************************************************************)
EXTENDS TradingDesk, FiniteSetTheorems, TLAPS

Sides == {"BUY", "SELL"}
Position == [owner : Runners \cup {None}, signal : Int, run : Nat, at : {"none", "live", "gone"},
             row : {"none", "open", "closed"}, side : Sides, sl : Int, tp : Int, stop : Int,
             target : Int, expires : Int \cup {None}, unsure : BOOLEAN,
             stale : BOOLEAN]
Request == [side : Sides, entry : Int, sl : Int, tp : Int, hold : Int \cup {None}, bar : Int]
Process == [warm : BOOLEAN, at : {"idle", "count", "order", "persist"}, seen : Int \cup {None},
            guard : BOOLEAN, last : Int \cup {None}, setup : Request, id : Ids \cup {None}, run : Nat]
Tick == [at : {"idle", "priced", "visit"}, price : Int, todo : SUBSET Ids, closed : SUBSET Ids,
         younger : SUBSET Ids, fails : BOOLEAN]

Types ==
    /\ bar \in 2..(MaxBars + 2) /\ price \in Prices
    /\ pos \in [Ids -> Position]
    /\ runner \in [Runners -> Process]
    /\ mon \in Tick

\* A process holds a position between its order and its rows, and that position
\* is its own.
Placing ==
    /\ \A i \in Ids : /\ pos[i].at = "none" => pos[i].row = "none" /\ pos[i].owner = None
                      /\ pos[i].at # "none" => pos[i].owner # None
    /\ \A r \in Runners :
          IF runner[r].at = "persist"
          THEN /\ runner[r].id \in Ids
               /\ pos[runner[r].id].owner = r /\ pos[runner[r].id].row = "none"
          ELSE runner[r].id = None

\* The broker's levels are those of the signal and of the rows, and the price has
\* come to none of a position that is still open.
Wide(s) == Ahead(s.side, s.entry, s.sl) >= MinStop /\ Ahead(s.side, s.tp, s.entry) >= MinStop
Attached(p, s) == p.side = s.side /\ p.stop = s.sl /\ p.target = s.tp
Levels ==
    /\ \A r \in Runners : runner[r].at # "idle" => Wide(runner[r].setup)
    /\ \A r \in Runners : runner[r].at = "persist" => Attached(pos[runner[r].id], runner[r].setup)
    /\ \A i \in Ids : pos[i].row # "none" => pos[i].stop = pos[i].sl /\ pos[i].target = pos[i].tp
    /\ \A i \in Ids : pos[i].at = "live" => ~Hit(pos[i].side, pos[i].stop, pos[i].target, price)

\* The rows that a transaction works on stay open until it ends.
Working ==
    /\ mon.at # "visit" => mon.todo = {} /\ mon.closed = {}
    /\ \A i \in mon.todo \cup mon.closed : pos[i].row = "open"

\* At the price the monitor has read, no trigger of a position that was there has
\* fired and the position is still live; those opened since are the younger ones.
\* So what it closes has left the broker or is younger.
Left(i) == pos[i].at = "gone" \/ pos[i].unsure
Judged(i) == Hit(pos[i].side, pos[i].stop, pos[i].target, mon.price)
Visiting ==
    /\ mon.at = "priced" => \A i \in Ids \ mon.younger : pos[i].at = "live" => ~Judged(i)
    /\ \A i \in mon.todo \ mon.younger : Fired(i) => pos[i].at = "gone"
    /\ \A i \in mon.closed : Left(i) \/ (i \in mon.younger /\ Fired(i))

\* There is room in the rows for the position that a process is about to open.
Room ==
    \A r \in Runners :
        /\ Cardinality(OpenRows(r)) <= Cap[r]
        /\ runner[r].at \in {"order", "persist"} => Cardinality(OpenRows(r)) < Cap[r]

\* The positions that a process must not repeat: those of this run and, if its
\* first bar is a warm-up, of all runs.
Own(r, i) == pos[i].owner = r /\ (pos[i].run = runner[r].run \/ runner[r].warm)
Once ==
    /\ \A r \in Runners :
          /\ runner[r].seen # None => runner[r].seen <= bar - 1
          /\ runner[r].at \in {"count", "order"} =>
                /\ runner[r].seen # None /\ runner[r].setup.bar = runner[r].seen
                /\ \A i \in Ids : Own(r, i) => pos[i].signal < runner[r].setup.bar
          /\ \A i \in Ids : pos[i].owner = r =>
                /\ pos[i].signal <= bar - 1
                /\ pos[i].run <= runner[r].run
                /\ pos[i].run = runner[r].run => runner[r].seen # None
                /\ Own(r, i) /\ runner[r].seen # None => pos[i].signal <= runner[r].seen
    /\ OneEntryPerBar

\* What needs no assumption on the strategies, and what does.
Base == Types /\ Placing /\ Working /\ Room /\ Once
Flat == Levels /\ Visiting /\ ClosedIsFlat

\* The stops and targets that the strategies ask for are no nearer than the
\* broker's level, so that it attaches them as they are.
WideSetups == \A r \in Runners : \A t \in Setups[r] : t.stop >= MinStop /\ t.gain >= MinStop
-----------------------------------------------------------------------------
(***************************************************************************)
(* Types.                                                                  *)
(***************************************************************************)
LEMMA ConstantsAre ==
    /\ Prices \subseteq Int /\ MinStop \in Nat /\ MaxBars \in Nat
    /\ IsFiniteSet(Ids) /\ None \notin Ids /\ None \notin Runners /\ None \notin Int
    /\ Cap \in [Runners -> Nat \ {0}]
    /\ \A r \in Runners : \A t \in Setups[r] :
          t.side \in Sides /\ t.stop \in Int /\ t.gain \in Int /\ t.hold \in Int \cup {None}
BY DeskOK, CapOK, RunnersOK DEF Sides

\* The position that an order opens is the fresh one.
LEMMA FreshIsFree == Free # {} => Fresh \in Ids /\ pos[Fresh].at = "none"
BY DEF Free, Fresh

\* A signal is a request, as wide as its setup asks.
LEMMA SignalIs ==
    ASSUME Types, NEW r \in Runners, NEW t \in Setups[r]
    PROVE  /\ Signal(t) \in Request /\ Signal(t).bar = bar - 1
           /\ t.stop >= MinStop /\ t.gain >= MinStop => Wide(Signal(t))
<1>1. price \in Int /\ bar \in Int
  BY ConstantsAre DEF Types
<1>2. t.side \in Sides /\ t.stop \in Int /\ t.gain \in Int /\ t.hold \in Int \cup {None}
  BY ConstantsAre
<1>3. Signal(t) \in Request /\ Signal(t).bar = bar - 1
  BY <1>1, <1>2 DEF Signal, Request, Evaluated, Beyond
<1>4. t.stop >= MinStop /\ t.gain >= MinStop => Wide(Signal(t))
  BY <1>1, <1>2, ConstantsAre DEF Signal, Wide, Ahead, Beyond, Sides
<1>5. QED
  BY <1>3, <1>4

\* An order opens a position with the levels of the request.
LEMMA OpenedIs ==
    ASSUME Types, NEW r \in Runners
    PROVE  LET s == runner[r].setup
               p == Opened(r, s)
           IN /\ p \in Position
              /\ p.owner = r /\ p.signal = s.bar /\ p.run = runner[r].run
              /\ p.at = "live" /\ p.row = "none" /\ ~p.unsure
              /\ p.side = s.side /\ p.stop = WidenedStop(s) /\ p.target = WidenedTarget(s)
              /\ Wide(s) => p.stop = s.sl /\ p.target = s.tp
<1> DEFINE s == runner[r].setup
<1>1. s \in Request /\ runner[r].run \in Nat /\ MinStop \in Int
  BY ConstantsAre DEF Types, Process
<1> HIDE DEF s
<1>2. WidenedStop(s) \in Int /\ WidenedTarget(s) \in Int
  BY <1>1 DEF WidenedStop, WidenedTarget, Beyond, Request
<1> DEFINE q == NoPos
           b == WidenedStop(s)
           c == WidenedTarget(s)
           n == runner[r].run
<1>3. q \in Position /\ q.row = "none" /\ ~q.unsure
  BY DEF NoPos, Position, Sides
<1>6. Opened(r, s) = [q EXCEPT !.owner = r, !.signal = s.bar, !.run = n, !.at = "live",
                               !.side = s.side, !.stop = b, !.target = c]
  BY DEF Opened
<1>7. b \in Int /\ c \in Int /\ n \in Nat
  BY <1>1, <1>2
<1> HIDE DEF q, b, c, n
<1>8. [q EXCEPT !.owner = r, !.signal = s.bar, !.run = n, !.at = "live",
                !.side = s.side, !.stop = b, !.target = c] \in Position
  BY <1>1, <1>3, <1>7 DEF Position, Request
<1>9. LET p == Opened(r, s)
      IN  /\ p.owner = r /\ p.signal = s.bar /\ p.run = n
          /\ p.at = "live" /\ p.row = "none" /\ ~p.unsure
          /\ p.side = s.side /\ p.stop = b /\ p.target = c
  BY <1>3, <1>6 DEF Position
<1>4. Wide(s) => WidenedStop(s) = s.sl /\ WidenedTarget(s) = s.tp
  BY <1>1 DEF Wide, WidenedStop, WidenedTarget, Ahead, Request, Sides
<1>5. QED
  BY <1>4, <1>6, <1>8, <1>9 DEF s, b, c, n

\* The rows of a position leave everything else of it as it is.
LEMMA RecordedIs ==
    ASSUME Types, NEW r \in Runners, NEW i \in Ids
    PROVE  LET s == runner[r].setup
               p == Recorded(pos[i], s)
           IN /\ p \in Position
              /\ p.row = "open" /\ p.sl = s.sl /\ p.tp = s.tp
              /\ p.owner = pos[i].owner /\ p.signal = pos[i].signal /\ p.run = pos[i].run
              /\ p.at = pos[i].at /\ p.side = pos[i].side
              /\ p.stop = pos[i].stop /\ p.target = pos[i].target /\ p.unsure = pos[i].unsure
              /\ p.stale = pos[i].stale
<1> DEFINE s == runner[r].setup
<1>1. s \in Request /\ pos[i] \in Position /\ bar \in Int
  BY DEF Types, Process
<1> HIDE DEF s
<1> DEFINE q == pos[i]
           e == IF s.hold = None THEN None ELSE bar + s.hold
<1>2. e \in Int \cup {None}
  BY <1>1 DEF Request
<1>3. q \in Position
  BY <1>1
<1>4. Recorded(q, s) = [q EXCEPT !.row = "open", !.sl = s.sl, !.tp = s.tp, !.expires = e]
  BY DEF Recorded
<1> HIDE DEF e, q
<1>5. [q EXCEPT !.row = "open", !.sl = s.sl, !.tp = s.tp, !.expires = e] \in Position
  BY <1>1, <1>2, <1>3 DEF Position, Request
<1>6. /\ Recorded(q, s).row = "open" /\ Recorded(q, s).sl = s.sl /\ Recorded(q, s).tp = s.tp
      /\ Recorded(q, s).owner = q.owner /\ Recorded(q, s).signal = q.signal
      /\ Recorded(q, s).run = q.run /\ Recorded(q, s).at = q.at /\ Recorded(q, s).side = q.side
      /\ Recorded(q, s).stop = q.stop /\ Recorded(q, s).target = q.target
      /\ Recorded(q, s).unsure = q.unsure /\ Recorded(q, s).stale = q.stale
  BY <1>3, <1>4 DEF Position
<1>7. QED
  BY <1>4, <1>5, <1>6 DEF q, s

\* A process that is done is idle and holds nothing.
LEMMA FinishedIs ==
    ASSUME Types, NEW r \in Runners, Finished(r)
    PROVE  /\ runner' \in [Runners -> Process]
           /\ \A x \in Runners : x # r => runner'[x] = runner[x]
           /\ runner'[r].at = "idle" /\ runner'[r].id = None
           /\ runner'[r].seen = runner[r].seen /\ runner'[r].run = runner[r].run
           /\ runner'[r].warm = runner[r].warm
<1> DEFINE w == [runner[r] EXCEPT !.at = "idle", !.setup = NoSetup, !.id = None]
<1>1. runner[r] \in Process /\ runner \in [Runners -> Process]
  BY DEF Types
<1>2. NoSetup \in Request
  BY ConstantsAre DEF NoSetup, Request, Sides
<1>3. /\ w \in Process /\ w.at = "idle" /\ w.id = None /\ w.seen = runner[r].seen
      /\ w.run = runner[r].run /\ w.warm = runner[r].warm
  BY <1>1, <1>2 DEF Process
<1>4. runner' = [runner EXCEPT ![r] = w]
  BY <1>1 DEF Finished, Process
<1> HIDE DEF w
<1>5. QED
  BY <1>1, <1>3, <1>4

-----------------------------------------------------------------------------
(***************************************************************************)
(* Base is inductive.                                                      *)
(***************************************************************************)

\* What a step leaves of a position that it does not open or record.
Kept(i) ==
    /\ pos'[i].owner = pos[i].owner /\ pos'[i].signal = pos[i].signal /\ pos'[i].run = pos[i].run
    /\ pos'[i].at = "none" <=> pos[i].at = "none"
    /\ pos'[i].row = pos[i].row \/ (pos[i].row = "open" /\ pos'[i].row = "closed")

LEMMA OpenRowsFinite ==
    ASSUME NEW r \in Runners
    PROVE  IsFiniteSet(OpenRows(r)) /\ Cardinality(OpenRows(r)) \in Nat
<1>1. OpenRows(r) \subseteq Ids /\ IsFiniteSet(Ids)
  BY ConstantsAre DEF OpenRows
<1>2. QED
  BY <1>1, FS_Subset, FS_CardinalityType

\* Fewer open rows leave at least as much room.
LEMMA FewerRows ==
    ASSUME NEW r \in Runners, OpenRows(r)' \subseteq OpenRows(r)
    PROVE  /\ Cardinality(OpenRows(r))' <= Cardinality(OpenRows(r))
           /\ Cardinality(OpenRows(r))' \in Nat
<1>1. IsFiniteSet(OpenRows(r)) /\ Cardinality(OpenRows(r)) \in Nat
  BY OpenRowsFinite
<1>2. IsFiniteSet(OpenRows(r)') /\ Cardinality(OpenRows(r)') <= Cardinality(OpenRows(r))
  BY <1>1, FS_Subset
<1>3. Cardinality(OpenRows(r)') \in Nat
  BY <1>2, FS_CardinalityType
<1>4. QED
  BY <1>2, <1>3

\* While no process moves and positions are only closed, the processes stay as
\* right as they were.
LEMMA QuietStep ==
    ASSUME Base, bar' \in Int, bar' >= bar, runner' = runner, \A i \in Ids : Kept(i)
    PROVE  Placing' /\ Room' /\ Once'
<1>1. Placing'
  BY SMTT(30) DEF Base, Placing, Kept, Types, Process
<1>2. Room'
  <2>1. SUFFICES ASSUME NEW r \in Runners
                 PROVE  /\ Cardinality(OpenRows(r))' <= Cap[r]
                        /\ runner[r].at \in {"order", "persist"} =>
                              Cardinality(OpenRows(r))' < Cap[r]
    BY DEF Room
  <2>2. OpenRows(r)' \subseteq OpenRows(r)
    BY DEF OpenRows, Kept
  <2>3. QED
    BY <2>2, FewerRows, OpenRowsFinite, ConstantsAre DEF Base, Room
<1>3. Once'
  <2>1. bar \in Int
    BY DEF Base, Types
  <2>2. \A r \in Runners : runner[r].seen \in Int \cup {None}
    BY DEF Base, Types, Process
  <2>3. \A r \in Runners : runner'[r].seen # None => runner'[r].seen <= bar' - 1
    BY <2>1, <2>2, ConstantsAre DEF Base, Once
  <2>4. \A r \in Runners, i \in Ids : Own(r, i)' <=> Own(r, i)
    BY DEF Own, Kept
  <2>5. ASSUME NEW r \in Runners, runner'[r].at \in {"count", "order"}
        PROVE  /\ runner'[r].seen # None /\ runner'[r].setup.bar = runner'[r].seen
               /\ \A i \in Ids : Own(r, i)' => pos'[i].signal < runner'[r].setup.bar
    BY <2>4, <2>5 DEF Base, Once, Kept
  <2>6. ASSUME NEW r \in Runners, NEW i \in Ids, pos'[i].owner = r
        PROVE  /\ pos'[i].signal <= bar' - 1
               /\ pos'[i].run <= runner'[r].run
               /\ pos'[i].run = runner'[r].run => runner'[r].seen # None
               /\ Own(r, i)' /\ runner'[r].seen # None => pos'[i].signal <= runner'[r].seen
    <3>1. pos[i].owner = r /\ pos'[i].signal = pos[i].signal /\ pos'[i].run = pos[i].run
      BY <2>6 DEF Kept
    <3>2. pos[i].signal \in Int /\ pos[i].signal <= bar - 1
      BY <3>1 DEF Base, Once, Types, Position
    <3>3. QED
      BY <2>1, <2>4, <3>1, <3>2 DEF Base, Once
  <2>7. OneEntryPerBar'
    BY DEF Base, Once, OneEntryPerBar, Kept
  <2>8. QED
    BY <2>3, <2>5, <2>6, <2>7 DEF Once
<1>4. QED
  BY <1>1, <1>2, <1>3

LEMMA BarClosesBase == ASSUME Base, BarCloses PROVE Base'
<1>1. /\ bar \in Int /\ bar' = bar + 1 /\ bar' \in 2..(MaxBars + 2)
      /\ UNCHANGED <<price, pos, runner, mon>>
  BY ConstantsAre DEF BarCloses, Base, Types
<1>2. Types'
  BY <1>1 DEF Base, Types
<1>3. Working'
  BY <1>1 DEF Base, Working
<1>4. \A i \in Ids : Kept(i)
  BY <1>1 DEF Kept
<1>5. QED
  BY <1>1, <1>2, <1>3, <1>4, QuietStep DEF Base

\* What the broker closes when the price moves.
LEMMA Closing ==
    ASSUME Types, PriceMoves, NEW i \in Ids
    PROVE  /\ pos'[i] \in Position /\ Kept(i) /\ pos'[i].row = pos[i].row
           /\ pos'[i].side = pos[i].side /\ pos'[i].sl = pos[i].sl /\ pos'[i].tp = pos[i].tp
           /\ pos'[i].stop = pos[i].stop /\ pos'[i].target = pos[i].target
           /\ pos'[i].unsure = pos[i].unsure /\ pos'[i].stale = pos[i].stale
           /\ pos'[i].at = "live" =>
                 /\ pos[i].at = "live"
                 /\ ~Hit(pos[i].side, pos[i].stop, pos[i].target, price')
           /\ pos[i].at = "gone" => pos'[i].at = "gone"
<1> DEFINE q == pos[i]
<1>1. q \in Position
  BY DEF Types
<1>2. pos'[i] = IF q.at = "live" /\ Hit(q.side, q.stop, q.target, price')
                THEN [q EXCEPT !.at = "gone"] ELSE q
  BY DEF PriceMoves
<1>3. /\ pos'[i] \in Position
      /\ pos'[i].row = q.row /\ pos'[i].side = q.side /\ pos'[i].sl = q.sl /\ pos'[i].tp = q.tp
      /\ pos'[i].stop = q.stop /\ pos'[i].target = q.target /\ pos'[i].unsure = q.unsure
      /\ pos'[i].stale = q.stale
      /\ pos'[i].owner = q.owner /\ pos'[i].signal = q.signal /\ pos'[i].run = q.run
  <2> HIDE DEF q
  <2>1. QED
    BY <1>1, <1>2, SMTT(30) DEF Position
<1>4. /\ pos'[i].at = "none" <=> q.at = "none"
      /\ pos'[i].at = "live" => q.at = "live" /\ ~Hit(q.side, q.stop, q.target, price')
      /\ q.at = "gone" => pos'[i].at = "gone"
  <2> HIDE DEF q
  <2>1. QED
    BY <1>1, <1>2, SMTT(30) DEF Position
<1>5. QED
  BY <1>3, <1>4 DEF Kept

LEMMA PriceMovesBase == ASSUME Base, PriceMoves PROVE Base'
<1>1. UNCHANGED <<bar, runner, mon>> /\ bar \in Int /\ price' \in Prices
  BY DEF PriceMoves, Base, Types
<1>2. \A i \in Ids : pos'[i] \in Position /\ Kept(i) /\ pos'[i].row = pos[i].row
  BY Closing DEF Base
<1>3. Types'
  <2>1. pos' \in [Ids -> Position]
    BY <1>2 DEF PriceMoves
  <2>2. QED
    BY <1>1, <2>1 DEF Base, Types
<1>4. Working'
  BY <1>1, <1>2 DEF Base, Working, Types, Tick
<1>5. QED
  BY <1>1, <1>2, <1>3, <1>4, QuietStep DEF Base

LEMMA ReadPriceBase == ASSUME Base, ReadPrice PROVE Base'
<1>1. UNCHANGED <<bar, price, pos, runner>> /\ bar \in Int /\ price \in Int
  BY ConstantsAre DEF ReadPrice, Base, Types
<1>2. mon' = [at |-> "priced", price |-> price, todo |-> {}, closed |-> {}, younger |-> {}, fails |-> FALSE]
  BY DEF ReadPrice, Resting
<1>3. Types' /\ Working'
  BY <1>1, <1>2 DEF Base, Types, Working, Tick
<1>4. \A i \in Ids : Kept(i)
  BY <1>1 DEF Kept
<1>5. QED
  BY <1>1, <1>3, <1>4, QuietStep DEF Base

\* The rows a transaction works on are those that are open when it begins.
LEMMA Queried ==
    ASSUME Types, NEW f \in BOOLEAN, QueryRows(f)
    PROVE  /\ mon' \in Tick /\ mon'.at = "visit" /\ mon'.price = mon.price
           /\ mon'.closed = mon.closed
           /\ mon'.todo = {i \in Ids : pos[i].row = "open"}
           /\ mon'.younger = mon.younger \cap mon'.todo
<1> DEFINE m == mon
           rows == {i \in Ids : pos[i].row = "open"}
           y == m.younger \cap rows
<1>1. m \in Tick /\ rows \in SUBSET Ids /\ y \in SUBSET Ids
  BY DEF Types, Tick
<1>2. mon' = [m EXCEPT !.at = "visit", !.todo = rows, !.younger = y, !.fails = f]
  BY <1>1 DEF QueryRows, Tick
<1>3. /\ mon' \in Tick /\ mon'.at = "visit" /\ mon'.price = m.price /\ mon'.closed = m.closed
      /\ mon'.todo = rows /\ mon'.younger = y
  <2> HIDE DEF m, rows, y
  <2>1. QED
    BY <1>1, <1>2 DEF Tick
<1>4. QED
  BY <1>3

LEMMA QueryRowsBase == ASSUME Base, NEW f \in BOOLEAN, QueryRows(f) PROVE Base'
<1>1. UNCHANGED <<bar, price, pos, runner>> /\ bar \in Int /\ mon.closed = {}
  BY DEF QueryRows, Base, Types, Working
<1>2. Types'
  BY <1>1, Queried DEF Base, Types
<1>3. Working'
  BY <1>1, Queried DEF Base, Working
<1>4. \A i \in Ids : Kept(i)
  BY <1>1 DEF Kept
<1>5. QED
  BY <1>1, <1>2, <1>3, <1>4, QuietStep DEF Base

\* What the monitor does to the positions while it visits a row: it may ask the
\* broker to close the one that it visits, if its time is up.
LEMMA Visited ==
    ASSUME Types, NEW i \in Ids, Visit(i)
    PROVE  /\ pos' \in [Ids -> Position]
           /\ \A j \in Ids :
                 /\ Kept(j) /\ pos'[j].row = pos[j].row
                 /\ pos'[j].side = pos[j].side /\ pos'[j].sl = pos[j].sl /\ pos'[j].tp = pos[j].tp
                 /\ pos'[j].stop = pos[j].stop /\ pos'[j].target = pos[j].target
                 /\ pos'[j].at = pos[j].at \/ (j = i /\ pos'[j].at = "gone")
                 /\ pos[j].unsure => pos'[j].unsure
                 /\ pos'[j].stale = pos[j].stale
           /\ mon' \in Tick /\ mon'.at = "visit" /\ mon'.price = mon.price
           /\ mon'.todo = mon.todo \ {i} /\ mon'.younger = mon.younger
           /\ \/ mon'.closed = mon.closed
              \/ mon'.closed = mon.closed \cup {i} /\ Fired(i)
              \/ /\ mon'.closed = mon.closed \cup {i}
                 /\ pos[i].at = "live" => pos'[i].at = "gone" \/ pos'[i].unsure
<1>1. pos \in [Ids -> Position] /\ mon \in Tick /\ i \in mon.todo /\ mon.at = "visit"
  BY DEF Types, Visit
<1>2. mon' \in Tick /\ mon'.at = "visit" /\ mon'.price = mon.price /\ mon'.todo = mon.todo \ {i}
      /\ mon'.younger = mon.younger
      /\ (mon'.closed = mon.closed \/ mon'.closed = mon.closed \cup {i})
  <2> DEFINE m == mon
             t == mon.todo \ {i}
             c == mon.closed \cup {i}
  <2>1. mon' \in {[m EXCEPT !.todo = t, !.closed = c], [m EXCEPT !.todo = t]}
    BY DEF Visit
  <2>2. m \in Tick /\ t \in SUBSET Ids /\ c \in SUBSET Ids /\ m.at = "visit"
    BY <1>1 DEF Tick
  <2> HIDE DEF m, t, c
  <2>3. /\ mon' \in Tick /\ mon'.at = m.at /\ mon'.price = m.price /\ mon'.todo = t
        /\ mon'.younger = m.younger
        /\ mon'.closed = m.closed \/ mon'.closed = c
    BY <2>1, <2>2 DEF Tick
  <2>4. QED
    BY <2>2, <2>3 DEF m, t, c
<1>3. CASE UNCHANGED pos /\ (Fired(i) \/ mon'.closed = mon.closed)
  BY <1>1, <1>2, <1>3 DEF Kept
<1>4. CASE BrokerClose(i)
  <2> DEFINE q == pos[i]
             closedAt == IF q.at = "live" THEN "gone" ELSE q.at
  <2>1. q \in Position
    BY <1>1
  <2>2. \/ pos' = [pos EXCEPT ![i] = [q EXCEPT !.at = closedAt]]
        \/ pos' = [pos EXCEPT ![i] = [q EXCEPT !.unsure = TRUE]]
    BY <1>1, <1>4 DEF BrokerClose
  <2>3. \A j \in Ids : j # i => pos'[j] = pos[j]
    BY <1>1, <2>2
  <2>4. /\ pos'[i] \in {[q EXCEPT !.at = closedAt], [q EXCEPT !.unsure = TRUE]}
        /\ pos' \in [Ids -> Position]
    <3>1. closedAt \in {"none", "live", "gone"}
      BY <2>1 DEF Position
    <3> HIDE DEF q, closedAt
    <3>2. [q EXCEPT !.at = closedAt] \in Position /\ [q EXCEPT !.unsure = TRUE] \in Position
      BY <2>1, <3>1 DEF Position
    <3>3. QED
      BY <1>1, <2>2, <3>2
  <2>5. /\ pos'[i].row = q.row /\ pos'[i].side = q.side /\ pos'[i].sl = q.sl
        /\ pos'[i].tp = q.tp /\ pos'[i].stop = q.stop /\ pos'[i].target = q.target
        /\ pos'[i].stale = q.stale
        /\ pos'[i].owner = q.owner /\ pos'[i].signal = q.signal /\ pos'[i].run = q.run
    <3> HIDE DEF q, closedAt
    <3>1. QED
      BY <2>1, <2>4 DEF Position
  <2>6. /\ pos'[i].at = q.at \/ pos'[i].at = "gone"
        /\ pos'[i].at = "none" <=> q.at = "none"
        /\ q.unsure => pos'[i].unsure
        /\ q.at = "live" => pos'[i].at = "gone" \/ pos'[i].unsure
    <3>1. CASE pos'[i] = [q EXCEPT !.at = closedAt]
      <4>1. pos'[i].at = closedAt /\ pos'[i].unsure = q.unsure
        <5> HIDE DEF q, closedAt
        <5>1. QED
          BY <2>1, <3>1 DEF Position
      <4>2. QED
        BY <4>1
    <3>2. CASE pos'[i] = [q EXCEPT !.unsure = TRUE]
      <4>1. pos'[i].at = q.at /\ pos'[i].unsure = TRUE
        <5> HIDE DEF q
        <5>1. QED
          BY <2>1, <3>2 DEF Position
      <4>2. QED
        BY <4>1
    <3>3. QED
      BY <2>4, <3>1, <3>2
  <2>7. Kept(i) /\ pos'[i].row = pos[i].row
    BY <2>5, <2>6 DEF Kept
  <2>8. QED
    BY <1>2, <2>3, <2>4, <2>5, <2>6, <2>7 DEF Kept
<1>5. QED
  BY <1>1, <1>2, <1>3, <1>4 DEF Visit, Tick

LEMMA VisitBase == ASSUME Base, NEW i \in Ids, Visit(i) PROVE Base'
<1>1. UNCHANGED <<bar, price, runner>> /\ bar \in Int /\ i \in mon.todo /\ mon \in Tick
  BY DEF Visit, Base, Types
<1>2. /\ pos' \in [Ids -> Position] /\ mon' \in Tick /\ mon'.at = "visit"
      /\ \A j \in Ids : Kept(j) /\ pos'[j].row = pos[j].row
      /\ mon'.todo \cup mon'.closed \subseteq mon.todo \cup mon.closed
  BY <1>1, Visited DEF Base
<1>3. Types'
  BY <1>1, <1>2 DEF Base, Types
<1>4. Working'
  BY <1>1, <1>2 DEF Base, Working, Tick
<1>5. QED
  BY <1>1, <1>2, <1>3, <1>4, QuietStep DEF Base

\* A commit closes the rows that were found to be closed and nothing else.
LEMMA Committed ==
    ASSUME Types, Working, Commit
    PROVE  /\ pos' \in [Ids -> Position]
           /\ \A i \in Ids :
                 /\ Kept(i) /\ pos'[i].at = pos[i].at /\ pos'[i].unsure = pos[i].unsure
                 /\ pos'[i].side = pos[i].side /\ pos'[i].sl = pos[i].sl /\ pos'[i].tp = pos[i].tp
                 /\ pos'[i].stop = pos[i].stop /\ pos'[i].target = pos[i].target
                 /\ IF i \in mon.closed
                    THEN pos'[i].stale = (i \in mon.younger /\ Fired(i))
                    ELSE pos'[i].row = pos[i].row /\ pos'[i].stale = pos[i].stale
<1>1. pos \in [Ids -> Position]
  BY DEF Types
<1>2. SUFFICES ASSUME NEW i \in Ids
               PROVE  /\ pos'[i] \in Position
                      /\ Kept(i) /\ pos'[i].at = pos[i].at /\ pos'[i].unsure = pos[i].unsure
                      /\ pos'[i].side = pos[i].side /\ pos'[i].sl = pos[i].sl
                      /\ pos'[i].tp = pos[i].tp /\ pos'[i].stop = pos[i].stop
                      /\ pos'[i].target = pos[i].target
                      /\ IF i \in mon.closed
                         THEN pos'[i].stale = (i \in mon.younger /\ Fired(i))
                         ELSE pos'[i].row = pos[i].row /\ pos'[i].stale = pos[i].stale
  BY DEF Commit, ClosedRows
<1> DEFINE q == pos[i]
           b == i \in mon.younger /\ Fired(i)
<1>3. q \in Position /\ b \in BOOLEAN /\ (i \in mon.closed => q.row = "open")
  BY <1>1 DEF Working
<1>4. pos'[i] = IF i \in mon.closed THEN [q EXCEPT !.row = "closed", !.stale = b] ELSE q
  BY DEF Commit, ClosedRows
<1>5. /\ pos'[i] \in Position
      /\ pos'[i].at = q.at /\ pos'[i].unsure = q.unsure
      /\ pos'[i].side = q.side /\ pos'[i].sl = q.sl /\ pos'[i].tp = q.tp
      /\ pos'[i].stop = q.stop /\ pos'[i].target = q.target
      /\ pos'[i].owner = q.owner /\ pos'[i].signal = q.signal /\ pos'[i].run = q.run
      /\ IF i \in mon.closed THEN pos'[i].row = "closed" /\ pos'[i].stale = b
                              ELSE pos'[i].row = q.row /\ pos'[i].stale = q.stale
  <2> HIDE DEF q, b
  <2>1. QED
    BY <1>3, <1>4 DEF Position
<1>6. QED
  BY <1>3, <1>5 DEF Kept

LEMMA CommitBase == ASSUME Base, Commit PROVE Base'
<1>1. UNCHANGED <<bar, price, runner>> /\ bar \in Int /\ mon' = Resting
  BY DEF Commit, Base, Types
<1>2. pos' \in [Ids -> Position] /\ \A i \in Ids : Kept(i)
  BY Committed DEF Base
<1>3. Types' /\ Working'
  BY <1>1, <1>2 DEF Base, Types, Working, Resting, Tick
<1>4. QED
  BY <1>1, <1>2, <1>3, QuietStep DEF Base

LEMMA RollbackBase == ASSUME Base, Rollback PROVE Base'
<1>1. UNCHANGED <<bar, price, pos, runner>> /\ bar \in Int /\ mon' = Resting
  BY DEF Rollback, Base, Types
<1>2. Types' /\ Working'
  BY <1>1 DEF Base, Types, Working, Resting, Tick
<1>3. \A i \in Ids : Kept(i)
  BY <1>1 DEF Kept
<1>4. QED
  BY <1>1, <1>2, <1>3, QuietStep DEF Base

\* What a step of a process does to the positions, but for Persist and SendOrder:
\* nothing.  What must then be shown of the process that moved.
MovedWell(r) ==
    /\ IF runner'[r].at = "persist"
       THEN /\ runner'[r].id \in Ids
            /\ pos'[runner'[r].id].owner = r /\ pos'[runner'[r].id].row = "none"
       ELSE runner'[r].id = None
    /\ runner'[r].at \in {"order", "persist"} => Cardinality(OpenRows(r)') < Cap[r]
    /\ runner'[r].seen # None => runner'[r].seen <= bar - 1
    /\ runner'[r].at \in {"count", "order"} =>
          /\ runner'[r].seen # None /\ runner'[r].setup.bar = runner'[r].seen
          /\ \A i \in Ids : Own(r, i)' => pos'[i].signal < runner'[r].setup.bar
    /\ \A i \in Ids : pos'[i].owner = r =>
          /\ pos'[i].run <= runner'[r].run
          /\ pos'[i].run = runner'[r].run => runner'[r].seen # None
          /\ Own(r, i)' /\ runner'[r].seen # None => pos'[i].signal <= runner'[r].seen
    /\ runner'[r].warm = runner[r].warm

\* Steps of a process that leave the positions alone.
LEMMA ProcessStep ==
    ASSUME Base, NEW r \in Runners, UNCHANGED <<bar, price, pos, mon>>,
           runner' \in [Runners -> Process],
           \A x \in Runners : x # r => runner'[x] = runner[x], MovedWell(r)
    PROVE  Base'
<1>1. Types' /\ Working'
  BY DEF Base, Types, Working
<1>2. Placing'
  BY DEF Base, Placing, MovedWell
<1>3. Room'
  <2>1. \A x \in Runners : OpenRows(x)' = OpenRows(x)
    BY DEF OpenRows
  <2>2. QED
    BY <2>1 DEF Base, Room, MovedWell
<1>4. Once'
  <2>1. \A x \in Runners, i \in Ids : x # r => (Own(x, i)' <=> Own(x, i))
    BY DEF Own
  <2>2. OneEntryPerBar'
    <3>1. \A x \in Runners : runner'[x].warm = runner[x].warm
      BY DEF MovedWell
    <3>2. \A i \in Ids : pos[i].owner \in Runners \cup {None}
      BY DEF Base, Types, Position
    <3>3. OneEntryPerBar
      BY DEF Base, Once
    <3>4. SUFFICES ASSUME NEW i \in Ids, NEW j \in Ids,
                          pos[i].owner = pos[j].owner, pos[i].owner # None,
                          pos[i].signal = pos[j].signal,
                          pos[i].run = pos[j].run \/ runner'[pos[i].owner].warm
                   PROVE  i = j
      BY DEF OneEntryPerBar
    <3>5. pos[i].run = pos[j].run \/ runner[pos[i].owner].warm
      BY <3>1, <3>2, <3>4
    <3>6. QED
      BY <3>3, <3>4, <3>5 DEF OneEntryPerBar
  <2>3. ASSUME NEW x \in Runners
        PROVE  /\ runner'[x].seen # None => runner'[x].seen <= bar' - 1
               /\ runner'[x].at \in {"count", "order"} =>
                     /\ runner'[x].seen # None /\ runner'[x].setup.bar = runner'[x].seen
                     /\ \A i \in Ids : Own(x, i)' => pos'[i].signal < runner'[x].setup.bar
    BY <2>1 DEF Base, Once, MovedWell
  <2>4. ASSUME NEW x \in Runners, NEW i \in Ids, pos'[i].owner = x
        PROVE  /\ pos'[i].signal <= bar' - 1
               /\ pos'[i].run <= runner'[x].run
               /\ pos'[i].run = runner'[x].run => runner'[x].seen # None
               /\ Own(x, i)' /\ runner'[x].seen # None => pos'[i].signal <= runner'[x].seen
    <3>1. pos[i].owner = x
      BY <2>4
    <3>2. CASE x = r
      BY <2>4, <3>1, <3>2 DEF Base, Once, MovedWell
    <3>3. CASE x # r
      BY <2>1, <3>1, <3>3 DEF Base, Once
    <3>4. QED
      BY <3>2, <3>3
  <2>5. QED
    BY <2>2, <2>3, <2>4 DEF Once
<1>5. QED
  BY <1>1, <1>2, <1>3, <1>4 DEF Base

LEMMA FinishedBase ==
    ASSUME Base, NEW r \in Runners, Finished(r), UNCHANGED <<bar, price, pos, mon>>
    PROVE  Base'
<1>1. /\ runner' \in [Runners -> Process]
      /\ \A x \in Runners : x # r => runner'[x] = runner[x]
      /\ runner'[r].at = "idle" /\ runner'[r].id = None
      /\ runner'[r].seen = runner[r].seen /\ runner'[r].run = runner[r].run
      /\ runner'[r].warm = runner[r].warm
  BY FinishedIs DEF Base
<1>2. \A i \in Ids : Own(r, i)' <=> Own(r, i)
  BY <1>1 DEF Own
<1>3. MovedWell(r)
  BY <1>1, <1>2 DEF MovedWell, Base, Once
<1>4. QED
  BY <1>1, <1>3, ProcessStep

LEMMA PollIs ==
    ASSUME Base, NEW r \in Runners, Poll(r)
    PROVE  /\ runner' \in [Runners -> Process]
           /\ \A x \in Runners : x # r => runner'[x] = runner[x]
           /\ runner'[r].seen = bar - 1 /\ runner'[r].id = runner[r].id
           /\ runner'[r].run = runner[r].run /\ runner'[r].warm = runner[r].warm
           /\ \/ runner'[r].at = "idle"
              \/ /\ runner'[r].at = "count" /\ (runner[r].warm => runner[r].seen # None)
                 /\ \E t \in Setups[r] : runner'[r].setup = Signal(t)
<1> DEFINE w == runner[r]
           e == Evaluated
<1>1. w \in Process /\ runner \in [Runners -> Process] /\ e \in Int /\ w.at = "idle"
  BY DEF Base, Types, Evaluated, Poll
<1>2. CASE runner' = [runner EXCEPT ![r].seen = e]
  <2>1. runner' = [runner EXCEPT ![r] = [w EXCEPT !.seen = e]]
    BY <1>1, <1>2
  <2>2. [w EXCEPT !.seen = e] \in Process
    <3> HIDE DEF w, e
    <3>1. QED
      BY <1>1 DEF Process
  <2>3. LET v == [w EXCEPT !.seen = e]
        IN  v.seen = e /\ v.id = w.id /\ v.run = w.run /\ v.warm = w.warm /\ v.at = w.at
    <3> HIDE DEF w, e
    <3>1. QED
      BY <1>1 DEF Process
  <2>4. QED
    BY <1>1, <2>1, <2>2, <2>3 DEF Evaluated
<1>3. ASSUME NEW t \in Setups[r], w.warm => w.seen # None,
             runner' = [runner EXCEPT ![r].seen = e, ![r].at = "count", ![r].setup = Signal(t)]
      PROVE  /\ runner' \in [Runners -> Process]
             /\ \A x \in Runners : x # r => runner'[x] = runner[x]
             /\ runner'[r].seen = e /\ runner'[r].id = w.id
             /\ runner'[r].run = w.run /\ runner'[r].warm = w.warm
             /\ runner'[r].at = "count" /\ runner'[r].setup = Signal(t)
  <2> DEFINE s == Signal(t)
             v == [w EXCEPT !.seen = e, !.at = "count", !.setup = s]
  <2>1. s \in Request
    BY SignalIs DEF Base
  <2>2. runner' = [runner EXCEPT ![r] = v]
    <3> HIDE DEF s, e
    <3>1. runner' = [runner EXCEPT ![r].seen = e, ![r].at = "count", ![r].setup = s]
      BY <1>3 DEF s, e
    <3>2. QED
      BY <1>1, <3>1 DEF Process
  <2>3. /\ v \in Process /\ v.seen = e /\ v.id = w.id /\ v.run = w.run /\ v.warm = w.warm
        /\ v.at = "count" /\ v.setup = s
    <3> HIDE DEF w, e, s
    <3>1. QED
      BY <1>1, <2>1 DEF Process
  <2> HIDE DEF v
  <2>4. QED
    BY <1>1, <2>2, <2>3
<1>4. QED
  BY <1>1, <1>2, <1>3 DEF Poll, Evaluated

LEMMA PollBase == ASSUME Base, NEW r \in Runners, Poll(r) PROVE Base'
<1>1. /\ UNCHANGED <<bar, price, pos, mon>> /\ NewBar(r) /\ runner[r].at = "idle"
      /\ bar \in Int /\ runner[r].seen \in Int \cup {None}
  BY DEF Poll, Base, Types, Process
<1>2. /\ runner' \in [Runners -> Process]
      /\ \A x \in Runners : x # r => runner'[x] = runner[x]
      /\ runner'[r].seen = bar - 1 /\ runner'[r].id = runner[r].id
      /\ runner'[r].run = runner[r].run /\ runner'[r].warm = runner[r].warm
      /\ \/ runner'[r].at = "idle"
         \/ /\ runner'[r].at = "count" /\ (runner[r].warm => runner[r].seen # None)
            /\ \E t \in Setups[r] : runner'[r].setup = Signal(t)
  BY PollIs
<1>3. \A i \in Ids : Own(r, i)' <=> Own(r, i)
  BY <1>1, <1>2 DEF Own
<1>4. runner'[r].id = None
  BY <1>1, <1>2 DEF Base, Placing
<1>5. ASSUME NEW i \in Ids, Own(r, i)
      PROVE  /\ runner[r].seen = None => runner[r].warm
             /\ runner[r].seen # None => pos[i].signal < bar - 1
             /\ pos[i].signal <= bar - 1 /\ pos[i].run <= runner[r].run
  <2>1. pos[i].owner = r /\ pos[i].signal \in Int
    BY <1>5 DEF Own, Base, Types, Position
  <2>2. QED
    BY <1>1, <1>5, <2>1, ConstantsAre DEF Base, Once, Own, NewBar, Evaluated
<1>6. runner'[r].seen # None /\ runner'[r].seen <= bar - 1
  BY <1>1, <1>2, ConstantsAre
<1>7. ASSUME runner'[r].at \in {"count", "order"}
      PROVE  /\ runner'[r].setup.bar = runner'[r].seen
             /\ \A i \in Ids : Own(r, i)' => pos'[i].signal < runner'[r].setup.bar
  <2>1. PICK t \in Setups[r] : runner'[r].setup = Signal(t) /\ (runner[r].warm => runner[r].seen # None)
    BY <1>2, <1>7
  <2>2. runner'[r].setup.bar = bar - 1
    BY <2>1, SignalIs DEF Base
  <2>3. QED
    BY <1>1, <1>2, <1>3, <1>5, <2>1, <2>2
<1>8. ASSUME NEW i \in Ids, pos'[i].owner = r
      PROVE  /\ pos'[i].run <= runner'[r].run
             /\ Own(r, i)' => pos'[i].signal <= runner'[r].seen
  BY <1>1, <1>2, <1>3, <1>5, <1>8 DEF Base, Once
<1>9. MovedWell(r)
  BY <1>2, <1>4, <1>6, <1>7, <1>8 DEF MovedWell
<1>10. QED
  BY <1>1, <1>2, <1>9, ProcessStep

LEMMA CountRowsBase == ASSUME Base, NEW r \in Runners, CountRows(r) PROVE Base'
<1>1. UNCHANGED <<bar, price, pos, mon>> /\ runner[r].at = "count"
      /\ runner \in [Runners -> Process] /\ runner[r] \in Process
  BY DEF CountRows, Base, Types
<1>2. CASE Finished(r)
  BY <1>1, <1>2, FinishedBase
<1>3. CASE Cardinality(OpenRows(r)) < Cap[r] /\ runner' = [runner EXCEPT ![r].at = "order"]
  <2> DEFINE w == runner[r]
             v == [w EXCEPT !.at = "order"]
  <2>1. runner' = [runner EXCEPT ![r] = v]
    BY <1>1, <1>3
  <2>2. /\ v \in Process /\ v.at = "order" /\ v.id = w.id /\ v.seen = w.seen /\ v.run = w.run
        /\ v.warm = w.warm /\ v.setup = w.setup
    <3>1. w \in Process
      BY <1>1
    <3> HIDE DEF w
    <3>2. QED
      BY <3>1 DEF Process
  <2> HIDE DEF v
  <2>3. /\ runner' \in [Runners -> Process] /\ runner'[r] = v
        /\ \A x \in Runners : x # r => runner'[x] = runner[x]
    BY <1>1, <2>1, <2>2
  <2>4. \A i \in Ids : Own(r, i)' <=> Own(r, i)
    BY <1>1, <2>2, <2>3 DEF Own
  <2>5. OpenRows(r)' = OpenRows(r)
    BY <1>1 DEF OpenRows
  <2>6. runner'[r].id = None
    BY <1>1, <2>2, <2>3 DEF Base, Placing
  <2>7. MovedWell(r)
    BY <1>1, <1>3, <2>2, <2>3, <2>4, <2>5, <2>6 DEF MovedWell, Base, Once
  <2>8. QED
    BY <1>1, <2>3, <2>7, ProcessStep
<1>4. Cardinality(OpenRows(r)) \in Nat /\ Cap[r] \in Nat
  BY OpenRowsFinite, ConstantsAre
<1>5. QED
  BY <1>2, <1>3, <1>4 DEF CountRows

LEMMA RestartIs ==
    ASSUME Types, NEW r \in Runners, Restart(r)
    PROVE  /\ runner' \in [Runners -> Process]
           /\ \A x \in Runners : x # r => runner'[x] = runner[x]
           /\ runner'[r].at = "idle" /\ runner'[r].id = None /\ runner'[r].seen = None
           /\ runner'[r].run = runner[r].run + 1 /\ runner'[r].warm = runner[r].warm
<1> DEFINE b == runner[r].warm
           n == runner[r].run + 1
           v == [Started(b) EXCEPT !.run = n]
<1>1. b \in BOOLEAN /\ n \in Nat /\ runner \in [Runners -> Process]
  BY DEF Types, Process
<1>2. runner' = [runner EXCEPT ![r] = v]
  BY <1>1 DEF Restart
<1>3. Started(b) \in Process
  BY <1>1, ConstantsAre DEF Started, Process, NoSetup, Request, Sides
<1>4. Started(b).at = "idle" /\ Started(b).id = None /\ Started(b).seen = None /\ Started(b).warm = b
  BY DEF Started
<1> HIDE DEF b, n
<1>5. /\ v \in Process /\ v.at = "idle" /\ v.id = None /\ v.seen = None
      /\ v.run = n /\ v.warm = b
  BY <1>1, <1>3, <1>4 DEF Process
<1> HIDE DEF v
<1>6. QED
  BY <1>1, <1>2, <1>5 DEF b, n

LEMMA RestartBase == ASSUME Base, NEW r \in Runners, Restart(r) PROVE Base'
<1>1. UNCHANGED <<bar, price, pos, mon>>
  BY DEF Restart
<1>2. /\ runner' \in [Runners -> Process]
      /\ \A x \in Runners : x # r => runner'[x] = runner[x]
      /\ runner'[r].at = "idle" /\ runner'[r].id = None /\ runner'[r].seen = None
      /\ runner'[r].run = runner[r].run + 1 /\ runner'[r].warm = runner[r].warm
  BY RestartIs DEF Base
<1>3. \A i \in Ids : pos'[i].owner = r => pos'[i].run < runner'[r].run
  <2>1. runner[r].run \in Nat /\ \A i \in Ids : pos[i].run \in Nat
    BY DEF Base, Types, Process, Position
  <2>2. QED
    BY <1>1, <1>2, <2>1 DEF Base, Once
<1>4. runner'[r].run \in Nat /\ \A i \in Ids : pos'[i].run \in Nat
  BY <1>1, <1>2 DEF Base, Types, Process, Position
<1>5. MovedWell(r)
  BY <1>2, <1>3, <1>4 DEF MovedWell
<1>6. QED
  BY <1>1, <1>2, <1>5, ProcessStep

\* What an order that the broker accepts does.
LEMMA OrderIs ==
    ASSUME Base, NEW r \in Runners, SendOrder(r), ~(Finished(r) /\ UNCHANGED <<pos, mon>>)
    PROVE  /\ mon' \in Tick /\ mon'.at = mon.at /\ mon'.price = mon.price
           /\ mon'.todo = mon.todo /\ mon'.closed = mon.closed
           /\ mon'.younger = IF mon.at = "priced" THEN mon.younger \cup {Fresh} ELSE mon.younger
           /\ Fresh \in Ids /\ pos[Fresh].at = "none"
           /\ pos' \in [Ids -> Position]
           /\ \A j \in Ids : j # Fresh => pos'[j] = pos[j]
           /\ pos'[Fresh] = Opened(r, runner[r].setup)
           /\ ~Hit(runner[r].setup.side, WidenedStop(runner[r].setup),
                   WidenedTarget(runner[r].setup), price)
           /\ runner' \in [Runners -> Process]
           /\ \A x \in Runners : x # r => runner'[x] = runner[x]
           /\ runner'[r].seen = runner[r].seen /\ runner'[r].run = runner[r].run
           /\ runner'[r].warm = runner[r].warm
           /\ \/ runner'[r].at = "persist" /\ runner'[r].id = Fresh
                 /\ runner'[r].setup = runner[r].setup
              \/ runner'[r].at = "idle" /\ runner'[r].id = None
<1> DEFINE s == runner[r].setup
           p == Opened(r, s)
<1>1. /\ pos \in [Ids -> Position] /\ runner \in [Runners -> Process] /\ runner[r] \in Process
  BY DEF Base, Types
<1>2. p \in Position
  BY OpenedIs DEF Base
<1>3. /\ Free # {} /\ pos' = [pos EXCEPT ![Fresh] = p]
      /\ ~Hit(s.side, WidenedStop(s), WidenedTarget(s), price)
      /\ \/ runner' = [runner EXCEPT ![r].at = "persist", ![r].id = Fresh]
         \/ Finished(r)
  BY DEF SendOrder
<1>4. Fresh \in Ids /\ pos[Fresh].at = "none"
  BY <1>3, FreshIsFree
<1>5. /\ pos' \in [Ids -> Position] /\ pos'[Fresh] = p
      /\ \A j \in Ids : j # Fresh => pos'[j] = pos[j]
  <2> HIDE DEF p
  <2>1. QED
    BY <1>1, <1>2, <1>3, <1>4
<1>9. /\ mon' \in Tick /\ mon'.at = mon.at /\ mon'.price = mon.price
      /\ mon'.todo = mon.todo /\ mon'.closed = mon.closed
      /\ mon'.younger = IF mon.at = "priced" THEN mon.younger \cup {Fresh} ELSE mon.younger
  <2> DEFINE m == mon
             n == Fresh
             y == IF m.at = "priced" THEN m.younger \cup {n} ELSE m.younger
  <2>1. m \in Tick /\ y \in SUBSET Ids
    BY <1>4 DEF Base, Types, Tick
  <2>2. mon' = [m EXCEPT !.younger = y]
    BY <2>1 DEF SendOrder, Tick
  <2>3. mon' \in Tick /\ mon'.at = m.at /\ mon'.price = m.price /\ mon'.todo = m.todo
        /\ mon'.closed = m.closed /\ mon'.younger = y
    <3> HIDE DEF m, y
    <3>1. QED
      BY <2>1, <2>2 DEF Tick
  <2>4. QED
    BY <2>3
<1>6. CASE Finished(r)
  BY <1>3, <1>4, <1>5, <1>6, <1>9, FinishedIs DEF Base
<1>7. CASE runner' = [runner EXCEPT ![r].at = "persist", ![r].id = Fresh]
  <2> DEFINE w == runner[r]
             n == Fresh
             v == [w EXCEPT !.at = "persist", !.id = n]
  <2>1. w \in Process /\ n \in Ids
    BY <1>1, <1>4
  <2>2. runner' = [runner EXCEPT ![r] = v]
    <3> HIDE DEF n
    <3>1. runner' = [runner EXCEPT ![r].at = "persist", ![r].id = n]
      BY <1>7 DEF n
    <3>2. QED
      BY <1>1, <3>1 DEF Process
  <2>3. /\ v \in Process /\ v.seen = w.seen /\ v.id = n /\ v.run = w.run /\ v.warm = w.warm
        /\ v.at = "persist" /\ v.setup = w.setup
    <3> HIDE DEF w, n
    <3>1. QED
      BY <2>1 DEF Process
  <2> HIDE DEF v
  <2>4. /\ runner' \in [Runners -> Process] /\ runner'[r] = v
        /\ \A x \in Runners : x # r => runner'[x] = runner[x]
    BY <1>1, <2>2, <2>3
  <2>5. QED
    BY <1>3, <1>4, <1>5, <1>9, <2>3, <2>4
<1>8. QED
  BY <1>3, <1>6, <1>7

LEMMA SendOrderBase == ASSUME Base, NEW r \in Runners, SendOrder(r) PROVE Base'
<1>1. CASE Finished(r) /\ UNCHANGED <<pos, mon>>
  BY <1>1, FinishedBase DEF SendOrder
<1>2. CASE ~(Finished(r) /\ UNCHANGED <<pos, mon>>)
  <2> DEFINE s == runner[r].setup
  <2>0. PICK n \in Ids : n = Fresh
    BY <1>2, OrderIs
  <2>1. UNCHANGED <<bar, price>> /\ runner[r].at = "order"
    BY DEF SendOrder
  <2>2. /\ mon' \in Tick /\ mon'.at = mon.at /\ mon'.todo = mon.todo /\ mon'.closed = mon.closed
        /\ n \in Ids /\ pos[n].at = "none"
        /\ pos' \in [Ids -> Position]
        /\ \A j \in Ids : j # n => pos'[j] = pos[j]
        /\ runner' \in [Runners -> Process]
        /\ \A x \in Runners : x # r => runner'[x] = runner[x]
        /\ runner'[r].seen = runner[r].seen /\ runner'[r].run = runner[r].run
        /\ runner'[r].warm = runner[r].warm
        /\ \/ runner'[r].at = "persist" /\ runner'[r].id = n
           \/ runner'[r].at = "idle" /\ runner'[r].id = None
    BY <1>2, <2>0, OrderIs
  <2>3. /\ pos'[n].owner = r /\ pos'[n].signal = s.bar /\ pos'[n].run = runner[r].run
        /\ pos'[n].at = "live" /\ pos'[n].row = "none"
    BY <1>2, <2>0, OrderIs, OpenedIs DEF Base
  <2>4. pos[n].owner = None /\ pos[n].row = "none" /\ None \notin Runners
    BY <2>2, ConstantsAre DEF Base, Placing
  <2>5. Types'
    BY <2>1, <2>2 DEF Base, Types
  <2>6. Working'
    BY <2>1, <2>2, <2>4 DEF Base, Working, Types, Tick
  <2>7. Placing'
    <3>1. ASSUME NEW i \in Ids
          PROVE  /\ pos'[i].at = "none" => pos'[i].row = "none" /\ pos'[i].owner = None
                 /\ pos'[i].at # "none" => pos'[i].owner # None
      BY <2>2, <2>3, <2>4 DEF Base, Placing
    <3>2. ASSUME NEW x \in Runners
          PROVE  IF runner'[x].at = "persist"
                 THEN /\ runner'[x].id \in Ids
                      /\ pos'[runner'[x].id].owner = x /\ pos'[runner'[x].id].row = "none"
                 ELSE runner'[x].id = None
      <4>1. CASE x = r
        BY <2>2, <2>3, <4>1
      <4>2. CASE x # r
        <5>1. runner'[x] = runner[x] /\ (runner[x].at = "persist" => runner[x].id # n)
          BY <2>2, <2>4, <4>2 DEF Base, Placing
        <5>2. QED
          BY <2>2, <5>1 DEF Base, Placing
      <4>3. QED
        BY <4>1, <4>2
    <3>3. QED
      BY <3>1, <3>2 DEF Placing
  <2>8. Room'
    <3>1. \A x \in Runners : OpenRows(x)' = OpenRows(x)
      BY <2>2, <2>3, <2>4 DEF OpenRows
    <3>2. QED
      BY <2>1, <2>2, <3>1 DEF Base, Room
  <2>9. Once'
    <3>1. runner[r].seen # None /\ s.bar = runner[r].seen /\ runner[r].seen <= bar - 1
      BY <2>1 DEF Base, Once
    <3>2. \A x \in Runners, j \in Ids : j # n => (Own(x, j)' <=> Own(x, j))
      BY <2>2 DEF Own
    <3>3. \A j \in Ids : Own(r, j) => pos[j].signal < s.bar
      BY <2>1 DEF Base, Once
    <3>4. ASSUME NEW x \in Runners, runner'[x].at \in {"count", "order"}
          PROVE  /\ runner'[x].seen # None /\ runner'[x].setup.bar = runner'[x].seen
                 /\ \A j \in Ids : Own(x, j)' => pos'[j].signal < runner'[x].setup.bar
      <4>1. x # r /\ runner'[x] = runner[x]
        BY <2>2, <3>4
      <4>2. ~Own(x, n)'
        BY <2>3, <4>1 DEF Own
      <4>3. QED
        BY <2>2, <3>2, <3>4, <4>1, <4>2 DEF Base, Once
    <3>5. ASSUME NEW x \in Runners, NEW j \in Ids, pos'[j].owner = x
          PROVE  /\ pos'[j].signal <= bar' - 1
                 /\ pos'[j].run <= runner'[x].run
                 /\ pos'[j].run = runner'[x].run => runner'[x].seen # None
                 /\ Own(x, j)' /\ runner'[x].seen # None => pos'[j].signal <= runner'[x].seen
      <4>1. CASE j = n
        <5>1. runner[r].run \in Nat /\ runner[r].seen \in Int \cup {None} /\ s.bar \in Int
          BY DEF Base, Types, Process, Request
        <5>2. x = r
          BY <2>3, <3>5, <4>1
        <5>3. QED
          BY <2>1, <2>2, <2>3, <3>1, <4>1, <5>1, <5>2
      <4>2. CASE j # n
        <5>1. pos'[j] = pos[j] /\ pos[j].owner = x
          BY <2>2, <3>5, <4>2
        <5>2. runner'[x].seen = runner[x].seen /\ runner'[x].run = runner[x].run
          BY <2>2
        <5>3. QED
          BY <2>1, <3>2, <4>2, <5>1, <5>2 DEF Base, Once
      <4>3. QED
        BY <4>1, <4>2
    <3>6. OneEntryPerBar'
      <4>1. OneEntryPerBar /\ \A x \in Runners : runner'[x].warm = runner[x].warm
        BY <2>2 DEF Base, Once
      <4>2. SUFFICES ASSUME NEW i \in Ids, NEW j \in Ids,
                            pos'[i].owner = pos'[j].owner, pos'[i].owner # None,
                            pos'[i].signal = pos'[j].signal,
                            pos'[i].run = pos'[j].run \/ runner'[pos'[i].owner].warm
                     PROVE  i = j
        BY DEF OneEntryPerBar
      <4>3. pos'[i].owner \in Runners
        BY <2>2, <4>2 DEF Position
      <4>4. CASE i # n /\ j # n
        BY <2>2, <4>1, <4>2, <4>3, <4>4 DEF OneEntryPerBar
      <4>5. ASSUME NEW k \in Ids, k # n, pos'[k].owner = r, pos'[k].signal = s.bar,
                   pos'[k].run = runner[r].run \/ runner[r].warm
            PROVE  FALSE
        <5>1. Own(r, k)
          BY <2>2, <4>5 DEF Own
        <5>2. pos[k].signal = s.bar /\ pos[k].signal \in Int
          BY <2>2, <4>5 DEF Base, Types, Position
        <5>3. QED
          BY <3>3, <5>1, <5>2
      <4>6. CASE i = n /\ j # n
        BY <2>3, <4>1, <4>2, <4>5, <4>6
      <4>7. CASE i # n /\ j = n
        BY <2>3, <4>1, <4>2, <4>5, <4>7
      <4>8. QED
        BY <4>4, <4>6, <4>7
    <3>7. \A x \in Runners : runner'[x].seen # None => runner'[x].seen <= bar' - 1
      BY <2>1, <2>2 DEF Base, Once
    <3>8. QED
      BY <3>4, <3>5, <3>6, <3>7 DEF Once
  <2>10. QED
    BY <2>5, <2>6, <2>7, <2>8, <2>9 DEF Base
<1>3. QED
  BY <1>1, <1>2

\* What the rows of an entry do, when they are written.
LEMMA PersistIs ==
    ASSUME Base, NEW r \in Runners, Persist(r), ~(Finished(r) /\ UNCHANGED pos)
    PROVE  LET n == runner[r].id
               s == runner[r].setup
           IN /\ n \in Ids /\ pos' \in [Ids -> Position]
              /\ \A j \in Ids : j # n => pos'[j] = pos[j]
              /\ pos'[n] = Recorded(pos[n], s)
              /\ runner' \in [Runners -> Process]
              /\ \A x \in Runners : x # r => runner'[x] = runner[x]
              /\ runner'[r].at = "idle" /\ runner'[r].id = None
              /\ runner'[r].seen = runner[r].seen /\ runner'[r].run = runner[r].run
              /\ runner'[r].warm = runner[r].warm
<1> DEFINE w == runner[r]
           n == w.id
           p == Recorded(pos[n], w.setup)
           e == NoSetup
           v == [w EXCEPT !.at = "idle", !.setup = e, !.id = None, !.guard = TRUE, !.last = bar]
<1>1. /\ pos \in [Ids -> Position] /\ runner \in [Runners -> Process] /\ w \in Process
      /\ bar \in Int
  BY DEF Base, Types
<1>2. n \in Ids
  BY DEF Base, Placing, Persist
<1>3. p \in Position
  BY <1>2, RecordedIs DEF Base
<1>4. pos' = [pos EXCEPT ![n] = p] /\ runner' = [runner EXCEPT ![r] = v]
  BY <1>1, <1>2 DEF Persist
<1>5. e \in Request
  BY ConstantsAre DEF NoSetup, Request, Sides
<1>6. /\ v \in Process /\ v.seen = w.seen /\ v.id = None /\ v.run = w.run /\ v.warm = w.warm
      /\ v.at = "idle"
  <2> HIDE DEF w, e
  <2>1. QED
    BY <1>1, <1>5 DEF Process
<1>7. pos' \in [Ids -> Position] /\ pos'[n] = p /\ \A j \in Ids : j # n => pos'[j] = pos[j]
  <2> HIDE DEF p, n, v
  <2>1. QED
    BY <1>1, <1>2, <1>3, <1>4
<1>8. /\ runner' \in [Runners -> Process] /\ runner'[r] = v
      /\ \A x \in Runners : x # r => runner'[x] = runner[x]
  <2> HIDE DEF p, v
  <2>1. QED
    BY <1>1, <1>4, <1>6
<1>9. QED
  BY <1>2, <1>6, <1>7, <1>8

LEMMA PersistBase == ASSUME Base, NEW r \in Runners, Persist(r) PROVE Base'
<1>1. CASE Finished(r) /\ UNCHANGED pos
  BY <1>1, FinishedBase DEF Persist
<1>2. CASE ~(Finished(r) /\ UNCHANGED pos)
  <2> DEFINE n == runner[r].id
  <2>1. UNCHANGED <<bar, price, mon>> /\ runner[r].at = "persist"
    BY DEF Persist
  <2>2. /\ n \in Ids /\ pos' \in [Ids -> Position]
        /\ \A j \in Ids : j # n => pos'[j] = pos[j]
        /\ runner' \in [Runners -> Process]
        /\ \A x \in Runners : x # r => runner'[x] = runner[x]
        /\ runner'[r].at = "idle" /\ runner'[r].id = None
        /\ runner'[r].seen = runner[r].seen /\ runner'[r].run = runner[r].run
        /\ runner'[r].warm = runner[r].warm
    BY <1>2, PersistIs
  <2>3. pos'[n] = Recorded(pos[n], runner[r].setup)
    BY <1>2, PersistIs
  <2>4. /\ pos'[n].owner = pos[n].owner /\ pos'[n].signal = pos[n].signal
        /\ pos'[n].run = pos[n].run /\ pos'[n].at = pos[n].at /\ pos'[n].row = "open"
    BY <2>2, <2>3, RecordedIs DEF Base
  <2>5. pos[n].owner = r /\ pos[n].row = "none" /\ pos[n].at # "none"
    BY <2>1, ConstantsAre DEF Base, Placing
  <2> HIDE DEF n
  <2>6. \A j \in Ids : /\ pos'[j].owner = pos[j].owner /\ pos'[j].signal = pos[j].signal
                       /\ pos'[j].run = pos[j].run /\ pos'[j].at = pos[j].at
    BY <2>2, <2>4
  <2>7. \A x \in Runners : /\ runner'[x].seen = runner[x].seen /\ runner'[x].run = runner[x].run
                           /\ runner'[x].warm = runner[x].warm
    BY <2>2
  <2>8. Types'
    BY <2>1, <2>2 DEF Base, Types
  <2>9. Working'
    BY <2>1, <2>2, <2>4 DEF Base, Working, Types, Tick
  <2>10. Placing'
    <3>1. ASSUME NEW i \in Ids
          PROVE  /\ pos'[i].at = "none" => pos'[i].row = "none" /\ pos'[i].owner = None
                 /\ pos'[i].at # "none" => pos'[i].owner # None
      BY <2>2, <2>5, <2>6 DEF Base, Placing
    <3>2. ASSUME NEW x \in Runners
          PROVE  IF runner'[x].at = "persist"
                 THEN /\ runner'[x].id \in Ids
                      /\ pos'[runner'[x].id].owner = x /\ pos'[runner'[x].id].row = "none"
                 ELSE runner'[x].id = None
      <4>1. CASE x = r
        BY <2>2, <4>1
      <4>2. CASE x # r
        <5>1. runner'[x] = runner[x] /\ (runner[x].at = "persist" => runner[x].id # n)
          BY <2>2, <2>5, <4>2 DEF Base, Placing
        <5>2. QED
          BY <2>2, <5>1 DEF Base, Placing
      <4>3. QED
        BY <4>1, <4>2
    <3>3. QED
      BY <3>1, <3>2 DEF Placing
  <2>11. Room'
    <3>1. SUFFICES ASSUME NEW x \in Runners
                   PROVE  /\ Cardinality(OpenRows(x))' <= Cap[x]
                          /\ runner'[x].at \in {"order", "persist"} =>
                                Cardinality(OpenRows(x))' < Cap[x]
      BY DEF Room
    <3>2. CASE x = r
      <4>1. OpenRows(r)' = OpenRows(r) \cup {n} /\ n \notin OpenRows(r)
        BY <2>2, <2>4, <2>5 DEF OpenRows
      <4>2. IsFiniteSet(OpenRows(r)) /\ Cardinality(OpenRows(r)) \in Nat
        BY OpenRowsFinite
      <4>3. Cardinality(OpenRows(r)') = Cardinality(OpenRows(r)) + 1
        BY <4>1, <4>2, FS_AddElement
      <4>4. Cardinality(OpenRows(r)) < Cap[r] /\ Cap[r] \in Nat
        BY <2>1, ConstantsAre DEF Base, Room
      <4>5. QED
        BY <2>2, <3>2, <4>2, <4>3, <4>4
    <3>3. CASE x # r
      <4>1. OpenRows(x)' = OpenRows(x)
        BY <2>2, <2>4, <2>5, <3>3 DEF OpenRows
      <4>2. QED
        BY <2>2, <3>3, <4>1 DEF Base, Room
    <3>4. QED
      BY <3>2, <3>3
  <2>12. Once'
    <3>1. \A x \in Runners, j \in Ids : Own(x, j)' <=> Own(x, j)
      BY <2>6, <2>7 DEF Own
    <3>2. ASSUME NEW x \in Runners, runner'[x].at \in {"count", "order"}
          PROVE  /\ runner'[x].seen # None /\ runner'[x].setup.bar = runner'[x].seen
                 /\ \A j \in Ids : Own(x, j)' => pos'[j].signal < runner'[x].setup.bar
      <4>1. x # r /\ runner'[x] = runner[x]
        BY <2>2, <3>2
      <4>2. QED
        BY <2>6, <3>1, <3>2, <4>1 DEF Base, Once
    <3>3. ASSUME NEW x \in Runners, NEW j \in Ids, pos'[j].owner = x
          PROVE  /\ pos'[j].signal <= bar' - 1
                 /\ pos'[j].run <= runner'[x].run
                 /\ pos'[j].run = runner'[x].run => runner'[x].seen # None
                 /\ Own(x, j)' /\ runner'[x].seen # None => pos'[j].signal <= runner'[x].seen
      <4>1. pos[j].owner = x /\ pos'[j].signal = pos[j].signal /\ pos'[j].run = pos[j].run
        BY <2>6, <3>3
      <4>2. runner'[x].seen = runner[x].seen /\ runner'[x].run = runner[x].run
        BY <2>7
      <4>3. QED
        BY <2>1, <3>1, <4>1, <4>2 DEF Base, Once
    <3>4. \A x \in Runners : runner'[x].seen # None => runner'[x].seen <= bar' - 1
      BY <2>1, <2>7 DEF Base, Once
    <3>5. OneEntryPerBar'
      <4>1. SUFFICES ASSUME NEW i \in Ids, NEW j \in Ids,
                            pos'[i].owner = pos'[j].owner, pos'[i].owner # None,
                            pos'[i].signal = pos'[j].signal,
                            pos'[i].run = pos'[j].run \/ runner'[pos'[i].owner].warm
                     PROVE  i = j
        BY DEF OneEntryPerBar
      <4>2. pos[i].owner \in Runners /\ pos'[i].owner = pos[i].owner
        BY <2>6, <4>1 DEF Base, Types, Position
      <4>3. pos[i].run = pos[j].run \/ runner[pos[i].owner].warm
        BY <2>6, <2>7, <4>1, <4>2
      <4>4. QED
        BY <2>6, <4>1, <4>2, <4>3 DEF Base, Once, OneEntryPerBar
    <3>6. QED
      BY <3>2, <3>3, <3>4, <3>5 DEF Once
  <2>13. QED
    BY <2>8, <2>9, <2>10, <2>11, <2>12 DEF Base
<1>3. QED
  BY <1>1, <1>2

\* Initially nothing is open, recorded or under way.
LEMMA InitBase == ASSUME Init PROVE Base
<1>1. NoPos \in Position /\ \A w \in BOOLEAN : Started(w) \in Process
  <2>1. NoPos \in Position
    BY DEF NoPos, Position, Sides
  <2>2. NoSetup \in Request
    BY ConstantsAre DEF NoSetup, Request, Sides
  <2>3. \A w \in BOOLEAN : Started(w) \in Process
    BY <2>2 DEF Started, Process
  <2>4. QED
    BY <2>1, <2>3
<1>2. /\ \A i \in Ids : pos[i] = NoPos
      /\ \A r \in Runners : \E w \in BOOLEAN : runner[r] = Started(w)
      /\ mon = Resting /\ bar = 2
  BY DEF Init
<1>3. Types
  <2>1. /\ bar \in 2..(MaxBars + 2) /\ price \in Prices /\ pos \in [Ids -> Position]
        /\ runner \in [Runners -> Process]
    BY <1>1, ConstantsAre DEF Init
  <2>2. mon \in Tick
    BY <1>2 DEF Resting, Tick
  <2>3. QED
    BY <2>1, <2>2 DEF Types
<1>4. \A i \in Ids : pos[i].owner = None /\ pos[i].at = "none" /\ pos[i].row = "none"
  BY <1>2 DEF NoPos
<1>5. \A r \in Runners : runner[r].at = "idle" /\ runner[r].id = None /\ runner[r].seen = None
  <2>1. ASSUME NEW r \in Runners
        PROVE  runner[r].at = "idle" /\ runner[r].id = None /\ runner[r].seen = None
    <3>1. PICK w \in BOOLEAN : runner[r] = Started(w)
      BY <1>2
    <3>2. QED
      BY <3>1 DEF Started
  <2>2. QED
    BY <2>1
<1>6. Placing /\ Working
  BY <1>2, <1>4, <1>5 DEF Placing, Working, Resting
<1>7. Room
  <2>1. \A r \in Runners : OpenRows(r) = {}
    BY <1>4 DEF OpenRows
  <2>2. \A r \in Runners : Cap[r] \in Nat /\ 0 < Cap[r]
    BY ConstantsAre
  <2>3. \A r \in Runners : Cardinality(OpenRows(r)) = 0
    BY <2>1, FS_EmptySet
  <2>4. QED
    BY <1>5, <2>2, <2>3 DEF Room
<1>8. Once
  <2>1. OneEntryPerBar
    BY <1>4 DEF OneEntryPerBar
  <2>2. \A r \in Runners, i \in Ids : pos[i].owner # r
    BY <1>4, ConstantsAre
  <2>3. QED
    BY <1>5, <2>1, <2>2 DEF Once
<1>9. QED
  BY <1>3, <1>6, <1>7, <1>8 DEF Base

\* Every step keeps Base.
LEMMA NextBase == ASSUME Base, [Next]_vars PROVE Base'
<1>1. CASE UNCHANGED vars
  <2>1. UNCHANGED <<bar, price, pos, runner, mon>> /\ bar \in Int
    BY <1>1 DEF vars, Base, Types
  <2>2. Types' /\ Working' /\ \A i \in Ids : Kept(i)
    BY <2>1 DEF Base, Types, Working, Kept
  <2>3. QED
    BY <2>1, <2>2, QuietStep DEF Base
<1>2. CASE BarCloses
  BY <1>2, BarClosesBase
<1>3. CASE PriceMoves
  BY <1>3, PriceMovesBase
<1>4. ASSUME NEW r \in Runners, Poll(r) \/ PlaceEntry(r) \/ Restart(r)
      PROVE  Base'
  BY <1>4, PollBase, CountRowsBase, SendOrderBase, PersistBase, RestartBase DEF PlaceEntry
<1>5. CASE Monitor
  BY <1>5, ReadPriceBase, QueryRowsBase, VisitBase, CommitBase, RollbackBase DEF Monitor
<1>6. QED
  BY <1>1, <1>2, <1>3, <1>4, <1>5 DEF Next

LEMMA BaseHolds == Spec => []Base
<1>1. Init => Base
  BY InitBase
<1>2. Base /\ [Next]_vars => Base'
  BY NextBase
<1>3. QED
  BY <1>1, <1>2, PTL DEF Spec

LEMMA BaseIsTyped == Base => TypeOK
<1>1. ASSUME Base PROVE TypeOK
  <2>1. bar \in 2..(MaxBars + 2) /\ price \in Prices
    BY <1>1 DEF Base, Types
  <2>2. \A i \in Ids :
          /\ pos[i].owner \in Runners \cup {None} /\ pos[i].at \in {"none", "live", "gone"}
          /\ pos[i].row \in {"none", "open", "closed"} /\ pos[i].side \in {"BUY", "SELL"}
          /\ pos[i].row # "none" => pos[i].at # "none"
    BY <1>1 DEF Base, Types, Position, Placing, Sides
  <2>3. \A r \in Runners :
          /\ runner[r].at \in {"idle", "count", "order", "persist"}
          /\ runner[r].id \in Ids \cup {None}
          /\ runner[r].at = "persist" => runner[r].id # None /\ pos[runner[r].id].row = "none"
    BY <1>1, ConstantsAre DEF Base, Types, Process, Placing
  <2>4. /\ mon.at \in {"idle", "priced", "visit"}
        /\ mon.todo \cup mon.closed \cup mon.younger \subseteq Ids
    BY <1>1 DEF Base, Types, Tick
  <2>5. QED
    BY <2>1, <2>2, <2>3, <2>4 DEF TypeOK
<1>2. QED
  BY <1>1

\* The variables have their types; a process that is about to write the rows of a
\* position holds one that has none (entry_manager.py, place_entry()).
THEOREM TypeCorrect == Spec => []TypeOK
BY BaseHolds, BaseIsTyped, PTL

\* One bar leads to one order at most, whatever fails on the way and whichever
\* answers are lost: within a run of a process and, where the first bar is a
\* warm-up, across its restarts (the bar guards of xauusd_runner.py and
\* research_runner.py).
THEOREM OneEntry == Spec => []OneEntryPerBar
<1>1. Base => OneEntryPerBar
  BY DEF Base, Once
<1>2. QED
  BY <1>1, BaseHolds, PTL
-----------------------------------------------------------------------------
(***************************************************************************)
(* Rows and broker agree.                                                  *)
(***************************************************************************)

\* What a step leaves of a position's levels, and of its having left the broker.
SameLevels(i) ==
    /\ pos'[i].side = pos[i].side /\ pos'[i].sl = pos[i].sl /\ pos'[i].tp = pos[i].tp
    /\ pos'[i].stop = pos[i].stop /\ pos'[i].target = pos[i].target
SameOrder(i) == pos'[i].side = pos[i].side /\ pos'[i].stop = pos[i].stop /\ pos'[i].target = pos[i].target
StaysGone(i) ==
    /\ pos[i].at = "gone" => pos'[i].at = "gone"
    /\ pos[i].unsure => pos'[i].unsure
    /\ pos[i].stale => pos'[i].stale

\* Steps in which no position is opened or recorded and the price is the same.
LEMMA LevelsStep ==
    ASSUME Base, Levels, price' = price, runner' = runner,
           \A i \in Ids : /\ SameLevels(i) /\ Kept(i)
                          /\ pos'[i].at = pos[i].at \/ pos'[i].at = "gone"
    PROVE  Levels'
<1>1. \A r \in Runners : runner'[r].at # "idle" => Wide(runner'[r].setup)
  BY DEF Levels
<1>2. ASSUME NEW r \in Runners, runner'[r].at = "persist"
      PROVE  Attached(pos'[runner'[r].id], runner'[r].setup)
  BY <1>2 DEF Base, Placing, Levels, Attached, SameLevels
<1>3. ASSUME NEW i \in Ids, pos'[i].row # "none"
      PROVE  pos'[i].stop = pos'[i].sl /\ pos'[i].target = pos'[i].tp
  BY <1>3 DEF Levels, SameLevels, Kept
<1>4. ASSUME NEW i \in Ids, pos'[i].at = "live"
      PROVE  ~Hit(pos'[i].side, pos'[i].stop, pos'[i].target, price')
  BY <1>4 DEF Levels, SameLevels
<1>5. QED
  BY <1>1, <1>2, <1>3, <1>4 DEF Levels

\* Steps in which the monitor rests.
LEMMA VisitingStep ==
    ASSUME Base, Visiting, mon' = mon,
           \A i \in Ids : pos[i].row = "open" => SameLevels(i) /\ StaysGone(i),
           \A i \in Ids : pos'[i].at = "live" => pos[i].at = "live" /\ SameOrder(i)
    PROVE  Visiting'
<1>1. \A i \in mon.todo \cup mon.closed : i \in Ids /\ SameLevels(i) /\ StaysGone(i)
  BY DEF Base, Working, Types, Tick
<1>2. mon.at = "priced" => \A i \in Ids \ mon.younger : pos'[i].at = "live" => ~Judged(i)'
  BY DEF Visiting, Judged, SameOrder
<1>3. QED
  BY <1>1, <1>2 DEF Visiting, Fired, Left, SameLevels, StaysGone

\* Steps in which no row is closed.
LEMMA ClosedStep ==
    ASSUME ClosedIsFlat, \A i \in Ids : pos'[i].row = "closed" => pos[i].row = "closed" /\ StaysGone(i)
    PROVE  ClosedIsFlat'
BY DEF ClosedIsFlat, StaysGone

LEMMA BarClosesFlat == ASSUME Base, Flat, BarCloses PROVE Flat'
BY DEF BarCloses, Flat, Levels, Visiting, ClosedIsFlat, Fired, Left, Judged

LEMMA PriceMovesFlat == ASSUME Base, Flat, PriceMoves PROVE Flat'
<1>1. runner' = runner /\ mon' = mon
  BY DEF PriceMoves
<1>2. ASSUME NEW i \in Ids
      PROVE  /\ SameLevels(i) /\ StaysGone(i) /\ Kept(i) /\ pos'[i].row = pos[i].row
             /\ pos'[i].at = "live" => pos[i].at = "live" /\ SameOrder(i)
             /\ pos'[i].at = "live" => ~Hit(pos'[i].side, pos'[i].stop, pos'[i].target, price')
  BY Closing DEF Base, SameLevels, SameOrder, StaysGone
<1>3. Levels'
  <2>1. \A r \in Runners : runner'[r].at # "idle" => Wide(runner'[r].setup)
    BY <1>1 DEF Flat, Levels
  <2>2. ASSUME NEW r \in Runners, runner'[r].at = "persist"
        PROVE  Attached(pos'[runner'[r].id], runner'[r].setup)
    BY <1>1, <1>2, <2>2 DEF Base, Placing, Flat, Levels, Attached, SameLevels
  <2>3. ASSUME NEW i \in Ids, pos'[i].row # "none"
        PROVE  pos'[i].stop = pos'[i].sl /\ pos'[i].target = pos'[i].tp
    BY <1>2, <2>3 DEF Flat, Levels, SameLevels
  <2>4. QED
    BY <1>2, <2>1, <2>2, <2>3 DEF Levels
<1>4. QED
  BY <1>1, <1>2, <1>3, VisitingStep, ClosedStep DEF Flat

LEMMA ReadPriceFlat == ASSUME Base, Flat, ReadPrice PROVE Flat'
<1>1. /\ UNCHANGED <<price, pos, runner>>
      /\ mon'.price = price /\ mon'.todo = {} /\ mon'.closed = {}
  BY DEF ReadPrice, Resting
<1>2. \A i \in Ids : pos'[i].at = "live" => ~Judged(i)'
  BY <1>1 DEF Flat, Levels, Judged
<1>3. Visiting'
  BY <1>1, <1>2 DEF Visiting
<1>4. QED
  BY <1>1, <1>3 DEF Flat, Levels, ClosedIsFlat

LEMMA QueryRowsFlat == ASSUME Base, Flat, NEW f \in BOOLEAN, QueryRows(f) PROVE Flat'
<1>1. UNCHANGED <<price, pos, runner>> /\ mon.at = "priced" /\ mon.closed = {}
  BY DEF QueryRows, Base, Working
<1>2. /\ mon'.at = "visit" /\ mon'.price = mon.price /\ mon'.closed = {}
      /\ mon'.todo = {i \in Ids : pos[i].row = "open"}
      /\ mon'.younger = mon.younger \cap mon'.todo
  BY <1>1, Queried DEF Base
<1>3. ASSUME NEW i \in mon'.todo \ mon'.younger, Fired(i)'
      PROVE  pos'[i].at = "gone"
  <2>1. i \in Ids \ mon.younger /\ pos[i].row = "open"
    BY <1>2, <1>3
  <2>2. Judged(i)
    BY <1>1, <1>2, <1>3, <2>1 DEF Fired, Judged, Flat, Levels
  <2>3. pos[i].at # "live" /\ pos[i].at # "none" /\ pos[i].at \in {"none", "live", "gone"}
    BY <1>1, <2>1, <2>2 DEF Flat, Visiting, Base, Placing, Types, Position
  <2>4. QED
    BY <1>1, <2>3
<1>4. Visiting'
  BY <1>2, <1>3 DEF Visiting
<1>5. QED
  BY <1>1, <1>4 DEF Flat, Levels, ClosedIsFlat

LEMMA VisitFlat == ASSUME Base, Flat, NEW i \in Ids, Visit(i) PROVE Flat'
<1>1. UNCHANGED <<price, runner>> /\ i \in mon.todo /\ mon.todo \cup mon.closed \subseteq Ids
  BY DEF Visit, Base, Types, Tick
<1>2. /\ pos' \in [Ids -> Position]
      /\ \A j \in Ids :
            /\ SameLevels(j) /\ Kept(j) /\ pos'[j].row = pos[j].row
            /\ pos'[j].at = pos[j].at \/ pos'[j].at = "gone"
            /\ (pos[j].unsure => pos'[j].unsure) /\ pos'[j].stale = pos[j].stale
      /\ mon'.price = mon.price /\ mon'.todo = mon.todo \ {i}
      /\ mon'.younger = mon.younger /\ mon'.at = "visit"
  BY Visited DEF Base, SameLevels
<1>3. \/ mon'.closed = mon.closed
      \/ mon'.closed = mon.closed \cup {i} /\ Fired(i)
      \/ /\ mon'.closed = mon.closed \cup {i}
         /\ pos[i].at = "live" => pos'[i].at = "gone" \/ pos'[i].unsure
  BY Visited DEF Base
<1>4. \A j \in Ids : StaysGone(j)
  BY <1>2 DEF StaysGone
<1>5. Levels'
  BY <1>1, <1>2, LevelsStep DEF Flat
<1>6. ClosedIsFlat'
  BY <1>2, <1>4, ClosedStep DEF Flat
<1>7. Visiting'
  <2>1. \A j \in mon'.todo \ mon'.younger : Fired(j)' => pos'[j].at = "gone"
    BY <1>1, <1>2, <1>4 DEF Flat, Visiting, Fired, SameLevels, StaysGone
  <2>2. \A j \in Ids : Fired(j)' = Fired(j)
    BY <1>2 DEF Fired, SameLevels
  <2> DEFINE Ok(j) == Left(j)' \/ (j \in mon.younger /\ Fired(j))
  <2>3. \A j \in mon.closed : Ok(j)
    BY <1>1, <1>4 DEF Flat, Visiting, Left, StaysGone
  <2>4. mon'.closed # mon.closed => Ok(i)
    <3>1. pos[i].row = "open" /\ pos[i].at \in {"none", "live", "gone"}
      BY <1>1 DEF Base, Working, Types, Position
    <3>2. pos[i].at # "none"
      BY <3>1 DEF Base, Placing
    <3>3. Fired(i) => pos[i].at = "gone" \/ i \in mon.younger
      BY <1>1 DEF Flat, Visiting
    <3>4. QED
      BY <1>3, <1>4, <3>1, <3>2, <3>3 DEF Left, StaysGone
  <2>5. mon'.closed \subseteq mon.closed \cup {i}
    BY <1>3
  <2>6. ASSUME NEW j \in mon'.closed PROVE Left(j)' \/ (j \in mon'.younger /\ Fired(j)')
    <3>1. CASE j \in mon.closed
      BY <1>1, <1>2, <2>2, <2>3, <3>1
    <3>2. CASE j \notin mon.closed
      BY <1>1, <1>2, <2>2, <2>4, <2>5, <2>6, <3>2
    <3>3. QED
      BY <3>1, <3>2
  <2>7. QED
    BY <1>2, <2>1, <2>6 DEF Visiting
<1>8. QED
  BY <1>5, <1>6, <1>7 DEF Flat

LEMMA CommitFlat == ASSUME Base, Flat, Commit PROVE Flat'
<1>1. UNCHANGED <<price, runner>> /\ mon' = Resting
  BY DEF Commit
<1>2. ASSUME NEW i \in Ids
      PROVE  /\ SameLevels(i) /\ Kept(i) /\ pos'[i].at = pos[i].at /\ pos'[i].unsure = pos[i].unsure
             /\ IF i \in mon.closed
                THEN pos'[i].stale = (i \in mon.younger /\ Fired(i))
                ELSE pos'[i].row = pos[i].row /\ pos'[i].stale = pos[i].stale
  BY Committed DEF Base, SameLevels
<1>3. Levels'
  BY <1>1, <1>2, LevelsStep DEF Flat
<1>4. Visiting'
  BY <1>1 DEF Visiting, Resting
<1>5. ClosedIsFlat'
  BY <1>2 DEF Flat, ClosedIsFlat, Visiting, Left
<1>6. QED
  BY <1>3, <1>4, <1>5 DEF Flat

LEMMA RollbackFlat == ASSUME Base, Flat, Rollback PROVE Flat'
BY DEF Rollback, Resting, Flat, Levels, Visiting, ClosedIsFlat

\* A process moves and the positions stay as they are.
LEMMA ProcessFlat ==
    ASSUME Flat, NEW r \in Runners, UNCHANGED <<price, pos, mon>>,
           \A x \in Runners : x # r => runner'[x] = runner[x],
           runner'[r].at # "idle" => runner'[r].at # "persist" /\ Wide(runner'[r].setup)
    PROVE  Flat'
<1>1. \A x \in Runners : runner'[x].at # "idle" => Wide(runner'[x].setup)
  BY DEF Flat, Levels
<1>2. \A x \in Runners : runner'[x].at = "persist" => Attached(pos'[runner'[x].id], runner'[x].setup)
  BY DEF Flat, Levels
<1>3. Levels'
  BY <1>1, <1>2 DEF Flat, Levels
<1>4. QED
  BY <1>3 DEF Flat, Visiting, Fired, Left, Judged, ClosedIsFlat

LEMMA FinishedFlat ==
    ASSUME Base, Flat, NEW r \in Runners, Finished(r), UNCHANGED <<price, pos, mon>>
    PROVE  Flat'
BY FinishedIs, ProcessFlat DEF Base

LEMMA PollFlat == ASSUME Base, Flat, WideSetups, NEW r \in Runners, Poll(r) PROVE Flat'
<1>1. UNCHANGED <<price, pos, mon>> /\ \A x \in Runners : x # r => runner'[x] = runner[x]
  BY PollIs DEF Poll
<1>2. \/ runner'[r].at = "idle"
      \/ runner'[r].at = "count" /\ \E t \in Setups[r] : runner'[r].setup = Signal(t)
  BY PollIs
<1>3. \A t \in Setups[r] : Wide(Signal(t))
  BY SignalIs DEF Base, WideSetups
<1>4. QED
  BY <1>1, <1>2, <1>3, ProcessFlat

LEMMA CountRowsFlat == ASSUME Base, Flat, NEW r \in Runners, CountRows(r) PROVE Flat'
<1>1. CASE Finished(r)
  BY <1>1, FinishedFlat DEF CountRows
<1>2. CASE runner' = [runner EXCEPT ![r].at = "order"]
  <2>1. runner \in [Runners -> Process] /\ runner[r].at = "count"
    BY DEF Base, Types, CountRows
  <2>2. /\ runner'[r].at = "order" /\ runner'[r].setup = runner[r].setup
        /\ \A x \in Runners : x # r => runner'[x] = runner[x]
    BY <1>2, <2>1 DEF Process
  <2>3. Wide(runner[r].setup)
    BY <2>1 DEF Flat, Levels
  <2>4. QED
    BY <2>2, <2>3, ProcessFlat DEF CountRows
<1>3. QED
  BY <1>1, <1>2 DEF CountRows

LEMMA SendOrderFlat == ASSUME Base, Flat, NEW r \in Runners, SendOrder(r) PROVE Flat'
<1>1. CASE Finished(r) /\ UNCHANGED <<pos, mon>>
  BY <1>1, FinishedFlat DEF SendOrder
<1>2. CASE ~(Finished(r) /\ UNCHANGED <<pos, mon>>)
  <2> DEFINE s == runner[r].setup
  <2>1. PICK n \in Ids : n = Fresh
    BY <1>2, OrderIs
  <2>2. price' = price /\ runner[r].at = "order"
    BY DEF SendOrder
  <2>3. /\ mon'.at = mon.at /\ mon'.price = mon.price /\ mon'.todo = mon.todo
        /\ mon'.closed = mon.closed
        /\ mon'.younger = IF mon.at = "priced" THEN mon.younger \cup {n} ELSE mon.younger
        /\ pos[n].at = "none" /\ pos' \in [Ids -> Position]
        /\ \A j \in Ids : j # n => pos'[j] = pos[j]
        /\ ~Hit(s.side, WidenedStop(s), WidenedTarget(s), price)
        /\ \A x \in Runners : x # r => runner'[x] = runner[x]
        /\ \/ runner'[r].at = "persist" /\ runner'[r].id = n /\ runner'[r].setup = s
           \/ runner'[r].at = "idle" /\ runner'[r].id = None
    BY <1>2, <2>1, OrderIs
  <2>4. Wide(s)
    BY <2>2 DEF Flat, Levels
  <2>5. /\ pos'[n].side = s.side /\ pos'[n].stop = WidenedStop(s)
        /\ pos'[n].target = WidenedTarget(s) /\ pos'[n].row = "none"
        /\ pos'[n].stop = s.sl /\ pos'[n].target = s.tp
    BY <1>2, <2>1, <2>4, OrderIs, OpenedIs DEF Base
  <2>6. pos[n].owner = None /\ pos[n].row = "none" /\ None \notin Runners
    BY <2>3, ConstantsAre DEF Base, Placing
  <2> HIDE DEF s
  <2>7. Levels'
    <3>1. \A x \in Runners : runner'[x].at # "idle" => Wide(runner'[x].setup)
      BY <2>3, <2>4 DEF Flat, Levels
    <3>2. ASSUME NEW x \in Runners, runner'[x].at = "persist"
          PROVE  Attached(pos'[runner'[x].id], runner'[x].setup)
      <4>1. CASE x = r
        BY <2>3, <2>5, <3>2, <4>1 DEF Attached
      <4>2. CASE x # r
        <5>1. runner'[x] = runner[x] /\ runner[x].id \in Ids /\ runner[x].id # n
          BY <2>3, <2>6, <3>2, <4>2 DEF Base, Placing
        <5>2. QED
          BY <2>3, <3>2, <5>1 DEF Flat, Levels
      <4>3. QED
        BY <4>1, <4>2
    <3>3. \A i \in Ids : pos'[i].row # "none" => pos'[i].stop = pos'[i].sl /\ pos'[i].target = pos'[i].tp
      BY <2>3, <2>5 DEF Flat, Levels
    <3>4. ASSUME NEW i \in Ids, pos'[i].at = "live"
          PROVE  ~Hit(pos'[i].side, pos'[i].stop, pos'[i].target, price')
      <4>1. CASE i = n
        BY <2>2, <2>3, <2>5, <4>1
      <4>2. CASE i # n
        BY <2>2, <2>3, <3>4, <4>2 DEF Flat, Levels
      <4>3. QED
        BY <4>1, <4>2
    <3>5. QED
      BY <3>1, <3>2, <3>3, <3>4 DEF Levels
  <2>8. Visiting'
    <3>1. \A i \in mon.todo \cup mon.closed : i \in Ids /\ i # n
      BY <2>6 DEF Base, Working, Types, Tick
    <3>2. ASSUME mon'.at = "priced", NEW i \in Ids \ mon'.younger, pos'[i].at = "live"
          PROVE  ~Judged(i)'
      BY <2>3, <3>2 DEF Flat, Visiting, Judged
    <3>3. \A i \in mon'.todo \ mon'.younger : Fired(i)' => pos'[i].at = "gone"
      BY <2>3, <3>1 DEF Flat, Visiting, Fired
    <3>4. \A i \in mon'.closed : Left(i)' \/ (i \in mon'.younger /\ Fired(i)')
      BY <2>3, <3>1 DEF Flat, Visiting, Fired, Left
    <3>5. QED
      BY <3>2, <3>3, <3>4 DEF Visiting
  <2>9. ClosedIsFlat'
    BY <2>3, <2>5, ClosedStep DEF Flat, StaysGone
  <2>10. QED
    BY <2>7, <2>8, <2>9 DEF Flat
<1>3. QED
  BY <1>1, <1>2

LEMMA PersistFlat == ASSUME Base, Flat, NEW r \in Runners, Persist(r) PROVE Flat'
<1>1. CASE Finished(r) /\ UNCHANGED pos
  BY <1>1, FinishedFlat DEF Persist
<1>2. CASE ~(Finished(r) /\ UNCHANGED pos)
  <2> DEFINE s == runner[r].setup
  <2>1. PICK n \in Ids : n = runner[r].id
    BY <1>2, PersistIs
  <2>2. UNCHANGED <<price, mon>> /\ runner[r].at = "persist"
    BY DEF Persist
  <2>3. /\ pos' \in [Ids -> Position]
        /\ \A j \in Ids : j # n => pos'[j] = pos[j]
        /\ \A x \in Runners : x # r => runner'[x] = runner[x]
        /\ runner'[r].at = "idle"
    BY <1>2, <2>1, PersistIs
  <2>4. /\ pos'[n].side = pos[n].side /\ pos'[n].stop = pos[n].stop
        /\ pos'[n].target = pos[n].target /\ pos'[n].at = pos[n].at
        /\ pos'[n].unsure = pos[n].unsure
        /\ pos'[n].sl = s.sl /\ pos'[n].tp = s.tp /\ pos'[n].row = "open"
    BY <1>2, <2>1, PersistIs, RecordedIs DEF Base
  <2>5. pos[n].owner = r /\ pos[n].row = "none" /\ Attached(pos[n], s)
    BY <2>1, <2>2 DEF Base, Placing, Flat, Levels
  <2> HIDE DEF s
  <2>6. Levels'
    <3>1. \A x \in Runners : runner'[x].at # "idle" => Wide(runner'[x].setup)
      BY <2>3 DEF Flat, Levels
    <3>2. ASSUME NEW x \in Runners, runner'[x].at = "persist"
          PROVE  Attached(pos'[runner'[x].id], runner'[x].setup)
      <4>1. x # r /\ runner'[x] = runner[x]
        BY <2>3, <3>2
      <4>2. runner[x].id \in Ids /\ runner[x].id # n
        BY <2>5, <3>2, <4>1 DEF Base, Placing
      <4>3. QED
        BY <2>3, <3>2, <4>1, <4>2 DEF Flat, Levels
    <3>3. ASSUME NEW i \in Ids, pos'[i].row # "none"
          PROVE  pos'[i].stop = pos'[i].sl /\ pos'[i].target = pos'[i].tp
      <4>1. CASE i = n
        BY <2>4, <2>5, <4>1 DEF Attached
      <4>2. CASE i # n
        BY <2>3, <3>3, <4>2 DEF Flat, Levels
      <4>3. QED
        BY <4>1, <4>2
    <3>4. ASSUME NEW i \in Ids, pos'[i].at = "live"
          PROVE  ~Hit(pos'[i].side, pos'[i].stop, pos'[i].target, price')
      <4>1. CASE i = n
        BY <2>2, <2>4, <3>4, <4>1 DEF Flat, Levels
      <4>2. CASE i # n
        BY <2>2, <2>3, <3>4, <4>2 DEF Flat, Levels
      <4>3. QED
        BY <4>1, <4>2
    <3>5. QED
      BY <3>1, <3>2, <3>3, <3>4 DEF Levels
  <2>7. Visiting'
    BY <2>2, <2>3, <2>4, <2>5, VisitingStep DEF Flat, SameLevels, SameOrder, StaysGone
  <2>8. ClosedIsFlat'
    BY <2>3, <2>4, ClosedStep DEF Flat, StaysGone
  <2>9. QED
    BY <2>6, <2>7, <2>8 DEF Flat
<1>3. QED
  BY <1>1, <1>2

LEMMA RestartFlat == ASSUME Base, Flat, NEW r \in Runners, Restart(r) PROVE Flat'
BY RestartIs, ProcessFlat DEF Base, Restart

LEMMA InitFlat == ASSUME Init PROVE Flat
<1>1. /\ \A i \in Ids : pos[i].at = "none" /\ pos[i].row = "none"
      /\ \A r \in Runners : runner[r].at = "idle"
      /\ mon.at = "idle" /\ mon.todo = {} /\ mon.closed = {}
  BY DEF Init, NoPos, Started, Resting
<1>2. QED
  BY <1>1 DEF Flat, Levels, Visiting, ClosedIsFlat

\* Every step keeps Flat, if the strategies ask for levels the broker attaches.
LEMMA NextFlat == ASSUME Base, Flat, WideSetups, [Next]_vars PROVE Flat'
<1>1. CASE UNCHANGED vars
  BY <1>1 DEF vars, Flat, Levels, Visiting, ClosedIsFlat, Fired, Left, Judged
<1>2. CASE BarCloses
  BY <1>2, BarClosesFlat
<1>3. CASE PriceMoves
  BY <1>3, PriceMovesFlat
<1>4. ASSUME NEW r \in Runners, Poll(r) \/ PlaceEntry(r) \/ Restart(r)
      PROVE  Flat'
  BY <1>4, PollFlat, CountRowsFlat, SendOrderFlat, PersistFlat, RestartFlat DEF PlaceEntry
<1>5. CASE Monitor
  BY <1>5, ReadPriceFlat, QueryRowsFlat, VisitFlat, CommitFlat, RollbackFlat DEF Monitor
<1>6. QED
  BY <1>1, <1>2, <1>3, <1>4, <1>5 DEF Next

LEMMA FlatHolds == ASSUME WideSetups PROVE Spec => []Flat
<1>1. Init => Flat
  BY InitFlat
<1>2. Base /\ Flat /\ [Next]_vars => Flat'
  BY NextFlat
<1>3. QED
  BY <1>1, <1>2, BaseHolds, PTL DEF Spec

\* What the rows call closed has left the broker, unless a request to close it was
\* not confirmed, or the order was sent between the monitor's request for the price
\* and its query of the rows (position_monitor.py, run() and _check_triggers()): the
\* monitor closes a row by the signal's levels, and where the broker attached those
\* it has closed every other position before the monitor looks, whatever
\* transactions fail in between.
THEOREM RowsAreFlat == ASSUME WideSetups PROVE Spec => []ClosedIsFlat
<1>1. Flat => ClosedIsFlat
  BY DEF Flat
<1>2. QED
  BY <1>1, FlatHolds, PTL

\* The positions a strategy holds are its open rows and the one it is recording.
LEMMA HeldIsCapped == Base /\ Flat => CapHolds
<1>1. SUFFICES ASSUME Base, Flat, NEW r \in Runners
               PROVE  Cardinality(Held(r)) <= Cap[r]
  BY DEF CapHolds
<1> DEFINE O == OpenRows(r)
<1>2. IsFiniteSet(O) /\ Cardinality(O) \in Nat /\ Cap[r] \in Nat
  BY OpenRowsFinite, ConstantsAre
<1>3. ASSUME NEW i \in Held(r), i # runner[r].id PROVE i \in O
  <2>1. /\ i \in Ids /\ pos[i].owner = r /\ pos[i].at = "live" /\ ~pos[i].unsure
        /\ ~pos[i].stale /\ pos[i].row # "none" /\ pos[i].row \in {"none", "open", "closed"}
    BY <1>1, <1>3 DEF Held, Base, Types, Position
  <2>2. pos[i].row # "closed"
    BY <1>1, <2>1 DEF Flat, ClosedIsFlat
  <2>3. QED
    BY <2>1, <2>2 DEF OpenRows
<1>4. CASE runner[r].at = "persist"
  <2>1. Held(r) \subseteq O \cup {runner[r].id}
    BY <1>3
  <2>2. Cardinality(O) < Cap[r]
    BY <1>1, <1>4 DEF Base, Room
  <2>3. /\ IsFiniteSet(O \cup {runner[r].id})
        /\ Cardinality(O \cup {runner[r].id}) \in Nat
        /\ Cardinality(O \cup {runner[r].id}) <= Cardinality(O) + 1
    <3> HIDE DEF O
    <3>1. /\ IsFiniteSet(O \cup {runner[r].id})
          /\ Cardinality(O \cup {runner[r].id}) =
                IF runner[r].id \in O THEN Cardinality(O) ELSE Cardinality(O) + 1
      BY <1>2, FS_AddElement
    <3>2. QED
      BY <1>2, <3>1
  <2>4. Cardinality(Held(r)) <= Cardinality(O \cup {runner[r].id}) /\ Cardinality(Held(r)) \in Nat
    BY <2>1, <2>3, FS_Subset, FS_CardinalityType
  <2>5. QED
    BY <1>2, <2>2, <2>3, <2>4
<1>5. CASE runner[r].at # "persist"
  <2>1. runner[r].id = None /\ None \notin Ids
    BY <1>1, <1>5, ConstantsAre DEF Base, Placing
  <2>2. Held(r) \subseteq O
    BY <1>3, <2>1 DEF Held
  <2>3. Cardinality(Held(r)) <= Cardinality(O) /\ Cardinality(Held(r)) \in Nat
    BY <1>2, <2>2, FS_Subset, FS_CardinalityType
  <2>4. QED
    BY <1>1, <1>2, <2>3 DEF Base, Room
<1>6. QED
  BY <1>4, <1>5

\* The positions a strategy has at the broker, recorded or about to be, never
\* exceed its cap, although the cap is checked against the rows only
\* (entry_manager.py, place_entry()): all but those whose rows were closed without
\* the broker's confirmation or by a price older than their order.
THEOREM CapIsKept == ASSUME WideSetups PROVE Spec => []CapHolds
<1>1. Base /\ Flat => CapHolds
  BY HeldIsCapped
<1>2. QED
  BY <1>1, BaseHolds, FlatHolds, PTL
=============================================================================
