-------------------------- MODULE MarketData_proofs --------------------------
(***************************************************************************)
(* Proofs about MarketData, for any candles, days, faults and programs     *)
(* that run together: what the table holds is the candles' own, each       *)
(* writer's account of what it has written is right, and what the reader   *)
(* shows has no gap.                                                       *)
(***************************************************************************)
EXTENDS MarketData, FiniteSetTheorems, SequenceTheorems, WellFoundedInduction, TLAPS

Ticks == Seq(Int)
Polled == [n : 0..MaxCandles, shape : Shapes \cup {NoCandle.shape}]
Collector == [at : {"idle", "insert", "down"}, last : 0..MaxCandles, got : Polled]
Backfill == [at : {"off", "fetch", "page", "insert", "done"}, day : 1..(FillDays + 1),
             cursor : Nat, errors : Nat, groups : SUBSET Places]
Load == [at : {"off", "load", "done"}, files : SUBSET Files, rest : SUBSET Places]
Reader == [at : {"idle", "page"}, began : Nat, cur : Nat, pages : Nat, rows : SUBSET Nat,
           moved : BOOLEAN, kept : SUBSET Nat, shown : SUBSET Nat, upto : Nat]

Types ==
    /\ tape \in Seq(Shapes) /\ Len(tape) \in Past..MaxCandles
    /\ ltp \in [Places -> Ticks]
    /\ live \in Collector
    /\ cache \in [1..FillDays -> SUBSET Places]
    /\ fill \in Backfill
    /\ hist \in Load
    /\ reader \in Reader

\* A candle in the table is complete, and its ticks are those it splits into.
Written == \A c \in Places : ltp[c] # <<>> => c <= Len(tape) /\ ltp[c] = Split(tape[c])

\* The collector holds a complete candle with the prices it ended with, and the
\* last one it remembers is in the table.
Collected ==
    /\ live.at = "insert" => /\ live.got.n \in 1..Len(tape)
                             /\ live.got.shape = tape[live.got.n]
    /\ live.last <= Len(tape)
    /\ live.last # 0 => ltp[live.last] # <<>>

\* A fetched day holds what its pages ask for, and nothing that forms or lies
\* beyond the end of its window.
Window(d) == Day(d) \cup {Ends(d)}
Got(d, s) == Asked(d) \subseteq s /\ s \subseteq Window(d) /\ s \subseteq 1..Len(tape)

\* A page begins at one of the places that are not asked for, and all that is
\* asked for before it has been gathered.
Paging ==
    /\ fill.cursor \in Day(fill.day) /\ fill.cursor \in PageStarts(fill.day)
    /\ fill.groups \subseteq Window(fill.day) /\ fill.groups \subseteq 1..Len(tape)
    /\ \A c \in Asked(fill.day) : c < fill.cursor => c \in fill.groups

\* A backfill begins when its days are over, so that a day it caches is all there,
\* and has stored the days behind it if it counted no error.
Filled ==
    /\ \A d \in 1..FillDays : cache[d] = {} \/ Got(d, cache[d])
    /\ fill.at # "off" => FillDays * PerDay <= Len(tape)
    /\ fill.at \in {"fetch", "page", "insert"} => fill.day <= FillDays
    /\ fill.at = "done" => fill.day = FillDays + 1
    /\ fill.at = "page" => Paging
    /\ fill.at = "insert" => Got(fill.day, fill.groups)
    /\ fill.errors = 0 => \A d \in 1..(fill.day - 1) : Stored(Asked(d))

\* The files hold candles that are complete.
Loaded == hist.rest \subseteq 1..Len(tape)

\* The rows of a fetch are the candles from its first on, up to the one before
\* the next page, unless a page ended with the candle that was forming then: that
\* one is left out, and the next page begins after all that can be complete.
\* Whether the rows reach the newest candle of the beginning is settled then.
First == FirstOf(reader.began)
Gapless(k) ==
    /\ reader.rows = First..k /\ First - 1 <= k /\ k <= Len(tape)
    /\ \/ k = reader.cur - 1
       \/ reader.began <= k /\ Len(tape) + (IF reader.moved THEN 0 ELSE 1) < reader.cur
Fetching ==
    reader.at = "page" =>
        /\ reader.began \in 1..Len(tape)
        /\ \E k \in Int : Gapless(k)

\* The copy that is kept, and shown if anything is, is whole.
Whole(s, upto) ==
    /\ s \subseteq 1..Len(tape)
    /\ \A a, b \in s : a..b \subseteq s
    /\ upto # 0 => FirstOf(upto) \in s /\ upto \in s
Kept ==
    /\ reader.kept # {} => Whole(reader.kept, reader.upto)
    /\ reader.shown \in {{}, reader.kept}

Inv == Types /\ Written /\ Collected /\ Filled /\ Loaded /\ Fetching /\ Kept

\* The history load is told a date after all of its files.
Covering == ~AutoDate /\ \A d \in Files : d + 1 < Before

\* What it has left of its files is all that may be missing of them.
Covered ==
    /\ hist.at = "load" => \A d \in Files \ hist.files : Stored(Held[d] \ hist.rest)
    /\ SameCoverage
-----------------------------------------------------------------------------
(***************************************************************************)
(* Numbers, days and ticks.                                                *)
(***************************************************************************)
LEMMA ConstantsAre ==
    /\ PerDay \in Nat \ {0} /\ MaxCandles \in Nat /\ FillDays \in Nat \ {0}
    /\ FillDays * PerDay <= MaxCandles /\ MaxBatch \in Nat \ {0}
    /\ Files \subseteq Nat /\ \A d \in Files : Held[d] \subseteq 1..Past
    /\ Past \in Nat /\ Past <= MaxCandles
    /\ Span \in Nat \ {0} /\ PageSize \in Nat \ {0} /\ MaxPages \in Nat \ {0}
BY TableOK, WritersOK, CastsOK, ReaderOK

LEMMA HasLeast ==
    ASSUME NEW S, S \subseteq Nat, S # {}
    PROVE  \E m \in S : \A x \in S : m <= x
<1> DEFINE R == OpToRel(<, Nat)
<1>1. IsWellFoundedOn(R, Nat)
  BY NatLessThanWellFounded
<1>2. \A x, y \in Nat : y < x => <<y, x>> \in R
  BY DEF OpToRel
<1> HIDE DEF R
<1>3. PICK m \in S : \A x \in S : <<x, m>> \notin R
  BY <1>1, WFMin
<1>4. ASSUME NEW x \in S PROVE m <= x
  <2>1. ~(x < m)
    BY <1>2, <1>3
  <2>2. x \in Nat /\ m \in Nat
    OBVIOUS
  <2>3. QED
    BY <2>1, <2>2
<1>5. QED
  BY <1>4

\* A day follows on the day before it.
LEMMA DayIs ==
    ASSUME NEW d \in Nat \ {0}
    PROVE  /\ (d - 1) * PerDay \in Nat /\ d * PerDay \in Nat
           /\ d * PerDay = (d - 1) * PerDay + PerDay
           /\ Day(d) = ((d - 1) * PerDay + 1)..(d * PerDay)
           /\ Day(d) \subseteq 1..(d * PerDay) /\ Day(d) # {}
<1>1. (d - 1) * PerDay \in Nat /\ d * PerDay \in Nat /\ d * PerDay = (d - 1) * PerDay + PerDay
  BY ConstantsAre
<1>2. Day(d) = ((d - 1) * PerDay + 1)..(d * PerDay)
  BY DEF Day
<1> DEFINE a == (d - 1) * PerDay
           b == d * PerDay
<1>3. a \in Nat /\ b \in Nat /\ b = a + PerDay /\ PerDay \in Nat \ {0} /\ Day(d) = (a + 1)..b
  BY <1>1, <1>2, ConstantsAre
<1> HIDE DEF a, b
<1>4. Day(d) \subseteq 1..b /\ Day(d) # {}
  <2>1. b \in Day(d)
    BY <1>3
  <2>2. Day(d) \subseteq 1..b
    BY <1>3
  <2>3. QED
    BY <2>1, <2>2
<1>5. QED
  BY <1>1, <1>2, <1>4 DEF b

LEMMA EarlierDay ==
    ASSUME NEW d \in Nat \ {0}, NEW e \in Nat, d <= e
    PROVE  d * PerDay <= e * PerDay
BY ConstantsAre

\* The days of a backfill are within the table, and what the files hold is complete.
LEMMA DaysFit ==
    /\ \A d \in 1..FillDays : Day(d) \subseteq 1..(FillDays * PerDay)
    /\ 1..(FillDays * PerDay) \subseteq Places
<1> DEFINE m == FillDays * PerDay
<1>1. m \in Int /\ m <= MaxCandles
  BY ConstantsAre
<1>2. ASSUME NEW d \in 1..FillDays PROVE Day(d) \subseteq 1..m
  <2>1. d \in Nat \ {0} /\ d * PerDay <= m /\ d * PerDay \in Nat
    BY EarlierDay, DayIs, ConstantsAre
  <2>2. Day(d) \subseteq 1..(d * PerDay)
    BY <2>1, DayIs
  <2> HIDE DEF m
  <2>3. QED
    BY <1>1, <2>1, <2>2
<1>3. 1..m \subseteq Places
  <2> HIDE DEF m
  <2>1. QED
    BY <1>1, ConstantsAre DEF Places
<1>4. QED
  BY <1>2, <1>3

\* The window of a day, and what its pages ask for.
LEMMA WindowIs ==
    ASSUME NEW d \in 1..FillDays
    PROVE  /\ Opens(d) \in Nat \ {0} /\ Ends(d) \in Nat /\ Ends(d) = Opens(d) + PerDay
           /\ Day(d) = Opens(d)..(Ends(d) - 1)
           /\ Opens(d) \in PageStarts(d) /\ Opens(d) \in Day(d)
           /\ Asked(d) \subseteq Day(d) /\ Asked(d) \subseteq Places
           /\ \A c \in PageStarts(d) : c \notin Asked(d)
<1> DEFINE a == (d - 1) * PerDay
           b == d * PerDay
<1>1. d \in Nat \ {0} /\ PerDay \in Nat \ {0} /\ MaxBatch \in Nat \ {0}
  BY ConstantsAre
<1>2. a \in Nat /\ b \in Nat /\ b = a + PerDay /\ Day(d) = (a + 1)..b
  BY <1>1, DayIs
<1>3. Opens(d) = a + 1 /\ Ends(d) = b + 1
  BY DEF Opens, Ends
<1> HIDE DEF a, b
<1>4. /\ Opens(d) \in Nat \ {0} /\ Ends(d) \in Nat /\ Ends(d) = Opens(d) + PerDay
      /\ Day(d) = Opens(d)..(Ends(d) - 1) /\ Opens(d) \in Day(d)
  BY <1>1, <1>2, <1>3
<1>5. Opens(d) \in PageStarts(d)
  <2>1. 0 \in 0..PerDay /\ Opens(d) = Opens(d) + 0 * MaxBatch
    BY <1>1, <1>4
  <2>2. QED
    BY <2>1 DEF PageStarts
<1>6. Asked(d) \subseteq Day(d) /\ Day(d) \subseteq Places
  BY DaysFit DEF Asked
<1>7. \A c \in PageStarts(d) : c \notin Asked(d)
  BY DEF Asked
<1>8. QED
  BY <1>4, <1>5, <1>6, <1>7

\* Where the next page begins.
LEMMA NextStart ==
    ASSUME NEW d \in 1..FillDays, NEW c \in PageStarts(d), c \in Day(d), c + MaxBatch < Ends(d)
    PROVE  c + MaxBatch \in PageStarts(d) /\ c + MaxBatch \in Day(d)
<1> DEFINE o == Opens(d)
<1>1. /\ o \in Nat \ {0} /\ Ends(d) \in Nat /\ Ends(d) = o + PerDay /\ Day(d) = o..(Ends(d) - 1)
      /\ PerDay \in Nat \ {0} /\ MaxBatch \in Nat \ {0}
  BY WindowIs, ConstantsAre
<1>2. PICK k \in 0..PerDay : c = o + k * MaxBatch
  BY DEF PageStarts
<1>3. k \in Nat /\ k * MaxBatch \in Nat /\ k <= k * MaxBatch
      /\ (k + 1) * MaxBatch = k * MaxBatch + MaxBatch
  BY <1>1, <1>2
<1> HIDE DEF o
<1>4. k + 1 \in 0..PerDay /\ c + MaxBatch = o + (k + 1) * MaxBatch
  BY <1>1, <1>2, <1>3
<1>5. c + MaxBatch \in PageStarts(d)
  BY <1>4 DEF PageStarts, o
<1>6. QED
  BY <1>1, <1>5

LEMMA SplitIs ==
    ASSUME NEW s \in Shapes
    PROVE  Split(s) \in Ticks /\ Len(Split(s)) = 4 /\ Split(s) # <<>>
<1> DEFINE o == s.o
           h == s.h
           l == s.l
           c == s.c
<1>1. s.o \in Int /\ s.h \in Int /\ s.l \in Int /\ s.c \in Int
  BY TableOK
<1>2. o \in Int /\ h \in Int /\ l \in Int /\ c \in Int
  BY <1>1
<1> HIDE DEF o, h, l, c
<1>3. CASE c > o
  <2>1. Split(s) = <<o, l, h, c>>
    BY <1>1, <1>3 DEF Split, o, h, l, c
  <2>2. <<o, l, h, c>> \in Ticks /\ Len(<<o, l, h, c>>) = 4 /\ <<o, l, h, c>> # <<>>
    BY <1>2 DEF Ticks
  <2>3. QED
    BY <2>1, <2>2
<1>4. CASE c < o
  <2>1. Split(s) = <<o, h, l, c>>
    BY <1>1, <1>4 DEF Split, o, h, l, c
  <2>2. <<o, h, l, c>> \in Ticks /\ Len(<<o, h, l, c>>) = 4 /\ <<o, h, l, c>> # <<>>
    BY <1>2 DEF Ticks
  <2>3. QED
    BY <2>1, <2>2
<1>5. CASE c = o
  <2>1. Split(s) = <<o, o, o, c>>
    BY <1>1, <1>5 DEF Split, o, h, l, c
  <2>2. <<o, o, o, c>> \in Ticks /\ Len(<<o, o, o, c>>) = 4 /\ <<o, o, o, c>> # <<>>
    BY <1>2 DEF Ticks
  <2>3. QED
    BY <2>1, <2>2
<1>6. QED
  BY <1>2, <1>3, <1>4, <1>5

\* The high and the low of four ticks, one of which is p.
LEMMA HighestIs ==
    ASSUME NEW ts \in Ticks, NEW j \in DOMAIN ts, \A i \in DOMAIN ts : ts[i] <= ts[j]
    PROVE  Highest(ts) = ts[j]
<1> DEFINE V == {ts[i] : i \in DOMAIN ts}
           Top(p) == \A i \in DOMAIN ts : ts[i] <= p
<1>1. \A i \in DOMAIN ts : ts[i] \in Int
  BY DEF Ticks
<1>2. ts[j] \in V /\ Top(ts[j])
  OBVIOUS
<1>3. \A p \in V : Top(p) => p = ts[j]
  BY <1>1
<1>4. Highest(ts) = CHOOSE p \in V : Top(p)
  BY DEF Highest
<1> HIDE DEF V, Top
<1>5. QED
  BY <1>2, <1>3, <1>4

LEMMA LowestIs ==
    ASSUME NEW ts \in Ticks, NEW j \in DOMAIN ts, \A i \in DOMAIN ts : ts[i] >= ts[j]
    PROVE  Lowest(ts) = ts[j]
<1> DEFINE V == {ts[i] : i \in DOMAIN ts}
           Bottom(p) == \A i \in DOMAIN ts : ts[i] >= p
<1>1. \A i \in DOMAIN ts : ts[i] \in Int
  BY DEF Ticks
<1>2. ts[j] \in V /\ Bottom(ts[j])
  OBVIOUS
<1>3. \A p \in V : Bottom(p) => p = ts[j]
  BY <1>1
<1>4. Lowest(ts) = CHOOSE p \in V : Bottom(p)
  BY DEF Lowest
<1> HIDE DEF V, Bottom
<1>5. QED
  BY <1>2, <1>3, <1>4

\* split_candles() and build_candles() are inverse to each other on a candle that
\* does not end where it began.
THEOREM SplitIsRebuilt ==
    ASSUME NEW s \in Shapes, s.o # s.c
    PROVE  Rebuilt(Split(s)) = s
<1>1. /\ s.o \in Int /\ s.h \in Int /\ s.l \in Int /\ s.c \in Int
      /\ s.l <= s.o /\ s.l <= s.c /\ s.o <= s.h /\ s.c <= s.h
      /\ s = [o |-> s.o, h |-> s.h, l |-> s.l, c |-> s.c]
  BY TableOK
<1>2. ASSUME NEW ts \in Ticks, Len(ts) = 4, ts[1] = s.o, ts[4] = s.c,
             NEW j \in 2..3, NEW k \in 2..3, ts[j] = s.h, ts[k] = s.l, j # k
      PROVE  Rebuilt(ts) = s
  <2>1. DOMAIN ts = 1..4
    BY <1>2 DEF Ticks
  <2>2. \A i \in 1..4 : i \in {1, j, k, 4}
    BY <1>2
  <2>3. j \in DOMAIN ts /\ k \in DOMAIN ts
    BY <2>1
  <2>4. \A i \in DOMAIN ts : ts[i] <= ts[j] /\ ts[i] >= ts[k]
    BY <1>1, <1>2, <2>1, <2>2
  <2>5. Highest(ts) = s.h /\ Lowest(ts) = s.l
    BY <1>2, <2>3, <2>4, HighestIs, LowestIs
  <2>6. QED
    BY <1>1, <1>2, <2>5 DEF Rebuilt
<1>3. CASE s.c > s.o
  <2> DEFINE ts == <<s.o, s.l, s.h, s.c>>
  <2>1. Split(s) = ts /\ ts \in Ticks /\ Len(ts) = 4
    <3>1. Split(s) = ts
      BY <1>1, <1>3 DEF Split
    <3> HIDE DEF ts
    <3>2. QED
      BY <3>1, SplitIs
  <2>2. ts[1] = s.o /\ ts[2] = s.l /\ ts[3] = s.h /\ ts[4] = s.c
    OBVIOUS
  <2> HIDE DEF ts
  <2>3. QED
    BY <1>2, <2>1, <2>2
<1>4. CASE s.c < s.o
  <2> DEFINE ts == <<s.o, s.h, s.l, s.c>>
  <2>1. Split(s) = ts /\ ts \in Ticks /\ Len(ts) = 4
    <3>1. Split(s) = ts
      BY <1>1, <1>4 DEF Split
    <3> HIDE DEF ts
    <3>2. QED
      BY <3>1, SplitIs
  <2>2. ts[1] = s.o /\ ts[2] = s.h /\ ts[3] = s.l /\ ts[4] = s.c
    OBVIOUS
  <2> HIDE DEF ts
  <2>3. QED
    BY <1>2, <2>1, <2>2
<1>5. QED
  BY <1>1, <1>3, <1>4
-----------------------------------------------------------------------------
(***************************************************************************)
(* What every step leaves alone: complete candles stay as they are, and    *)
(* what is in the table stays there.                                       *)
(***************************************************************************)
Onward ==
    /\ Len(tape') \in Nat /\ Len(tape) <= Len(tape')
    /\ \A i \in 1..Len(tape) : tape'[i] = tape[i]
    /\ \A c \in Places : ltp[c] # <<>> => ltp'[c] # <<>>

LEMMA TapeIs ==
    ASSUME Types
    PROVE  /\ Len(tape) \in Nat /\ Past <= Len(tape) /\ Len(tape) <= MaxCandles
           /\ 1..Len(tape) \subseteq Places /\ \A i \in 1..Len(tape) : tape[i] \in Shapes
<1>1. tape \in Seq(Shapes) /\ Len(tape) \in Past..MaxCandles
  BY DEF Types
<1>2. Len(tape) \in Nat /\ Past <= Len(tape) /\ Len(tape) <= MaxCandles
  BY <1>1, ConstantsAre
<1>3. 1..Len(tape) \subseteq Places
  BY <1>2, ConstantsAre DEF Places
<1>4. \A i \in 1..Len(tape) : tape[i] \in Shapes
  BY <1>1, ElementOfSeq
<1>5. QED
  BY <1>2, <1>3, <1>4

LEMMA StoredStays ==
    ASSUME Onward, NEW S, S \subseteq Places, Stored(S)
    PROVE  Stored(S)'
BY DEF Onward, Stored

LEMMA CollectedStays ==
    ASSUME Types, Collected, Onward, live' = live
    PROVE  Collected'
<1>1. Len(tape) \in Nat
  BY TapeIs
<1>2. live.last \in 0..MaxCandles /\ (live.last # 0 => live.last \in Places)
  BY ConstantsAre DEF Types, Collector, Places
<1>3. live'.at = "insert" => live'.got.n \in 1..Len(tape') /\ live'.got.shape = tape'[live'.got.n]
  BY <1>1 DEF Collected, Onward
<1>4. live'.last <= Len(tape') /\ (live'.last # 0 => ltp'[live'.last] # <<>>)
  BY <1>1, <1>2 DEF Collected, Onward
<1>5. QED
  BY <1>3, <1>4 DEF Collected

LEMMA FilledStays ==
    ASSUME Types, Filled, Onward, cache' = cache, fill' = fill
    PROVE  Filled'
<1> DEFINE m == FillDays * PerDay
<1>1. Len(tape) \in Nat /\ Len(tape') \in Nat /\ m \in Nat /\ Len(tape) <= Len(tape')
  BY TapeIs, ConstantsAre DEF Onward
<1> HIDE DEF m
<1>2. m <= Len(tape) => m <= Len(tape')
  BY <1>1
<1>3. \A d, g : Got(d, g) => Asked(d) \subseteq g /\ g \subseteq Window(d) /\ g \subseteq 1..Len(tape')
  BY <1>1 DEF Got
<1>4. fill.at = "page" => Paging'
  <2>1. fill.at = "page" => Paging
    BY DEF Filled
  <2>2. QED
    BY <1>1, <2>1 DEF Paging
<1>5. fill.errors = 0 => \A d \in 1..(fill.day - 1) : \A c \in Asked(d) : ltp'[c] # <<>>
  <2>1. fill.day \in 1..(FillDays + 1) /\ FillDays \in Nat
    BY ConstantsAre DEF Types, Backfill
  <2>2. ASSUME fill.errors = 0, NEW d \in 1..(fill.day - 1), NEW c \in Asked(d)
        PROVE  ltp'[c] # <<>>
    <3>1. d \in 1..FillDays
      BY <2>1
    <3>2. c \in Places
      BY <2>2, <3>1, WindowIs
    <3>3. ltp[c] # <<>>
      BY <2>2 DEF Filled, Stored
    <3>4. QED
      BY <3>2, <3>3 DEF Onward
  <2>3. QED
    BY <2>2
<1>6. QED
  BY <1>2, <1>3, <1>4, <1>5 DEF Filled, Got, Stored, m

LEMMA LoadedStays ==
    ASSUME Types, Loaded, Onward, hist' = hist
    PROVE  Loaded'
<1>1. Len(tape) \in Nat
  BY TapeIs
<1>2. QED
  BY <1>1 DEF Loaded, Onward

LEMMA WholeStays ==
    ASSUME Types, Onward, NEW s, NEW n, Whole(s, n)
    PROVE  Whole(s, n)'
<1>1. Len(tape) \in Nat
  BY TapeIs
<1>2. QED
  BY <1>1 DEF Whole, Onward

LEMMA KeptStays ==
    ASSUME Types, Kept, Onward, reader'.kept = reader.kept, reader'.shown = reader.shown,
           reader'.upto = reader.upto
    PROVE  Kept'
<1>1. reader.kept # {} => Whole(reader.kept, reader.upto)'
  <2>1. Len(tape) \in Nat
    BY TapeIs
  <2>2. QED
    BY <2>1 DEF Kept, Whole, Onward
<1>2. QED
  BY <1>1 DEF Kept, Whole

\* A step of a writer.
LEMMA WriterStep ==
    ASSUME Inv, Onward, tape' = tape, reader' = reader, Types', Written',
           Collected', Filled', Loaded'
    PROVE  Inv'
<1>1. Kept'
  BY KeptStays DEF Inv
<1>2. Fetching'
  BY DEF Inv, Fetching, Gapless, First
<1>3. QED
  BY <1>1, <1>2 DEF Inv

\* Nothing is written.
LEMMA Idle ==
    ASSUME Types, tape' = tape, ltp' = ltp
    PROVE  Onward
BY TapeIs DEF Onward

\* Candles that are complete are inserted.
LEMMA InsertedIs ==
    ASSUME Types, Written, NEW S, S \subseteq 1..Len(tape), ltp' = Inserted(Taped(S)), tape' = tape
    PROVE  ltp' \in [Places -> Ticks] /\ Written' /\ Onward /\ Stored(S)' /\ Stored(S \cap Places)'
<1>1. S \subseteq Places /\ \A c \in S : tape[c] \in Shapes
  BY TapeIs
<1>2. \A c \in Places : ltp'[c] = IF c \in S /\ ltp[c] = <<>> THEN Split(tape[c]) ELSE ltp[c]
  BY DEF Inserted, Taped
<1>3. \A c \in S : Split(tape[c]) \in Ticks /\ Split(tape[c]) # <<>>
  BY <1>1, SplitIs
<1>4. ltp \in [Places -> Ticks]
  BY DEF Types
<1>5. \A c \in Places : ltp'[c] \in Ticks
  BY <1>2, <1>3, <1>4
<1>6. ltp' \in [Places -> Ticks]
  BY <1>5 DEF Inserted
<1>7. Written'
  <2>1. \A c \in Places : ltp[c] # <<>> => c <= Len(tape) /\ ltp[c] = Split(tape[c])
    BY DEF Written
  <2>2. \A c \in S : c <= Len(tape)
    BY TapeIs
  <2>3. \A c \in Places : ltp'[c] # <<>> => c <= Len(tape) /\ ltp'[c] = Split(tape[c])
    BY <1>2, <2>1, <2>2
  <2>4. QED
    BY <2>3 DEF Written
<1>8. Onward
  BY <1>2, TapeIs DEF Onward
<1>9. Stored(S)'
  BY <1>1, <1>2, <1>3 DEF Stored
<1>10. QED
  BY <1>6, <1>7, <1>8, <1>9 DEF Stored
-----------------------------------------------------------------------------
(***************************************************************************)
(* The live collector.                                                     *)
(***************************************************************************)
LEMMA PollLiveStep == ASSUME Inv, PollLive, reader' = reader PROVE Inv'
<1>1. UNCHANGED <<tape, ltp, cache, fill, hist>> /\ Types /\ Written /\ Collected
  BY DEF PollLive, Inv
<1>2. PICK forming \in Shapes : \E a \in Latest(forming) :
                                   live' = [live EXCEPT !.at = "insert", !.got = a]
  BY DEF PollLive
<1>3. PICK a \in Latest(forming) : live' = [live EXCEPT !.at = "insert", !.got = a]
  BY <1>2
<1>4. a.n \in 1..Len(tape) /\ a.shape = tape[a.n] /\ a = [n |-> a.n, shape |-> a.shape]
  <2>1. PICK b \in Answer(forming) : b.complete /\ a = [n |-> b.n, shape |-> b.shape]
    BY DEF Latest
  <2>2. b = [n |-> Len(tape), shape |-> tape[Len(tape)], complete |-> TRUE] /\ Len(tape) # 0
    BY <2>1 DEF Answer
  <2>3. Len(tape) \in Nat
    BY <1>1, TapeIs
  <2>4. QED
    BY <2>1, <2>2, <2>3
<1>5. a \in Polled
  <2>1. a.n \in 0..MaxCandles /\ a.shape \in Shapes
    BY <1>1, <1>4, TapeIs, ConstantsAre DEF Places
  <2>2. QED
    BY <1>4, <2>1 DEF Polled
<1>6. live' \in Collector /\ live'.at = "insert" /\ live'.got = a /\ live'.last = live.last
  BY <1>1, <1>3, <1>5 DEF Types, Collector
<1>7. Types'
  BY <1>1, <1>6 DEF Types, PollLive
<1>8. Collected'
  BY <1>1, <1>4, <1>6 DEF Collected
<1>9. Onward
  BY <1>1, Idle
<1>10. Written' /\ Filled' /\ Loaded'
  BY <1>1 DEF Inv, Written, Filled, Got, Paging, Loaded, Stored
<1>11. QED
  BY <1>1, <1>7, <1>8, <1>9, <1>10, WriterStep

\* After an insert of the collector, whatever it answers.
LEMMA CollectorStep ==
    ASSUME Inv, tape' = tape, reader' = reader, UNCHANGED <<cache, fill, hist>>,
           live' \in Collector, Collected',
           ltp' \in [Places -> Ticks], Written', Onward
    PROVE  Inv'
<1>1. Types /\ Filled /\ Loaded
  BY DEF Inv
<1>2. Types'
  BY <1>1 DEF Types
<1>3. Filled' /\ Loaded'
  BY <1>1, FilledStays, LoadedStays
<1>4. QED
  BY <1>2, <1>3, WriterStep

LEMMA NoCandleIs == NoCandle \in Polled
BY ConstantsAre DEF NoCandle, Polled

\* The candle the collector holds, inserted.
LEMMA GotInserted ==
    ASSUME Inv, live.at = "insert", tape' = tape,
           ltp' = Inserted([c \in {live.got.n} |-> live.got.shape])
    PROVE  /\ ltp' \in [Places -> Ticks] /\ Written' /\ Onward
           /\ live.got.n \in 1..Len(tape) /\ ltp'[live.got.n] # <<>>
<1>1. Types /\ Written /\ live.got.n \in 1..Len(tape) /\ live.got.shape = tape[live.got.n]
  BY DEF Inv, Collected
<1>2. [c \in {live.got.n} |-> live.got.shape] = Taped({live.got.n})
  BY <1>1 DEF Taped
<1>3. QED
  BY <1>1, <1>2, InsertedIs DEF Stored

LEMMA InsertLiveStep == ASSUME Inv, InsertLive, reader' = reader PROVE Inv'
<1>1. /\ UNCHANGED <<tape, cache, fill, hist>> /\ live.at = "insert"
      /\ ltp' = Inserted([c \in {live.got.n} |-> live.got.shape])
  BY DEF InsertLive
<1>2. /\ ltp' \in [Places -> Ticks] /\ Written' /\ Onward
      /\ live.got.n \in 1..Len(tape) /\ ltp'[live.got.n] # <<>>
  BY <1>1, GotInserted
<1> DEFINE n == live.got.n
           w == NoCandle
<1>3. live \in Collector /\ n \in 0..MaxCandles /\ w \in Polled /\ n <= Len(tape)
  BY <1>2, NoCandleIs, TapeIs DEF Inv, Types, Collector, Polled
<1>4. live' = [live EXCEPT !.at = "idle", !.last = n, !.got = w]
  BY DEF InsertLive
<1>5. live' \in Collector /\ live'.at = "idle" /\ live'.last = n
  <2> HIDE DEF n, w
  <2>1. QED
    BY <1>3, <1>4 DEF Collector
<1>6. Collected'
  BY <1>1, <1>2, <1>3, <1>5 DEF Collected
<1>7. QED
  BY <1>1, <1>2, <1>5, <1>6, CollectorStep

LEMMA InsertLiveFailsStep == ASSUME Inv, InsertLiveFails, reader' = reader PROVE Inv'
<1>1. UNCHANGED <<tape, cache, fill, hist>> /\ live.at = "insert"
  BY DEF InsertLiveFails
<1>2. ltp' \in [Places -> Ticks] /\ Written' /\ Onward
  <2>1. CASE ltp' = ltp
    BY <1>1, <2>1, Idle DEF Inv, Types, Written
  <2>2. CASE ltp' = Inserted([c \in {live.got.n} |-> live.got.shape])
    BY <1>1, <2>2, GotInserted
  <2>3. QED
    BY <2>1, <2>2 DEF InsertLiveFails
<1> DEFINE w == NoCandle
<1>3. PICK at \in {"idle", "down"} : live' = [live EXCEPT !.at = at, !.got = w]
  BY DEF InsertLiveFails
<1>4. live \in Collector /\ w \in Polled
  BY NoCandleIs DEF Inv, Types
<1>5. live' \in Collector /\ live'.at # "insert" /\ live'.last = live.last
  <2> HIDE DEF w
  <2>1. QED
    BY <1>3, <1>4 DEF Collector
<1>6. Collected'
  <2>1. live.last # 0 => live.last \in Places
    BY <1>4, ConstantsAre DEF Collector, Places
  <2>2. QED
    BY <1>1, <1>2, <1>5, <2>1 DEF Inv, Collected, Onward
<1>7. QED
  BY <1>1, <1>2, <1>5, <1>6, CollectorStep

LEMMA RestartLiveStep == ASSUME Inv, RestartLive, reader' = reader PROVE Inv'
<1>1. /\ UNCHANGED <<tape, ltp, cache, fill, hist>>
      /\ live' = [at |-> "idle", last |-> 0, got |-> NoCandle]
  BY DEF RestartLive
<1>2. live' \in Collector /\ live'.at = "idle" /\ live'.last = 0
  BY <1>1, NoCandleIs, ConstantsAre DEF Collector
<1>3. Collected'
  BY <1>1, <1>2, TapeIs DEF Collected, Inv
<1>4. Onward /\ Written' /\ ltp' \in [Places -> Ticks]
  BY <1>1, Idle DEF Inv, Written, Types
<1>5. QED
  BY <1>1, <1>2, <1>3, <1>4, CollectorStep
-----------------------------------------------------------------------------
(***************************************************************************)
(* The backfill.                                                           *)
(***************************************************************************)
LEMMA FillStep ==
    ASSUME Inv, tape' = tape, reader' = reader, UNCHANGED <<live, hist>>,
           fill' \in Backfill, cache' \in [1..FillDays -> SUBSET Places],
           ltp' \in [Places -> Ticks], Written', Onward, Filled'
    PROVE  Inv'
<1>1. Types /\ Collected /\ Loaded
  BY DEF Inv
<1>2. Types'
  BY <1>1 DEF Types
<1>3. Collected' /\ Loaded'
  BY <1>1, CollectedStays, LoadedStays
<1>4. QED
  BY <1>2, <1>3, WriterStep

LEMMA FillIdleIs ==
    /\ FillIdle \in Backfill /\ FillIdle.at = "off" /\ FillIdle.day = 1 /\ FillIdle.errors = 0
    /\ FillIdle.groups = {}
BY ConstantsAre DEF FillIdle, Backfill

LEMMA StartFillStep == ASSUME Inv, StartFill, reader' = reader PROVE Inv'
<1>1. /\ UNCHANGED <<tape, ltp, live, cache, hist>> /\ FillDays * PerDay <= Len(tape)
      /\ fill' = [FillIdle EXCEPT !.at = "fetch"]
  BY TapeIs, ConstantsAre DEF StartFill, Inv
<1>2. /\ fill' \in Backfill /\ fill'.at = "fetch" /\ fill'.day = 1
  BY <1>1, FillIdleIs DEF Backfill
<1>3. Filled'
  <2>1. 1..(fill'.day - 1) = {}
    BY <1>2
  <2>2. 1 <= FillDays
    BY ConstantsAre
  <2>3. QED
    BY <1>1, <1>2, <2>1, <2>2 DEF Inv, Filled, Got
<1>4. Onward /\ Written'
  BY <1>1, Idle DEF Inv, Written
<1>5. QED
  BY <1>1, <1>2, <1>3, <1>4, FillStep DEF Inv, Types

LEMMA FillDiesStep == ASSUME Inv, FillDies, reader' = reader PROVE Inv'
<1>1. UNCHANGED <<tape, ltp, live, cache, hist>> /\ fill' = FillIdle
  BY DEF FillDies
<1>2. fill' \in Backfill /\ fill'.at = "off" /\ fill'.day = 1
  BY <1>1, FillIdleIs
<1>3. Filled'
  <2>1. 1..(fill'.day - 1) = {}
    BY <1>2
  <2>2. QED
    BY <1>1, <1>2, <2>1 DEF Inv, Filled, Got
<1>4. Onward /\ Written'
  BY <1>1, Idle DEF Inv, Written
<1>5. QED
  BY <1>1, <1>2, <1>3, <1>4, FillStep DEF Inv, Types

\* The day that a backfill is at is over and within the table.
LEMMA DayAtHand ==
    ASSUME Inv, fill.at \in {"fetch", "page", "insert"}
    PROVE  /\ fill.day \in 1..FillDays /\ FillDays * PerDay <= Len(tape)
           /\ Day(fill.day) \subseteq 1..Len(tape)
<1> DEFINE m == FillDays * PerDay
<1>1. fill.day \in 1..FillDays /\ m <= Len(tape)
  BY ConstantsAre DEF Inv, Types, Backfill, Filled
<1>2. Day(fill.day) \subseteq 1..m /\ m \in Nat /\ Len(tape) \in Nat
  BY <1>1, DaysFit, TapeIs, ConstantsAre DEF Inv
<1> HIDE DEF m
<1>3. Day(fill.day) \subseteq 1..Len(tape)
  BY <1>1, <1>2
<1>4. QED
  BY <1>1, <1>3 DEF m

\* On to the next day.  The account stays right if the day was stored, and if it
\* was not the error is counted.
LEMMA NextDayIs ==
    ASSUME Inv, fill.at \in {"fetch", "page", "insert"}, NEW failed \in BOOLEAN,
           fill' = NextDay(failed)
    PROVE  /\ fill' \in Backfill /\ fill'.day = fill.day + 1
           /\ fill'.errors = IF failed THEN fill.errors + 1 ELSE fill.errors
           /\ fill'.at = IF fill.day = FillDays THEN "done" ELSE "fetch"
<1> DEFINE q == fill
           n == q.day + 1
           e == IF failed THEN q.errors + 1 ELSE q.errors
           t == IF q.day = FillDays THEN "done" ELSE "fetch"
<1>1. q \in Backfill /\ q.day \in 1..FillDays
  BY DayAtHand DEF Inv, Types
<1>2. n \in 1..(FillDays + 1) /\ e \in Nat /\ t \in {"off", "fetch", "page", "insert", "done"}
  BY <1>1, ConstantsAre DEF Backfill
<1>3. fill' = [q EXCEPT !.day = n, !.groups = {}, !.errors = e, !.at = t]
  BY DEF NextDay
<1> HIDE DEF q, n, e, t
<1>4. fill' \in Backfill /\ fill'.day = n /\ fill'.errors = e /\ fill'.at = t
  BY <1>1, <1>2, <1>3 DEF Backfill
<1>5. QED
  BY <1>4 DEF q, n, e, t

LEMMA NextDayFilled ==
    ASSUME Inv, fill.at \in {"fetch", "page", "insert"}, NEW failed \in BOOLEAN,
           fill' = NextDay(failed), Onward, tape' = tape, cache' = cache,
           failed \/ \A c \in Asked(fill.day) : ltp'[c] # <<>>
    PROVE  Filled'
<1>1. /\ fill' \in Backfill /\ fill'.day = fill.day + 1
      /\ fill'.errors = IF failed THEN fill.errors + 1 ELSE fill.errors
      /\ fill'.at = IF fill.day = FillDays THEN "done" ELSE "fetch"
  BY NextDayIs
<1>2. fill.day \in 1..FillDays /\ FillDays * PerDay <= Len(tape) /\ fill.errors \in Nat
  BY DayAtHand DEF Inv, Types, Backfill
<1>3. fill'.at \in {"fetch", "done"} /\ (fill'.at = "fetch" => fill'.day <= FillDays)
      /\ (fill'.at = "done" => fill'.day = FillDays + 1)
  BY <1>1, <1>2, ConstantsAre
<1>4. ASSUME fill'.errors = 0, NEW d \in 1..(fill'.day - 1), NEW c \in Asked(d)
      PROVE  ltp'[c] # <<>>
  <2>1. ~failed /\ fill.errors = 0
    BY <1>1, <1>2, <1>4
  <2>2. d \in 1..fill.day /\ d \in 1..FillDays
    BY <1>1, <1>2, <1>4, ConstantsAre
  <2>3. CASE d = fill.day
    BY <1>4, <2>1, <2>3
  <2>4. CASE d # fill.day
    <3>1. d \in 1..(fill.day - 1)
      BY <1>2, <2>2, <2>4
    <3>2. ltp[c] # <<>> /\ c \in Places
      BY <1>4, <2>1, <2>2, <3>1, WindowIs DEF Inv, Filled, Stored
    <3>3. QED
      BY <3>2 DEF Onward
  <2>5. QED
    BY <2>3, <2>4
<1>5. \A d \in 1..FillDays : cache'[d] = {} \/ Got(d, cache[d])
  BY DEF Inv, Filled
<1>6. QED
  BY <1>2, <1>3, <1>4, <1>5 DEF Filled, Stored, Got

\* Another state of the same day; what is stored is as it was.
LEMMA SameDay ==
    ASSUME Inv, fill.at \in {"fetch", "page"}, UNCHANGED <<tape, ltp, live, hist>>, reader' = reader,
           NEW at \in {"page", "insert"}, NEW cursor \in Nat, NEW groups \in SUBSET Places,
           fill' = [fill EXCEPT !.at = at, !.cursor = cursor, !.groups = groups],
           cache' \in [1..FillDays -> SUBSET Places],
           \A d \in 1..FillDays : cache'[d] = {} \/ Got(d, cache'[d]),
           at = "insert" => Got(fill.day, groups),
           at = "page" => /\ cursor \in Day(fill.day) /\ cursor \in PageStarts(fill.day)
                          /\ groups \subseteq Window(fill.day) /\ groups \subseteq 1..Len(tape)
                          /\ \A c \in Asked(fill.day) : c < cursor => c \in groups
    PROVE  Inv'
<1>1. fill.day \in 1..FillDays /\ FillDays * PerDay <= Len(tape)
  BY DayAtHand
<1>2. /\ fill' \in Backfill /\ fill'.at = at /\ fill'.cursor = cursor /\ fill'.groups = groups
      /\ fill'.day = fill.day /\ fill'.errors = fill.errors
  <2> DEFINE q == fill
  <2>1. q \in Backfill /\ fill' = [q EXCEPT !.at = at, !.cursor = cursor, !.groups = groups]
    BY DEF Inv, Types
  <2> HIDE DEF q
  <2>2. /\ fill' \in Backfill /\ fill'.at = at /\ fill'.cursor = cursor /\ fill'.groups = groups
        /\ fill'.day = q.day /\ fill'.errors = q.errors
    BY <2>1 DEF Backfill
  <2>3. QED
    BY <2>2 DEF q
<1>3. fill'.errors = 0 => \A d \in 1..(fill'.day - 1) : \A c \in Asked(d) : ltp'[c] # <<>>
  BY <1>2 DEF Inv, Filled, Stored
<1>4. Onward /\ Written' /\ ltp' \in [Places -> Ticks]
  BY Idle DEF Inv, Written, Types
<1>5. at = "page" => Paging'
  BY <1>2 DEF Paging
<1>6. fill.day <= FillDays /\ at # "done" /\ at # "off"
  BY <1>1
<1>7. Filled'
  BY <1>1, <1>2, <1>3, <1>5, <1>6 DEF Filled, Got, Stored
<1>8. QED
  BY <1>2, <1>4, <1>7, FillStep

LEMMA FetchDayStep == ASSUME Inv, FetchDay, reader' = reader PROVE Inv'
<1> DEFINE d == fill.day
<1>1. UNCHANGED <<tape, ltp, live, cache, hist>> /\ fill.at = "fetch"
  BY DEF FetchDay
<1>2. /\ d \in 1..FillDays /\ fill \in Backfill /\ cache \in [1..FillDays -> SUBSET Places]
      /\ \A e \in 1..FillDays : cache[e] = {} \/ Got(e, cache[e])
  BY <1>1, DayAtHand DEF Inv, Types, Filled
<1>3. CASE cache[d] # {}
  <2>1. fill' = [fill EXCEPT !.at = "insert", !.groups = cache[d]]
    BY <1>3 DEF FetchDay
  <2>2. fill' = [fill EXCEPT !.at = "insert", !.cursor = fill.cursor, !.groups = cache[d]]
    BY <1>2, <2>1 DEF Backfill
  <2>3. fill.cursor \in Nat /\ cache[d] \in SUBSET Places /\ Got(d, cache[d])
    BY <1>2, <1>3 DEF Backfill
  <2>4. \A e \in 1..FillDays : cache'[e] = {} \/ Got(e, cache'[e])
    BY <1>1, <1>2
  <2>5. QED
    BY <1>1, <1>2, <2>2, <2>3, <2>4, SameDay
<1>4. CASE cache[d] = {}
  <2>1. fill' = [fill EXCEPT !.at = "page", !.cursor = Opens(d), !.groups = {}]
    BY <1>4 DEF FetchDay
  <2>2. /\ Opens(d) \in Nat /\ Opens(d) \in Day(d) /\ Opens(d) \in PageStarts(d)
        /\ \A c \in Asked(d) : ~(c < Opens(d))
    <3>1. /\ Opens(d) \in Nat \ {0} /\ Ends(d) \in Nat /\ Day(d) = Opens(d)..(Ends(d) - 1)
          /\ Opens(d) \in PageStarts(d) /\ Opens(d) \in Day(d) /\ Asked(d) \subseteq Day(d)
      BY <1>2, WindowIs
    <3> HIDE DEF d
    <3>2. QED
      BY <3>1
  <2>3. \A e \in 1..FillDays : cache'[e] = {} \/ Got(e, cache'[e])
    BY <1>1, <1>2
  <2>4. cache' \in [1..FillDays -> SUBSET Places]
    BY <1>1, <1>2
  <2>5. QED
    BY <1>1, <2>1, <2>2, <2>3, <2>4, SameDay
<1>5. QED
  BY <1>3, <1>4

\* What a page adds.
LEMMA GatheredIs ==
    ASSUME Inv, fill.at = "page", NEW last \in {PageTo - 1, PageTo}
    PROVE  /\ PageTo \in Nat /\ PageTo <= Ends(fill.day) /\ Gathered(last) \in SUBSET Places
           /\ Gathered(last) \subseteq Window(fill.day) /\ Gathered(last) \subseteq 1..Len(tape)
           /\ \A c \in Asked(fill.day) : c < PageTo => c \in Gathered(last)
<1> DEFINE d == fill.day
           a == fill.cursor
           to == PageTo
           g == fill.groups
           o == Opens(d)
           e == Ends(d)
           n == Len(tape)
<1>1. /\ d \in 1..FillDays /\ Day(d) \subseteq 1..n /\ n \in Nat /\ 1..n \subseteq Places
      /\ MaxBatch \in Nat \ {0}
  BY DayAtHand, TapeIs, ConstantsAre DEF Inv
<1>2. o \in Nat \ {0} /\ e \in Nat /\ Day(d) = o..(e - 1) /\ Asked(d) \subseteq Day(d)
      /\ \A c \in PageStarts(d) : c \notin Asked(d)
  BY <1>1, WindowIs
<1>3. /\ a \in Day(d) /\ a \in PageStarts(d) /\ g \subseteq Window(d) /\ g \subseteq 1..n
      /\ \A c \in Asked(d) : c < a => c \in g
  BY DEF Inv, Filled, Paging
<1>4. to = IF a + MaxBatch < e THEN a + MaxBatch ELSE e
  BY DEF PageTo
<1>5. last \in {to - 1, to} /\ Gathered(last) = g \cup {c \in (a + 1)..last : c <= n}
  BY DEF Gathered, Complete
<1>6. Window(d) = o..e
  BY <1>1, <1>2, <1>3 DEF Window
<1> HIDE DEF d, a, to, g, o, e, n
<1>7. a \in Nat \ {0} /\ o <= a /\ a < to /\ to \in Nat /\ to <= e
  BY <1>1, <1>2, <1>3, <1>4
<1>8. {c \in (a + 1)..last : c <= n} \subseteq o..e /\ {c \in (a + 1)..last : c <= n} \subseteq 1..n
  BY <1>1, <1>2, <1>5, <1>7
<1>9. ASSUME NEW c \in Asked(d), c < to PROVE c \in Gathered(last)
  <2>1. c \in Day(d) /\ c \in 1..n /\ c # a
    BY <1>1, <1>2, <1>3
  <2>2. CASE c < a
    BY <1>3, <1>5, <2>2
  <2>3. CASE ~(c < a)
    <3>1. c \in (a + 1)..last /\ c <= n
      BY <1>1, <1>5, <1>7, <1>9, <2>1, <2>3
    <3>2. QED
      BY <1>5, <3>1
  <2>4. QED
    BY <2>2, <2>3
<1>10. Gathered(last) \subseteq Window(d) /\ Gathered(last) \subseteq 1..n
  BY <1>3, <1>5, <1>6, <1>8
<1>11. QED
  BY <1>1, <1>7, <1>9, <1>10 DEF d, to, n, e

LEMMA AskPageStep == ASSUME Inv, AskPage, reader' = reader PROVE Inv'
<1> DEFINE d == fill.day
<1>1. UNCHANGED <<tape, ltp, live, cache, hist>> /\ fill.at = "page" /\ PageTo < Ends(d)
  BY DEF AskPage
<1>2. PICK last \in {PageTo - 1, PageTo} :
               fill' = [fill EXCEPT !.cursor = PageTo, !.groups = Gathered(last)]
  BY DEF AskPage
<1>3. /\ PageTo \in Nat /\ Gathered(last) \in SUBSET Places
      /\ Gathered(last) \subseteq Window(d) /\ Gathered(last) \subseteq 1..Len(tape)
      /\ \A c \in Asked(d) : c < PageTo => c \in Gathered(last)
  BY <1>1, GatheredIs
<1>4. /\ fill \in Backfill /\ cache' \in [1..FillDays -> SUBSET Places]
      /\ \A e \in 1..FillDays : cache'[e] = {} \/ Got(e, cache'[e])
  BY <1>1 DEF Inv, Types, Filled
<1>5. fill' = [fill EXCEPT !.at = "page", !.cursor = PageTo, !.groups = Gathered(last)]
  BY <1>1, <1>2, <1>4 DEF Backfill
<1>6. PageTo \in Day(d) /\ PageTo \in PageStarts(d)
  <2>1. d \in 1..FillDays /\ fill.cursor \in Day(d) /\ fill.cursor \in PageStarts(d)
    BY <1>1, DayAtHand DEF Inv, Filled, Paging
  <2>2. PageTo = fill.cursor + MaxBatch /\ fill.cursor + MaxBatch < Ends(d)
    <3>1. PageTo # Ends(d)
      <4>1. Ends(d) \in Nat
        BY <2>1, WindowIs
      <4>2. QED
        BY <1>1, <1>3, <4>1
    <3>2. QED
      BY <3>1 DEF PageTo
  <2>3. QED
    BY <2>1, <2>2, NextStart
<1>7. QED
  BY <1>1, <1>3, <1>4, <1>5, <1>6, SameDay

LEMMA AskLastPageStep == ASSUME Inv, AskLastPage, reader' = reader PROVE Inv'
<1> DEFINE d == fill.day
<1>1. UNCHANGED <<tape, ltp, live, hist>> /\ fill.at = "page" /\ PageTo = Ends(d)
  BY DEF AskLastPage
<1>2. PICK last \in {PageTo - 1, PageTo} :
          IF Gathered(last) = {} THEN fill' = NextDay(FALSE) /\ UNCHANGED cache
          ELSE /\ fill' = [fill EXCEPT !.at = "insert", !.groups = Gathered(last)]
               /\ cache' = [cache EXCEPT ![fill.day] = Gathered(last)]
  BY DEF AskLastPage
<1> DEFINE g == Gathered(last)
<1>3. /\ g \in SUBSET Places /\ g \subseteq Window(d) /\ g \subseteq 1..Len(tape)
      /\ \A c \in Asked(d) : c < PageTo => c \in g
  BY <1>1, GatheredIs
<1>4. /\ fill \in Backfill /\ cache \in [1..FillDays -> SUBSET Places] /\ d \in 1..FillDays
      /\ \A e \in 1..FillDays : cache[e] = {} \/ Got(e, cache[e])
  BY <1>1, DayAtHand DEF Inv, Types, Filled
<1>5. Asked(d) \subseteq g
  <2>1. Ends(d) \in Nat /\ Opens(d) \in Nat /\ Day(d) = Opens(d)..(Ends(d) - 1) /\ Asked(d) \subseteq Day(d)
    BY <1>4, WindowIs
  <2> HIDE DEF d, g
  <2>2. \A c \in Asked(d) : c < PageTo
    BY <1>1, <2>1
  <2>3. QED
    BY <1>3, <2>2
<1> HIDE DEF g
<1>6. CASE g = {}
  <2>1. fill' = NextDay(FALSE) /\ cache' = cache
    BY <1>2, <1>6 DEF g
  <2>2. Onward /\ Written' /\ ltp' \in [Places -> Ticks]
    BY <1>1, Idle DEF Inv, Written, Types
  <2>3. Filled'
    BY <1>1, <1>5, <1>6, <2>1, <2>2, NextDayFilled
  <2>4. fill' \in Backfill
    BY <1>1, <2>1, NextDayIs
  <2>5. QED
    BY <1>1, <2>1, <2>2, <2>3, <2>4, FillStep DEF Inv, Types
<1>7. CASE g # {}
  <2>1. /\ fill' = [fill EXCEPT !.at = "insert", !.groups = g]
        /\ cache' = [cache EXCEPT ![d] = g]
    BY <1>2, <1>7 DEF g
  <2>2. fill' = [fill EXCEPT !.at = "insert", !.cursor = fill.cursor, !.groups = g] /\ fill.cursor \in Nat
    BY <1>4, <2>1 DEF Backfill
  <2>3. Got(d, g)
    BY <1>3, <1>5 DEF Got
  <2>4. /\ cache' \in [1..FillDays -> SUBSET Places]
        /\ \A e \in 1..FillDays : cache'[e] = {} \/ Got(e, cache'[e])
    BY <1>3, <1>4, <2>1, <2>3
  <2>5. QED
    BY <1>1, <1>3, <2>2, <2>3, <2>4, SameDay
<1>8. QED
  BY <1>6, <1>7

LEMMA PageFailsStep == ASSUME Inv, PageFails, reader' = reader PROVE Inv'
<1>1. UNCHANGED <<tape, ltp, live, cache, hist>> /\ fill.at = "page" /\ fill' = NextDay(TRUE)
  BY DEF PageFails
<1>2. Onward /\ Written' /\ ltp' \in [Places -> Ticks]
  BY <1>1, Idle DEF Inv, Written, Types
<1>3. Filled'
  BY <1>1, <1>2, NextDayFilled
<1>4. fill' \in Backfill
  BY <1>1, NextDayIs
<1>5. QED
  BY <1>1, <1>2, <1>3, <1>4, FillStep DEF Inv, Types

LEMMA InsertDayStep == ASSUME Inv, InsertDay, reader' = reader PROVE Inv'
<1>1. UNCHANGED <<tape, live, cache, hist>> /\ fill.at = "insert" /\ Got(fill.day, fill.groups)
  BY DEF InsertDay, Inv, Filled
<1>2. fill.groups \subseteq 1..Len(tape) /\ Asked(fill.day) \subseteq fill.groups
  BY <1>1 DEF Got
<1>3. CASE ltp' = Inserted(Taped(fill.groups))
  <2>1. ltp' \in [Places -> Ticks] /\ Written' /\ Onward /\ \A c \in Asked(fill.day) : ltp'[c] # <<>>
    BY <1>1, <1>2, <1>3, InsertedIs DEF Inv, Stored
  <2>2. PICK failed \in BOOLEAN : fill' = NextDay(failed)
    BY DEF InsertDay
  <2>3. fill' \in Backfill
    BY <1>1, <2>2, NextDayIs
  <2>4. Filled'
    BY <1>1, <2>1, <2>2, NextDayFilled
  <2>5. QED
    BY <1>1, <2>1, <2>3, <2>4, FillStep DEF Inv, Types
<1>4. CASE fill' = NextDay(TRUE) /\ UNCHANGED ltp
  <2>1. Onward /\ Written' /\ ltp' \in [Places -> Ticks]
    BY <1>1, <1>4, Idle DEF Inv, Written, Types
  <2>2. fill' \in Backfill /\ Filled'
    BY <1>1, <1>4, <2>1, NextDayIs, NextDayFilled
  <2>3. QED
    BY <1>1, <1>4, <2>1, <2>2, FillStep DEF Inv, Types
<1>5. QED
  BY <1>3, <1>4 DEF InsertDay
-----------------------------------------------------------------------------
(***************************************************************************)
(* The history load.                                                       *)
(***************************************************************************)
LEMMA LoadStep ==
    ASSUME Inv, tape' = tape, reader' = reader, UNCHANGED <<live, cache, fill>>,
           hist' \in Load, ltp' \in [Places -> Ticks], Written', Onward, Loaded'
    PROVE  Inv'
<1>1. Types /\ Collected /\ Filled
  BY DEF Inv
<1>2. Types'
  BY <1>1 DEF Types
<1>3. Collected' /\ Filled'
  BY <1>1, CollectedStays, FilledStays
<1>4. QED
  BY <1>2, <1>3, WriterStep

LEMMA StartHistStep == ASSUME Inv, StartHist, reader' = reader PROVE Inv'
<1>1. UNCHANGED <<tape, ltp, live, cache, fill>>
  BY DEF StartHist
<1>2. hist' \in Load /\ hist'.rest = {}
  BY DEF StartHist, Selected, Load
<1>3. Loaded' /\ Onward /\ Written'
  BY <1>1, <1>2, Idle DEF Loaded, Inv, Written
<1>4. QED
  BY <1>1, <1>2, <1>3, LoadStep DEF Inv, Types

LEMMA HistDiesStep == ASSUME Inv, HistDies, reader' = reader PROVE Inv'
<1>1. UNCHANGED <<tape, ltp, live, cache, fill>>
  BY DEF HistDies
<1>2. hist' \in Load /\ hist'.rest = {}
  BY DEF HistDies, HistIdle, Load
<1>3. Loaded' /\ Onward /\ Written'
  BY <1>1, <1>2, Idle DEF Loaded, Inv, Written
<1>4. QED
  BY <1>1, <1>2, <1>3, LoadStep DEF Inv, Types

\* The file that is opened is one of those left.
LEMMA OpenFileIs ==
    ASSUME Inv, OpenFile
    PROVE  /\ NextFile \in hist.files /\ NextFile \in Files
           /\ hist' \in Load /\ hist'.at = "load" /\ hist'.files = hist.files \ {NextFile}
           /\ hist'.rest = Held[NextFile]
           /\ Held[NextFile] \subseteq 1..Len(tape)
<1>1. hist \in Load /\ hist.files # {} /\ hist.files \subseteq Files /\ hist.at = "load"
  BY DEF Inv, Types, Load, OpenFile
<1>2. NextFile \in hist.files
  <2>1. \E d \in hist.files : \A e \in hist.files : d <= e
    BY <1>1, HasLeast, ConstantsAre
  <2>2. QED
    BY <2>1 DEF NextFile
<1>3. Held[NextFile] \subseteq 1..Len(tape) /\ Held[NextFile] \subseteq Places
  <2>1. Held[NextFile] \subseteq 1..Past
    BY <1>1, <1>2, ConstantsAre
  <2>2. Past <= Len(tape) /\ Len(tape) \in Nat /\ Past \in Nat /\ 1..Len(tape) \subseteq Places
    BY TapeIs, ConstantsAre DEF Inv
  <2>3. QED
    BY <2>1, <2>2
<1> DEFINE h == hist
           f == hist.files \ {NextFile}
           y == Held[NextFile]
<1>4. hist' = [h EXCEPT !.files = f, !.rest = y]
  BY DEF OpenFile
<1>5. h \in Load /\ f \in SUBSET Files /\ y \in SUBSET Places /\ h.at = "load"
  BY <1>1, <1>3
<1>6. hist' \in Load /\ hist'.at = "load" /\ hist'.files = f /\ hist'.rest = y
  <2> HIDE DEF h, f, y
  <2>1. QED
    BY <1>4, <1>5 DEF Load
<1>7. QED
  BY <1>1, <1>2, <1>3, <1>6

LEMMA OpenFileStep == ASSUME Inv, OpenFile, reader' = reader PROVE Inv'
<1>1. UNCHANGED <<tape, ltp, live, cache, fill>>
  BY DEF OpenFile
<1>2. hist' \in Load /\ hist'.rest \subseteq 1..Len(tape)
  BY OpenFileIs
<1>3. Loaded' /\ Onward /\ Written'
  BY <1>1, <1>2, Idle DEF Loaded, Inv, Written
<1>4. QED
  BY <1>1, <1>2, <1>3, LoadStep DEF Inv, Types

\* The candle that is loaded is one of those left.
LEMMA LoadBatchIs ==
    ASSUME Inv, LoadBatch
    PROVE  \E c \in hist.rest :
              /\ ltp' = Inserted(Taped({c}))
              /\ hist' \in Load /\ hist'.files = hist.files /\ hist'.rest = hist.rest \ {c}
              /\ hist.at = "load"
              /\ hist'.at = IF hist.rest = {c} /\ hist.files = {} THEN "done" ELSE "load"
<1>1. hist \in Load /\ hist.rest # {} /\ hist.rest \subseteq Places /\ hist.at = "load"
  BY DEF Inv, Types, Load, LoadBatch
<1> DEFINE c == CHOOSE x \in hist.rest : \A y \in hist.rest : x <= y
<1>2. c \in hist.rest
  <2>1. hist.rest \subseteq Nat
    BY <1>1 DEF Places
  <2>2. \E x \in hist.rest : \A y \in hist.rest : x <= y
    BY <1>1, <2>1, HasLeast
  <2>3. QED
    BY <2>2
<1> DEFINE h == hist
           r == hist.rest \ {c}
           t == IF hist.rest = {c} /\ hist.files = {} THEN "done" ELSE "load"
<1>3. ltp' = Inserted(Taped({c})) /\ hist' = [h EXCEPT !.rest = r, !.at = t]
  BY <1>1 DEF LoadBatch
<1>4. h \in Load /\ r \in SUBSET Places /\ t \in {"off", "load", "done"}
  BY <1>1
<1>5. hist' \in Load /\ hist'.at = t /\ hist'.files = h.files /\ hist'.rest = r
  <2> HIDE DEF h, r, t
  <2>1. QED
    BY <1>3, <1>4 DEF Load
<1> HIDE DEF c
<1>6. QED
  BY <1>1, <1>2, <1>3, <1>5

LEMMA LoadBatchStep == ASSUME Inv, LoadBatch, reader' = reader PROVE Inv'
<1>1. UNCHANGED <<tape, live, cache, fill>>
  BY DEF LoadBatch
<1>2. PICK c \in hist.rest : /\ ltp' = Inserted(Taped({c})) /\ hist' \in Load
                             /\ hist'.rest = hist.rest \ {c}
  BY LoadBatchIs
<1>3. {c} \subseteq 1..Len(tape)
  BY <1>2 DEF Inv, Loaded
<1>4. ltp' \in [Places -> Ticks] /\ Written' /\ Onward
  BY <1>1, <1>2, <1>3, InsertedIs DEF Inv
<1>5. Loaded'
  BY <1>1, <1>2 DEF Inv, Loaded
<1>6. QED
  BY <1>1, <1>2, <1>4, <1>5, LoadStep
-----------------------------------------------------------------------------
(***************************************************************************)
(* The reader, and time.                                                   *)
(***************************************************************************)
LEMMA FirstIs ==
    ASSUME NEW n \in Nat \ {0}
    PROVE  FirstOf(n) \in 1..n
BY ConstantsAre DEF FirstOf

LEMMA ReadStep ==
    ASSUME Inv, UNCHANGED <<tape, ltp, writers>>, reader' \in Reader, Fetching', Kept'
    PROVE  Inv'
<1>1. UNCHANGED <<tape, ltp, live, cache, fill, hist>>
  BY DEF writers
<1>2. Types'
  BY <1>1 DEF Inv, Types
<1>3. Written' /\ Collected' /\ Filled' /\ Loaded'
  BY <1>1 DEF Inv, Written, Collected, Filled, Got, Paging, Loaded, Stored
<1>4. QED
  BY <1>2, <1>3 DEF Inv

LEMMA ServeKeptStep == ASSUME Inv, ServeKept, UNCHANGED writers PROVE Inv'
<1> DEFINE q == reader
           s == reader.kept
<1>1. UNCHANGED <<tape, ltp>> /\ reader.at = "idle" /\ reader' = [q EXCEPT !.shown = s]
  BY DEF ServeKept
<1>2. q \in Reader /\ s \in SUBSET Nat
  BY DEF Inv, Types, Reader
<1>3. /\ reader' \in Reader /\ reader'.at = q.at /\ reader'.shown = s /\ reader'.kept = q.kept
      /\ reader'.upto = q.upto
  <2>1. reader' = [q EXCEPT !.shown = s]
    BY <1>1
  <2> HIDE DEF q, s
  <2>2. QED
    BY <1>2, <2>1 DEF Reader
<1>4. Kept' /\ Fetching'
  BY <1>1, <1>3 DEF Inv, Kept, Whole, Fetching
<1>5. QED
  BY <1>1, <1>3, <1>4, ReadStep

LEMMA BeginFetchStep == ASSUME Inv, BeginFetch, UNCHANGED writers PROVE Inv'
<1> DEFINE q == reader
           n == Len(tape)
           f == FirstOf(n)
<1>1. UNCHANGED <<tape, ltp>> /\ n \in Nat \ {0}
  BY TapeIs DEF BeginFetch, Inv
<1>2. q \in Reader /\ f \in 1..n
  BY <1>1, FirstIs DEF Inv, Types
<1>3. reader' = [q EXCEPT !.at = "page", !.began = n, !.pages = 0, !.rows = {}, !.cur = f,
                          !.moved = FALSE]
  BY DEF BeginFetch
<1>4. /\ reader' \in Reader /\ reader'.at = "page" /\ reader'.began = n /\ reader'.rows = {}
      /\ reader'.cur = f /\ reader'.kept = q.kept /\ reader'.shown = q.shown
      /\ reader'.upto = q.upto
  <2>1. n \in Nat /\ f \in Nat
    BY <1>1, <1>2
  <2> DEFINE x == [q EXCEPT !.at = "page", !.began = n, !.pages = 0]
  <2>2. reader' = [x EXCEPT !.rows = {}, !.cur = f, !.moved = FALSE]
    BY <1>3
  <2> HIDE DEF q, n, f
  <2>3. /\ x \in Reader /\ x.at = "page" /\ x.began = n /\ x.kept = q.kept
        /\ x.shown = q.shown /\ x.upto = q.upto
    BY <1>2, <2>1 DEF Reader
  <2> HIDE DEF x
  <2>4. QED
    BY <2>1, <2>2, <2>3 DEF Reader
<1>5. Fetching'
  <2>1. PICK k \in Int : k = f - 1 /\ {} = f..k /\ k <= n
    BY <1>1, <1>2
  <2>2. /\ reader'.rows = FirstOf(reader'.began)..k /\ k <= Len(tape')
        /\ k = reader'.cur - 1 /\ FirstOf(reader'.began) - 1 <= k
    BY <1>1, <1>2, <1>4, <2>1
  <2>3. reader'.began \in 1..Len(tape')
    BY <1>1, <1>4
  <2>4. Gapless(k)'
    BY <2>2 DEF Gapless, First
  <2>5. QED
    BY <2>3, <2>4 DEF Fetching
<1>6. Kept'
  BY <1>1, <1>4 DEF Inv, Kept, Whole
<1>7. QED
  BY <1>1, <1>4, <1>5, <1>6, ReadStep

\* A page holds the candles from cur on; if it is full it is PageSize long, and if
\* it is not it ends with the candle that forms.
LEMMA PageIs ==
    ASSUME Inv, reader.at = "page"
    PROVE  LET n == Len(tape)
               c == reader.cur
           IN /\ c \in Nat /\ n \in Nat
              /\ Page = {m \in c..(c + PageSize - 1) : m <= n + 1}
              /\ Cardinality(Page) < PageSize => n + 1 < c + PageSize - 1
              /\ ~(Cardinality(Page) < PageSize) =>
                    /\ Page = c..(c + PageSize - 1) /\ c + PageSize - 1 <= n + 1
                    /\ Cardinality(Page) = PageSize
<1> DEFINE n == Len(tape)
           c == reader.cur
           e == c + PageSize - 1
<1>1. c \in Nat /\ n \in Nat /\ e \in Nat /\ c <= e /\ PageSize = e - c + 1 /\ PageSize \in Nat
  BY TapeIs, ConstantsAre DEF Inv, Types, Reader
<1>2. Page = {m \in c..e : m <= n + 1}
  BY DEF Page
<1> HIDE DEF n, c, e
<1>3. Cardinality(c..e) = PageSize /\ IsFiniteSet(c..e)
  BY <1>1, FS_Interval
<1> DEFINE Full == Page = c..e /\ e <= n + 1 /\ Cardinality(Page) = PageSize
<1>4. ASSUME n + 1 < e PROVE Cardinality(Page) < PageSize
  <2>1. e \notin Page /\ Page \subseteq c..e /\ e \in c..e
    BY <1>1, <1>2, <1>4
  <2>2. Cardinality(Page) < Cardinality(c..e)
    <3>1. Page # c..e /\ Cardinality(c..e) \in Nat
      BY <1>3, <2>1, FS_CardinalityType
    <3>2. /\ IsFiniteSet(Page) /\ Cardinality(Page) <= Cardinality(c..e)
          /\ Cardinality(Page) = Cardinality(c..e) => Page = c..e
      BY <1>3, <2>1, FS_Subset
    <3>3. Cardinality(Page) \in Nat
      BY <3>2, FS_CardinalityType
    <3>4. QED
      BY <3>1, <3>2, <3>3
  <2>3. QED
    BY <1>1, <1>3, <1>4, <2>2
<1>5. ASSUME e <= n + 1 PROVE Full /\ ~(Cardinality(Page) < PageSize)
  <2>1. Page = c..e
    BY <1>1, <1>2, <1>5
  <2>2. QED
    BY <1>1, <1>3, <1>5, <2>1
<1>6. /\ Cardinality(Page) < PageSize => n + 1 < e
      /\ ~(Cardinality(Page) < PageSize) => Full
  BY <1>1, <1>4, <1>5
<1>7. QED
  BY <1>1, <1>2, <1>6 DEF n, c, e

\* The rows of a fetch that ends: without a gap, and up to the newest candle there
\* was when it began unless the cap cut it short.
LEMMA RowsAre ==
    ASSUME Inv, reader.at = "page"
    PROVE  LET n == Len(tape)
               rows == reader.rows \cup Complete(Page)
           IN /\ rows \in SUBSET Nat /\ reader.began \in Nat
              /\ Page # {} => Whole(rows, 0)
              /\ Page # {} /\ Cardinality(Page) < PageSize => Whole(rows, reader.began)
              /\ Page = {} => Whole(reader.rows, reader.began)
              /\ ~(Cardinality(Page) < PageSize) =>
                    \E k \in Int :
                       /\ rows = First..k /\ First - 1 <= k /\ k <= n
                       /\ \/ k = reader.cur + PageSize - 1
                          \/ reader.began <= k /\ n + 1 < reader.cur + PageSize
<1> DEFINE n == Len(tape)
           c == reader.cur
           e == c + PageSize - 1
           b == reader.began
           f == First
           new == Complete(Page)
           rows == reader.rows \cup new
<1>1. PICK k \in Int : Gapless(k)
  BY DEF Inv, Fetching
<1>2. /\ c \in Nat /\ n \in Nat /\ e \in Nat /\ c <= e /\ b \in 1..n /\ f \in 1..b
      /\ f \in Int /\ b \in Int
      /\ reader.rows = f..k /\ f - 1 <= k /\ k <= n
      /\ k = c - 1 \/ (b <= k /\ n < c)
  <2>1. c \in Nat /\ n \in Nat /\ b \in 1..n /\ PageSize \in Nat \ {0}
    BY PageIs, ConstantsAre DEF Inv, Fetching
  <2>2. f \in 1..b
    BY <2>1, FirstIs DEF First
  <2>3. reader.moved \in BOOLEAN
    BY DEF Inv, Types, Reader
  <2>4. reader.rows = f..k /\ f - 1 <= k /\ k <= n /\ (k = c - 1 \/ (b <= k /\ n < c))
    BY <1>1, <2>1, <2>3 DEF Gapless
  <2>5. c + PageSize - 1 \in Nat /\ c <= c + PageSize - 1 /\ f \in Int /\ b \in Int
    BY <2>1, <2>2
  <2>6. QED
    BY <2>1, <2>2, <2>4, <2>5
<1>3. /\ Page = {m \in c..e : m <= n + 1}
      /\ Cardinality(Page) < PageSize => n + 1 < e
      /\ ~(Cardinality(Page) < PageSize) => e <= n + 1
  BY PageIs
<1>4. new = {m \in c..e : m <= n}
  BY <1>2, <1>3 DEF Complete
<1>5. Page # {} => c <= n + 1
  BY <1>2, <1>3
<1> DEFINE top == IF n < e THEN n ELSE e
<1>6. ASSUME Page # {}, k = c - 1
      PROVE  rows = f..top /\ f - 1 <= top /\ top <= n
  <2>1. c <= n + 1 /\ top \in Int /\ top <= n /\ c - 1 <= top
    BY <1>2, <1>5, <1>6
  <2>2. new = c..top
    <3>1. CASE n < e
      BY <1>2, <1>4, <3>1
    <3>2. CASE e <= n
      BY <1>2, <1>4, <3>2
    <3>3. QED
      BY <1>2, <3>1, <3>2
  <2>3. reader.rows = f..(c - 1) /\ f <= c
    BY <1>2, <1>6
  <2>4. f \in Int /\ c \in Int /\ top \in Int
    BY <1>2, <2>1
  <2> HIDE DEF new, top, f, c
  <2>5. f..(c - 1) \cup c..top = f..top
    BY <2>1, <2>3, <2>4
  <2>6. QED
    BY <2>1, <2>2, <2>3, <2>4, <2>5
<1>7. ASSUME n < c
      PROVE  new = {} /\ rows = f..k
  BY <1>2, <1>4, <1>7
<1>8. PICK t \in Int : Page # {} => /\ rows = f..t /\ f - 1 <= t /\ t <= n
                                    /\ n < e => b <= t
                                    /\ t = e \/ (b <= t /\ n < e)
  <2>1. CASE Page = {}
    BY <2>1
  <2>2. CASE Page # {} /\ k = c - 1
    <3>1. top \in Int /\ rows = f..top /\ f - 1 <= top /\ top <= n
      BY <1>2, <1>6, <2>2
    <3>2. (n < e => b <= top) /\ (top = e \/ (b <= top /\ n < e))
      BY <1>2
    <3>3. QED
      BY <3>1, <3>2
  <2>3. CASE Page # {} /\ b <= k /\ n < c
    <3>1. rows = f..k /\ n < e
      BY <1>2, <1>7, <2>3
    <3>2. QED
      BY <1>2, <2>3, <3>1
  <2>4. QED
    BY <1>2, <2>1, <2>2, <2>3
<1>9. ASSUME NEW j \in Int, j <= n
      PROVE  /\ Whole(f..j, 0)
             /\ b <= j => Whole(f..j, b)
  BY <1>2, <1>9 DEF Whole, First
<1>10. rows \in SUBSET Nat /\ reader.began \in Nat
  BY <1>2, <1>4
<1> HIDE DEF rows, new, top, f, b
<1>11. Page # {} => Whole(rows, 0)
  BY <1>8, <1>9
<1>12. Page # {} /\ Cardinality(Page) < PageSize => Whole(rows, b)
  BY <1>2, <1>3, <1>8, <1>9
<1>13. Page = {} => Whole(reader.rows, b)
  <2>1. Page = {} => n + 1 < c
    BY <1>2, <1>3
  <2>2. QED
    BY <1>2, <1>9, <2>1
<1>14. ASSUME ~(Cardinality(Page) < PageSize)
       PROVE  \E j \in Int : /\ rows = f..j /\ f - 1 <= j /\ j <= n
                             /\ j = e \/ (b <= j /\ n + 1 < c + PageSize)
  <2>1. Page # {}
    BY <1>2, <1>14, PageIs
  <2>2. n < e => n + 1 < c + PageSize
    BY <1>2, ConstantsAre
  <2>3. QED
    BY <1>8, <2>1, <2>2
<1>15. QED
  BY <1>10, <1>11, <1>12, <1>13, <1>14 DEF rows, new, f, b

\* A fetch that ends hands over its rows, and keeps them if there are any.
LEMMA FetchedIs ==
    ASSUME Inv, NEW s \in SUBSET Nat, NEW u \in Nat, UNCHANGED <<tape, ltp>>, UNCHANGED writers,
           reader' = Fetched(s, u), Whole(s, u)
    PROVE  Inv'
<1> DEFINE q == reader
           k == IF s = {} THEN q.kept ELSE s
           t == IF s = {} THEN q.upto ELSE u
<1>1. q \in Reader /\ k \in SUBSET Nat /\ t \in Nat
  BY DEF Inv, Types, Reader
<1>2. reader' = [q EXCEPT !.at = "idle", !.rows = {}, !.shown = s, !.kept = k, !.upto = t]
  BY DEF Fetched
<1>3. /\ reader' \in Reader /\ reader'.at = "idle" /\ reader'.shown = s /\ reader'.kept = k
      /\ reader'.upto = t
  <2> DEFINE x == [q EXCEPT !.at = "idle", !.rows = {}, !.shown = s]
  <2>1. reader' = [x EXCEPT !.kept = k, !.upto = t]
    BY <1>2
  <2> HIDE DEF q, k, t
  <2>2. x \in Reader /\ x.at = "idle" /\ x.shown = s
    BY <1>1 DEF Reader
  <2> HIDE DEF x
  <2>3. QED
    BY <1>1, <2>1, <2>2 DEF Reader
<1>4. Fetching'
  BY <1>3 DEF Fetching
<1>5. Kept'
  <2>1. CASE s = {}
    BY <1>3, <2>1 DEF Inv, Kept, Whole
  <2>2. CASE s # {}
    BY <1>3, <2>2 DEF Kept, Whole
  <2>3. QED
    BY <2>1, <2>2
<1>6. QED
  BY <1>3, <1>4, <1>5, ReadStep

LEMMA FetchPageStep == ASSUME Inv, FetchPage, UNCHANGED writers PROVE Inv'
<1> DEFINE rows == reader.rows \cup Complete(Page)
           full == ~(Cardinality(Page) < PageSize)
           n == Len(tape)
           c == reader.cur
           e == c + PageSize - 1
<1>1. UNCHANGED <<tape, ltp>> /\ reader.at = "page" /\ Page # {}
  BY DEF FetchPage
<1>2. /\ rows \in SUBSET Nat /\ reader.began \in Nat
      /\ Whole(rows, 0)
      /\ ~full => Whole(rows, reader.began)
  BY <1>1, RowsAre
<1>3. CASE reader' = Fetched(rows, IF Capped THEN 0 ELSE reader.began) /\ ~full
  <2>1. ~Capped
    BY <1>3, ConstantsAre DEF Capped
  <2>2. QED
    BY <1>1, <1>2, <1>3, <2>1, FetchedIs
<1>4. CASE /\ reader' = Fetched(rows, IF Capped THEN 0 ELSE reader.began)
           /\ full /\ reader.pages + 1 = MaxPages
  <2>1. Capped
    <3>1. Cardinality(Page) = PageSize
      BY <1>1, <1>4, PageIs
    <3>2. QED
      BY <1>4, <3>1 DEF Capped
  <2>2. QED
    BY <1>1, <1>2, <1>4, <2>1, FetchedIs
<1>5. CASE /\ reader' = [reader EXCEPT !.rows = rows, !.cur = Newest(Page) + 1,
                                       !.pages = @ + 1, !.moved = FALSE]
           /\ full
  <2>1. /\ c \in Nat /\ n \in Nat /\ e \in Nat /\ c <= e /\ Page = c..e /\ e <= n + 1
        /\ c + PageSize = e + 1
    <3>1. c \in Nat /\ n \in Nat
      BY <1>1, PageIs
    <3>2. Page = c..e /\ e <= n + 1
      BY <1>1, <1>5, PageIs
    <3>3. PageSize \in Nat \ {0}
      BY ConstantsAre
    <3>4. e \in Nat /\ c <= e /\ c + PageSize = e + 1
      BY <3>1, <3>3
    <3>5. QED
      BY <3>1, <3>2, <3>4
  <2>2. Newest(Page) = e
    <3> HIDE DEF c, e
    <3>1. e \in c..e /\ \A m \in c..e : m <= e
      BY <2>1
    <3>2. \A x \in c..e : (\A m \in c..e : m <= x) => x = e
      BY <2>1, <3>1
    <3>3. QED
      BY <2>1, <3>1, <3>2 DEF Newest
  <2> DEFINE q == reader
             p == reader.pages + 1
             y == Newest(Page) + 1
  <2>3. q \in Reader /\ p \in Nat /\ y = e + 1 /\ y \in Nat
    BY <2>1, <2>2 DEF Inv, Types, Reader
  <2>4. /\ reader' \in Reader /\ reader'.at = q.at /\ reader'.rows = rows /\ reader'.cur = y
        /\ reader'.began = q.began /\ reader'.moved = FALSE
        /\ reader'.kept = q.kept /\ reader'.shown = q.shown /\ reader'.upto = q.upto
    <3> DEFINE x == [q EXCEPT !.rows = rows, !.cur = y]
    <3>1. reader' = [x EXCEPT !.pages = p, !.moved = FALSE]
      BY <1>5, <2>3 DEF Reader
    <3> HIDE DEF q, p, y, rows
    <3>2. /\ x \in Reader /\ x.at = q.at /\ x.rows = rows /\ x.cur = y /\ x.began = q.began
          /\ x.kept = q.kept /\ x.shown = q.shown /\ x.upto = q.upto
      BY <1>2, <2>3 DEF Reader
    <3> HIDE DEF x
    <3>3. QED
      BY <2>3, <3>1, <3>2 DEF Reader
  <2>5. PICK k \in Int : /\ rows = First..k /\ First - 1 <= k /\ k <= n
                         /\ k = e \/ (reader.began <= k /\ n + 1 < c + PageSize)
    BY <1>1, <1>5, RowsAre
  <2>6. Fetching'
    <3>1. reader'.began \in 1..Len(tape')
      BY <1>1, <2>4 DEF Inv, Fetching
    <3>2. /\ reader'.rows = FirstOf(reader'.began)..k
          /\ FirstOf(reader'.began) - 1 <= k /\ k <= Len(tape')
      BY <1>1, <2>4, <2>5 DEF First
    <3>3. k = reader'.cur - 1 \/ (reader'.began <= k /\ Len(tape') + 1 < reader'.cur)
      BY <1>1, <2>1, <2>3, <2>4, <2>5
    <3>4. Gapless(k)'
      BY <2>4, <3>2, <3>3 DEF Gapless, First
    <3>5. QED
      BY <3>1, <3>4 DEF Fetching
  <2>7. Kept'
    BY <1>1, <2>4 DEF Inv, Kept, Whole
  <2>8. QED
    BY <1>1, <2>4, <2>6, <2>7, ReadStep
<1>6. QED
  BY <1>3, <1>4, <1>5 DEF FetchPage

LEMMA FetchNothingStep == ASSUME Inv, FetchNothing, UNCHANGED writers PROVE Inv'
<1>1. /\ UNCHANGED <<tape, ltp>> /\ reader.at = "page" /\ Page = {}
      /\ reader' = Fetched(reader.rows, reader.began)
  BY DEF FetchNothing
<1>2. Whole(reader.rows, reader.began)
  BY <1>1, RowsAre
<1>3. reader.rows \in SUBSET Nat /\ reader.began \in Nat
  BY DEF Inv, Types, Reader
<1>4. QED
  BY <1>1, <1>2, <1>3, FetchedIs

LEMMA FetchFailsStep == ASSUME Inv, FetchFails, UNCHANGED writers PROVE Inv'
<1> DEFINE q == reader
           s == reader.kept
<1>1. UNCHANGED <<tape, ltp>> /\ reader' = [q EXCEPT !.at = "idle", !.rows = {}, !.shown = s]
  BY DEF FetchFails
<1>2. q \in Reader /\ s \in SUBSET Nat
  BY DEF Inv, Types, Reader
<1>3. /\ reader' \in Reader /\ reader'.at = "idle" /\ reader'.shown = s /\ reader'.kept = q.kept
      /\ reader'.upto = q.upto
  <2>1. reader' = [q EXCEPT !.at = "idle", !.rows = {}, !.shown = s]
    BY <1>1
  <2> HIDE DEF q, s
  <2>2. QED
    BY <1>2, <2>1 DEF Reader
<1>4. Kept' /\ Fetching'
  BY <1>1, <1>3 DEF Inv, Kept, Whole, Fetching
<1>5. QED
  BY <1>1, <1>3, <1>4, ReadStep

\* A candle completes: what was complete stays so, and a fetch that waits for its
\* next page waits for one candle at most.
LEMMA TimePassesStep == ASSUME Inv, TimePasses PROVE Inv'
<1> DEFINE n == Len(tape)
           q == reader
<1>1. /\ UNCHANGED <<ltp, live, cache, fill, hist>> /\ n < MaxCandles
      /\ ~(q.at = "page" /\ q.moved)
      /\ reader' = [q EXCEPT !.moved = TRUE]
  BY DEF TimePasses, CandleCloses, writers
<1>2. PICK s \in Shapes : tape' = Append(tape, s)
  BY DEF TimePasses, CandleCloses
<1>3. /\ tape \in Seq(Shapes) /\ n \in Nat /\ Past <= n /\ q \in Reader /\ Past \in Nat
      /\ MaxCandles \in Nat
  BY TapeIs, ConstantsAre DEF Inv, Types
<1>4. /\ tape' \in Seq(Shapes) /\ Len(tape') = n + 1 /\ \A i \in 1..n : tape'[i] = tape[i]
  BY <1>2, <1>3, AppendProperties
<1>5. /\ reader' \in Reader /\ reader'.at = q.at /\ reader'.rows = q.rows /\ reader'.cur = q.cur
      /\ reader'.began = q.began /\ reader'.moved = TRUE
      /\ reader'.kept = q.kept /\ reader'.shown = q.shown /\ reader'.upto = q.upto
  <2>1. reader' = [q EXCEPT !.moved = TRUE]
    BY <1>1
  <2> HIDE DEF q
  <2>2. QED
    BY <1>3, <2>1 DEF Reader
<1>6. Onward
  BY <1>1, <1>3, <1>4 DEF Onward
<1>7. Types'
  BY <1>1, <1>3, <1>4, <1>5 DEF Inv, Types
<1>8. Written'
  <2>1. ASSUME NEW c \in Places, ltp[c] # <<>>
        PROVE  c <= Len(tape') /\ ltp[c] = Split(tape'[c])
    <3>1. c \in 1..n /\ ltp[c] = Split(tape[c])
      BY <1>3, <2>1 DEF Inv, Written, Places
    <3>2. QED
      BY <1>3, <1>4, <3>1
  <2>2. QED
    BY <1>1, <2>1 DEF Written
<1>9. Collected' /\ Filled' /\ Loaded' /\ Kept'
  BY <1>1, <1>5, <1>6, CollectedStays, FilledStays, LoadedStays, KeptStays DEF Inv
<1>10. Fetching'
  <2>1. SUFFICES ASSUME q.at = "page"
                 PROVE  /\ reader'.began \in 1..Len(tape')
                        /\ \E k \in Int : Gapless(k)'
    BY <1>5 DEF Fetching
  <2>2. PICK k \in Int : Gapless(k)
    BY <2>1 DEF Inv, Fetching
  <2>3. reader'.began \in 1..Len(tape')
    BY <1>3, <1>4, <1>5, <2>1 DEF Inv, Fetching
  <2>4. ~q.moved /\ q.cur \in Nat
    BY <1>1, <1>3, <2>1 DEF Reader
  <2>5. /\ reader'.rows = FirstOf(reader'.began)..k
        /\ FirstOf(reader'.began) - 1 <= k /\ k <= Len(tape')
    BY <1>3, <1>4, <1>5, <2>2 DEF Gapless, First
  <2>6. k = reader'.cur - 1 \/ (reader'.began <= k /\ Len(tape') < reader'.cur)
    BY <1>3, <1>4, <1>5, <2>2, <2>4 DEF Gapless
  <2>7. Gapless(k)'
    BY <1>3, <1>4, <1>5, <2>5, <2>6 DEF Gapless, First, Reader
  <2>8. QED
    BY <2>3, <2>7
<1>11. QED
  BY <1>7, <1>8, <1>9, <1>10 DEF Inv
-----------------------------------------------------------------------------
(***************************************************************************)
(* The theorems.                                                           *)
(***************************************************************************)
LEMMA InitInv == ASSUME Init PROVE Inv
<1>1. /\ tape \in [1..Past -> Shapes] /\ ltp = [c \in Places |-> <<>>]
      /\ live = [at |-> "idle", last |-> 0, got |-> NoCandle]
      /\ cache = [d \in 1..FillDays |-> {}] /\ fill = FillIdle /\ hist = HistIdle
      /\ reader = ReaderIdle
  BY DEF Init
<1>2. tape \in Seq(Shapes) /\ Len(tape) = Past
  BY <1>1, ConstantsAre, SeqDef, LenProperties
<1>3. ltp \in [Places -> Ticks] /\ \A c \in Places : ltp[c] = <<>>
  BY <1>1 DEF Ticks
<1>4. live \in Collector /\ live.at = "idle" /\ live.last = 0
  BY <1>1, NoCandleIs, ConstantsAre DEF Collector
<1>5. cache \in [1..FillDays -> SUBSET Places] /\ \A d \in 1..FillDays : cache[d] = {}
  BY <1>1
<1>6. hist \in Load /\ hist.at = "off" /\ hist.rest = {}
  BY <1>1 DEF HistIdle, Load
<1>7. reader \in Reader /\ reader.at = "idle" /\ reader.kept = {} /\ reader.shown = {}
  BY <1>1 DEF ReaderIdle, Reader
<1>8. fill \in Backfill /\ fill.at = "off" /\ fill.day = 1
  BY <1>1, FillIdleIs
<1>9. Types
  BY <1>2, <1>3, <1>4, <1>5, <1>6, <1>7, <1>8, ConstantsAre DEF Types
<1>10. Written /\ Collected /\ Loaded /\ Fetching /\ Kept
  BY <1>2, <1>3, <1>4, <1>6, <1>7, ConstantsAre DEF Written, Collected, Loaded, Fetching, Kept
<1>11. Filled
  <2>1. 1..(fill.day - 1) = {}
    BY <1>8
  <2>2. QED
    BY <1>5, <1>8, <2>1 DEF Filled
<1>12. QED
  BY <1>9, <1>10, <1>11 DEF Inv

\* Every step keeps the invariant.
LEMMA NextInv == ASSUME Inv, [Next]_vars PROVE Inv'
<1>1. CASE UNCHANGED vars
  BY <1>1 DEF vars, Inv, Types, Written, Collected, Filled, Got, Paging, Stored,
         Loaded, Fetching, Gapless, First, Kept, Whole
<1>2. CASE TimePasses
  BY <1>2, TimePassesStep
<1>3. CASE Live /\ UNCHANGED <<reader, cast>>
  BY <1>3, PollLiveStep, InsertLiveStep, InsertLiveFailsStep, RestartLiveStep DEF Live
<1>4. CASE Fill /\ UNCHANGED <<reader, cast>>
  BY <1>4, StartFillStep, FetchDayStep, AskPageStep, AskLastPageStep, PageFailsStep, InsertDayStep,
     FillDiesStep DEF Fill
<1>5. CASE Hist /\ UNCHANGED <<reader, cast>>
  BY <1>5, StartHistStep, OpenFileStep, LoadBatchStep, HistDiesStep DEF Hist
<1>6. CASE Read /\ UNCHANGED <<writers, cast>>
  BY <1>6, ServeKeptStep, BeginFetchStep, FetchPageStep, FetchNothingStep, FetchFailsStep DEF Read
<1>7. QED
  BY <1>1, <1>2, <1>3, <1>4, <1>5, <1>6 DEF Next

LEMMA InvHolds == Spec => []Inv
<1>1. Init => Inv
  BY InitInv
<1>2. Inv /\ [Next]_vars => Inv'
  BY NextInv
<1>3. QED
  BY <1>1, <1>2, PTL DEF Spec

LEMMA InvIsTyped == Inv => TypeOK
<1>1. SUFFICES ASSUME Inv PROVE TypeOK
  OBVIOUS
<1>2. Types /\ Written /\ Collected /\ Filled
  BY <1>1 DEF Inv
<1>3. tape \in Seq(Shapes) /\ Len(tape) \in Past..MaxCandles /\ Len(tape) \in Nat
  BY <1>2, TapeIs DEF Types
<1>4. DOMAIN ltp = Places /\ \A c \in Places : Len(ltp[c]) \in {0, 4}
  <2>1. ASSUME NEW c \in Places PROVE Len(ltp[c]) \in {0, 4}
    <3>1. CASE ltp[c] = <<>>
      BY <3>1
    <3>2. CASE ltp[c] # <<>>
      <4>1. c \in 1..Len(tape) /\ ltp[c] = Split(tape[c])
        BY <1>2, <1>3, <3>2 DEF Written, Places
      <4>2. tape[c] \in Shapes
        BY <1>2, <4>1, TapeIs
      <4>3. QED
        BY <4>1, <4>2, SplitIs
    <3>3. QED
      BY <3>1, <3>2
  <2>2. QED
    BY <1>2, <2>1 DEF Types
<1>5. live.at \in {"idle", "insert", "down"} /\ live.last \in 0..Len(tape)
  BY <1>2, <1>3, ConstantsAre DEF Types, Collector, Collected
<1>6. \A d \in 1..FillDays : cache[d] \subseteq Day(d) \cup {Ends(d)}
  BY <1>2 DEF Filled, Got, Window
<1>7. fill.at \in {"off", "fetch", "page", "insert", "done"} /\ fill.day \in 1..(FillDays + 1)
  BY <1>2 DEF Types, Backfill
<1>8. hist.at \in {"off", "load", "done"} /\ hist.files \subseteq Files
  BY <1>2 DEF Types, Load
<1>9. reader.at \in {"idle", "page"}
  BY <1>2 DEF Types, Reader
<1>10. QED
  BY <1>3, <1>4, <1>5, <1>6, <1>7, <1>8, <1>9 DEF TypeOK

\* The state of every program has its type, whichever of them run together.
THEOREM TypeCorrect == Spec => []TypeOK
BY InvHolds, InvIsTyped, PTL

\* Whichever program wrote the ticks of a candle, and whatever failed before, the
\* ticks in the table are those of the complete candle, and build_candles() gives
\* it back unless it ended where it began (split_candles() of tick_lib).
THEOREM TicksAreCandles == Spec => []TicksRebuildCandles
<1>1. ASSUME Inv PROVE TicksRebuildCandles
  <2>1. SUFFICES ASSUME NEW c \in Places, ltp[c] # <<>>
                 PROVE  /\ c <= Len(tape) /\ ltp[c] = Split(tape[c])
                        /\ tape[c].o # tape[c].c => Rebuilt(ltp[c]) = tape[c]
    BY DEF TicksRebuildCandles
  <2>2. c <= Len(tape) /\ ltp[c] = Split(tape[c])
    BY <1>1, <2>1 DEF Inv, Written
  <2>3. tape[c] \in Shapes
    BY <1>1, <2>2, TapeIs DEF Inv, Places
  <2>4. QED
    BY <2>2, <2>3, SplitIsRebuilt
<1>2. QED
  BY <1>1, InvHolds, PTL

\* The candle the collector remembers as its last is in the table, although an
\* insert may fail before or after it was committed (main.py, insert_ticks()).
THEOREM LastIsInTable == Spec => []LastIsStored
<1>1. Inv => LastIsStored
  BY DEF Inv, Collected, LastIsStored
<1>2. QED
  BY <1>1, InvHolds, PTL

\* A backfill that ends without an error has left every candle that its pages ask
\* for in the table, whether it took a day from the cache or fetched it, whatever
\* died before, and whether or not the exchange counts the candle at a page's end
\* (backfill_ltp.py; fetch_day() and _paginate() of _client.py).
THEOREM FillLeavesNoGap == Spec => []FillIsWhole
<1>1. ASSUME Inv, fill.at = "done", fill.errors = 0, NEW d \in 1..FillDays
      PROVE  Stored(Asked(d))
  <2>1. fill.day = FillDays + 1 /\ \A e \in 1..(fill.day - 1) : Stored(Asked(e))
    BY <1>1 DEF Inv, Filled
  <2>2. fill.day - 1 = FillDays
    BY <2>1, ConstantsAre
  <2>3. QED
    BY <2>1, <2>2
<1>2. Inv => FillIsWhole
  BY <1>1 DEF FillIsWhole
<1>3. QED
  BY <1>2, InvHolds, PTL

\* What fetch_candles() shows has no gap and holds no candle that still forms,
\* whether it is new, kept, or the last one that succeeded, although the market
\* goes on between its pages (tsdb_reader.py).
THEOREM FetchHasNoGap == Spec => []FetchIsWhole
<1>1. Inv => FetchIsWhole
  BY DEF Inv, Kept, Whole, FetchIsWhole
<1>2. QED
  BY <1>1, InvHolds, PTL
-----------------------------------------------------------------------------
(***************************************************************************)
(* The history load covers its files, when it is told a date after them.   *)
(***************************************************************************)
LEMMA FilesFit == ASSUME NEW d \in Files PROVE Held[d] \subseteq Places
<1>1. Held[d] \subseteq 1..Past /\ Past \in Nat /\ Past <= MaxCandles
  BY ConstantsAre
<1>2. QED
  BY <1>1, ConstantsAre DEF Places

LEMMA NothingCovered == Init => Covered
BY DEF Init, HistIdle, Covered, SameCoverage

\* A step of another program.
LEMMA CoveredStays == ASSUME Inv, Covered, Onward, hist' = hist PROVE Covered'
<1>1. \A d \in Files : \A c \in Held[d] : ltp[c] # <<>> => ltp'[c] # <<>>
  BY FilesFit DEF Onward
<1>2. hist.at = "load" => \A d \in Files \ hist.files : \A c \in Held[d] \ hist.rest : ltp'[c] # <<>>
  BY <1>1 DEF Covered, Stored
<1>3. SameCoverage'
  BY <1>1 DEF Covered, SameCoverage, Stored
<1>4. QED
  BY <1>2, <1>3 DEF Covered, Stored

LEMMA HistCovers == ASSUME Inv, Covered, Covering, Hist PROVE Covered'
<1>1. CASE StartHist
  <2>1. Selected = Files
    BY DEF Covering, Selected
  <2>2. hist' = [at |-> IF Files = {} THEN "done" ELSE "load", files |-> Files, rest |-> {}]
    BY <1>1, <2>1 DEF StartHist
  <2>3. hist'.at = "done" => Files = {}
    BY <2>2
  <2>4. Files \ hist'.files = {}
    BY <2>2
  <2>5. QED
    BY <2>3, <2>4 DEF Covered, SameCoverage
<1>2. CASE OpenFile
  <2>1. /\ NextFile \in hist.files /\ NextFile \in Files /\ hist'.at = "load"
        /\ hist'.files = hist.files \ {NextFile} /\ hist'.rest = Held[NextFile]
        /\ ltp' = ltp /\ hist.at = "load" /\ hist.rest = {}
    BY <1>2, OpenFileIs DEF OpenFile
  <2> DEFINE f == NextFile
  <2>2. ASSUME NEW d \in Files \ hist'.files, NEW c \in Held[d] \ hist'.rest
        PROVE  ltp'[c] # <<>>
    <3>1. CASE d = f
      BY <2>1, <2>2, <3>1
    <3>2. CASE d # f
      BY <2>1, <2>2, <3>2 DEF Covered, Stored
    <3>3. QED
      BY <3>1, <3>2
  <2>3. QED
    BY <2>1, <2>2 DEF Covered, SameCoverage, Stored
<1>3. CASE LoadBatch
  <2>1. PICK c \in hist.rest :
              /\ ltp' = Inserted(Taped({c}))
              /\ hist'.files = hist.files /\ hist'.rest = hist.rest \ {c}
              /\ hist.at = "load"
              /\ hist'.at = IF hist.rest = {c} /\ hist.files = {} THEN "done" ELSE "load"
    BY <1>3, LoadBatchIs
  <2>2. {c} \subseteq 1..Len(tape) /\ tape' = tape
    BY <1>3, <2>1 DEF Inv, Loaded, LoadBatch
  <2>3. Onward /\ ltp'[c] # <<>>
    BY <2>1, <2>2, InsertedIs DEF Inv, Stored
  <2>4. ASSUME NEW d \in Files \ hist.files, NEW x \in Held[d] \ hist'.rest
        PROVE  ltp'[x] # <<>>
    <3>1. CASE x = c
      BY <2>3, <3>1
    <3>2. CASE x # c
      <4>1. ltp[x] # <<>>
        BY <2>1, <2>4, <3>2 DEF Covered, Stored
      <4>2. x \in Places
        BY <2>4, FilesFit
      <4>3. QED
        BY <2>3, <4>1, <4>2 DEF Onward
    <3>3. QED
      BY <3>1, <3>2
  <2>5. hist'.at = "done" => hist'.rest = {} /\ hist.files = {}
    BY <2>1
  <2>6. hist'.at = "done" => \A d \in Files : \A x \in Held[d] : ltp'[x] # <<>>
    BY <2>4, <2>5
  <2>7. QED
    BY <2>1, <2>4, <2>6 DEF Covered, SameCoverage, Stored
<1>4. CASE HistDies
  BY <1>4 DEF HistDies, HistIdle, Covered, SameCoverage
<1>5. QED
  BY <1>1, <1>2, <1>3, <1>4 DEF Hist

\* Every program but the history load leaves what it has done.
LEMMA OthersGoOn ==
    ASSUME Inv, TimePasses \/ Live \/ Fill \/ (Read /\ UNCHANGED writers)
    PROVE  Onward /\ hist' = hist
<1>1. CASE TimePasses
  <2>1. PICK s \in Shapes : tape' = Append(tape, s)
    BY <1>1 DEF TimePasses, CandleCloses
  <2>2. tape \in Seq(Shapes) /\ Len(tape) \in Nat
    BY TapeIs DEF Inv, Types
  <2>3. Len(tape') = Len(tape) + 1 /\ \A i \in 1..Len(tape) : tape'[i] = tape[i]
    BY <2>1, <2>2, AppendProperties
  <2>4. QED
    BY <1>1, <2>2, <2>3 DEF TimePasses, writers, Onward
<1>2. CASE Live
  <2>1. CASE PollLive \/ RestartLive
    BY <2>1, Idle DEF Inv, PollLive, RestartLive
  <2>2. CASE InsertLive
    BY <2>2, GotInserted DEF InsertLive
  <2>3. CASE InsertLiveFails
    <3>1. CASE ltp' = ltp
      BY <2>3, <3>1, Idle DEF Inv, InsertLiveFails
    <3>2. CASE ltp' = Inserted([c \in {live.got.n} |-> live.got.shape])
      BY <2>3, <3>2, GotInserted DEF InsertLiveFails
    <3>3. QED
      BY <2>3, <3>1, <3>2 DEF InsertLiveFails
  <2>4. QED
    BY <1>2, <2>1, <2>2, <2>3 DEF Live
<1>3. CASE Fill
  <2>1. CASE StartFill \/ FetchDay \/ AskPage \/ AskLastPage \/ PageFails \/ FillDies
    BY <2>1, Idle DEF Inv, StartFill, FetchDay, AskPage, AskLastPage, PageFails, FillDies
  <2>2. CASE InsertDay
    <3>1. hist' = hist /\ tape' = tape
      BY <2>2 DEF InsertDay
    <3>2. fill.groups \subseteq 1..Len(tape)
      BY <2>2 DEF InsertDay, Inv, Filled, Got
    <3>3. CASE ltp' = ltp
      BY <3>1, <3>3, Idle DEF Inv
    <3>4. CASE ltp' = Inserted(Taped(fill.groups))
      BY <3>1, <3>2, <3>4, InsertedIs DEF Inv
    <3>5. QED
      BY <2>2, <3>3, <3>4 DEF InsertDay
  <2>3. QED
    BY <1>3, <2>1, <2>2 DEF Fill
<1>4. CASE Read /\ UNCHANGED writers
  BY <1>4, Idle DEF Inv, Read, ServeKept, BeginFetch, FetchPage, FetchNothing, FetchFails, writers
<1>5. QED
  BY <1>1, <1>2, <1>3, <1>4

LEMMA NextCovered == ASSUME Inv, Covered, Covering, [Next]_vars PROVE Covered'
<1>1. CASE UNCHANGED vars
  BY <1>1 DEF vars, Covered, SameCoverage, Stored
<1>2. CASE TimePasses \/ Live \/ Fill \/ (Read /\ UNCHANGED writers)
  BY <1>2, OthersGoOn, CoveredStays
<1>3. CASE Hist
  BY <1>3, HistCovers
<1>4. QED
  BY <1>1, <1>2, <1>3 DEF Next

LEMMA CoveredHolds == ASSUME Covering PROVE Spec => []Covered
<1>1. Init => Covered
  BY NothingCovered
<1>2. Inv /\ Covered /\ [Next]_vars => Covered'
  BY NextCovered
<1>3. QED
  BY <1>1, <1>2, InvHolds, PTL DEF Spec

\* Once the history load has ended every candle of its files is in the table, if it
\* was told a date after them: each batch is committed by itself, and a load that
\* dies begins again (backfill_ltp_from_history.py).
THEOREM LoadCovers == ASSUME Covering PROVE Spec => []SameCoverage
<1>1. Covered => SameCoverage
  BY DEF Covered
<1>2. QED
  BY <1>1, CoveredHolds, PTL
=============================================================================
