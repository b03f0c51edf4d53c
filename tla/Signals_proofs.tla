------------------------- MODULE Signals_proofs -------------------------
(***************************************************************************)
(* What the studies of signals promise, for every tape and every value of   *)
(* the constants: no signal has its stop or its target on the wrong side of *)
(* the price that it is entered at, and none is decided on a bar that is    *)
(* not over.  One part per study.                                           *)
(***************************************************************************)
EXTENDS Lab_proofs

-----------------------------------------------------------------------------
(***************************************************************************)
(* The signals of the detectors are fair.                                  *)
(***************************************************************************)
\* A signal against the open of the bar it enters on.
UnitIn(s, name) == IF name = "sigma" THEN s.of.unit ELSE 1

\* The stop of a signal is behind the open of its entry bar, the target ahead.
FairAt(s, name, bars) ==
    /\ s.entry \in DOMAIN bars
    /\ s.side * s.sl < s.side * UnitIn(s, name) * bars[s.entry].o
    /\ s.side * UnitIn(s, name) * bars[s.entry].o < s.side * s.tp

\* All signals of a list are fair against those bars.
FairList(q, name, bars) == IsList(q) /\ \A i \in DOMAIN q : FairAt(q[i], name, bars)

\* A list that is appended to another.
LEMMA ListsJoin ==
    ASSUME NEW q, NEW e, IsList(q), IsList(e)
    PROVE  /\ IsList(q \o e)
           /\ \A i \in DOMAIN (q \o e) :
                 \/ i \in DOMAIN q /\ (q \o e)[i] = q[i]
                 \/ \E j \in DOMAIN e : (q \o e)[i] = e[j]
<1>1. PICK S : q \in Seq(S)
  BY DEF IsList
<1>2. PICK T : e \in Seq(T)
  BY DEF IsList
<1>3. q \in Seq(S \cup T) /\ e \in Seq(S \cup T)
  BY <1>1, <1>2, SeqMonotonic
<1>4. QED
  BY <1>3, Added DEF IsList

\* The signals found before stay fair on a longer tape, and new ones join them.
LEMMA FairJoin ==
    ASSUME NEW q, NEW e, NEW name, NEW bars, NEW more,
           \A j \in DOMAIN bars : j \in DOMAIN more /\ more[j] = bars[j],
           FairList(q, name, bars), FairList(e, name, more)
    PROVE  FairList(q \o e, name, more)
<1>1. \A i \in DOMAIN q : FairAt(q[i], name, more)
  BY DEF FairList, FairAt
<1>2. \A j \in DOMAIN e : FairAt(e[j], name, more)
  BY DEF FairList
<1>3. IsList(q) /\ IsList(e) /\ IsList(q \o e)
  BY ListsJoin DEF FairList
<1>4. ASSUME NEW i \in DOMAIN (q \o e) PROVE FairAt((q \o e)[i], name, more)
  <2>1. \/ i \in DOMAIN q /\ (q \o e)[i] = q[i]
        \/ \E j \in DOMAIN e : (q \o e)[i] = e[j]
    BY <1>3, ListsJoin
  <2>2. QED
    BY <1>1, <1>2, <2>1
<1>5. QED
  BY <1>3, <1>4 DEF FairList

\* Nothing, and one signal.
LEMMA FairNone ==
    ASSUME NEW name, NEW bars
    PROVE  FairList(<<>>, name, bars)
<1>1. <<>> \in Seq({})
  OBVIOUS
<1>2. QED
  BY <1>1 DEF FairList, IsList

\* A list of one signal.
LEMMA FairOne ==
    ASSUME NEW s, NEW name, NEW bars, FairAt(s, name, bars)
    PROVE  FairList(<<s>>, name, bars)
<1>1. <<s>> \in Seq({s}) /\ DOMAIN <<s>> = {1} /\ <<s>>[1] = s
  OBVIOUS
<1>2. QED
  BY <1>1 DEF FairList, IsList

\* The signals of a finite set.
LEMMA FairSet ==
    ASSUME NEW S, IsFiniteSet(S), NEW name, NEW bars, \A s \in S : FairAt(s, name, bars)
    PROVE  FairList(SetToSeq(S), name, bars)
<1>1. SetToSeq(S) \in Seq(S)
  BY SeqOfSet
<1>2. \A i \in DOMAIN SetToSeq(S) : SetToSeq(S)[i] \in S
  BY <1>1
<1>3. QED
  BY <1>1, <1>2 DEF FairList, IsList

\* A signal, spelled out: a stop below the open and a target above it.
LEMMA SignalIsFair ==
    ASSUME NEW bars, NEW k, k \in DOMAIN bars, bars[k] \in Ohlc, NEW side \in Sides,
           NEW sl \in Int, NEW tp \in Int, NEW of, NEW name, name # "sigma",
           sl < side * bars[k].o, side * bars[k].o < tp
    PROVE  FairAt(Signal(side, k, side * sl, side * tp, of), name, bars)
<1> DEFINE s == Signal(side, k, side * sl, side * tp, of)
<1>1. s.side = side /\ s.entry = k /\ s.sl = side * sl /\ s.tp = side * tp
  BY DEF Signal
<1> HIDE DEF s
<1>2. bars[k].o \in Int
  BY DEF Ohlc
<1>3. side * (side * sl) = sl /\ side * (side * tp) = tp /\ side * 1 * bars[k].o = side * bars[k].o
  BY <1>2 DEF Sides
<1>4. FairAt(s, name, bars)
  BY <1>1, <1>3 DEF FairAt, UnitIn
<1>5. QED
  BY <1>4 DEF s

-----------------------------------------------------------------------------
\* The gaps that are watched: any, with bounds that are prices.
ZoneRecord == [side : Sides, lo : Int, hi : Int, formed : Int, state : {"fill", "violation", "retest"}]

\* The invariant of the inverse gap study.
InverseInv ==
    /\ tape \in Seq(Ohlc)
    /\ "zones" \in DOMAIN mem
    /\ IsFiniteSet(mem.zones) /\ mem.zones \subseteq ZoneRecord
    /\ FairList(out, "inverse", tape)

\* The gaps of a bar.
LEMMA GapsAre ==
    ASSUME NEW bars \in Seq(Ohlc), NEW i \in DOMAIN bars
    PROVE  IsFiniteSet(Gaps(bars, i)) /\ Gaps(bars, i) \subseteq ZoneRecord
<1>1. Len(bars) \in Nat /\ DOMAIN bars = 1..Len(bars) /\ \A j \in DOMAIN bars : bars[j] \in Ohlc
  BY TapeIs
<1>2. CASE i < 3
  BY <1>2, FS_EmptySet DEF Gaps
<1>3. CASE ~(i < 3)
  <2> DEFINE f == [side \in Sides |-> Gap(bars, i, side)]
             all == {f[side] : side \in Sides}
  <2>1. IsFiniteSet(all)
    BY SidesAreFinite, ImageIsFinite
  <2>2. Gaps(bars, i) = {g \in all : g.lo < g.hi /\ g.hi - g.lo >= GapMinWidth}
    <3>1. all = {Gap(bars, i, side) : side \in Sides}
      OBVIOUS
    <3>2. QED
      BY <1>3, <3>1 DEF Gaps
  <2>3. ASSUME NEW side \in Sides PROVE f[side] \in ZoneRecord
    <3>1. bars[i] \in Ohlc /\ bars[i - 2] \in Ohlc
      BY <1>1, <1>3
    <3>2. Facing(bars[i], side) \in Ohlc /\ Facing(bars[i - 2], side) \in Ohlc
      BY <3>1, FacingIsBar
    <3>3. i \in Int
      BY <1>1
    <3>4. f[side] = Gap(bars, i, side)
      OBVIOUS
    <3> HIDE DEF f
    <3>5. QED
      BY <3>2, <3>3, <3>4 DEF Gap, ZoneRecord, Ohlc
  <2>4. all \subseteq ZoneRecord
    BY <2>3
  <2> HIDE DEF all
  <2>5. Gaps(bars, i) \in SUBSET all
    BY <2>2
  <2>6. QED
    BY <2>1, <2>4, <2>5, FS_Subset
<1>4. QED
  BY <1>2, <1>3

\* A trade against the side that a stop is beyond the open for, at twice the risk.
LEMMA Mirrored ==
    ASSUME NEW s \in Sides, NEW o \in Int, NEW p \in Int, p > s * o
    PROVE  /\ -s \in Sides /\ -p \in Int /\ -s * o + 2 * (p - s * o) \in Int
           /\ -p < (-s) * o /\ (-s) * o < -s * o + 2 * (p - s * o)
           /\ (-s) * (-p) = s * p
           /\ (-s) * (-s * o + 2 * (p - s * o)) = o - s * 2 * (p - s * o)
<1>1. CASE s = 1
  BY <1>1 DEF Sides
<1>2. CASE s = -1
  <2>1. -s = 1 /\ -s * o = o /\ s * o = -o /\ p > -o /\ p - s * o = p + o /\ s * p = -p
    <3>1. -s = 1
      <4>1. -s = 0 - s
        BY DEF Sides
      <4>2. QED
        BY <1>2, <4>1
    <3>2. s * o = -o
      BY <1>2
    <3>3. -s * o = o
      BY <3>2
    <3>4. p > -o
      BY <3>2
    <3>5. p - s * o = p + o
      BY <3>2
    <3>6. s * p = -p
      BY <1>2
    <3>7. QED
      BY <3>1, <3>2, <3>3, <3>4, <3>5, <3>6
  <2>2. -s \in Sides /\ -p \in Int /\ -s * o + 2 * (p - s * o) \in Int
    BY <2>1 DEF Sides
  <2>3. (-s) * o = o /\ (-s) * (-p) = -p
    BY <2>1
  <2>4. -s * o + 2 * (p - s * o) = o + 2 * (p + o)
    BY <2>1
  <2>5. -p < o /\ o < o + 2 * (p + o)
    BY <2>1
  <2>6. o - s * 2 * (p - s * o) = o + 2 * (p + o)
    BY <1>2, <2>1
  <2>7. (-s) * (-s * o + 2 * (p - s * o)) = o + 2 * (p + o)
    BY <2>1, <2>4
  <2>8. QED
    BY <2>1, <2>2, <2>3, <2>4, <2>5, <2>6, <2>7
<1>3. QED
  BY <1>1, <1>2 DEF Sides

\* A gap fires with its stop beyond it, and the target on the other side.
LEMMA GapSignalsFair ==
    ASSUME NEW bars \in Seq(Ohlc), NEW k \in Nat, k + 1 \in DOMAIN bars, k # 0,
           NEW zones, IsFiniteSet(zones), zones \subseteq ZoneRecord
    PROVE  FairList(SetToSeq(GapSignals(bars, k, zones)), "inverse", bars)
<1>1. Len(bars) \in Nat /\ DOMAIN bars = 1..Len(bars) /\ \A j \in DOMAIN bars : bars[j] \in Ohlc
  BY TapeIs
<1> DEFINE fire == {x \in zones : Fires(bars, k, x)}
           f == [z \in fire |-> GapSignal(z, k + 1, bars[k + 1].o)]
<1>2. GapSignals(bars, k, zones) = {f[z] : z \in fire}
  BY DEF GapSignals
<1>3. IsFiniteSet(fire)
  <2>1. fire \in SUBSET zones
    OBVIOUS
  <2> HIDE DEF fire
  <2>2. QED
    BY <2>1, FS_Subset
<1>4. ASSUME NEW z \in fire PROVE FairAt(f[z], "inverse", bars)
  <2>1. z \in ZoneRecord /\ Retested(bars, k, z) /\ f[z] = GapSignal(z, k + 1, bars[k + 1].o)
    BY DEF Fires
  <2> HIDE DEF f, fire
  <2>2. z.side \in Sides /\ z.hi \in Int
    BY <2>1 DEF ZoneRecord
  <2>3. bars[k + 1] \in Ohlc
    BY <1>1
  <2>4. Facing(bars[k + 1], z.side).o = z.side * bars[k + 1].o
    BY <2>2, <2>3, FacingIsBar
  <2>5. z.hi + GapBuffer > z.side * bars[k + 1].o
    BY <2>1, <2>4 DEF Retested
  <2> DEFINE open == bars[k + 1].o
             stop == z.hi + GapBuffer
             tp == -z.side * open + 2 * (stop - z.side * open)
  <2>6. open \in Int /\ stop \in Int /\ stop > z.side * open
    BY <2>2, <2>3, <2>5, GapBufferIsPrice DEF Ohlc
  <2>7. f[z] = Signal(-z.side, k + 1, z.side * stop, open - z.side * 2 * (stop - z.side * open),
                      <<z.formed, z.side>>)
    BY <2>1 DEF GapSignal
  <2> HIDE DEF open, stop
  <2>8. /\ -z.side \in Sides /\ -stop \in Int /\ tp \in Int
        /\ -stop < (-z.side) * open /\ (-z.side) * open < tp
        /\ (-z.side) * (-stop) = z.side * stop
        /\ (-z.side) * tp = open - z.side * 2 * (stop - z.side * open)
    BY <2>2, <2>6, Mirrored
  <2> HIDE DEF tp
  <2>9. f[z] = Signal(-z.side, k + 1, (-z.side) * (-stop), (-z.side) * tp, <<z.formed, z.side>>)
    BY <2>7, <2>8
  <2>10. -stop < (-z.side) * bars[k + 1].o /\ (-z.side) * bars[k + 1].o < tp
    BY <2>8 DEF open
  <2>11. QED
    BY <1>1, <2>3, <2>8, <2>9, <2>10, SignalIsFair
<1> HIDE DEF f, fire
<1>5. IsFiniteSet({f[z] : z \in fire})
  BY <1>3, ImageIsFinite
<1>6. QED
  BY <1>2, <1>4, <1>5, FairSet

\* The invariant of the inverse gap study holds at the start.
LEMMA InverseBegins == InitInverse => InverseInv
<1> SUFFICES ASSUME InitInverse PROVE InverseInv
  OBVIOUS
<1> DEFINE memory == [zones |-> {}]
<1>1. DOMAIN memory = {"zones"} /\ memory.zones = {} /\ StartStudy("inverse", memory)
  BY DEF InitInverse
<1> HIDE DEF memory
<1>2. tape = <<>> /\ out = <<>> /\ "zones" \in DOMAIN mem /\ mem.zones = {}
  BY <1>1, Started
<1>3. tape \in Seq(Ohlc)
  BY <1>2
<1>4. QED
  BY <1>2, <1>3, FairNone, FS_EmptySet DEF InverseInv

\* A step of the inverse gap study keeps it.
LEMMA InverseGoesOn == InverseInv /\ InverseStep => InverseInv'
<1> SUFFICES ASSUME InverseInv, InverseStep PROVE InverseInv'
  OBVIOUS
<1>1. /\ tape' \in Seq(Ohlc) /\ Len(tape') = Len(tape) + 1 /\ Len(tape) \in Nat
      /\ DOMAIN tape' = 1..(Len(tape) + 1) /\ DOMAIN tape = 1..Len(tape)
      /\ \A j \in DOMAIN tape : j \in DOMAIN tape' /\ tape'[j] = tape[j]
      /\ \A j \in DOMAIN tape' : tape'[j] \in Ohlc
  BY NextTape DEF InverseInv, InverseStep, PriceStudies
<1> DEFINE k == Len(tape)
           zones == mem.zones \cup Gaps(tape', k)
<1>2. CASE k = 0
  <2>1. mem' = mem /\ out' = out
    BY <1>2 DEF InverseStep
  <2>2. FairList(out, "inverse", tape')
    BY <1>1 DEF InverseInv, FairList, FairAt
  <2>3. QED
    BY <1>1, <2>1, <2>2 DEF InverseInv
<1>3. CASE k # 0
  <2>1. /\ out' = out \o InverseFinds(tape')
        /\ mem' = [mem EXCEPT !.zones =
                      {IF z.formed = k THEN z ELSE Watch(z, tape'[k]) : z \in Kept(tape', k, zones)}]
        /\ InverseFinds(tape') = SetToSeq(GapSignals(tape', k, zones))
    <3>1. Len(tape') - 1 = k
      BY <1>1
    <3>2. ZonesAt(tape') = zones
      BY <3>1 DEF ZonesAt
    <3>3. InverseFinds(tape') = SetToSeq(GapSignals(tape', k, zones))
      BY <3>1, <3>2 DEF InverseFinds
    <3>4. QED
      BY <1>3, <3>2, <3>3 DEF InverseStep
  <2>2. IsFiniteSet(zones) /\ zones \subseteq ZoneRecord
    <3>1. k \in DOMAIN tape'
      BY <1>1, <1>3
    <3>2. IsFiniteSet(Gaps(tape', k)) /\ Gaps(tape', k) \subseteq ZoneRecord
      BY <1>1, <3>1, GapsAre
    <3>3. QED
      BY <3>2, FS_Union DEF InverseInv
  <2> HIDE DEF zones
  <2>3. FairList(InverseFinds(tape'), "inverse", tape')
    <3>1. k \in Nat /\ k + 1 \in DOMAIN tape'
      BY <1>1
    <3> HIDE DEF k
    <3>2. QED
      BY <1>1, <1>3, <2>1, <2>2, <3>1, GapSignalsFair
  <2>4. FairList(out', "inverse", tape')
    BY <1>1, <2>1, <2>3, FairJoin DEF InverseInv
  <2> DEFINE kept == Kept(tape', k, zones)
             f == [z \in kept |-> IF z.formed = k THEN z ELSE Watch(z, tape'[k])]
             after == {f[z] : z \in kept}
  <2>5. mem' = [mem EXCEPT !.zones = after]
    BY <2>1
  <2>6. kept \in SUBSET zones
    BY DEF Kept
  <2> HIDE DEF kept
  <2>7. IsFiniteSet(kept)
    BY <2>2, <2>6, FS_Subset
  <2>8. \A z \in kept : f[z] \in ZoneRecord
    <3> SUFFICES ASSUME NEW z \in kept PROVE f[z] \in ZoneRecord
      OBVIOUS
    <3>1. z \in ZoneRecord
      BY <2>2, <2>6
    <3>2. Watch(z, tape'[k]) \in ZoneRecord
      BY <3>1 DEF Watch, ZoneRecord
    <3>3. QED
      BY <3>1, <3>2
  <2> HIDE DEF f
  <2>9. IsFiniteSet(after) /\ after \subseteq ZoneRecord
    BY <2>7, <2>8, ImageIsFinite
  <2> HIDE DEF after
  <2>10. "zones" \in DOMAIN mem' /\ mem'.zones = after
    BY <2>5 DEF InverseInv
  <2>11. QED
    BY <1>1, <2>4, <2>9, <2>10 DEF InverseInv
<1>4. QED
  BY <1>2, <1>3

-----------------------------------------------------------------------------
\* The larger and the smaller of two numbers.
LEMMA MaxOfTwo ==
    ASSUME NEW a \in Int, NEW b \in Int
    PROVE  /\ Max({a, b}) \in Int /\ Max({a, b}) \in {a, b}
           /\ a <= Max({a, b}) /\ b <= Max({a, b})
<1> DEFINE S == {a} \cup {b}
<1>1. IsFiniteSet(S) /\ S # {} /\ S \subseteq Int /\ S = {a, b}
  <2>1. IsFiniteSet({a}) /\ IsFiniteSet(S)
    BY FS_Singleton, FS_AddElement
  <2>2. QED
    BY <2>1
<1> HIDE DEF S
<1>2. Max(S) \in S /\ \A y \in S : Max(S) >= y
  BY <1>1, MaxIsOne
<1>3. QED
  BY <1>1, <1>2

\* The lesser of two integers.
LEMMA MinOfTwo ==
    ASSUME NEW a \in Int, NEW b \in Int
    PROVE  /\ Min({a, b}) \in Int /\ Min({a, b}) \in {a, b}
           /\ Min({a, b}) <= a /\ Min({a, b}) <= b
<1> DEFINE S == {a} \cup {b}
<1>1. IsFiniteSet(S) /\ S # {} /\ S \subseteq Int /\ S = {a, b}
  <2>1. IsFiniteSet({a}) /\ IsFiniteSet(S)
    BY FS_Singleton, FS_AddElement
  <2>2. QED
    BY <2>1
<1> HIDE DEF S
<1>2. Min(S) \in S /\ \A y \in S : Min(S) <= y
  BY <1>1, MinIsOne
<1>3. QED
  BY <1>1, <1>2

\* The last elements of a sequence.
LEMMA LastOfIs ==
    ASSUME NEW S, NEW q \in Seq(S), NEW n \in Int
    PROVE  /\ LastOf(q, n) \in Seq(S)
           /\ \A i \in DOMAIN LastOf(q, n) : LastOf(q, n)[i] \in S
<1> DEFINE a == Len(q) - n + 1
           m == Max({1, a})
<1>1. Len(q) \in Nat /\ a \in Int /\ m \in Int /\ 1 <= m
  <2>1. Len(q) \in Nat /\ a \in Int
    OBVIOUS
  <2> HIDE DEF a
  <2>2. 1 \in Int
    OBVIOUS
  <2>3. Max({1, a}) \in Int /\ 1 <= Max({1, a})
    BY ONLY <2>1, <2>2, MaxOfTwo
  <2>4. QED
    BY <2>1, <2>3
<1>2. LastOf(q, n) = SubSeq(q, m, Len(q))
  BY DEF LastOf
<1> HIDE DEF m
<1>3. SubSeq(q, m, Len(q)) \in Seq(S)
  BY <1>1
<1>4. QED
  BY <1>2, <1>3

\* Two bars make one of the higher time frame.
LEMMA HigherBarIs ==
    ASSUME NEW bars \in Seq(Ohlc), NEW j \in Nat, 2 * j - 1 \in DOMAIN bars
    PROVE  HigherBar(bars, j) \in Ohlc
<1> DEFINE first == 2 * j - 1
           both == {first, 2 * j} \cap DOMAIN bars
<1>1. /\ DOMAIN bars = 1..Len(bars) /\ Len(bars) \in Nat /\ IsFiniteSet(DOMAIN bars)
      /\ \A i \in DOMAIN bars : bars[i] \in Ohlc
  BY TapeIs
<1>2. first \in both /\ both \subseteq DOMAIN bars /\ both # {} /\ both \subseteq Int
  BY <1>1
<1>3. HigherBar(bars, j) = [o |-> bars[first].o, h |-> Max({bars[i].h : i \in both}),
                            l |-> Min({bars[i].l : i \in both}), c |-> bars[Max(both)].c]
  BY DEF HigherBar
<1> HIDE DEF both, first
<1>4. IsFiniteSet(both)
  BY <1>1, <1>2, FS_Subset
<1>5. Max(both) \in both
  BY <1>2, <1>4, MaxIsOne
<1> DEFINE h == Max({bars[i].h : i \in both})
           l == Min({bars[i].l : i \in both})
<1>6. /\ h \in Int /\ l \in Int
      /\ \A i \in both : bars[i].h <= h /\ l <= bars[i].l
  BY <1>1, <1>2, <1>4, Extremes
<1> HIDE DEF h, l
<1>7. HigherBar(bars, j) = [o |-> bars[first].o, h |-> h, l |-> l, c |-> bars[Max(both)].c]
  BY <1>3 DEF h, l
<1>8. /\ bars[first] \in Ohlc /\ bars[Max(both)] \in Ohlc
      /\ bars[first].h <= h /\ l <= bars[first].l /\ bars[Max(both)].h <= h /\ l <= bars[Max(both)].l
  BY <1>1, <1>2, <1>5, <1>6
<1> DEFINE x == bars[first]
           y == bars[Max(both)]
<1>9. x \in Ohlc /\ y \in Ohlc /\ x.h <= h /\ l <= x.l /\ y.h <= h /\ l <= y.l
      /\ HigherBar(bars, j) = [o |-> x.o, h |-> h, l |-> l, c |-> y.c]
  BY <1>7, <1>8
<1> HIDE DEF x, y
<1>10. x.o \in Int /\ x.l \in Int /\ x.h \in Int /\ y.c \in Int /\ y.l \in Int /\ y.h \in Int
       /\ x.l <= x.o /\ x.o <= x.h /\ y.l <= y.c /\ y.c <= y.h
  BY <1>9 DEF Ohlc
<1>11. l <= x.o /\ x.o <= h /\ l <= y.c /\ y.c <= h
  BY <1>6, <1>9, <1>10
<1>12. QED
  BY <1>6, <1>9, <1>10, <1>11 DEF Ohlc

\* The earlier bars and so many of the tape.
LEMMA HigherAre ==
    ASSUME NEW bars \in Seq(Ohlc), NEW past \in Seq(Ohlc), NEW n \in Nat, 2 * n - 1 <= Len(bars)
    PROVE  past \o [j \in 1..n |-> HigherBar(bars, j)] \in Seq(Ohlc)
<1>1. Len(bars) \in Nat /\ DOMAIN bars = 1..Len(bars)
  BY TapeIs
<1>2. ASSUME NEW j \in 1..n PROVE HigherBar(bars, j) \in Ohlc
  <2>1. j \in Nat /\ 2 * j - 1 \in DOMAIN bars
    BY <1>1
  <2>2. QED
    BY <2>1, HigherBarIs
<1> DEFINE q == [j \in 1..n |-> HigherBar(bars, j)]
<1>3. q \in [1..n -> Ohlc]
  BY <1>2
<1> HIDE DEF q
<1>4. q \in Seq(Ohlc)
  BY <1>3
<1>5. QED
  BY <1>4 DEF q

\* The bars of the higher time frame that have closed, and that have begun.
LEMMA HigherClosedAre ==
    ASSUME NEW bars \in Seq(Ohlc), mem.past \in Seq(Ohlc), NEW i \in Nat \ {0}, i <= Len(bars) + 1
    PROVE  HigherClosed(bars, i) \in Seq(Ohlc)
<1>1. (i - 1) \div 2 \in Nat /\ 2 * ((i - 1) \div 2) - 1 <= Len(bars)
  BY TapeIs
<1>2. QED
  BY <1>1, HigherAre DEF HigherClosed

\* A sequence of bars as a side sees it.
LEMMA FacingAllAre ==
    ASSUME NEW q \in Seq(Ohlc), NEW side \in Sides
    PROVE  /\ FacingAll(q, side) \in Seq(Ohlc) /\ Len(FacingAll(q, side)) = Len(q)
           /\ \A i \in DOMAIN q : FacingAll(q, side)[i] = Facing(q[i], side)
<1>1. Len(q) \in Nat /\ DOMAIN q = 1..Len(q) /\ \A j \in DOMAIN q : q[j] \in Ohlc
  BY TapeIs
<1>2. \A j \in DOMAIN q : Facing(q[j], side) \in Ohlc
  BY <1>1, FacingIsBar
<1> DEFINE f == [i \in DOMAIN q |-> Facing(q[i], side)]
<1>3. f \in [1..Len(q) -> Ohlc]
  BY <1>1, <1>2
<1>4. \A i \in DOMAIN q : f[i] = Facing(q[i], side)
  OBVIOUS
<1>5. FacingAll(q, side) = f
  BY DEF FacingAll
<1> HIDE DEF f
<1>6. f \in Seq(Ohlc) /\ Len(f) = Len(q)
  BY <1>1, <1>3
<1>7. QED
  BY <1>4, <1>5, <1>6

-----------------------------------------------------------------------------
\* The levels of a session: none, or prices.
LevelsType == {NoLevels} \cup [h : Int, l : Int]

\* The invariant of the liquidity sweep study.
SweepInv ==
    /\ tape \in Seq(Ohlc)
    /\ {"session", "levels"} \subseteq DOMAIN mem /\ mem.levels \in LevelsType
    /\ FairList(out, "sweep", tape)

\* Levels that a bar widens are levels.
LEMMA WidenIs ==
    ASSUME NEW levels \in LevelsType, NEW bar \in Ohlc
    PROVE  Widen(levels, bar) \in LevelsType
<1>1. CASE levels = NoLevels
  BY <1>1 DEF Widen, LevelsType, Ohlc
<1>2. CASE levels # NoLevels
  <2>1. levels \in [h : Int, l : Int]
    BY <1>2 DEF LevelsType
  <2>2. Max({levels.h, bar.h}) \in Int /\ Min({levels.l, bar.l}) \in Int
    BY <2>1, MaxOfTwo, MinOfTwo DEF Ohlc
  <2>3. QED
    BY <1>2, <2>2 DEF Widen, LevelsType
<1>3. QED
  BY <1>1, <1>2

\* The levels of a set of bars.
LEMMA LevelsAre ==
    ASSUME NEW bars \in Seq(Ohlc), NEW members \in SUBSET (DOMAIN bars)
    PROVE  Levels(bars, members) \in LevelsType
<1>1. IsFiniteSet(members) /\ \A j \in members : bars[j] \in Ohlc
  BY TapeIs, FS_Subset
<1>2. CASE members = {}
  BY <1>2 DEF Levels, LevelsType
<1>3. CASE members # {}
  <2>1. Max({bars[j].h : j \in members}) \in Int /\ Min({bars[j].l : j \in members}) \in Int
    BY <1>1, <1>3, Extremes
  <2>2. QED
    BY <1>3, <2>1 DEF Levels, LevelsType
<1>4. QED
  BY <1>2, <1>3

\* The levels that a bar is held against.
LEMMA CurrentLevelsAre ==
    ASSUME NEW bars \in Seq(Ohlc), NEW k \in Nat, k >= 2, k \in DOMAIN bars, mem.levels \in LevelsType
    PROVE  CurrentLevels(bars, k) \in LevelsType
<1>1. Len(bars) \in Nat /\ DOMAIN bars = 1..Len(bars) /\ \A j \in DOMAIN bars : bars[j] \in Ohlc
  BY TapeIs
<1>2. BeforeInSession(k) \in SUBSET (DOMAIN bars)
  BY <1>1 DEF BeforeInSession
<1>3. Levels(bars, BeforeInSession(k)) \in LevelsType /\ NoLevels \in LevelsType
  BY <1>2, LevelsAre DEF LevelsType
<1>4. Widen(mem.levels, bars[k - 1]) \in LevelsType
  <2>1. bars[k - 1] \in Ohlc
    BY <1>1
  <2>2. QED
    BY <2>1, WidenIs
<1>5. QED
  BY <1>3, <1>4 DEF CurrentLevels

\* A sweep is taken with the open between its stop and its target.
LEMMA SweepSignalsFair ==
    ASSUME NEW bars \in Seq(Ohlc), NEW k \in Nat, k \in DOMAIN bars, k + 1 \in DOMAIN bars,
           NEW levels \in LevelsType
    PROVE  FairList(SweepSignals(bars, k, levels), "sweep", bars)
<1> DEFINE side == SweepSide(bars[k], levels)
           b == Facing(bars[k], side)
           level == Swept(levels, side)
           open == side * bars[k + 1].o
           sl == b.l - SweepBuffer
<1>1. bars[k] \in Ohlc /\ bars[k + 1] \in Ohlc
  BY TapeIs
<1>2. CASE SweepSignals(bars, k, levels) = <<>>
  BY <1>2, FairNone
<1>3. CASE SweepSignals(bars, k, levels) # <<>>
  <2>1. /\ SweepSignals(bars, k, levels) = <<Signal(side, k + 1, side * sl, side * level.h, k)>>
        /\ levels # NoLevels /\ side # 0 /\ sl < open /\ open < level.h
    BY <1>3 DEF SweepSignals
  <2>2. side \in Sides
    BY <2>1 DEF SweepSide, Sides
  <2> HIDE DEF side
  <2>3. b \in Ohlc
    BY <1>1, <2>2, FacingIsBar
  <2>4. sl \in Int
    BY <2>3, SweepBufferIsPrice DEF Ohlc
  <2>5. level.h \in Int
    <3>1. levels \in [h : Int, l : Int]
      BY <2>1 DEF LevelsType
    <3>2. QED
      BY <2>2, <3>1 DEF Swept, Facing, Sides
  <2> HIDE DEF sl, level
  <2>6. FairAt(Signal(side, k + 1, side * sl, side * level.h, k), "sweep", bars)
    BY <1>1, <2>1, <2>2, <2>4, <2>5, SignalIsFair
  <2>7. QED
    BY <2>1, <2>6, FairOne
<1>4. QED
  BY <1>2, <1>3

\* The invariant of the sweep holds at the start.
LEMMA SweepBegins == InitSweep => SweepInv
<1> SUFFICES ASSUME InitSweep PROVE SweepInv
  OBVIOUS
<1> DEFINE memory == [session |-> 0, levels |-> NoLevels]
<1>1. DOMAIN memory = {"session", "levels"} /\ memory.levels = NoLevels /\ StartStudy("sweep", memory)
  BY DEF InitSweep
<1> HIDE DEF memory
<1>2. tape = <<>> /\ out = <<>> /\ {"session", "levels"} \subseteq DOMAIN mem /\ mem.levels = NoLevels
  BY <1>1, Started
<1>3. tape \in Seq(Ohlc)
  BY <1>2
<1>4. QED
  BY <1>2, <1>3, FairNone DEF SweepInv, LevelsType

\* A step of the sweep keeps it.
LEMMA SweepGoesOn == SweepInv /\ Sweep => SweepInv'
<1> SUFFICES ASSUME SweepInv, Sweep PROVE SweepInv'
  OBVIOUS
<1> DEFINE k == Len(tape)
           levels == CurrentLevels(tape', k)
<1>1. /\ tape' \in Seq(Ohlc) /\ Len(tape') = Len(tape) + 1 /\ Len(tape) \in Nat
      /\ DOMAIN tape' = 1..(Len(tape) + 1) /\ DOMAIN tape = 1..Len(tape)
      /\ \A j \in DOMAIN tape : j \in DOMAIN tape' /\ tape'[j] = tape[j]
      /\ \A j \in DOMAIN tape' : tape'[j] \in Ohlc
  BY NextTape DEF SweepInv, Sweep, PriceStudies
<1>2. k \in Nat /\ Len(tape') - 1 = k /\ k + 1 \in DOMAIN tape' /\ (k >= 2 => k \in DOMAIN tape')
  BY <1>1
<1>3. /\ out' = out \o SweepFinds(tape')
      /\ mem' = IF k < 2 THEN mem
                ELSE IF ~Weekday(k) THEN [mem EXCEPT !.session = 0]
                ELSE [mem EXCEPT !.session = SessionId(k),
                                 !.levels = IF SessionId(k) = 0 \/ levels = NoLevels THEN levels
                                            ELSE Widen(levels, tape'[k])]
  BY DEF Sweep
<1>4. SweepFinds(tape') = IF k < 2 \/ ~Weekday(k) THEN <<>> ELSE SweepSignals(tape', k, levels)
  BY <1>2 DEF SweepFinds
<1> HIDE DEF k
<1>5. k >= 2 => levels \in LevelsType
  BY <1>1, <1>2, CurrentLevelsAre DEF SweepInv
<1> HIDE DEF levels
<1>6. FairList(SweepFinds(tape'), "sweep", tape')
  <2>1. CASE k < 2 \/ ~Weekday(k)
    BY <1>4, <2>1, FairNone
  <2>2. CASE ~(k < 2 \/ ~Weekday(k))
    <3>1. levels \in LevelsType /\ k \in DOMAIN tape'
      BY <1>2, <1>5, <2>2
    <3>2. FairList(SweepSignals(tape', k, levels), "sweep", tape')
      BY <1>1, <1>2, <3>1, SweepSignalsFair
    <3>3. QED
      BY <1>4, <2>2, <3>2
  <2>3. QED
    BY <2>1, <2>2
<1>7. FairList(out', "sweep", tape')
  BY <1>1, <1>3, <1>6, FairJoin DEF SweepInv
<1>8. {"session", "levels"} \subseteq DOMAIN mem' /\ mem'.levels \in LevelsType
  <2>1. CASE k < 2
    BY <1>3, <2>1 DEF SweepInv
  <2>2. CASE k >= 2 /\ ~Weekday(k)
    BY <1>2, <1>3, <2>2 DEF SweepInv
  <2>3. CASE k >= 2 /\ Weekday(k)
    <3> DEFINE after == IF SessionId(k) = 0 \/ levels = NoLevels THEN levels ELSE Widen(levels, tape'[k])
    <3>1. after \in LevelsType
      <4>1. tape'[k] \in Ohlc /\ levels \in LevelsType
        BY <1>1, <1>2, <1>5, <2>3
      <4>2. Widen(levels, tape'[k]) \in LevelsType
        BY <4>1, WidenIs
      <4>3. QED
        BY <4>1, <4>2
    <3>2. mem' = [mem EXCEPT !.session = SessionId(k), !.levels = after]
      BY <1>2, <1>3, <2>3
    <3> HIDE DEF after
    <3>3. QED
      BY <3>1, <3>2 DEF SweepInv
  <2>4. QED
    BY <1>2, <2>1, <2>2, <2>3
<1>9. QED
  BY <1>1, <1>7, <1>8 DEF SweepInv

-----------------------------------------------------------------------------

\* The invariant of the killzone study.
OteInv ==
    /\ tape \in Seq(Ohlc)
    /\ mem.past \in Seq(Ohlc)
    /\ FairList(out, "ote", tape)

\* The last leg of the hours, at most one, runs between two prices.
LEMMA SwingLegIs ==
    ASSUME NEW hours \in Seq(Ohlc), NEW side \in Sides
    PROVE  IsFiniteSet(SwingLeg(hours, side)) /\ SwingLeg(hours, side) \subseteq [lo : Int, hi : Int]
<1> DEFINE recent == LastOf(hours, OteLookback)
           f == FacingAll(recent, side)
           least == {i \in DOMAIN f : f[i].l = Min(Lows(f))}
           origin == Min(least)
           leg == [lo |-> f[origin].l, hi |-> Max({f[i].h : i \in (origin + 1)..Len(f)})]
<1>1. f \in Seq(Ohlc)
  <2>1. recent \in Seq(Ohlc)
    BY LastOfIs, OteIsWhole
  <2> HIDE DEF recent
  <2>2. QED
    BY <2>1, FacingAllAre
<1>2. SwingLeg(hours, side) = IF Len(f) < 3 \/ origin = Len(f) THEN {} ELSE {leg}
  BY DEF SwingLeg
<1> HIDE DEF f
<1>3. CASE Len(f) < 3 \/ origin = Len(f)
  BY <1>2, <1>3, FS_EmptySet
<1>4. CASE ~(Len(f) < 3 \/ origin = Len(f))
  <2>1. /\ DOMAIN f = 1..Len(f) /\ Len(f) \in Nat /\ IsFiniteSet(DOMAIN f) /\ DOMAIN f # {}
        /\ \A j \in DOMAIN f : f[j] \in Ohlc
    BY <1>1, <1>4, TapeIs
  <2>2. \E j \in DOMAIN f : Min(Lows(f)) = f[j].l
    BY <2>1, Extremes DEF Lows
  <2>3. least # {} /\ least \in SUBSET (DOMAIN f) /\ least \subseteq Int
    BY <2>1, <2>2
  <2> HIDE DEF least
  <2>4. IsFiniteSet(least)
    BY <2>1, <2>3, FS_Subset
  <2>5. origin \in least
    BY <2>3, <2>4, MinIsOne
  <2> HIDE DEF origin
  <2>6. origin \in DOMAIN f /\ origin \in Int /\ origin < Len(f)
    BY <1>4, <2>1, <2>3, <2>5
  <2> DEFINE after == (origin + 1)..Len(f)
  <2>7. IsFiniteSet(after) /\ after # {} /\ \A j \in after : f[j] \in Ohlc
    <3>1. origin + 1 \in Int /\ Len(f) \in Int /\ Len(f) \in after
      BY <2>1, <2>6
    <3>2. IsFiniteSet(after)
      BY <3>1, FS_Interval
    <3>3. \A j \in after : j \in DOMAIN f
      BY <2>1, <2>6
    <3> HIDE DEF after
    <3>4. QED
      BY <2>1, <3>1, <3>2, <3>3
  <2> HIDE DEF after
  <2>8. Max({f[i].h : i \in after}) \in Int
    BY <2>7, Extremes
  <2>9. f[origin].l \in Int
    BY <2>1, <2>6 DEF Ohlc
  <2>10. leg \in [lo : Int, hi : Int]
    BY <2>8, <2>9 DEF after
  <2> HIDE DEF leg
  <2>11. QED
    BY <1>2, <1>4, <2>10, FS_Singleton
<1>5. QED
  BY <1>3, <1>4

\* Every signal of the killzones is worth its risk.
LEMMA OteFindsFair ==
    ASSUME NEW bars \in Seq(Ohlc), Len(bars) >= 1, mem.past \in Seq(Ohlc)
    PROVE  FairList(OteFinds(bars), "ote", bars)
<1> DEFINE k == Len(bars) - 1
           hours == VisibleHours(bars, k)
           side == BreakOfStructure(hours)
           open == side * bars[k + 1].o
           legs == {g \in SwingLeg(hours, side) :
                      /\ g.hi - g.lo >= OteMinLeg
                      /\ Overlap(Facing(bars[k], side).l, Facing(bars[k], side).h, OteZone(g))
                      /\ Confluent(hours, side, OteZone(g))
                      /\ WorthIt(g.lo - OteBuffer, open, g.hi)}
           f == [leg \in legs |-> Signal(side, k + 1, side * (leg.lo - OteBuffer), side * leg.hi, k)]
<1>1. /\ k \in Nat /\ k + 1 \in DOMAIN bars /\ bars[k + 1] \in Ohlc /\ Len(bars) = k + 1
  BY TapeIs
<1>2. OteFinds(bars) = IF k = 0 THEN <<>>
                       ELSE IF ~IsKillzone(k) \/ side = 0 THEN <<>> ELSE SetToSeq({f[leg] : leg \in legs})
  BY DEF OteFinds
<1>3. CASE k = 0 \/ ~IsKillzone(k) \/ side = 0
  BY <1>2, <1>3, FairNone
<1>4. CASE ~(k = 0 \/ ~IsKillzone(k) \/ side = 0)
  <2> HIDE DEF k
  <2>1. hours \in Seq(Ohlc)
    BY <1>1, <1>4, HigherClosedAre DEF VisibleHours
  <2> HIDE DEF hours
  <2>2. side \in Sides
    BY <1>4 DEF BreakOfStructure, Sides
  <2> HIDE DEF side
  <2>3. IsFiniteSet(SwingLeg(hours, side)) /\ SwingLeg(hours, side) \subseteq [lo : Int, hi : Int]
    BY <2>1, <2>2, SwingLegIs
  <2>4. legs \in SUBSET SwingLeg(hours, side)
    OBVIOUS
  <2>5. \A leg \in legs : leg.lo - OteBuffer < open /\ open < leg.hi
    BY DEF WorthIt
  <2>6. \A leg \in legs : f[leg] = Signal(side, k + 1, side * (leg.lo - OteBuffer), side * leg.hi, k)
    OBVIOUS
  <2> HIDE DEF legs, f
  <2>7. IsFiniteSet(legs)
    BY <2>3, <2>4, FS_Subset
  <2>8. ASSUME NEW leg \in legs PROVE FairAt(f[leg], "ote", bars)
    <3>1. leg.lo - OteBuffer \in Int /\ leg.hi \in Int
      BY <2>3, <2>4, OteIsWhole
    <3>2. QED
      BY <1>1, <2>2, <2>5, <2>6, <3>1, SignalIsFair
  <2>9. FairList(SetToSeq({f[leg] : leg \in legs}), "ote", bars)
    BY <2>7, <2>8, ImageIsFinite, FairSet
  <2>10. QED
    BY <1>2, <1>4, <2>9
<1>5. QED
  BY <1>3, <1>4

\* The invariant of the killzone study holds at the start.
LEMMA OteBegins == InitOte => OteInv
<1> SUFFICES ASSUME InitOte PROVE OteInv
  OBVIOUS
<1>1. tape = <<>> /\ out = <<>> /\ mem.past \in Pasts["ote"]
  BY Started DEF InitOte
<1>2. tape \in Seq(Ohlc)
  BY <1>1
<1>3. QED
  BY <1>1, <1>2, FairNone, DataAreBars DEF OteInv, HigherStudies

\* A step of the killzone study keeps it, and what it finds is fair.
LEMMA OteGoesOn == OteInv /\ Ote => OteInv' /\ FairList(OteFinds(tape'), "ote", tape')
<1> SUFFICES ASSUME OteInv, Ote PROVE OteInv' /\ FairList(OteFinds(tape'), "ote", tape')
  OBVIOUS
<1>1. /\ tape' \in Seq(Ohlc) /\ Len(tape') = Len(tape) + 1 /\ Len(tape) \in Nat
      /\ DOMAIN tape' = 1..(Len(tape) + 1) /\ DOMAIN tape = 1..Len(tape)
      /\ \A j \in DOMAIN tape : j \in DOMAIN tape' /\ tape'[j] = tape[j]
  BY NextTape DEF OteInv, Ote, PriceStudies
<1>2. mem' = mem /\ out' = out \o OteFinds(tape')
  BY DEF Ote
<1>3. FairList(OteFinds(tape'), "ote", tape')
  BY <1>1, OteFindsFair DEF OteInv
<1>4. FairList(out', "ote", tape')
  BY <1>1, <1>2, <1>3, FairJoin DEF OteInv
<1>5. QED
  BY <1>1, <1>2, <1>3, <1>4 DEF OteInv

-----------------------------------------------------------------------------
\* The blocks and breakers that are kept: any, with bounds that are prices.
BlockRecord == [side : Sides, made : Int, broke : Int, lo : Int, hi : Int]

\* The invariant of the breaker study.
BreakerInv ==
    /\ tape \in Seq(Ohlc)
    /\ {"blocks", "breakers"} \subseteq DOMAIN mem
    /\ IsFiniteSet(mem.blocks) /\ mem.blocks \subseteq BlockRecord
    /\ IsFiniteSet(mem.breakers) /\ mem.breakers \subseteq BlockRecord
    /\ FairList(out, "breaker", tape)

\* A decision is taken late enough for what it looks back at to be on the tape.
LEMMA DecisionsLookBack ==
    /\ FirstDecision \in Nat
    /\ SwingLookback + BlockSearch + 1 <= FirstDecision
    /\ AtrPeriod + 1 <= FirstDecision
<1> DEFINE a == AtrPeriod
           b == SwingLookback + BlockSearch
<1>1. a \in Nat /\ b \in Nat
  BY BreakerLooksBack
<1>2. FirstDecision = Max({a, b}) + 1
  BY DEF FirstDecision
<1> HIDE DEF a, b
<1>3. Max({a, b}) \in {a, b} /\ a <= Max({a, b}) /\ b <= Max({a, b})
  BY <1>1, MaxOfTwo
<1>4. FirstDecision \in Nat /\ b + 1 <= FirstDecision /\ a + 1 <= FirstDecision
  BY <1>1, <1>2, <1>3
<1>5. QED
  BY <1>4 DEF a, b

\* The order blocks of a bar.
LEMMA BlocksAre ==
    ASSUME NEW bars \in Seq(Ohlc), NEW i \in DOMAIN bars, i >= FirstDecision
    PROVE  IsFiniteSet(Blocks(bars, i)) /\ Blocks(bars, i) \subseteq BlockRecord
<1>1. Len(bars) \in Nat /\ DOMAIN bars = 1..Len(bars) /\ \A j \in DOMAIN bars : bars[j] \in Ohlc
  BY TapeIs
<1>2. SwingLookback \in Nat /\ BlockSearch \in Nat /\ i \in Nat /\ i - BlockSearch >= 1
  BY SMTT(30), <1>1, DecisionsLookBack, BreakerLooksBack
<1> DEFINE candles == [s \in Sides |-> {j \in (i - BlockSearch)..(i - 1) :
                                          Facing(bars[j], s).c > Facing(bars[j], s).o}]
           Falls(s) == /\ Facing(bars[i], s).c < Facing(bars[i], s).o
                       /\ \A j \in (i - SwingLookback)..(i - 1) : Facing(bars[i], s).c < Facing(bars[j], s).l
           f == [s \in Sides |-> [side |-> s, made |-> i, broke |-> 0,
                                  lo |-> Facing(bars[Max(candles[s])], s).o,
                                  hi |-> Facing(bars[Max(candles[s])], s).c]]
           of == {s \in Sides : Falls(s) /\ candles[s] # {}}
<1>3. Blocks(bars, i) = IF ~Displaced(bars, i) THEN {} ELSE {f[s] : s \in of}
  BY ZenonT(30) DEF Blocks
<1>4. IsFiniteSet(of)
  <2>1. of \in SUBSET Sides
    OBVIOUS
  <2> HIDE DEF of
  <2>2. QED
    BY <2>1, SidesAreFinite, FS_Subset
<1>5. ASSUME NEW s \in of PROVE f[s] \in BlockRecord
  <2> DEFINE j == Max(candles[s])
  <2>1. s \in Sides /\ candles[s] # {} /\ candles[s] \subseteq (i - BlockSearch)..(i - 1)
    OBVIOUS
  <2>2. f[s] = [side |-> s, made |-> i, broke |-> 0, lo |-> Facing(bars[j], s).o, hi |-> Facing(bars[j], s).c]
    OBVIOUS
  <2> HIDE DEF of, f, candles
  <2>3. j \in candles[s]
    <3>1. IsFiniteSet((i - BlockSearch)..(i - 1))
      BY <1>2, FS_Interval
    <3>2. IsFiniteSet(candles[s])
      BY <2>1, <3>1, FS_Subset
    <3>4. candles[s] \subseteq Int
      BY <1>2, <2>1
    <3>3. QED
      BY <2>1, <3>2, <3>4, MaxIsOne
  <2>4. j \in DOMAIN bars
    BY <1>1, <1>2, <2>1, <2>3
  <2> HIDE DEF j
  <2>5. Facing(bars[j], s) \in Ohlc
    BY <1>1, <2>1, <2>4, FacingIsBar
  <2>6. QED
    BY <1>2, <2>1, <2>2, <2>5 DEF BlockRecord, Ohlc
<1> HIDE DEF f, of
<1>6. IsFiniteSet({f[s] : s \in of}) /\ {f[s] : s \in of} \subseteq BlockRecord
  BY <1>4, <1>5, ImageIsFinite
<1>7. QED
  BY <1>3, <1>6, FS_EmptySet

\* A breaker that is turned away from has its stop beyond the zone and the open above it.
LEMMA BreakerSignalsFair ==
    ASSUME NEW bars \in Seq(Ohlc), NEW k \in Nat, k + 1 \in DOMAIN bars,
           NEW fires, IsFiniteSet(fires), fires \subseteq BlockRecord, \A b \in fires : TurnsAway(bars, k, b)
    PROVE  FairList(SetToSeq({BreakerSignal(bars, k, b) : b \in fires}), "breaker", bars)
<1> DEFINE f == [b \in fires |-> BreakerSignal(bars, k, b)]
<1>1. {BreakerSignal(bars, k, b) : b \in fires} = {f[b] : b \in fires}
  OBVIOUS
<1>2. bars[k + 1] \in Ohlc
  BY TapeIs
<1>3. ASSUME NEW b \in fires PROVE FairAt(f[b], "breaker", bars)
  <2> DEFINE sl == b.lo - BreakerBuffer
             open == b.side * bars[k + 1].o
             tp == open + 2 * (open - sl)
  <2>1. f[b] = Signal(b.side, k + 1, b.side * sl, b.side * tp, b)
    BY DEF BreakerSignal
  <2>2. b \in BlockRecord /\ sl < open
    BY DEF TurnsAway
  <2> HIDE DEF f
  <2>3. b.side \in Sides /\ b.lo \in Int
    BY <2>2 DEF BlockRecord
  <2>4. sl \in Int /\ open \in Int
    <3>1. bars[k + 1].o \in Int
      BY <1>2 DEF Ohlc
    <3>2. QED
      BY <2>3, <3>1, BreakerBufferIsPrice DEF Sides
  <2> HIDE DEF sl
  <2>5. tp \in Int /\ open < tp
    <3> HIDE DEF open
    <3>1. QED
      BY <2>2, <2>4
  <2> HIDE DEF tp
  <2>6. sl < b.side * bars[k + 1].o /\ b.side * bars[k + 1].o < tp
    BY <2>2, <2>5
  <2> HIDE DEF open
  <2>7. FairAt(Signal(b.side, k + 1, b.side * sl, b.side * tp, b), "breaker", bars)
    BY <1>2, <2>3, <2>4, <2>5, <2>6, SignalIsFair
  <2>8. QED
    BY <2>1, <2>7
<1> HIDE DEF f
<1>4. IsFiniteSet({f[b] : b \in fires})
  BY ImageIsFinite
<1>5. QED
  BY <1>1, <1>3, <1>4, FairSet

\* The invariant of the breaker study holds at the start.
LEMMA BreakerBegins == InitBreaker => BreakerInv
<1> SUFFICES ASSUME InitBreaker PROVE BreakerInv
  OBVIOUS
<1> DEFINE memory == [blocks |-> {}, breakers |-> {}]
<1>1. /\ DOMAIN memory = {"blocks", "breakers"} /\ memory.blocks = {} /\ memory.breakers = {}
      /\ StartStudy("breaker", memory)
  BY DEF InitBreaker
<1> HIDE DEF memory
<1>2. /\ tape = <<>> /\ out = <<>>
      /\ {"blocks", "breakers"} \subseteq DOMAIN mem /\ mem.blocks = {} /\ mem.breakers = {}
  BY <1>1, Started
<1>3. tape \in Seq(Ohlc)
  BY <1>2
<1>4. QED
  BY <1>2, <1>3, FairNone, FS_EmptySet DEF BreakerInv

\* A step of the breaker study keeps it, and what it finds is fair.
LEMMA BreakerGoesOn == BreakerInv /\ BreakerStep => BreakerInv' /\ FairList(BreakerBar(tape').finds, "breaker", tape')
<1> SUFFICES ASSUME BreakerInv, BreakerStep PROVE BreakerInv' /\ FairList(BreakerBar(tape').finds, "breaker", tape')
  OBVIOUS
<1>1. /\ tape' \in Seq(Ohlc) /\ Len(tape') = Len(tape) + 1 /\ Len(tape) \in Nat
      /\ DOMAIN tape' = 1..(Len(tape) + 1) /\ DOMAIN tape = 1..Len(tape)
      /\ \A j \in DOMAIN tape : j \in DOMAIN tape' /\ tape'[j] = tape[j]
      /\ \A j \in DOMAIN tape' : tape'[j] \in Ohlc
  BY NextTape DEF BreakerInv, BreakerStep, PriceStudies
<1> DEFINE k == Len(tape') - 1
           known == {b \in mem.blocks : k - b.made <= BlockMaxAge} \cup Blocks(tape', k)
           live == {b \in mem.breakers : k - b.broke <= BreakerMaxAge}
           broken == {b \in known : Broken(tape'[k], b)}
           turned == {[b EXCEPT !.broke = k] : b \in broken}
           breakers == live \cup turned
           fires == Oldest({b \in breakers : TurnsAway(tape', k, b)})
<1>2. k \in Nat /\ k = Len(tape) /\ k + 1 \in DOMAIN tape'
  BY <1>1
<1>4. BreakerBar(tape') =
        IF k < FirstDecision \/ RangeSum(tape', k) = 0 THEN [mem |-> mem, finds |-> <<>>]
        ELSE [mem |-> [mem EXCEPT !.blocks = known \ broken, !.breakers = breakers \ fires],
              finds |-> SetToSeq({BreakerSignal(tape', k, b) : b \in fires})]
  BY DEF BreakerBar
<1>5. out' = out \o BreakerBar(tape').finds /\ mem' = BreakerBar(tape').mem
  BY DEF BreakerStep
<1>3. ASSUME k < FirstDecision \/ RangeSum(tape', k) = 0
      PROVE  BreakerBar(tape') = [mem |-> mem, finds |-> <<>>]
  BY <1>3, <1>4
<1>9. ASSUME ~(k < FirstDecision \/ RangeSum(tape', k) = 0)
      PROVE  BreakerBar(tape') = [mem |-> [mem EXCEPT !.blocks = known \ broken, !.breakers = breakers \ fires],
                                  finds |-> SetToSeq({BreakerSignal(tape', k, b) : b \in fires})]
  BY <1>4, <1>9
<1>6. CASE k < FirstDecision \/ RangeSum(tape', k) = 0
  <2>1. mem' = mem /\ out' = out \o <<>> /\ BreakerBar(tape').finds = <<>>
    <3>1. BreakerBar(tape') = [mem |-> mem, finds |-> <<>>]
      BY <1>3, <1>6
    <3> DEFINE r == [mem |-> mem, finds |-> <<>>]
    <3>2. r.mem = mem /\ r.finds = <<>>
      OBVIOUS
    <3> HIDE DEF r
    <3>3. BreakerBar(tape') = r
      BY <3>1 DEF r
    <3>4. QED
      BY <1>5, <3>2, <3>3
  <2>2. FairList(<<>>, "breaker", tape')
    BY FairNone
  <2>3. FairList(out', "breaker", tape')
    BY <1>1, <2>1, <2>2, FairJoin DEF BreakerInv
  <2>4. QED
    BY <1>1, <2>1, <2>2, <2>3 DEF BreakerInv
<1>7. CASE ~(k < FirstDecision \/ RangeSum(tape', k) = 0)
  <2>1. /\ mem' = [mem EXCEPT !.blocks = known \ broken, !.breakers = breakers \ fires]
        /\ out' = out \o SetToSeq({BreakerSignal(tape', k, b) : b \in fires})
        /\ BreakerBar(tape').finds = SetToSeq({BreakerSignal(tape', k, b) : b \in fires})
    <3> DEFINE finds == SetToSeq({BreakerSignal(tape', k, b) : b \in fires})
               after == [mem EXCEPT !.blocks = known \ broken, !.breakers = breakers \ fires]
               r == [mem |-> after, finds |-> finds]
    <3>1. BreakerBar(tape') = r
      BY <1>7, <1>9
    <3> HIDE DEF known, broken, breakers, fires, k, after, finds
    <3>2. r.mem = after /\ r.finds = finds
      OBVIOUS
    <3> HIDE DEF r
    <3>3. mem' = after /\ out' = out \o finds /\ BreakerBar(tape').finds = finds
      BY <1>5, <3>1, <3>2
    <3>4. QED
      BY <3>3 DEF after, finds
  <2>2. k >= FirstDecision /\ k \in DOMAIN tape'
    <3> HIDE DEF k
    <3>1. FirstDecision \in Nat /\ FirstDecision >= 1
      BY DecisionsLookBack, BreakerLooksBack
    <3>2. QED
      BY <1>1, <1>2, <1>7, <3>1
  <2>3. IsFiniteSet(known) /\ known \subseteq BlockRecord
    <3>1. IsFiniteSet(Blocks(tape', k)) /\ Blocks(tape', k) \subseteq BlockRecord
      <4> HIDE DEF k
      <4>1. QED
        BY <1>1, <2>2, BlocksAre
    <3>2. {b \in mem.blocks : k - b.made <= BlockMaxAge} \in SUBSET mem.blocks
      OBVIOUS
    <3>3. IsFiniteSet({b \in mem.blocks : k - b.made <= BlockMaxAge})
      BY <3>2, FS_Subset DEF BreakerInv
    <3>4. QED
      BY <3>1, <3>2, <3>3, FS_Union DEF BreakerInv
  <2>4. IsFiniteSet(live) /\ live \subseteq BlockRecord
    <3>1. live \in SUBSET mem.breakers
      OBVIOUS
    <3> HIDE DEF live
    <3>2. QED
      BY <3>1, FS_Subset DEF BreakerInv
  <2> HIDE DEF known, live
  <2>5. IsFiniteSet(broken) /\ broken \subseteq BlockRecord
    <3>1. broken \in SUBSET known
      OBVIOUS
    <3> HIDE DEF broken
    <3>2. QED
      BY <2>3, <3>1, FS_Subset
  <2>6. IsFiniteSet(breakers) /\ breakers \subseteq BlockRecord
    <3> HIDE DEF broken, k
    <3> DEFINE f == [b \in broken |-> [b EXCEPT !.broke = k]]
    <3>1. turned = {f[b] : b \in broken}
      OBVIOUS
    <3>2. ASSUME NEW b \in broken PROVE f[b] \in BlockRecord
      <4>1. b \in BlockRecord
        BY <2>5
      <4>2. [b EXCEPT !.broke = k] \in BlockRecord
        BY <1>2, <4>1 DEF BlockRecord
      <4>3. QED
        BY <4>2
    <3> HIDE DEF f, turned
    <3>3. IsFiniteSet({f[b] : b \in broken})
      BY <2>5, ImageIsFinite
    <3>4. turned \subseteq BlockRecord
      BY <3>1, <3>2
    <3>5. QED
      BY <2>4, <3>1, <3>3, <3>4, FS_Union
  <2> HIDE DEF broken, turned, breakers
  <2>7. /\ fires \in SUBSET breakers
        /\ \A b \in fires : TurnsAway(tape', k, b)
    BY DEF Oldest
  <2> HIDE DEF fires
  <2>8. IsFiniteSet(fires) /\ fires \subseteq BlockRecord
    BY <2>6, <2>7, FS_Subset
  <2>9. FairList(SetToSeq({BreakerSignal(tape', k, b) : b \in fires}), "breaker", tape')
    <3> HIDE DEF k
    <3>1. QED
      BY <1>1, <1>2, <2>7, <2>8, BreakerSignalsFair
  <2>10. FairList(out', "breaker", tape')
    BY <1>1, <2>1, <2>9, FairJoin DEF BreakerInv
  <2> DEFINE blocks2 == known \ broken
             breakers2 == breakers \ fires
  <2>11. /\ IsFiniteSet(blocks2) /\ blocks2 \subseteq BlockRecord
         /\ IsFiniteSet(breakers2) /\ breakers2 \subseteq BlockRecord
    <3>1. blocks2 \in SUBSET known /\ breakers2 \in SUBSET breakers
      OBVIOUS
    <3> HIDE DEF blocks2, breakers2
    <3>2. QED
      BY <2>3, <2>6, <3>1, FS_Subset
  <2>12. mem' = [mem EXCEPT !.blocks = blocks2, !.breakers = breakers2]
    BY <2>1
  <2> HIDE DEF blocks2, breakers2
  <2>13. {"blocks", "breakers"} \subseteq DOMAIN mem' /\ mem'.blocks = blocks2 /\ mem'.breakers = breakers2
    BY <2>12 DEF BreakerInv
  <2>14. QED
    BY <1>1, <2>1, <2>9, <2>10, <2>11, <2>13 DEF BreakerInv
<1>8. QED
  BY <1>6, <1>7

-----------------------------------------------------------------------------

\* The invariant of the news study.
NewsInv ==
    /\ tape \in Seq(Ohlc)
    /\ "events" \in DOMAIN mem /\ IsFiniteSet(mem.events)
    /\ FairList(out, "news", tape)

\* A spike is faded with the stop beyond it and the price before it ahead.
LEMMA FadesFair ==
    ASSUME NEW bars \in Seq(Ohlc), NewsInv
    PROVE  FairList(NewsFinds(bars), "news", bars)
<1> DEFINE s == Len(bars) - 2
           sides == FadeSides(bars, s)
           events == EventsOf(s)
           both == sides \X events
           f == [p \in both |-> Fade(bars, s, p[1], p[2])]
<1>1. Len(bars) \in Nat /\ DOMAIN bars = 1..Len(bars) /\ \A j \in DOMAIN bars : bars[j] \in Ohlc
  BY TapeIs
<1>2. CASE s < 2
  BY <1>2, FairNone DEF NewsFinds
<1>3. CASE ~(s < 2)
  <2>1. NewsFinds(bars) = SetToSeq({f[p] : p \in both})
    <3> DEFINE fades == {Fade(bars, s, side, event) : side \in sides, event \in events}
    <3>1. fades = {f[p] : p \in both}
      <4>1. \A side \in sides, event \in events :
               <<side, event>> \in both /\ f[<<side, event>>] = Fade(bars, s, side, event)
        OBVIOUS
      <4>2. \A p \in both : p[1] \in sides /\ p[2] \in events /\ f[p] = Fade(bars, s, p[1], p[2])
        OBVIOUS
      <4> HIDE DEF f, both, sides, events, s
      <4>3. \A x : x \in fades <=> \E side \in sides, event \in events : x = Fade(bars, s, side, event)
        OBVIOUS
      <4> HIDE DEF fades
      <4>4. ASSUME NEW x \in fades PROVE \E p \in both : x = f[p]
        <5>1. PICK side \in sides, event \in events : x = Fade(bars, s, side, event)
          BY <4>3
        <5>2. <<side, event>> \in both /\ f[<<side, event>>] = Fade(bars, s, side, event)
          BY <4>1
        <5>3. QED
          BY <5>1, <5>2
      <4>5. \A p \in both : f[p] \in fades
        BY <4>2, <4>3
      <4>6. QED
        BY <4>4, <4>5
    <3>2. NewsFinds(bars) = SetToSeq(fades)
      BY <1>3 DEF NewsFinds
    <3> HIDE DEF f, both, sides, events, s, fades
    <3>3. QED
      BY <3>1, <3>2
  <2>2. \A side \in sides : side \in Sides /\ FadeFair(bars, s, side)
    <3>1. \A side \in sides : side \in {t \in Sides : Spiked(bars, s, t) /\ FadeFair(bars, s, t)}
      BY DEF FadeSides
    <3>2. QED
      BY <3>1
  <2>3. IsFiniteSet({f[p] : p \in both})
    <3>1. sides \in SUBSET Sides /\ events \in SUBSET mem.events
      BY <2>2 DEF EventsOf
    <3> HIDE DEF sides, events
    <3>2. IsFiniteSet(sides) /\ IsFiniteSet(events)
      BY <3>1, SidesAreFinite, FS_Subset DEF NewsInv
    <3>3. IsFiniteSet(both)
      BY <3>2, FS_Product
    <3> HIDE DEF both, f
    <3>4. QED
      BY <3>3, ImageIsFinite
  <2>4. ASSUME NEW p \in both PROVE FairAt(f[p], "news", bars)
    <3> DEFINE side == p[1]
               sl == Facing(bars[s], side).l - NewsBuffer
               c == bars[s - 1].c
               tp == side * c
    <3>1. f[p] = Signal(side, s + 2, side * sl, c, p[2])
      BY DEF Fade
    <3>2. side \in Sides /\ FadeFair(bars, s, side)
      BY <2>2
    <3> HIDE DEF f, both, side
    <3>3. s \in DOMAIN bars /\ s - 1 \in DOMAIN bars /\ s + 2 \in DOMAIN bars /\ s \in Int
      BY <1>1, <1>3
    <3>4. sl < side * bars[s + 2].o /\ side * bars[s + 2].o < tp
      BY <3>2 DEF FadeFair
    <3> HIDE DEF s
    <3>5. bars[s] \in Ohlc /\ bars[s - 1] \in Ohlc /\ bars[s + 2] \in Ohlc
      BY <1>1, <3>3
    <3>6. Facing(bars[s], side) \in Ohlc
      BY <3>2, <3>5, FacingIsBar
    <3>7. c \in Int /\ sl \in Int
      <4>1. c \in Int
        BY <3>5 DEF Ohlc
      <4>2. Facing(bars[s], side).l \in Int
        BY <3>6 DEF Ohlc
      <4>3. QED
        BY <4>1, <4>2, NewsIsScheduled
    <3> HIDE DEF c
    <3>8. tp \in Int /\ side * tp = c
      BY <3>2, <3>7 DEF Sides
    <3> HIDE DEF sl, tp
    <3>9. FairAt(Signal(side, s + 2, side * sl, side * tp, p[2]), "news", bars)
      BY <3>2, <3>3, <3>4, <3>5, <3>7, <3>8, SignalIsFair
    <3>10. QED
      BY <3>1, <3>8, <3>9
  <2> HIDE DEF f, both
  <2>5. FairList(SetToSeq({f[p] : p \in both}), "news", bars)
    <3> DEFINE S == {f[p] : p \in both}
    <3>1. IsFiniteSet(S) /\ \A x \in S : FairAt(x, "news", bars)
      BY <2>3, <2>4
    <3> HIDE DEF S
    <3>2. FairList(SetToSeq(S), "news", bars)
      BY <3>1, FairSet
    <3>3. QED
      BY <3>2 DEF S
  <2>6. QED
    BY <2>1, <2>5
<1>4. QED
  BY <1>2, <1>3

\* The invariant of the news study holds at the start.
LEMMA NewsBegins == InitNews => NewsInv
<1> SUFFICES ASSUME InitNews PROVE NewsInv
  OBVIOUS
<1>1. PICK events \in Events : StartStudy("news", [events |-> events])
  BY DEF InitNews
<1> DEFINE memory == [events |-> events]
<1>2. DOMAIN memory = {"events"} /\ memory.events = events /\ StartStudy("news", memory)
  BY <1>1
<1> HIDE DEF memory
<1>3. tape = <<>> /\ out = <<>> /\ "events" \in DOMAIN mem /\ mem.events = events
  BY <1>2, Started
<1>4. IsFiniteSet(events) /\ tape \in Seq(Ohlc)
  BY <1>1, <1>3, NewsIsScheduled
<1>5. QED
  BY <1>3, <1>4, FairNone DEF NewsInv

\* A step of the news study keeps it, and what it finds is fair.
LEMMA NewsGoesOn == NewsInv /\ News => NewsInv' /\ FairList(NewsFinds(tape'), "news", tape')
<1> SUFFICES ASSUME NewsInv, News PROVE NewsInv' /\ FairList(NewsFinds(tape'), "news", tape')
  OBVIOUS
<1>1. /\ tape' \in Seq(Ohlc)
      /\ DOMAIN tape' = 1..(Len(tape) + 1) /\ DOMAIN tape = 1..Len(tape) /\ Len(tape) \in Nat
      /\ \A j \in DOMAIN tape : j \in DOMAIN tape' /\ tape'[j] = tape[j]
  BY NextTape DEF NewsInv, News, PriceStudies
<1>2. mem' = mem /\ out' = out \o NewsFinds(tape')
  BY DEF News
<1>3. FairList(NewsFinds(tape'), "news", tape')
  BY <1>1, FadesFair
<1>4. FairList(out', "news", tape')
  BY <1>1, <1>2, <1>3, FairJoin DEF NewsInv
<1>5. QED
  BY <1>1, <1>2, <1>3, <1>4 DEF NewsInv

-----------------------------------------------------------------------------
\* What is remembered of a day: the side of a trade that a break leads to, or none,
\* and how far the break went.
DayMemory(m) ==
    {"side", "extreme", "fired"} \subseteq DOMAIN m /\ m.side \in Sides \cup {0} /\ m.extreme \in Int

\* The invariant of the Asian range study.
AsiaInv == tape \in Seq(Ohlc) /\ DayMemory(mem) /\ FairList(out, "asia", tape)

\* The trade back into the range has its reward ahead and its risk behind.
LEMMA AsiaTradeFair ==
    ASSUME NEW bars \in Seq(Ohlc), NEW k \in Nat, k + 1 \in DOMAIN bars, AsiaBars(k) # {},
           NEW side \in Sides, NEW extreme \in Int
    PROVE  FairList(AsiaTrade(bars, k, side, extreme), "asia", bars)
<1> DEFINE open == side * bars[k + 1].o
           sl == extreme - AsiaBuffer
           tp == AsiaHigh(bars, k, side)
<1>1. Len(bars) \in Nat /\ DOMAIN bars = 1..Len(bars) /\ \A j \in DOMAIN bars : bars[j] \in Ohlc
  BY TapeIs
<1>2. tp \in Int
  <2>1. AsiaBars(k) \in SUBSET (1..k) /\ IsFiniteSet(1..k)
    BY FS_Interval DEF AsiaBars
  <2>2. IsFiniteSet(AsiaBars(k))
    BY <2>1, FS_Subset
  <2>3. \A j \in AsiaBars(k) : bars[j] \in Ohlc
    BY <1>1, <2>1
  <2>4. QED
    BY <2>2, <2>3, ExtremesFacing DEF AsiaHigh
<1>3. bars[k + 1] \in Ohlc /\ sl \in Int
  BY <1>1, AsiaBufferIsPrice
<1>4. CASE RewardOk(open, sl, tp)
  <2>1. sl < open /\ open < tp
    <3> HIDE DEF open, sl, tp
    <3>1. open > sl /\ tp > open
      BY <1>4 DEF RewardOk
    <3>2. QED
      BY <1>2, <1>3, <3>1 DEF open, Sides, Ohlc
  <2>2. AsiaTrade(bars, k, side, extreme) = <<Signal(side, k + 1, side * sl, side * tp, DayOf(k))>>
    BY <1>4 DEF AsiaTrade
  <2> HIDE DEF sl, tp
  <2>3. sl < side * bars[k + 1].o /\ side * bars[k + 1].o < tp
    BY <2>1
  <2> HIDE DEF open
  <2>4. FairAt(Signal(side, k + 1, side * sl, side * tp, DayOf(k)), "asia", bars)
    BY <1>2, <1>3, <2>3, SignalIsFair
  <2>5. QED
    BY <2>2, <2>4, FairOne
<1>5. CASE ~RewardOk(open, sl, tp)
  <2>1. AsiaTrade(bars, k, side, extreme) = <<>>
    BY <1>5 DEF AsiaTrade
  <2>2. QED
    BY <2>1, FairNone
<1>6. QED
  BY <1>4, <1>5

\* A bar leaves a day's memory, and a trade that is fair.
DayStep(r, bars) == DayMemory(r.m) /\ FairList(r.trade, "asia", bars)

\* What a bar does to the memory of its day, and the trade that it may give.
LEMMA AsiaBarIs ==
    ASSUME NEW bars \in Seq(Ohlc), NEW k \in Nat, k \in DOMAIN bars, k + 1 \in DOMAIN bars,
           NEW m, DayMemory(m)
    PROVE  DayStep(AsiaBar(bars, k, m), bars)
<1> DEFINE out_ == {s \in Sides : ClosesOut(bars, k, s)}
           side == CHOOSE s \in out_ : TRUE
           extreme == Extreme(bars[k], m)
           trade == AsiaTrade(bars, k, m.side, extreme)
           low == Facing(bars[k], side).l
<1>1. bars[k] \in Ohlc
  BY TapeIs
<1>2. out_ # {} => side \in Sides /\ low \in Int
  <2>1. out_ # {} => side \in Sides
    OBVIOUS
  <2> HIDE DEF side
  <2>2. side \in Sides => Facing(bars[k], side).l \in Int
    BY <1>1, FacingIsBar DEF Ohlc
  <2>3. QED
    BY <2>1, <2>2
<1>3. m.side # 0 => m.side \in Sides /\ extreme \in Int
  <2> SUFFICES ASSUME m.side # 0 PROVE m.side \in Sides /\ extreme \in Int
    OBVIOUS
  <2>1. m.side \in Sides /\ m.extreme \in Int
    BY DEF DayMemory
  <2>2. Facing(bars[k], m.side).l \in Int
    BY <1>1, <2>1, FacingIsBar DEF Ohlc
  <2>3. QED
    BY <2>1, <2>2, MinOfTwo DEF Extreme
<1>4. m.side # 0 /\ AsiaBars(k) # {} => FairList(trade, "asia", bars)
  <2> SUFFICES ASSUME m.side # 0, AsiaBars(k) # {} PROVE FairList(trade, "asia", bars)
    OBVIOUS
  <2> HIDE DEF extreme
  <2>1. QED
    BY <1>3, AsiaTradeFair
<1> DEFINE Same == [m |-> m, trade |-> <<>>]
           Gone == [m |-> [m EXCEPT !.side = 0], trade |-> <<>>]
           Broke == [m |-> [m EXCEPT !.side = side, !.extreme = low], trade |-> <<>>]
           Further == [m |-> [m EXCEPT !.extreme = extreme], trade |-> <<>>]
           Refused == [m |-> [m EXCEPT !.side = 0, !.extreme = extreme], trade |-> trade]
           Fired == [m |-> [m EXCEPT !.fired = TRUE, !.extreme = extreme], trade |-> trade]
           r == AsiaBar(bars, k, m)
<1>5. \/ r = Same \/ r = Gone
      \/ out_ # {} /\ r = Broke
      \/ m.side # 0 /\ AsiaBars(k) # {} /\ r \in {Further, Refused, Fired}
  <2>1. CASE m.fired \/ AsiaBars(k) = {}
    BY <2>1 DEF AsiaBar
  <2>2. CASE ~(m.fired \/ AsiaBars(k) = {}) /\ ~InLondon(k)
    BY <2>2 DEF AsiaBar
  <2>3. CASE ~(m.fired \/ AsiaBars(k) = {}) /\ InLondon(k) /\ DayOf(k + 1) # DayOf(k)
    BY <2>3 DEF AsiaBar
  <2>4. CASE ~(m.fired \/ AsiaBars(k) = {}) /\ InLondon(k) /\ DayOf(k + 1) = DayOf(k) /\ m.side = 0
    BY <2>4 DEF AsiaBar
  <2>5. CASE /\ ~(m.fired \/ AsiaBars(k) = {}) /\ InLondon(k) /\ DayOf(k + 1) = DayOf(k)
             /\ m.side # 0 /\ ClosesOut(bars, k, m.side)
    BY <2>5 DEF AsiaBar
  <2>6. CASE /\ ~(m.fired \/ AsiaBars(k) = {}) /\ InLondon(k) /\ DayOf(k + 1) = DayOf(k)
             /\ m.side # 0 /\ ~ClosesOut(bars, k, m.side)
    BY <2>6 DEF AsiaBar
  <2>7. QED
    BY <2>1, <2>2, <2>3, <2>4, <2>5, <2>6
<1>6. FairList(<<>>, "asia", bars)
  BY FairNone
<1> HIDE DEF r, side, low, extreme, trade, out_
<1>7. DayStep(Same, bars) /\ DayStep(Gone, bars)
  BY <1>6 DEF DayStep, DayMemory
<1>8. out_ # {} => DayStep(Broke, bars)
  BY <1>2, <1>6 DEF DayStep, DayMemory
<1>9. m.side # 0 => DayStep(Further, bars)
  BY <1>3, <1>6 DEF DayStep, DayMemory
<1>10. m.side # 0 /\ AsiaBars(k) # {} => DayStep(Refused, bars) /\ DayStep(Fired, bars)
  BY <1>3, <1>4 DEF DayStep, DayMemory
<1> HIDE DEF Same, Gone, Broke, Further, Refused, Fired
<1>11. DayStep(r, bars)
  BY <1>5, <1>7, <1>8, <1>9, <1>10
<1>12. QED
  BY <1>11 DEF r

\* The invariant of the Asian range holds at the start.
LEMMA AsiaBegins == InitAsia => AsiaInv
<1> SUFFICES ASSUME InitAsia PROVE AsiaInv
  OBVIOUS
<1> DEFINE memory == QuietDay
<1>1. /\ DOMAIN memory = {"side", "extreme", "fired"} /\ memory.side = 0 /\ memory.extreme = 0
      /\ StartStudy("asia", memory)
  BY DEF InitAsia, QuietDay
<1> HIDE DEF memory
<1>2. /\ tape = <<>> /\ out = <<>>
      /\ {"side", "extreme", "fired"} \subseteq DOMAIN mem /\ mem.side = 0 /\ mem.extreme = 0
  BY <1>1, Started
<1>3. tape \in Seq(Ohlc)
  BY <1>2
<1>4. QED
  BY <1>2, <1>3, FairNone DEF AsiaInv, DayMemory

\* A step of the Asian range study keeps it, and what it finds is fair.
LEMMA AsiaGoesOn == AsiaInv /\ Asia => AsiaInv' /\ FairList(AsiaAfter(tape').trade, "asia", tape')
<1> SUFFICES ASSUME AsiaInv, Asia PROVE AsiaInv' /\ FairList(AsiaAfter(tape').trade, "asia", tape')
  OBVIOUS
<1> DEFINE k == Len(tape') - 1
           start == IF k > 1 /\ DayOf(k - 1) = DayOf(k) THEN mem ELSE With(QuietDay, mem)
           r == AsiaAfter(tape')
<1>1. /\ tape' \in Seq(Ohlc)
      /\ DOMAIN tape' = 1..(Len(tape) + 1) /\ DOMAIN tape = 1..Len(tape) /\ Len(tape) \in Nat
      /\ Len(tape') = Len(tape) + 1
      /\ \A j \in DOMAIN tape : j \in DOMAIN tape' /\ tape'[j] = tape[j]
  BY NextTape DEF AsiaInv, Asia, PriceStudies
<1>2. mem' = r.m /\ out' = out \o r.trade
  BY DEF Asia
<1>3. r = IF k = 0 THEN [m |-> mem, trade |-> <<>>]
          ELSE IF ~Weekday(k) THEN [m |-> start, trade |-> <<>>]
          ELSE AsiaBar(tape', k, start)
  BY DEF AsiaAfter
<1>4. DayMemory(mem)
  BY DEF AsiaInv
<1>5. DayMemory(start)
  <2>1. DayMemory(With(QuietDay, mem))
    <3> DEFINE w == With(QuietDay, mem)
    <3>1. DOMAIN QuietDay = {"side", "extreme", "fired"} /\ QuietDay.side = 0 /\ QuietDay.extreme = 0
      BY DEF QuietDay
    <3>2. /\ DOMAIN QuietDay \subseteq DOMAIN w
          /\ \A f \in DOMAIN QuietDay : w[f] = QuietDay[f]
      BY DEF With
    <3> HIDE DEF w
    <3>3. DayMemory(w)
      BY <3>1, <3>2 DEF DayMemory
    <3>4. QED
      BY <3>3 DEF w
  <2>2. QED
    BY <1>4, <2>1
<1>6. k \in Nat /\ k + 1 \in DOMAIN tape' /\ (k # 0 => k \in DOMAIN tape')
  BY <1>1
<1> HIDE DEF k, start, r
<1>7. DayStep(r, tape')
  <2>1. FairList(<<>>, "asia", tape')
    BY FairNone
  <2>2. DayStep([m |-> mem, trade |-> <<>>], tape') /\ DayStep([m |-> start, trade |-> <<>>], tape')
    BY <1>4, <1>5, <2>1 DEF DayStep
  <2>3. k # 0 => DayStep(AsiaBar(tape', k, start), tape')
    BY <1>1, <1>5, <1>6, AsiaBarIs
  <2>4. QED
    BY <1>3, <2>2, <2>3
<1>8. FairList(out', "asia", tape')
  BY <1>1, <1>2, <1>7, FairJoin DEF AsiaInv, DayStep
<1>9. DayMemory(mem)'
  BY <1>2, <1>7 DEF DayStep, DayMemory
<1>10. FairList(AsiaAfter(tape').trade, "asia", tape')
  BY <1>7 DEF DayStep, r
<1>11. QED
  BY <1>1, <1>8, <1>9, <1>10 DEF AsiaInv

-----------------------------------------------------------------------------
\* The range of a bar with the gap before it: a number, not negative, and no less than
\* how far the bar reaches from the close before.
LEMMA TrueRangeIs ==
    ASSUME NEW bars \in Seq(Ohlc), NEW i \in DOMAIN bars
    PROVE  /\ TrueRange(bars, i) \in Int /\ TrueRange(bars, i) >= 0
           /\ TrueRange(bars, i) >= bars[i].h - bars[i].l
           /\ i # 1 => /\ TrueRange(bars, i) >= bars[i].h - bars[i - 1].c
                       /\ TrueRange(bars, i) >= bars[i - 1].c - bars[i].l
<1>1. Len(bars) \in Nat /\ DOMAIN bars = 1..Len(bars) /\ \A j \in DOMAIN bars : bars[j] \in Ohlc
  BY TapeIs
<1> DEFINE b == bars[i]
           p == bars[i - 1]
<1>2. b \in Ohlc /\ b.h \in Int /\ b.l \in Int /\ b.h >= b.l
  <2>1. b \in Ohlc
    BY <1>1
  <2> HIDE DEF b
  <2>2. QED
    BY <2>1 DEF Ohlc
<1>3. CASE i = 1
  BY <1>2, <1>3 DEF TrueRange
<1>4. CASE i # 1
  <2>1. p.c \in Int
    <3>1. p \in Ohlc
      BY <1>1, <1>4
    <3> HIDE DEF p
    <3>2. QED
      BY <3>1 DEF Ohlc
  <2> DEFINE x == b.h - b.l
             y == Abs(b.h - p.c)
             z == Abs(b.l - p.c)
             S == ({x} \cup {y}) \cup {z}
  <2>2. TrueRange(bars, i) = Max(S)
    <3>1. {x, y, z} = S
      OBVIOUS
    <3>2. TrueRange(bars, i) = Max({x, y, z})
      BY <1>4 DEF TrueRange
    <3> HIDE DEF x, y, z, S
    <3>3. QED
      BY <3>1, <3>2
  <2> HIDE DEF b, p
  <2>3. /\ x \in Int /\ y \in Int /\ z \in Int /\ x >= 0 /\ y >= b.h - p.c /\ z >= p.c - b.l
    BY SMTT(30), <1>2, <2>1 DEF Abs
  <2>4. IsFiniteSet(S)
    <3>1. IsFiniteSet({x})
      BY FS_Singleton
    <3>2. IsFiniteSet({x} \cup {y})
      BY <3>1, FS_AddElement
    <3>3. QED
      BY <3>2, FS_AddElement
  <2>5. S # {} /\ S \subseteq Int /\ x \in S /\ y \in S /\ z \in S
    BY <2>3
  <2> HIDE DEF S, y, z
  <2>6. Max(S) \in Int /\ Max(S) >= x /\ Max(S) >= y /\ Max(S) >= z
    BY <2>4, <2>5, MaxIsOne
  <2>7. Max(S) \in Int /\ Max(S) >= 0 /\ Max(S) >= b.h - b.l /\ Max(S) >= b.h - p.c /\ Max(S) >= p.c - b.l
    BY <1>2, <2>1, <2>3, <2>6
  <2>8. QED
    BY <2>2, <2>7 DEF b, p
<1>5. QED
  BY <1>3, <1>4

\* The sum of the ranges of some bars is a number, and each of them is at most it.
LEMMA RangesSum ==
    ASSUME NEW bars \in Seq(Ohlc), NEW S \in SUBSET (DOMAIN bars)
    PROVE  /\ SumOver(S, LAMBDA j : TrueRange(bars, j)) \in Int
           /\ SumOver(S, LAMBDA j : TrueRange(bars, j)) >= 0
           /\ \A i \in S : SumOver(S, LAMBDA j : TrueRange(bars, j)) >= TrueRange(bars, i)
<1> DEFINE F == [i \in S |-> TrueRange(bars, i)]
<1>1. SumOver(S, LAMBDA j : TrueRange(bars, j)) = SumFunction(F)
  BY DEF SumOver
<1>2. \A i \in S : F[i] = TrueRange(bars, i) /\ TrueRange(bars, i) \in Int /\ TrueRange(bars, i) >= 0
  BY TrueRangeIs
<1>3. F \in [S -> Int]
  BY <1>2
<1> HIDE DEF F
<1>4. IsFiniteSet(S)
  BY TapeIs, FS_Subset
<1>5. \A i \in S : F[i] >= 0
  BY <1>2
<1>6. SumFunction(F) \in Int /\ SumFunction(F) >= 0 /\ \A i \in S : SumFunction(F) >= F[i]
  BY <1>3, <1>4, <1>5, SumIs
<1>7. QED
  BY <1>1, <1>2, <1>6

\* The average is a number, and so is its scale.
SigmaInv ==
    /\ tape \in Seq(Ohlc)
    /\ {"atr", "scale"} \subseteq DOMAIN mem /\ mem.atr \in Int /\ mem.scale \in Int
    /\ FairList(out, "sigma", tape)

\* The average range is an integer, and so is the scale that it is kept at.
LEMMA AverageIs ==
    ASSUME NEW bars \in Seq(Ohlc), NEW k \in Nat, k > AtrLength, k \in DOMAIN bars,
           mem.atr \in Int, mem.scale \in Int
    PROVE  AverageAt(bars, k).atr \in Int /\ AverageAt(bars, k).scale \in Int
<1>1. Len(bars) \in Nat /\ DOMAIN bars = 1..Len(bars) /\ AtrLength \in Nat \ {0}
  BY TapeIs, SomeAverage
<1>2. RangesBefore(bars, k) \in Int
  <2>1. 1..(k - 1) \in SUBSET (DOMAIN bars)
    BY <1>1
  <2>2. QED
    BY <2>1, RangesSum DEF RangesBefore
<1>3. Smoothed(bars, k) \in Int
  <2>1. k - 1 \in DOMAIN bars
    BY <1>1
  <2>2. TrueRange(bars, k - 1) \in Int
    BY <2>1, TrueRangeIs
  <2>3. QED
    BY <1>1, <2>2 DEF Smoothed
<1>4. mem.scale * AtrLength \in Int
  BY <1>1
<1>5. QED
  BY <1>1, <1>2, <1>3, <1>4 DEF AverageAt

\* The stop and the target of a signal, in units of its average.
LEMMA AverageOff ==
    ASSUME NEW side \in Sides, NEW unit \in Int, NEW o \in Int, NEW atr \in Int, atr > 0
    PROVE  /\ side * (unit * o - 3 * side * atr) < side * unit * o
           /\ side * unit * o < side * (unit * o + side * atr)
<1> DEFINE x == unit * o
<1>1. x \in Int
  OBVIOUS
<1>2. CASE side = 1
  <2>1. 1 * unit * o = x
    OBVIOUS
  <2> HIDE DEF x
  <2>2. 1 * (x - 3 * 1 * atr) < x /\ x < 1 * (x + 1 * atr)
    BY <1>1
  <2>3. QED
    BY <1>2, <2>1, <2>2 DEF x
<1>3. CASE side = -1
  <2>1. side * unit * o = -x
    <3>1. side * unit = -unit
      BY <1>3
    <3>2. (-unit) * o = -(unit * o)
      OBVIOUS
    <3>3. QED
      BY <3>1, <3>2
  <2>2. side * (x - 3 * side * atr) = -x - 3 * atr
    <3> HIDE DEF x
    <3>1. 3 * side * atr = -(3 * atr)
      BY <1>3
    <3>2. QED
      BY <1>1, <1>3, <3>1
  <2>3. side * (x + side * atr) = -x + atr
    <3> HIDE DEF x
    <3>1. side * atr = -atr
      BY <1>3
    <3>2. QED
      BY <1>1, <1>3, <3>1
  <2> HIDE DEF x
  <2>4. -x - 3 * atr < -x /\ -x < -x + atr
    BY <1>1
  <2>5. QED
    BY <2>1, <2>2, <2>3, <2>4 DEF x
<1>4. QED
  BY <1>2, <1>3 DEF Sides

\* The fade of a bar that is far from the average is fair.
LEMMA SigmaSignalsFair ==
    ASSUME NEW bars \in Seq(Ohlc), NEW k \in Nat, k + 1 \in DOMAIN bars, NEW average,
           average.atr \in Int, average.scale \in Int
    PROVE  FairList(SigmaSignals(bars, k, average), "sigma", bars)
<1> DEFINE side == IF bars[k].c >= bars[k].o THEN -1 ELSE 1
           unit == 2 * average.scale
           o == bars[k + 1].o
           s == Signal(side, k + 1, unit * o - 3 * side * average.atr, unit * o + side * average.atr,
                       [bar |-> k, unit |-> unit])
<1>1. \/ SigmaSignals(bars, k, average) = <<>>
      \/ SigmaSignals(bars, k, average) = <<s>> /\ average.atr > 0
  BY DEF SigmaSignals
<1>2. side \in Sides /\ unit \in Int
  BY DEF Sides
<1>3. bars[k + 1] \in Ohlc
  BY TapeIs
<1>4. o \in Int
  BY <1>3 DEF Ohlc
<1>5. /\ s.side = side /\ s.entry = k + 1 /\ s.of.unit = unit
      /\ s.sl = unit * o - 3 * side * average.atr /\ s.tp = unit * o + side * average.atr
  BY DEF Signal
<1>6. average.atr > 0 => FairAt(s, "sigma", bars)
  <2> HIDE DEF s, side, unit
  <2>1. s.side * UnitIn(s, "sigma") * bars[s.entry].o = side * unit * o
    BY <1>5 DEF UnitIn
  <2> HIDE DEF o
  <2>2. average.atr > 0 => /\ side * (unit * o - 3 * side * average.atr) < side * unit * o
                           /\ side * unit * o < side * (unit * o + side * average.atr)
    BY <1>2, <1>4, AverageOff
  <2>3. QED
    BY <1>5, <2>1, <2>2 DEF FairAt
<1> HIDE DEF s
<1>7. QED
  BY <1>1, <1>6, FairOne, FairNone

\* The invariant of the sigma study holds at the start.
LEMMA SigmaBegins == InitSigma => SigmaInv
<1> SUFFICES ASSUME InitSigma PROVE SigmaInv
  OBVIOUS
<1> DEFINE memory == [atr |-> 0, scale |-> 1]
<1>1. /\ DOMAIN memory = {"atr", "scale"} /\ memory.atr = 0 /\ memory.scale = 1
      /\ StartStudy("sigma", memory)
  BY DEF InitSigma
<1> HIDE DEF memory
<1>2. tape = <<>> /\ out = <<>> /\ {"atr", "scale"} \subseteq DOMAIN mem /\ mem.atr = 0 /\ mem.scale = 1
  BY <1>1, Started
<1>3. tape \in Seq(Ohlc)
  BY <1>2
<1>4. QED
  BY <1>2, <1>3, FairNone DEF SigmaInv

\* A step of the sigma study keeps it, and what it finds is fair.
LEMMA SigmaGoesOn == SigmaInv /\ Sigma => SigmaInv' /\ FairList(SigmaFinds(tape'), "sigma", tape')
<1> SUFFICES ASSUME SigmaInv, Sigma PROVE SigmaInv' /\ FairList(SigmaFinds(tape'), "sigma", tape')
  OBVIOUS
<1> DEFINE k == Len(tape)
           average == AverageAt(tape', k)
<1>1. /\ tape' \in Seq(Ohlc)
      /\ DOMAIN tape' = 1..(Len(tape) + 1) /\ DOMAIN tape = 1..Len(tape) /\ Len(tape) \in Nat
      /\ Len(tape') = Len(tape) + 1
      /\ \A j \in DOMAIN tape : j \in DOMAIN tape' /\ tape'[j] = tape[j]
  BY NextTape DEF SigmaInv, Sigma, PriceStudies
<1>2. /\ out' = out \o SigmaFinds(tape')
      /\ mem' = IF k <= AtrLength THEN mem
                ELSE [mem EXCEPT !.atr = average.atr, !.scale = average.scale]
  BY DEF Sigma
<1>3. k \in Nat /\ Len(tape') - 1 = k /\ k + 1 \in DOMAIN tape' /\ AtrLength \in Nat \ {0}
      /\ (~(k <= AtrLength) => k > AtrLength /\ k \in DOMAIN tape')
  BY <1>1, SomeAverage
<1>4. SigmaFinds(tape') = IF k <= AtrLength THEN <<>> ELSE SigmaSignals(tape', k, average)
  BY <1>3 DEF SigmaFinds
<1> HIDE DEF k
<1>5. ~(k <= AtrLength) => average.atr \in Int /\ average.scale \in Int
  BY <1>1, <1>3, AverageIs DEF SigmaInv
<1> HIDE DEF average
<1>6. FairList(SigmaFinds(tape'), "sigma", tape')
  <2>1. CASE k <= AtrLength
    BY <1>4, <2>1, FairNone
  <2>2. CASE ~(k <= AtrLength)
    <3>1. FairList(SigmaSignals(tape', k, average), "sigma", tape')
      BY <1>1, <1>3, <1>5, <2>2, SigmaSignalsFair
    <3>2. QED
      BY <1>4, <2>2, <3>1
  <2>3. QED
    BY <2>1, <2>2
<1>7. FairList(out', "sigma", tape')
  BY <1>1, <1>2, <1>6, FairJoin DEF SigmaInv
<1>8. {"atr", "scale"} \subseteq DOMAIN mem' /\ mem'.atr \in Int /\ mem'.scale \in Int
  <2>1. CASE k <= AtrLength
    BY <1>2, <2>1 DEF SigmaInv
  <2>2. CASE ~(k <= AtrLength)
    BY <1>2, <1>5, <2>2 DEF SigmaInv
  <2>3. QED
    BY <2>1, <2>2
<1>9. QED
  BY <1>1, <1>6, <1>7, <1>8 DEF SigmaInv

-----------------------------------------------------------------------------
(***************************************************************************)
(* The trades of the replays are fair.                                     *)
(***************************************************************************)
TradeIsFair(t) == t.side * t.sl < t.side * t.fill /\ t.side * t.fill < t.side * t.tp

\* A list of trades that are fair at their fill, and have the fields of a trade.
TradeList(q) == IsList(q) /\ \A i \in DOMAIN q : TradeIsFair(q[i]) /\ {"side", "sl", "fill", "tp"} \subseteq DOMAIN q[i]

\* The pools that a window has: finitely many, none in an empty one.
PoolRecord == [side : Sides, level : Int, at : Int, equal : BOOLEAN]

\* The swings of a window are some of its positions.
LEMMA SwingsAre ==
    ASSUME NEW w \in Seq(Ohlc), NEW lookback \in Nat \ {0}, NEW side
    PROVE  /\ Swings(w, lookback, side) \subseteq DOMAIN w
           /\ IsFiniteSet(Swings(w, lookback, side)) /\ Swings(w, lookback, side) \subseteq Int
<1>1. Len(w) \in Nat /\ DOMAIN w = 1..Len(w) /\ IsFiniteSet(DOMAIN w)
  BY TapeIs
<1>2. Swings(w, lookback, side) \in SUBSET (DOMAIN w)
  BY <1>1 DEF Swings
<1>3. QED
  BY <1>1, <1>2, FS_Subset

\* The pools of one side.
LEMMA PoolsOfAre ==
    ASSUME NEW w \in Seq(Ohlc), NEW rules, rules.lookback \in Nat \ {0}, NEW side \in Sides
    PROVE  /\ IsFiniteSet(PoolsOf(w, rules, side)) /\ PoolsOf(w, rules, side) \subseteq PoolRecord
           /\ PoolsOf(w, rules, side) # {} => w # <<>>
<1> DEFINE swings == Swings(w, rules.lookback, side)
           last == {i \in swings : Cardinality({j \in swings : j > i}) < rules.count}
           Level(i) == side * Facing(w[i], side).h
           f == [i \in last |-> [side |-> side, level |-> Level(i), at |-> i,
                                 equal |-> \E j \in last \ {i} : Abs(Level(i) - Level(j)) <= rules.equal]]
<1>1. PoolsOf(w, rules, side) = {f[i] : i \in last}
  BY DEF PoolsOf
<1>2. Len(w) \in Nat /\ DOMAIN w = 1..Len(w) /\ \A j \in DOMAIN w : w[j] \in Ohlc
  BY TapeIs
<1>3. last \in SUBSET swings /\ IsFiniteSet(swings) /\ swings \subseteq DOMAIN w
  BY SwingsAre
<1>4. ASSUME NEW i \in last PROVE f[i] \in PoolRecord
  <2> DEFINE h == Facing(w[i], side).h
             equal == \E j \in last \ {i} : Abs(Level(i) - Level(j)) <= rules.equal
  <2>1. f[i] = [side |-> side, level |-> side * h, at |-> i, equal |-> equal]
    OBVIOUS
  <2>2. i \in DOMAIN w
    BY <1>3
  <2>3. equal \in BOOLEAN
    OBVIOUS
  <2> HIDE DEF f, equal, last
  <2>4. h \in Int
    <3>1. Facing(w[i], side) \in Ohlc
      BY <1>2, <2>2, FacingIsBar
    <3>2. QED
      BY <3>1 DEF Ohlc
  <2> HIDE DEF h
  <2>5. side * h \in Int /\ i \in Int
    BY <1>2, <2>2, <2>4 DEF Sides
  <2>6. QED
    BY <2>1, <2>3, <2>5 DEF PoolRecord
<1> HIDE DEF f, last, swings
<1>5. IsFiniteSet(last)
  BY <1>3, FS_Subset
<1>6. IsFiniteSet({f[i] : i \in last})
  BY <1>5, ImageIsFinite
<1>7. last # {} => w # <<>>
  <2>1. w = <<>> => Len(w) = 0
    OBVIOUS
  <2>2. QED
    BY <1>2, <1>3, <2>1
<1>8. QED
  BY <1>1, <1>4, <1>6, <1>7

\* The pools of both sides.
LEMMA PoolsAre ==
    ASSUME NEW w \in Seq(Ohlc), NEW rules, rules.lookback \in Nat \ {0}
    PROVE  /\ IsFiniteSet(Pools(w, rules)) /\ Pools(w, rules) \subseteq PoolRecord
           /\ Pools(w, rules) # {} => w # <<>>
<1> DEFINE both == PoolsOf(w, rules, 1) \cup PoolsOf(w, rules, -1)
<1>1. 1 \in Sides /\ -1 \in Sides
  BY DEF Sides
<1>2. /\ IsFiniteSet(PoolsOf(w, rules, 1)) /\ PoolsOf(w, rules, 1) \subseteq PoolRecord
      /\ PoolsOf(w, rules, 1) # {} => w # <<>>
  BY <1>1, PoolsOfAre
<1>3. /\ IsFiniteSet(PoolsOf(w, rules, -1)) /\ PoolsOf(w, rules, -1) \subseteq PoolRecord
      /\ PoolsOf(w, rules, -1) # {} => w # <<>>
  BY <1>1, PoolsOfAre
<1>4. IsFiniteSet(both)
  BY <1>2, <1>3, FS_Union
<1>5. Pools(w, rules) \in SUBSET both
  BY DEF Pools
<1>6. both \subseteq PoolRecord /\ (both # {} => w # <<>>)
  BY <1>2, <1>3
<1> HIDE DEF both
<1>7. QED
  BY <1>4, <1>5, <1>6, FS_Subset

\* The first pool is one of them.
LEMMA FirstPoolIs ==
    ASSUME NEW pools, IsFiniteSet(pools), pools # {}, pools \subseteq PoolRecord
    PROVE  FirstPool(pools) \in pools
<1> DEFINE above == {p \in pools : p.side = 1}
           lead == IF above # {} THEN above ELSE pools
           at == [p \in lead |-> p.at]
<1>1. lead \in SUBSET pools /\ lead # {}
  OBVIOUS
<1>2. \A p \in lead : at[p] = p.at /\ at[p] \in Int
  <2>1. \A p \in lead : at[p] = p.at /\ p \in PoolRecord
    BY <1>1
  <2> HIDE DEF at, lead
  <2>2. QED
    BY <2>1 DEF PoolRecord
<1>3. \A p \in lead, q \in pools : p.side > q.side \/ (p.side = q.side /\ q \in lead)
  <2>1. \A p \in pools : p.side = 1 \/ p.side = -1
    BY DEF PoolRecord, Sides
  <2>2. CASE above # {}
    BY <2>1, <2>2
  <2>3. CASE above = {}
    BY <2>1, <2>3
  <2>4. QED
    BY <2>2, <2>3
<1> HIDE DEF lead, at
<1>4. IsFiniteSet(lead)
  BY <1>1, FS_Subset
<1>5. PICK p \in lead : \A q \in lead : at[p] <= at[q]
  <2>1. /\ \E p \in lead : Min({at[q] : q \in lead}) = at[p]
        /\ \A q \in lead : Min({at[r] : r \in lead}) <= at[q]
    BY <1>1, <1>2, <1>4, ValuesMin
  <2> DEFINE m == Min({at[q] : q \in lead})
  <2> HIDE DEF m
  <2>2. (\E p \in lead : m = at[p]) /\ \A q \in lead : m <= at[q]
    BY <2>1 DEF m
  <2>3. QED
    BY <2>2
<1>6. p \in pools /\ \A q \in pools : p.side > q.side \/ (p.side = q.side /\ p.at <= q.at)
  BY <1>1, <1>2, <1>3, <1>5
<1>7. QED
  BY <1>6 DEF FirstPool

\* The nearest level is one of them.
LEMMA NearestIs ==
    ASSUME NEW levels, IsFiniteSet(levels), levels # {}, levels \subseteq Int, NEW side \in Sides
    PROVE  Nearest(levels, side) \in levels
<1> DEFINE f == [x \in levels |-> side * x]
<1>1. {f[x] : x \in levels} = {side * x : x \in levels}
  OBVIOUS
<1>2. \A x \in levels : f[x] = side * x /\ f[x] \in Int /\ side * f[x] = x
  BY DEF Sides
<1> HIDE DEF f
<1>3. \E x \in levels : Min({f[x2] : x2 \in levels}) = f[x]
  <2>1. \A x \in levels : f[x] \in Int
    BY <1>2
  <2>2. QED
    BY <2>1, ValuesMin
<1> DEFINE m == Min({f[x] : x \in levels})
<1>4. Nearest(levels, side) = side * m
  BY <1>1 DEF Nearest
<1> HIDE DEF m
<1>5. PICK x \in levels : m = f[x]
  BY <1>3 DEF m
<1>6. QED
  BY <1>2, <1>4, <1>5

\* A trade with the stop behind and the target ahead.
LEMMA TradeFair ==
    ASSUME NEW side \in Sides, NEW fill \in Int, NEW sl \in Int, NEW tp \in Int,
           sl < side * fill, side * fill < tp
    PROVE  side * (side * sl) < side * fill /\ side * fill < side * (side * tp)
BY DEF Sides

\* The levels of some pools.
LEMMA LevelsOfPools ==
    ASSUME NEW pools, IsFiniteSet(pools), pools \subseteq PoolRecord
    PROVE  IsFiniteSet({p.level : p \in pools}) /\ {p.level : p \in pools} \subseteq Int
<1> DEFINE f == [p \in pools |-> p.level]
<1>1. {p.level : p \in pools} = {f[p] : p \in pools}
  OBVIOUS
<1>2. \A p \in pools : f[p] \in Int
  BY DEF PoolRecord
<1> HIDE DEF f
<1>3. IsFiniteSet({f[p] : p \in pools})
  BY ImageIsFinite
<1>4. QED
  BY <1>1, <1>2, <1>3

\* Lists of one trade, and of none.
LEMMA NoTrades == TradeList(<<>>)
<1>1. <<>> \in Seq({})
  OBVIOUS
<1>2. QED
  BY <1>1 DEF TradeList, IsList

\* A list of one fair trade.
LEMMA OneTrade ==
    ASSUME NEW t, TradeIsFair(t), {"side", "sl", "fill", "tp"} \subseteq DOMAIN t
    PROVE  TradeList(<<t>>)
<1>1. <<t>> \in Seq({t}) /\ DOMAIN <<t>> = {1} /\ <<t>>[1] = t
  OBVIOUS
<1>2. QED
  BY <1>1 DEF TradeList, IsList

\* A bar that is swept is a bar of the window, and the side of the trade a side.
LEMMA SweptIs ==
    ASSUME NEW w \in Seq(Ohlc), NEW rules, rules.lookback \in Nat \ {0}, NEW bar,
           SweptBy(bar, Pools(w, rules)) # {}
    PROVE  Last(w) \in Ohlc /\ -FirstPool(SweptBy(bar, Pools(w, rules))).side \in Sides
<1> DEFINE pools == Pools(w, rules)
           swept == SweptBy(bar, pools)
<1>1. swept \in SUBSET pools /\ swept # {}
  BY DEF SweptBy
<1> HIDE DEF swept
<1>2. IsFiniteSet(pools) /\ pools \subseteq PoolRecord /\ (pools # {} => w # <<>>)
  BY PoolsAre
<1> HIDE DEF pools
<1>3. IsFiniteSet(swept) /\ swept \subseteq PoolRecord
  BY <1>1, <1>2, FS_Subset
<1>4. FirstPool(swept) \in PoolRecord
  BY <1>1, <1>3, FirstPoolIs
<1>5. -FirstPool(swept).side \in Sides
  <2> DEFINE s == FirstPool(swept).side
  <2>1. s \in Sides
    BY <1>4 DEF PoolRecord
  <2> HIDE DEF s
  <2>2. -s = 0 - s
    BY <2>1 DEF Sides
  <2>3. -s \in Sides
    BY <2>1, <2>2 DEF Sides
  <2>4. QED
    BY <2>3 DEF s
<1>6. Last(w) \in Ohlc
  <2>1. w # <<>> /\ Len(w) \in Nat /\ DOMAIN w = 1..Len(w)
    BY <1>1, <1>2
  <2>2. Len(w) \in DOMAIN w
    BY <2>1
  <2>3. QED
    BY <2>2 DEF Last
<1>7. QED
  BY <1>5, <1>6 DEF swept, pools

\* The target of a sweep that no gap is on the way of: a pool ahead, or a distance.
LEMMA OpposingIs ==
    ASSUME NEW pools, IsFiniteSet(pools), pools \subseteq PoolRecord, NEW side \in Sides,
           NEW entry \in Int, NEW range, Opposing(pools, side, entry, range) # {}
    PROVE  /\ Nearest(Opposing(pools, side, entry, range), side) \in Int
           /\ side * entry < side * Nearest(Opposing(pools, side, entry, range), side)
<1> DEFINE some == {q \in pools : /\ q.side = side
                                  /\ side * q.level > side * entry
                                  /\ Abs(q.level - entry) <= range}
           levels == {p.level : p \in some}
<1>1. Opposing(pools, side, entry, range) = levels
  BY DEF Opposing
<1>2. some \in SUBSET pools /\ \A q \in some : side * q.level > side * entry
  OBVIOUS
<1>3. \A x \in levels : \E q \in some : x = q.level
  OBVIOUS
<1> HIDE DEF some
<1>4. IsFiniteSet(some) /\ some \subseteq PoolRecord
  BY <1>2, FS_Subset
<1>5. IsFiniteSet(levels) /\ levels \subseteq Int
  BY <1>4, LevelsOfPools
<1> HIDE DEF levels
<1>6. Nearest(levels, side) \in levels
  BY <1>1, <1>5, NearestIs
<1>7. PICK q \in some : Nearest(levels, side) = q.level
  BY <1>3, <1>6
<1>8. Nearest(levels, side) \in Int /\ side * Nearest(levels, side) > side * entry
  BY <1>2, <1>5, <1>6, <1>7
<1> DEFINE n == Nearest(levels, side)
<1> HIDE DEF n
<1>9. n \in Int /\ side * n > side * entry
  BY <1>8 DEF n
<1>10. side * entry < side * n
  BY <1>9 DEF Sides
<1>11. QED
  BY <1>1, <1>9, <1>10 DEF n

\* The trade on a swept pool is fair at the close that it is filled at.
LEMMA SweepTradeFair ==
    ASSUME NEW w \in Seq(Ohlc), NEW rules, {rules.lookback, rules.buffer, rules.fixed} \subseteq Nat \ {0}
    PROVE  TradeList(SweepTrade(w, Pools(w, rules), {}, rules))
<1> DEFINE pools == Pools(w, rules)
           bar == Last(w)
           swept == SweptBy(bar, pools)
           side == -FirstPool(swept).side
           fill == bar.c
           opposing == Opposing(pools, side, fill, rules.range)
           sl == Facing(bar, side).l - rules.buffer
           tp == IF opposing # {} THEN Nearest(opposing, side) ELSE fill + side * rules.fixed
           mode == IF opposing # {} THEN "POOL" ELSE "FIXED"
           goal == TpSl(bar, side, fill, pools, {}, rules)
           t == With([side |-> side, fill |-> fill], goal)
<1>1. SweepTrade(w, pools, {}, rules) = <<>> \/ (swept # {} /\ SweepTrade(w, pools, {}, rules) = <<t>>)
  BY DEF SweepTrade
<1>2. CASE swept = {}
  BY <1>1, <1>2, NoTrades
<1>3. CASE swept # {}
  <2>1. bar \in Ohlc /\ side \in Sides
    BY <1>3, SweptIs
  <2>2. goal = [sl |-> side * sl, tp |-> tp, mode |-> mode]
    BY DEF TpSl
  <2>3. IsFiniteSet(pools) /\ pools \subseteq PoolRecord
    BY PoolsAre
  <2> HIDE DEF bar, side, goal, pools
  <2>4. fill \in Int /\ Facing(bar, side) \in Ohlc /\ Facing(bar, side).l <= side * fill
    BY <2>1, FacingIsBar DEF Ohlc
  <2>5. sl \in Int /\ sl < side * fill
    <3> DEFINE l == Facing(bar, side).l
    <3>1. l \in Int /\ l <= side * fill
      BY <2>4 DEF Ohlc
    <3> HIDE DEF l, fill
    <3>2. side * fill \in Int /\ rules.buffer \in Nat \ {0}
      BY <2>1, <2>4 DEF Sides
    <3>3. l - rules.buffer \in Int /\ l - rules.buffer < side * fill
      BY <3>1, <3>2
    <3>4. QED
      BY <3>3 DEF l
  <2>6. tp \in Int /\ side * fill < side * tp
    <3> HIDE DEF fill
    <3>1. CASE opposing # {}
      <4>1. Nearest(opposing, side) \in Int /\ side * fill < side * Nearest(opposing, side)
        BY <2>1, <2>3, <2>4, <3>1, OpposingIs
      <4>2. QED
        BY <3>1, <4>1
    <3>2. CASE opposing = {}
      <4>1. tp = fill + side * rules.fixed
        BY <3>2
      <4> HIDE DEF tp
      <4>2. QED
        BY <2>1, <2>4, <4>1 DEF Sides
    <3>3. QED
      BY <3>1, <3>2
  <2> HIDE DEF sl, tp, fill, mode
  <2>7. /\ t.side = side /\ t.fill = fill /\ t.sl = side * sl /\ t.tp = tp
        /\ {"side", "sl", "fill", "tp"} \subseteq DOMAIN t
    BY <2>2 DEF With
  <2> HIDE DEF t
  <2>8. side * (side * sl) < side * fill
    BY <2>1, <2>4, <2>5 DEF Sides
  <2>9. TradeIsFair(t)
    BY <2>6, <2>7, <2>8 DEF TradeIsFair
  <2>10. TradeList(<<t>>)
    BY <2>7, <2>9, OneTrade
  <2>11. QED
    BY <1>1, <2>10, NoTrades DEF pools
<1>4. QED
  BY <1>2, <1>3

\* The micro signal on a swept pool is fair.
LEMMA MicroIsFair ==
    ASSUME NEW w \in Seq(Ohlc), NEW fives, NEW rules,
           {rules.lookback, rules.buffer, rules.fixed} \subseteq Nat \ {0}
    PROVE  TradeList(MicroSignal(w, fives, rules))
<1> DEFINE pools == Pools(w, rules)
           swept == SweptBy(Last(w), pools)
           side == -FirstPool(swept).side
           fill == Last(w).c
           some == {q \in pools : q.side = side /\ 10 * side * (q.level - fill) > 12 * rules.buffer}
           far == {p.level : p \in some}
           tp == IF far # {} /\ Abs(Nearest(far, side) - fill) <= rules.range
                 THEN Nearest(far, side) ELSE fill + side * rules.fixed
           t == [side |-> side, fill |-> fill, sl |-> fill - side * rules.buffer, tp |-> tp]
<1>1. MicroSignal(w, fives, rules) = <<>> \/ (swept # {} /\ MicroSignal(w, fives, rules) = <<t>>)
  BY DEF MicroSignal
<1>2. CASE swept = {}
  BY <1>1, <1>2, NoTrades
<1>3. CASE swept # {}
  <2>1. Last(w) \in Ohlc /\ side \in Sides
    BY <1>3, SweptIs
  <2>2. IsFiniteSet(pools) /\ pools \subseteq PoolRecord
    BY PoolsAre
  <2> HIDE DEF pools, side
  <2>3. fill \in Int
    BY <2>1 DEF Ohlc
  <2> HIDE DEF fill
  <2>4. some \in SUBSET pools /\ \A q \in some : 10 * side * (q.level - fill) > 12 * rules.buffer
    OBVIOUS
  <2>5. \A x \in far : \E q \in some : x = q.level
    OBVIOUS
  <2> HIDE DEF some
  <2>6. IsFiniteSet(some) /\ some \subseteq PoolRecord
    BY <2>2, <2>4, FS_Subset
  <2>7. IsFiniteSet(far) /\ far \subseteq Int
    BY <2>6, LevelsOfPools
  <2> HIDE DEF far
  <2>8. far # {} => Nearest(far, side) \in Int /\ side * fill < side * Nearest(far, side)
    <3> SUFFICES ASSUME far # {} PROVE Nearest(far, side) \in Int /\ side * fill < side * Nearest(far, side)
      OBVIOUS
    <3> DEFINE n == Nearest(far, side)
    <3>1. n \in far
      BY <2>1, <2>7, NearestIs
    <3> HIDE DEF n
    <3>2. PICK q \in some : n = q.level
      BY <2>5, <3>1
    <3>3. n \in Int /\ 10 * side * (n - fill) > 12 * rules.buffer
      BY <2>4, <2>7, <3>1, <3>2
    <3>4. side * fill < side * n
      BY <2>1, <2>3, <3>3 DEF Sides
    <3>5. QED
      BY <3>3, <3>4 DEF n
  <2>9. tp \in Int /\ side * fill < side * tp
    <3>1. CASE tp = Nearest(far, side) /\ far # {}
      <4> HIDE DEF tp
      <4>1. QED
        BY <2>8, <3>1
    <3>2. CASE tp = fill + side * rules.fixed
      <4> HIDE DEF tp
      <4>1. QED
        BY <2>1, <2>3, <3>2 DEF Sides
    <3>3. QED
      BY <3>1, <3>2
  <2> HIDE DEF tp
  <2>10. side * (fill - side * rules.buffer) < side * fill
    BY <2>1, <2>3 DEF Sides
  <2>11. TradeIsFair(t) /\ {"side", "sl", "fill", "tp"} \subseteq DOMAIN t
    BY <2>9, <2>10 DEF TradeIsFair
  <2> HIDE DEF t
  <2>12. TradeList(<<t>>)
    BY <2>11, OneTrade
  <2>13. QED
    BY <1>1, <2>12, NoTrades
<1>4. QED
  BY <1>2, <1>3

\* The trend of a window is a side, or none; so is the bias of two.
LEMMA BiasIs ==
    ASSUME NEW fours, NEW ones, StructureBias(fours, ones) # 0
    PROVE  StructureBias(fours, ones) \in Sides
<1>1. \A w, lookback : MarketStructure(w, lookback) \in {0, 1, -1}
  <2> SUFFICES ASSUME NEW w, NEW lookback PROVE MarketStructure(w, lookback) \in {0, 1, -1}
    OBVIOUS
  <2>1. \A a, b, c : (IF a THEN 0 ELSE IF b THEN 1 ELSE IF c THEN -1 ELSE 0) \in {0, 1, -1}
    OBVIOUS
  <2>2. QED
    BY <2>1 DEF MarketStructure
<1>2. \/ StructureBias(fours, ones) = 0
      \/ StructureBias(fours, ones) = MarketStructure(fours, Ict.lookback)
  BY DEF StructureBias
<1>3. QED
  BY <1>1, <1>2 DEF Sides

\* The zones of a window: finitely many, between prices.
ZoneOf == [lo : Int, hi : Int, side : Sides, at : Int, reason : {"FVG", "OB"}]

\* Two prices bound a zone, in whatever order they come.
LEMMA ZoneIs ==
    ASSUME NEW a \in Int, NEW b \in Int, NEW side \in Sides, NEW at \in Int, NEW reason \in {"FVG", "OB"}
    PROVE  Zone(a, b, side, at, reason) \in ZoneOf
<1>1. Min({a, b}) \in Int /\ Max({a, b}) \in Int
  BY MinOfTwo, MaxOfTwo
<1>2. QED
  BY <1>1 DEF Zone, ZoneOf

\* What is found at the positions of a tape for the two sides is finite.
LEMMA FoundBySides ==
    ASSUME NEW bars \in Seq(Ohlc), NEW f
    PROVE  IsFiniteSet({f[p] : p \in (DOMAIN bars) \X Sides})
<1> DEFINE both == (DOMAIN bars) \X Sides
<1>1. IsFiniteSet(both)
  BY TapeIs, SidesAreFinite, FS_Product
<1> HIDE DEF both
<1>2. IsFiniteSet({f[p] : p \in both})
  BY <1>1, ImageIsFinite
<1>3. QED
  BY <1>2 DEF both

\* The gaps of a window are zones.
LEMMA FvgsAre ==
    ASSUME NEW w \in Seq(Ohlc), NEW gap
    PROVE  IsFiniteSet(Fvgs(w, gap)) /\ Fvgs(w, gap) \subseteq ZoneOf
<1>1. Len(w) \in Nat /\ DOMAIN w = 1..Len(w) /\ \A j \in DOMAIN w : w[j] \in Ohlc
  BY TapeIs
<1> DEFINE f == [p \in (DOMAIN w) \X Sides |->
                    Zone(p[2] * Facing(w[p[1] - 2], p[2]).h, p[2] * Facing(w[p[1]], p[2]).l, p[2], p[1], "FVG")]
<1>2. \A x \in Fvgs(w, gap) : \E i \in 3..Len(w) : \E side \in FvgSides(w, i, gap) :
         x = Zone(side * Facing(w[i - 2], side).h, side * Facing(w[i], side).l, side, i, "FVG")
  BY DEF Fvgs
<1>3. \A x \in Fvgs(w, gap) : \E i \in 3..Len(w) : \E side \in Sides :
         x = Zone(side * Facing(w[i - 2], side).h, side * Facing(w[i], side).l, side, i, "FVG")
  <2>1. \A i \in Int : FvgSides(w, i, gap) \subseteq Sides
    BY DEF FvgSides
  <2>2. QED
    BY <1>2, <2>1
<1>4. \A x \in Fvgs(w, gap) : \E i \in DOMAIN w, side \in Sides : x = f[<<i, side>>]
  <2> SUFFICES ASSUME NEW x \in Fvgs(w, gap) PROVE \E i \in DOMAIN w, side \in Sides : x = f[<<i, side>>]
    OBVIOUS
  <2>1. PICK i \in 3..Len(w), side \in Sides :
           x = Zone(side * Facing(w[i - 2], side).h, side * Facing(w[i], side).l, side, i, "FVG")
    BY <1>3
  <2>2. i \in DOMAIN w
    BY <1>1
  <2>3. <<i, side>> \in (DOMAIN w) \X Sides /\ <<i, side>>[1] = i /\ <<i, side>>[2] = side
    BY <2>2
  <2>4. f[<<i, side>>] = Zone(side * Facing(w[i - 2], side).h, side * Facing(w[i], side).l, side, i, "FVG")
    BY <2>3
  <2> HIDE DEF f
  <2>5. QED
    BY <2>1, <2>2, <2>4
<1> HIDE DEF f
<1>5. IsFiniteSet(Fvgs(w, gap))
  <2> DEFINE both == (DOMAIN w) \X Sides
             all == {f[p] : p \in both}
  <2>1. IsFiniteSet(all)
    BY FoundBySides
  <2>2. \A i \in DOMAIN w, side \in Sides : <<i, side>> \in both
    OBVIOUS
  <2> HIDE DEF both
  <2>3. \A p \in both : f[p] \in all
    OBVIOUS
  <2> HIDE DEF all
  <2>4. \A i \in DOMAIN w, side \in Sides : f[<<i, side>>] \in all
    BY <2>2, <2>3
  <2>5. Fvgs(w, gap) \subseteq all
    BY <1>4, <2>4
  <2>6. QED
    BY <2>1, <2>5, FS_Subset
<1>6. ASSUME NEW x \in Fvgs(w, gap) PROVE x \in ZoneOf
  <2>1. PICK i \in 3..Len(w), side \in Sides :
           x = Zone(side * Facing(w[i - 2], side).h, side * Facing(w[i], side).l, side, i, "FVG")
    BY <1>3
  <2>2. i \in DOMAIN w /\ i - 2 \in DOMAIN w /\ i \in Int
    BY <1>1
  <2>3. Facing(w[i - 2], side) \in Ohlc /\ Facing(w[i], side) \in Ohlc
    BY <1>1, <2>2, FacingIsBar
  <2> DEFINE a == side * Facing(w[i - 2], side).h
             b == side * Facing(w[i], side).l
  <2>4. a \in Int /\ b \in Int
    <3>1. Facing(w[i - 2], side).h \in Int /\ Facing(w[i], side).l \in Int
      BY <2>3 DEF Ohlc
    <3>2. QED
      BY <3>1 DEF Sides
  <2>5. x = Zone(a, b, side, i, "FVG")
    BY <2>1
  <2> HIDE DEF a, b
  <2>6. QED
    BY <2>2, <2>4, <2>5, ZoneIs
<1>7. QED
  BY <1>5, <1>6

\* The order blocks of a window are zones.
LEMMA OrderBlocksAre ==
    ASSUME NEW w \in Seq(Ohlc)
    PROVE  IsFiniteSet(OrderBlocks(w)) /\ OrderBlocks(w) \subseteq ZoneOf
<1>1. Len(w) \in Nat /\ DOMAIN w = 1..Len(w) /\ \A j \in DOMAIN w : w[j] \in Ohlc
  BY TapeIs
<1> DEFINE f == [p \in (DOMAIN w) \X Sides |-> Zone(w[p[1] - 1].l, w[p[1] - 1].h, p[2], p[1] - 1, "OB")]
<1>2. \A x \in OrderBlocks(w) : \E i \in 2..Len(w) : \E side \in Sides :
         x = Zone(w[i - 1].l, w[i - 1].h, side, i - 1, "OB")
  BY DEF OrderBlocks
<1>3. \A x \in OrderBlocks(w) : \E i \in DOMAIN w, side \in Sides : x = f[<<i, side>>]
  <2> SUFFICES ASSUME NEW x \in OrderBlocks(w) PROVE \E i \in DOMAIN w, side \in Sides : x = f[<<i, side>>]
    OBVIOUS
  <2>1. PICK i \in 2..Len(w), side \in Sides : x = Zone(w[i - 1].l, w[i - 1].h, side, i - 1, "OB")
    BY <1>2
  <2>2. i \in DOMAIN w
    BY <1>1
  <2>3. <<i, side>> \in (DOMAIN w) \X Sides /\ <<i, side>>[1] = i /\ <<i, side>>[2] = side
    BY <2>2
  <2>4. f[<<i, side>>] = Zone(w[i - 1].l, w[i - 1].h, side, i - 1, "OB")
    BY <2>3
  <2> HIDE DEF f
  <2>5. QED
    BY <2>1, <2>2, <2>4
<1> HIDE DEF f
<1>4. IsFiniteSet(OrderBlocks(w))
  <2> DEFINE both == (DOMAIN w) \X Sides
             all == {f[p] : p \in both}
  <2>1. IsFiniteSet(all)
    BY FoundBySides
  <2>2. \A i \in DOMAIN w, side \in Sides : <<i, side>> \in both
    OBVIOUS
  <2> HIDE DEF both
  <2>3. \A p \in both : f[p] \in all
    OBVIOUS
  <2> HIDE DEF all
  <2>4. \A i \in DOMAIN w, side \in Sides : f[<<i, side>>] \in all
    BY <2>2, <2>3
  <2>5. OrderBlocks(w) \subseteq all
    BY <1>3, <2>4
  <2>6. QED
    BY <2>1, <2>5, FS_Subset
<1>5. ASSUME NEW x \in OrderBlocks(w) PROVE x \in ZoneOf
  <2>1. PICK i \in 2..Len(w), side \in Sides : x = Zone(w[i - 1].l, w[i - 1].h, side, i - 1, "OB")
    BY <1>2
  <2>2. i - 1 \in DOMAIN w /\ i - 1 \in Int
    BY <1>1
  <2>3. w[i - 1].l \in Int /\ w[i - 1].h \in Int
    BY <1>1, <2>2 DEF Ohlc
  <2>4. QED
    BY <2>1, <2>2, <2>3, ZoneIs
<1>6. QED
  BY <1>4, <1>5

\* There is a zone that leads the others.
LEMMA OneLeads ==
    ASSUME NEW good, IsFiniteSet(good), good # {}, good \subseteq ZoneOf
    PROVE  \E z \in good : \A other \in good : Leads(z, other)
<1> DEFINE at == [z \in good |-> z.at]
<1>1. \A z \in good : at[z] = z.at /\ at[z] \in Int
  BY DEF ZoneOf
<1> HIDE DEF at
<1> DEFINE top == Max({at[z] : z \in good})
<1>2. /\ top \in Int /\ (\E z \in good : top = at[z]) /\ \A z \in good : at[z] <= top
  <2>1. \A z \in good : at[z] \in Int
    BY <1>1
  <2>2. Max({at[z] : z \in good}) \in Int
    BY <2>1, ValuesMax
  <2>3. \E z \in good : Max({at[x] : x \in good}) = at[z]
    BY <2>1, ValuesMax
  <2>4. \A z \in good : at[z] <= Max({at[x] : x \in good})
    BY <2>1, ValuesMax
  <2>5. QED
    BY <2>2, <2>3, <2>4
<1> HIDE DEF top
<1>3. CASE \E z \in good : at[z] = top /\ z.reason = "FVG"
  <2>1. PICK z \in good : at[z] = top /\ z.reason = "FVG"
    BY <1>3
  <2>2. \A other \in good : Leads(z, other)
    BY <1>1, <1>2, <2>1 DEF Leads
  <2>3. QED
    BY <2>2
<1>4. CASE ~\E z \in good : at[z] = top /\ z.reason = "FVG"
  <2>1. PICK z \in good : top = at[z]
    BY <1>2
  <2>2. \A other \in good : other.reason \in {"FVG", "OB"}
    BY DEF ZoneOf
  <2>3. \A other \in good : Leads(z, other)
    BY <1>1, <1>2, <1>4, <2>1, <2>2 DEF Leads
  <2>4. QED
    BY <2>3
<1>5. QED
  BY <1>3, <1>4

\* The entry of the trend engine lies in its zone, and has its target ahead.
LEMMA CheckEntryFair ==
    ASSUME NEW w \in Seq(Ohlc), NEW price \in Int, NEW side, side # 0 => side \in Sides
    PROVE  TradeList(CheckEntry(w, price, side))
<1> DEFINE targets == Swings(w, Ict.lookback, side)
           tp == side * Facing(w[Max(targets)], side).h
           Stop(z) == IF side = 1 THEN z.lo - Ict.buffer ELSE z.hi + Ict.buffer
           Pays(z) == /\ z.lo <= price /\ price <= z.hi
                      /\ side * tp > side * price
                      /\ 2 * side * (tp - price) >= Ict.minRR * side * (price - Stop(z))
           good == {z \in ZonesFor(w, side) : Pays(z)}
           zone == CHOOSE z \in good : \A other \in good : Leads(z, other)
           sl == Stop(zone)
           t == [side |-> side, fill |-> price, sl |-> sl, tp |-> tp]
<1>1. /\ side = 0 \/ targets = {} \/ good = {} => CheckEntry(w, price, side) = <<>>
      /\ ~(side = 0 \/ targets = {} \/ good = {}) => CheckEntry(w, price, side) = <<t>>
  BY ZenonT(30) DEF CheckEntry
<1>2. CASE side = 0 \/ targets = {} \/ good = {}
  BY <1>1, <1>2, NoTrades
<1>3. CASE ~(side = 0 \/ targets = {} \/ good = {})
  <2>1. side \in Sides /\ targets # {} /\ good # {}
    BY <1>3
  <2>2. Ict.lookback \in Nat \ {0} /\ Ict.buffer \in Nat \ {0}
    BY IctIsPositive
  <2>3. tp \in Int
    <3> DEFINE m == Max(targets)
    <3>1. IsFiniteSet(targets) /\ targets \subseteq Int /\ targets \subseteq DOMAIN w
      BY <2>2, SwingsAre
    <3> HIDE DEF targets
    <3>2. m \in DOMAIN w
      BY <2>1, <3>1, MaxIsOne
    <3> HIDE DEF m
    <3>3. w[m] \in Ohlc
      BY <3>2, TapeIs
    <3>4. Facing(w[m], side).h \in Int
      <4>1. Facing(w[m], side) \in Ohlc
        BY <2>1, <3>3, FacingIsBar
      <4>2. QED
        BY <4>1 DEF Ohlc
    <3>5. side * Facing(w[m], side).h \in Int
      BY <2>1, <3>4 DEF Sides
    <3>6. QED
      BY <3>5 DEF m
  <2> HIDE DEF tp
  <2>4. IsFiniteSet(good) /\ good \subseteq ZoneOf /\ \A z \in good : Pays(z)
    <3> DEFINE all == Fvgs(w, Ict.gap) \cup OrderBlocks(w)
    <3>1. IsFiniteSet(all) /\ all \subseteq ZoneOf
      BY FvgsAre, OrderBlocksAre, FS_Union
    <3>2. good \in SUBSET all /\ \A z \in good : Pays(z)
      BY DEF ZonesFor
    <3> HIDE DEF all, good
    <3>3. QED
      BY <3>1, <3>2, FS_Subset
  <2> HIDE DEF good
  <2>5. zone \in good
    <3>1. \E z \in good : \A other \in good : Leads(z, other)
      BY <2>1, <2>4, OneLeads
    <3>2. QED
      BY <3>1
  <2> HIDE DEF zone
  <2>6. zone.lo \in Int /\ zone.hi \in Int
    <3>1. zone \in ZoneOf
      BY <2>4, <2>5
    <3>2. QED
      BY <3>1 DEF ZoneOf
  <2>7. zone.lo <= price /\ price <= zone.hi /\ side * tp > side * price
    BY <2>4, <2>5
  <2>8. sl \in Int /\ side * sl < side * price
    <3>1. CASE side = 1
      <4>1. sl = zone.lo - Ict.buffer
        BY <3>1
      <4> HIDE DEF sl
      <4>2. QED
        BY <2>2, <2>6, <2>7, <3>1, <4>1
    <3>2. CASE side = -1
      <4>1. sl = zone.hi + Ict.buffer
        BY <3>2
      <4> HIDE DEF sl
      <4>2. QED
        BY <2>2, <2>6, <2>7, <3>2, <4>1
    <3>3. QED
      BY <2>1, <3>1, <3>2 DEF Sides
  <2> HIDE DEF sl
  <2>9. side * price < side * tp
    BY <2>1, <2>3, <2>7 DEF Sides
  <2>10. TradeIsFair(t) /\ {"side", "sl", "fill", "tp"} \subseteq DOMAIN t
    BY <2>8, <2>9 DEF TradeIsFair
  <2> HIDE DEF t
  <2>11. TradeList(<<t>>)
    BY <2>10, OneTrade
  <2>12. QED
    BY <1>1, <1>3, <2>11
<1>4. QED
  BY SMTT(30), <1>2, <1>3

-----------------------------------------------------------------------------
\* The loop of a replay counts its bars, and the trades that it has taken are fair.
ReplayInv ==
    /\ tape \in Seq(Ohlc)
    /\ {"at", "last", "daily"} \subseteq DOMAIN mem /\ mem.at \in Nat
    /\ study # "var2" => TradeList(out)

\* The exit of a trade leaves its stop and its target alone.
LEMMA ExitedFair ==
    ASSUME NEW t, NEW k, TradeIsFair(t), {"side", "sl", "fill", "tp"} \subseteq DOMAIN t
    PROVE  TradeIsFair(Exited(t, k)) /\ {"side", "sl", "fill", "tp"} \subseteq DOMAIN Exited(t, k)
<1>1. PICK more : Exited(t, k) = With(t, more)
  BY DEF Exited
<1> DEFINE e == With(t, more)
<1>2. DOMAIN t \subseteq DOMAIN e /\ \A f \in DOMAIN t : e[f] = t[f]
  BY DEF With
<1> HIDE DEF e
<1>3. e.side = t.side /\ e.sl = t.sl /\ e.fill = t.fill /\ e.tp = t.tp
  BY <1>2
<1>4. TradeIsFair(e) /\ {"side", "sl", "fill", "tp"} \subseteq DOMAIN e
  BY <1>2, <1>3 DEF TradeIsFair
<1>5. QED
  BY <1>1, <1>4 DEF e

\* Trades that are appended to trades.
LEMMA TradesJoin ==
    ASSUME NEW q, NEW e, TradeList(q), TradeList(e)
    PROVE  TradeList(q \o e)
<1>1. IsList(q) /\ IsList(e)
  BY DEF TradeList
<1>2. /\ IsList(q \o e)
      /\ \A i \in DOMAIN (q \o e) :
            \/ i \in DOMAIN q /\ (q \o e)[i] = q[i]
            \/ \E j \in DOMAIN e : (q \o e)[i] = e[j]
  BY <1>1, ListsJoin
<1>3. QED
  BY <1>2 DEF TradeList

\* What is logged is fair when what was found is.
LEMMA LogIs ==
    ASSUME ReplayInv, NEW found, NEW k, Log(found, k), study # "var2" => TradeList(found)
    PROVE  ReplayInv'
<1> DEFINE trades == [i \in DOMAIN found |-> Exited(found[i], k)]
<1>1. /\ out' = out \o trades
      /\ study' = study /\ tape' = tape
      /\ \E last, daily : mem' = [mem EXCEPT !.at = @ + 1, !.last = last, !.daily = daily]
  BY DEF Log
<1>2. {"at", "last", "daily"} \subseteq DOMAIN mem' /\ mem'.at = mem.at + 1
  BY <1>1 DEF ReplayInv
<1>3. ASSUME study # "var2" PROVE TradeList(out')
  <2>1. TradeList(found) /\ TradeList(out)
    BY <1>3 DEF ReplayInv
  <2>2. PICK S : found \in Seq(S)
    BY <2>1 DEF TradeList, IsList
  <2>3. \A i \in DOMAIN found : trades[i] = Exited(found[i], k)
    OBVIOUS
  <2>4. trades \in Seq({Exited(s, k) : s \in S}) /\ DOMAIN trades = DOMAIN found
    <3>1. DOMAIN found = 1..Len(found) /\ Len(found) \in Nat /\ \A i \in DOMAIN found : found[i] \in S
      BY <2>2
    <3>2. \A i \in DOMAIN found : Exited(found[i], k) \in {Exited(s, k) : s \in S}
      BY <3>1
    <3> DEFINE T == {Exited(s, k) : s \in S}
    <3> HIDE DEF T
    <3>3. trades \in [1..Len(found) -> T]
      BY <3>1, <3>2 DEF T
    <3> HIDE DEF trades
    <3>4. trades \in Seq(T) /\ DOMAIN trades = 1..Len(found)
      BY <3>1, <3>3
    <3>5. QED
      BY <3>1, <3>4 DEF T
  <2> HIDE DEF trades
  <2>5. \A i \in DOMAIN trades : TradeIsFair(trades[i]) /\ {"side", "sl", "fill", "tp"} \subseteq DOMAIN trades[i]
    <3> SUFFICES ASSUME NEW i \in DOMAIN trades
                 PROVE  TradeIsFair(trades[i]) /\ {"side", "sl", "fill", "tp"} \subseteq DOMAIN trades[i]
      OBVIOUS
    <3>1. TradeIsFair(found[i]) /\ {"side", "sl", "fill", "tp"} \subseteq DOMAIN found[i]
      BY <2>1, <2>4 DEF TradeList
    <3>2. trades[i] = Exited(found[i], k)
      BY <2>3, <2>4
    <3>3. QED
      BY <3>1, <3>2, ExitedFair
  <2>6. TradeList(trades)
    BY <2>4, <2>5 DEF TradeList, IsList
  <2>7. QED
    BY <1>1, <2>1, <2>6, TradesJoin
<1>4. mem'.at \in Nat /\ tape' \in Seq(Ohlc) /\ study' = study
  BY <1>1, <1>2 DEF ReplayInv
<1>5. QED
  BY <1>2, <1>3, <1>4 DEF ReplayInv

\* Reading the tape logs nothing.
LEMMA ReadIs ==
    ASSUME ReplayInv, NEW s \in ReplayStudies, ReadTape(s)
    PROVE  ReplayInv'
<1>1. s \in PriceStudies
  BY DEF ReplayStudies, PriceStudies
<1>2. NextBar(s) /\ mem' = mem /\ out' = out
  BY DEF ReadTape
<1>3. tape' \in Seq(Ohlc) /\ study' = study
  BY <1>1, <1>2, NextTape DEF ReplayInv
<1>4. QED
  BY <1>2, <1>3 DEF ReplayInv

\* The window up to a bar.
LEMMA WindowIs ==
    ASSUME tape \in Seq(Ohlc), NEW k \in Nat, k <= Len(tape), NEW n \in Nat
    PROVE  SubSeq(tape, 1, k) \in Seq(Ohlc) /\ LastOf(SubSeq(tape, 1, k), n) \in Seq(Ohlc)
<1> DEFINE q == SubSeq(tape, 1, k)
<1>1. Len(tape) \in Nat
  BY TapeIs
<1>2. q \in Seq(Ohlc) /\ n \in Int
  BY <1>1
<1> HIDE DEF q
<1>3. LastOf(q, n) \in Seq(Ohlc)
  BY ONLY <1>2, LastOfIs
<1>4. QED
  BY <1>2, <1>3 DEF q

\* The invariant of the replays holds at the start.
LEMMA ReplayBegins == InitReplays => ReplayInv
<1> SUFFICES ASSUME InitReplays PROVE ReplayInv
  OBVIOUS
<1> DEFINE memory == [at |-> 0, last |-> NeverEntered, daily |-> <<>>]
<1>1. PICK s \in ReplayStudies : StartStudy(s, memory)
  BY DEF InitReplays
<1>2. DOMAIN memory = {"at", "last", "daily"} /\ memory.at = 0
  OBVIOUS
<1> HIDE DEF memory
<1>3. tape = <<>> /\ out = <<>> /\ {"at", "last", "daily"} \subseteq DOMAIN mem /\ mem.at = 0
  BY <1>1, <1>2, Started
<1>4. tape \in Seq(Ohlc)
  BY <1>3
<1>5. QED
  BY <1>3, <1>4, NoTrades DEF ReplayInv

\* A step of the first variant keeps it.
LEMMA Var1Keeps == ReplayInv /\ Var1 => ReplayInv'
<1> SUFFICES ASSUME ReplayInv, Var1 PROVE ReplayInv'
  OBVIOUS
<1> DEFINE k == MinCandles("var1") + mem.at
<1>1. CASE ReadTape("var1")
  BY <1>1, ReadIs DEF ReplayStudies
<1>2. CASE Finished("var1") /\ k < Len(tape) - 1 /\ Log(Var1Trades(k), k)
  <2>1. Scalp.var1.lookback \in Nat \ {0} /\ Scalp.var1.window \in Nat \ {0}
        /\ {Scalp.var1.lookback, Scalp.var1.buffer, Scalp.var1.fixed} \subseteq Nat \ {0}
    BY ScalpsLookBack
  <2>2. study = "var1" /\ tape \in Seq(Ohlc) /\ Len(tape) \in Nat
    BY <1>2, TapeIs DEF ReplayInv, Finished
  <2>3. k \in Nat /\ k <= Len(tape)
    BY SMTT(30), <1>2, <2>1, <2>2 DEF MinCandles, ReplayInv
  <2> HIDE DEF k
  <2> DEFINE w == LastOf(SubSeq(tape, 1, k), Scalp.var1.window)
  <2>4. w \in Seq(Ohlc)
    BY <2>1, <2>2, <2>3, WindowIs
  <2>5. Var1Trades(k) = <<>> \/ Var1Trades(k) = SweepTrade(w, Pools(w, Scalp.var1), {}, Scalp.var1)
    BY <2>2 DEF Var1Trades
  <2> HIDE DEF w
  <2>6. TradeList(SweepTrade(w, Pools(w, Scalp.var1), {}, Scalp.var1))
    BY <2>1, <2>4, SweepTradeFair
  <2>7. TradeList(Var1Trades(k))
    BY <2>5, <2>6, NoTrades
  <2>8. QED
    BY <1>2, <2>7, LogIs
<1>3. QED
  BY <1>1, <1>2 DEF Var1

\* A step of the second variant keeps it.
LEMMA Var2Keeps == ReplayInv /\ Var2 => ReplayInv'
<1> SUFFICES ASSUME ReplayInv, Var2 PROVE ReplayInv'
  OBVIOUS
<1>1. CASE ReadTape("var2")
  BY <1>1, ReadIs DEF ReplayStudies
<1>2. CASE Finished("var2") /\ \E found, k : Log(found, k)
  <2>1. study = "var2"
    BY <1>2 DEF Finished
  <2>2. PICK found, k : Log(found, k)
    BY <1>2
  <2>3. QED
    BY <2>1, <2>2, LogIs
<1>3. QED
  BY <1>1, <1>2 DEF Var2

\* A step of the micro engine keeps it.
LEMMA MicroKeeps == ReplayInv /\ MicroStep => ReplayInv'
<1> SUFFICES ASSUME ReplayInv, MicroStep PROVE ReplayInv'
  OBVIOUS
<1> DEFINE k == Replay.warmup + 1 + mem.at
<1>1. CASE ReadTape("micro")
  BY <1>1, ReadIs DEF ReplayStudies
<1>2. CASE Finished("micro") /\ k < Len(tape) /\ Log(MicroTrades(k), k)
  <2>1. Scalp.micro.window \in Nat \ {0}
        /\ {Scalp.micro.lookback, Scalp.micro.buffer, Scalp.micro.fixed} \subseteq Nat \ {0}
    BY ScalpsLookBack
  <2>2. study = "micro" /\ tape \in Seq(Ohlc) /\ Len(tape) \in Nat
    BY <1>2, TapeIs DEF ReplayInv, Finished
  <2>3. k \in Nat /\ k <= Len(tape)
    BY <1>2, <2>2, WarmupIsBars DEF ReplayInv
  <2> HIDE DEF k
  <2> DEFINE w == LastOf(SubSeq(tape, 1, k), Scalp.micro.window)
             fives == BegunBy(mem.past.fives, tape, FiveMinutes, k)
  <2>4. w \in Seq(Ohlc)
    BY <2>1, <2>2, <2>3, WindowIs
  <2>5. MicroTrades(k) = <<>> \/ MicroTrades(k) = MicroSignal(w, fives, Scalp.micro)
    BY <2>2 DEF MicroTrades
  <2> HIDE DEF w, fives
  <2>6. TradeList(MicroSignal(w, fives, Scalp.micro))
    BY <2>1, <2>4, MicroIsFair
  <2>7. TradeList(MicroTrades(k))
    BY <2>5, <2>6, NoTrades
  <2>8. QED
    BY <1>2, <2>7, LogIs
<1>3. QED
  BY <1>1, <1>2 DEF MicroStep

\* A step of the ICT engine keeps it.
LEMMA IctKeeps == ReplayInv /\ IctStep => ReplayInv'
<1> SUFFICES ASSUME ReplayInv, IctStep PROVE ReplayInv'
  OBVIOUS
<1> DEFINE k == mem.at + 1
<1>1. CASE ReadTape("ict")
  BY <1>1, ReadIs DEF ReplayStudies
<1>2. CASE Finished("ict") /\ k <= Len(tape) /\ Log(IctTrades(k), k)
  <2>1. tape \in Seq(Ohlc) /\ Len(tape) \in Nat /\ DOMAIN tape = 1..Len(tape)
    BY TapeIs DEF ReplayInv
  <2>2. k \in Nat /\ k <= Len(tape) /\ k \in DOMAIN tape
    BY <1>2, <2>1 DEF ReplayInv
  <2> HIDE DEF k
  <2> DEFINE side == StructureBias(mem.past.fours, mem.past.ones)
             w == SubSeq(tape, 1, k)
             price == tape[k].c
  <2>3. w \in Seq(Ohlc)
    BY <2>1, <2>2
  <2>4. price \in Int
    <3>1. tape[k] \in Ohlc
      BY <2>1, <2>2
    <3>2. QED
      BY <3>1 DEF Ohlc
  <2>5. side # 0 => side \in Sides
    BY BiasIs
  <2>6. IctTrades(k) = CheckEntry(w, price, side)
    BY DEF IctTrades
  <2> HIDE DEF side, w, price
  <2>7. TradeList(IctTrades(k))
    BY <2>3, <2>4, <2>5, <2>6, CheckEntryFair
  <2>8. QED
    BY <1>2, <2>7, LogIs
<1>3. QED
  BY <1>1, <1>2 DEF IctStep

\* Any step of a replay keeps it.
LEMMA ReplayGoesOn == ReplayInv /\ NextReplay => ReplayInv'
BY Var1Keeps, Var2Keeps, MicroKeeps, IctKeeps DEF NextReplay

-----------------------------------------------------------------------------
(***************************************************************************)
(* The generators of Bitcoin.                                              *)
(***************************************************************************)
\* A signal that stops behind the close of the bar before its entry and aims beyond it.
CoinAt(s, bars) ==
    /\ s.entry - 1 \in DOMAIN bars
    /\ s.side * s.sl < s.side * s.of.unit * bars[s.entry - 1].c
    /\ s.side * s.of.unit * bars[s.entry - 1].c < s.side * s.tp

\* A finite set of entries that are fair at the close that they decide on.
Found(S, bars) == IsFiniteSet(S) /\ \A s \in S : CoinAt(s, bars)

\* The entries are those of the bars that the tape has now.
CoinInv ==
    /\ tape \in Seq(Ohlc)
    /\ {"generator", "regime"} \subseteq DOMAIN mem /\ mem.generator \in Generators
    /\ \A s \in Range(out) : CoinAt(s, tape)

\* The lengths of the generators.
LEMMA CoinsAre ==
    /\ Coin.z \in Nat \ {0} /\ Coin.atr \in Nat \ {0} /\ Coin.channel \in Nat \ {0}
BY CoinOK

\* What is made of the bars of a tape for either side is finite.
LEMMA FoundAt ==
    ASSUME NEW bars \in Seq(Ohlc), NEW f, NEW S, S \subseteq {f[p] : p \in (DOMAIN bars) \X Sides},
           \A s \in S : CoinAt(s, bars)
    PROVE  Found(S, bars)
<1>1. IsFiniteSet({f[p] : p \in (DOMAIN bars) \X Sides})
  BY FoundBySides
<1>2. IsFiniteSet(S)
  BY <1>1, FS_Subset
<1>3. QED
  BY <1>2 DEF Found

\* A bar of a tape.
LEMMA BarIs ==
    ASSUME NEW bars \in Seq(Ohlc), NEW i \in DOMAIN bars
    PROVE  i \in Nat \ {0} /\ i <= Len(bars) /\ bars[i] \in Ohlc /\ bars[i].c \in Int
<1>1. bars[i] \in Ohlc /\ i \in Nat \ {0} /\ i <= Len(bars)
  BY TapeIs
<1>2. QED
  BY <1>1 DEF Ohlc

\* The last bars up to one of the tape are of the tape.
LEMMA TrailingIs ==
    ASSUME NEW bars \in Seq(Ohlc), NEW i \in DOMAIN bars, NEW n \in Nat \ {0}, i >= n
    PROVE  Trailing(i, n) \in SUBSET (DOMAIN bars)
<1>1. DOMAIN bars = 1..Len(bars) /\ Len(bars) \in Nat
  BY TapeIs
<1>2. QED
  BY <1>1 DEF Trailing

\* The range of a bar that has one.
LEMMA RangeTotalIs ==
    ASSUME NEW bars \in Seq(Ohlc), NEW i \in DOMAIN bars, HasRange(bars, i)
    PROVE  RangeTotal(bars, i) \in Int /\ RangeTotal(bars, i) > 0
<1>1. i >= Coin.atr /\ RangeTotal(bars, i) > 0
  BY DEF HasRange
<1>2. Trailing(i, Coin.atr) \in SUBSET (DOMAIN bars)
  BY <1>1, CoinsAre, TrailingIs
<1>3. QED
  BY <1>1, <1>2, RangesSum DEF RangeTotal

\* The sum of some closes is a number.
LEMMA ClosesSum ==
    ASSUME NEW bars \in Seq(Ohlc), NEW S \in SUBSET (DOMAIN bars)
    PROVE  SumOver(S, LAMBDA j : bars[j].c) \in Int
<1> DEFINE F == [j \in S |-> bars[j].c]
<1>1. SumOver(S, LAMBDA j : bars[j].c) = SumFunction(F)
  BY DEF SumOver
<1>2. F \in [S -> Int]
  BY BarIs
<1> HIDE DEF F
<1>3. IsFiniteSet(S)
  BY TapeIs, FS_Subset
<1>4. SumFunction(F) \in Int
  BY <1>2, <1>3, SumIs
<1>5. QED
  BY <1>1, <1>4

\* So many ranges on either side of a price.
LEMMA RangesOff ==
    ASSUME NEW side \in Sides, NEW close \in Int, NEW a \in Int, NEW b \in Int, a > 0, b > 0
    PROVE  /\ side * (close - side * a) < side * close
           /\ side * close < side * (close + side * b)
<1>1. CASE side = 1
  BY <1>1
<1>2. CASE side = -1
  <2>1. side * a = -a /\ side * b = -b /\ side * close = -close
    BY <1>2
  <2>2. side * (close - side * a) = -close - a /\ side * (close + side * b) = -close + b
    BY <1>2, <2>1
  <2>3. QED
    BY <2>1, <2>2
<1>3. QED
  BY <1>1, <1>2 DEF Sides

\* The entry of a bracket.
LEMMA BracketFair ==
    ASSUME NEW bars \in Seq(Ohlc), NEW i \in DOMAIN bars, HasRange(bars, i), NEW side \in Sides,
           NEW stop \in Nat \ {0}, NEW aim \in Nat \ {0}
    PROVE  CoinAt(Bracket(bars, i, side, stop, aim), bars)
<1> DEFINE s == Bracket(bars, i, side, stop, aim)
           R == RangeTotal(bars, i)
           unit == 10 * Coin.atr
           c == bars[i].c
           close == unit * c
<1>1. R \in Int /\ R > 0
  BY RangeTotalIs
<1>2. c \in Int /\ i \in Nat /\ unit \in Int
  BY BarIs, CoinsAre
<1>3. /\ s.side = side /\ s.entry = i + 1 /\ s.of.unit = unit
      /\ s.sl = close - side * stop * R /\ s.tp = close + side * aim * R
  BY DEF Bracket, Signal
<1>4. s.entry - 1 = i
  BY <1>2, <1>3
<1> HIDE DEF s, R, unit, c
<1>5. close \in Int /\ side * unit * c = side * close
  BY <1>2 DEF Sides
<1> HIDE DEF close
<1> DEFINE a == stop * R
           b == aim * R
<1>6. a \in Int /\ b \in Int /\ a > 0 /\ b > 0 /\ side * stop * R = side * a /\ side * aim * R = side * b
  BY <1>1 DEF Sides
<1> HIDE DEF a, b
<1>7. side * (close - side * a) < side * close /\ side * close < side * (close + side * b)
  BY <1>5, <1>6, RangesOff
<1>8. s.side * s.sl < s.side * s.of.unit * c /\ s.side * s.of.unit * c < s.side * s.tp
  BY <1>3, <1>5, <1>6, <1>7
<1>9. CoinAt(s, bars)
  BY <1>4, <1>8 DEF CoinAt, c
<1>10. QED
  BY <1>9 DEF s

\* The breakout of the range of an hour.
LEMMA OrbFound ==
    ASSUME NEW bars \in Seq(Ohlc)
    PROVE  Found(OrbEntries(bars), bars)
<1> DEFINE f == [p \in (DOMAIN bars) \X Sides |-> OrbSignal(bars, p[1], p[2])]
<1>1. ASSUME NEW x \in OrbEntries(bars)
      PROVE  \E i \in DOMAIN bars, side \in Sides :
                /\ x = OrbSignal(bars, i, side) /\ Opening(bars, i) # {}
                /\ OpeningWidth(bars, i, side) > 0 /\ Close(bars, i, side) > OpeningTop(bars, i, side)
  <2>1. PICK e \in (2..Len(bars)) \X Sides :
           /\ x = OrbSignal(bars, e[1], e[2]) /\ Opening(bars, e[1]) # {}
           /\ OpeningWidth(bars, e[1], e[2]) > 0 /\ Close(bars, e[1], e[2]) > OpeningTop(bars, e[1], e[2])
    BY DEF OrbEntries
  <2>2. e[1] \in DOMAIN bars /\ e[2] \in Sides
    BY TapeIs
  <2>3. QED
    BY <2>1, <2>2
<1>2. ASSUME NEW i \in DOMAIN bars, NEW side \in Sides, Opening(bars, i) # {},
             OpeningWidth(bars, i, side) > 0, Close(bars, i, side) > OpeningTop(bars, i, side)
      PROVE  CoinAt(OrbSignal(bars, i, side), bars)
  <2> DEFINE S == Opening(bars, i)
             t == Max({Facing(bars[j], side).h : j \in S})
             l == Min({Facing(bars[j], side).l : j \in S})
             w == t - l
             c == bars[i].c
             s == OrbSignal(bars, i, side)
  <2>1. S \subseteq DOMAIN bars /\ S # {}
    BY <1>2 DEF Opening
  <2>2. OpeningTop(bars, i, side) = t /\ OpeningWidth(bars, i, side) = w
    BY DEF OpeningTop, OpeningWidth
  <2> HIDE DEF S
  <2>3. t \in Int /\ l \in Int
    <3>1. IsFiniteSet(S) /\ \A j \in S : bars[j] \in Ohlc
      BY <2>1, TapeIs, FS_Subset
    <3>2. QED
      BY <2>1, <3>1, ExtremesFacing
  <2> HIDE DEF t, l
  <2>4. c \in Int /\ i \in Nat
    BY BarIs
  <2>5. w \in Int /\ w > 0 /\ side * c > t
    BY <1>2, <2>2, <2>3 DEF Close
  <2>6. s.side = side /\ s.entry = i + 1 /\ s.of.unit = 1 /\ s.sl = side * (t - w) /\ s.tp = c + side * 2 * w
    BY <2>2 DEF OrbSignal, Signal
  <2> HIDE DEF s, c, w
  <2>7. side * (side * (t - w)) < side * 1 * c /\ side * 1 * c < side * (c + side * 2 * w)
    <3>1. CASE side = 1
      BY <2>3, <2>4, <2>5, <3>1
    <3>2. CASE side = -1
      <4>1. side * (side * (t - w)) = t - w /\ side * 1 * c = -c /\ side * c = -c
            /\ side * (c + side * 2 * w) = -c + 2 * w
        BY <2>3, <2>4, <2>5, <3>2
      <4>2. QED
        BY <2>3, <2>4, <2>5, <4>1
    <3>3. QED
      BY <3>1, <3>2 DEF Sides
  <2>8. s.entry - 1 = i
    BY <2>4, <2>6
  <2>9. CoinAt(s, bars)
    BY <2>6, <2>7, <2>8 DEF CoinAt, c
  <2>10. QED
    BY <2>9 DEF s
<1>3. OrbEntries(bars) \subseteq {f[p] : p \in (DOMAIN bars) \X Sides}
  <2> SUFFICES ASSUME NEW x \in OrbEntries(bars) PROVE x \in {f[p] : p \in (DOMAIN bars) \X Sides}
    OBVIOUS
  <2>1. PICK i \in DOMAIN bars, side \in Sides : x = OrbSignal(bars, i, side)
    BY <1>1
  <2>2. <<i, side>> \in (DOMAIN bars) \X Sides /\ f[<<i, side>>] = x
    BY <2>1
  <2> HIDE DEF f
  <2>3. QED
    BY <2>2
<1> HIDE DEF f
<1>4. \A x \in OrbEntries(bars) : CoinAt(x, bars)
  BY <1>1, <1>2
<1>5. QED
  BY <1>3, <1>4, FoundAt

\* Brackets at some bars of the tape.
LEMMA BracketsFound ==
    ASSUME NEW bars \in Seq(Ohlc), NEW stop \in Nat \ {0}, NEW aim \in Nat \ {0}, NEW S,
           \A x \in S : \E i \in DOMAIN bars, side \in Sides :
               HasRange(bars, i) /\ x = Bracket(bars, i, side, stop, aim)
    PROVE  Found(S, bars)
<1> DEFINE f == [p \in (DOMAIN bars) \X Sides |-> Bracket(bars, p[1], p[2], stop, aim)]
<1>1. \A i \in DOMAIN bars, side \in Sides :
         f[<<i, side>>] = Bracket(bars, i, side, stop, aim)
         /\ f[<<i, side>>] \in {f[p] : p \in (DOMAIN bars) \X Sides}
  <2> SUFFICES ASSUME NEW i \in DOMAIN bars, NEW side \in Sides
               PROVE  f[<<i, side>>] = Bracket(bars, i, side, stop, aim)
                      /\ f[<<i, side>>] \in {f[p] : p \in (DOMAIN bars) \X Sides}
    OBVIOUS
  <2>1. <<i, side>> \in (DOMAIN bars) \X Sides /\ <<i, side>>[1] = i /\ <<i, side>>[2] = side
    OBVIOUS
  <2>2. QED
    BY <2>1
<1> HIDE DEF f
<1>2. S \subseteq {f[p] : p \in (DOMAIN bars) \X Sides}
  BY ZenonT(30), <1>1
<1>3. \A x \in S : CoinAt(x, bars)
  BY BracketFair
<1>4. QED
  BY <1>2, <1>3, FoundAt

\* A wide bar's breakout, the drop and the fade are brackets.
LEMMA VboFound ==
    ASSUME NEW bars \in Seq(Ohlc)
    PROVE  Found(VboEntries(bars), bars)
<1>1. ASSUME NEW x \in VboEntries(bars)
      PROVE  \E i \in DOMAIN bars, side \in Sides : HasRange(bars, i) /\ x = Bracket(bars, i, side, 12, 25)
  <2>1. PICK e \in ((Coin.channel + 1)..Len(bars)) \X Sides :
           HasRange(bars, e[1]) /\ x = Bracket(bars, e[1], e[2], 12, 25)
    BY DEF VboEntries
  <2>2. e[1] \in DOMAIN bars /\ e[2] \in Sides
    BY TapeIs, CoinsAre
  <2>3. QED
    BY <2>1, <2>2
<1>2. 12 \in Nat \ {0} /\ 25 \in Nat \ {0}
  OBVIOUS
<1>3. QED
  BY <1>1, <1>2, BracketsFound

\* The bars that have just crossed are of the tape.
LEMMA CrossingsAre ==
    ASSUME NEW bars \in Seq(Ohlc), NEW side \in Sides, NEW i \in Crossings(bars, side)
    PROVE  /\ i \in DOMAIN bars /\ HasRange(bars, i) /\ i >= Coin.z
           /\ side * (Coin.z * bars[i].c - CloseSum(bars, i)) > 0 /\ CloseSum(bars, i) \in Int
<1>1. i \in 2..Len(bars) /\ HasRange(bars, i) /\ Crosses(bars, i, side)
  BY DEF Crossings
<1>2. i \in DOMAIN bars
  BY <1>1, TapeIs
<1>3. i >= Coin.z /\ side * (Coin.z * bars[i].c - CloseSum(bars, i)) > 0
  BY <1>1 DEF Crosses, IsExtreme, HasZ
<1>4. CloseSum(bars, i) \in Int
  <2>1. Trailing(i, Coin.z) \in SUBSET (DOMAIN bars)
    BY <1>2, <1>3, CoinsAre, TrailingIs
  <2>2. QED
    BY <2>1, ClosesSum DEF CloseSum
<1>5. QED
  BY <1>1, <1>2, <1>3, <1>4

\* The entries of the drop generator are fair.
LEMMA DropFound ==
    ASSUME NEW bars \in Seq(Ohlc)
    PROVE  Found(DropEntries(bars), bars)
<1>1. ASSUME NEW x \in DropEntries(bars)
      PROVE  \E i \in DOMAIN bars, side \in Sides : HasRange(bars, i) /\ x = Bracket(bars, i, side, 15, 20)
  <2>1. PICK i \in Crossings(bars, -1) : x = Bracket(bars, i, -1, 15, 20)
    BY DEF DropEntries
  <2>2. -1 \in Sides
    BY DEF Sides
  <2>3. i \in DOMAIN bars /\ HasRange(bars, i)
    BY <2>2, CrossingsAre
  <2>4. QED
    BY <2>1, <2>2, <2>3
<1>2. 15 \in Nat \ {0} /\ 20 \in Nat \ {0}
  OBVIOUS
<1>3. QED
  BY <1>1, <1>2, BracketsFound

\* The entries of the fade generator are fair.
LEMMA FadeFound ==
    ASSUME NEW bars \in Seq(Ohlc)
    PROVE  Found(FadeEntries(bars), bars)
<1>1. ASSUME NEW x \in FadeEntries(bars)
      PROVE  \E i \in DOMAIN bars, side \in Sides : HasRange(bars, i) /\ x = Bracket(bars, i, side, 20, 15)
  <2>1. PICK side \in Sides : x \in {Bracket(bars, i, -side, 20, 15) : i \in Crossings(bars, side)}
    BY DEF FadeEntries
  <2>2. PICK i \in Crossings(bars, side) : x = Bracket(bars, i, -side, 20, 15)
    BY <2>1
  <2>3. i \in DOMAIN bars /\ HasRange(bars, i)
    BY CrossingsAre
  <2>4. -side \in Sides
    BY DEF Sides
  <2>5. QED
    BY <2>2, <2>3, <2>4
<1>2. 20 \in Nat \ {0} /\ 15 \in Nat \ {0}
  OBVIOUS
<1>3. QED
  BY <1>1, <1>2, BracketsFound

\* A swing back to the mean aims at a mean that lies beyond the close.
LEMMA RevertFound ==
    ASSUME NEW bars \in Seq(Ohlc)
    PROVE  Found(RevertEntries(bars), bars)
<1> DEFINE f == [p \in (DOMAIN bars) \X Sides |-> RevertSignal(bars, p[1], p[2])]
<1>1. ASSUME NEW x \in RevertEntries(bars)
      PROVE  \E side \in Sides : \E i \in Crossings(bars, side) : x = RevertSignal(bars, i, side)
  BY DEF RevertEntries
<1>2. ASSUME NEW side \in Sides, NEW i \in Crossings(bars, side)
      PROVE  CoinAt(RevertSignal(bars, i, side), bars)
  <2> DEFINE c == bars[i].c
             z == Coin.z
             n == Coin.atr
             R == RangeTotal(bars, i)
             M == CloseSum(bars, i)
             s == RevertSignal(bars, i, side)
  <2>1. i \in DOMAIN bars /\ HasRange(bars, i) /\ side * (z * c - M) > 0 /\ M \in Int
    BY CrossingsAre
  <2>2. R \in Int /\ R > 0 /\ c \in Int /\ i \in Nat /\ z \in Nat \ {0} /\ n \in Nat \ {0}
    BY <2>1, RangeTotalIs, BarIs, CoinsAre
  <2>3. s.side = -side /\ s.entry = i + 1 /\ s.of.unit = z * n /\ s.sl = z * n * c + 2 * side * z * R /\ s.tp = n * M
    BY DEF RevertSignal, Signal
  <2> HIDE DEF s, c, z, n, R, M
  <2>4. s.entry - 1 = i
    BY <2>2, <2>3
  <2> DEFINE d == z * R
             close == z * n * c
             mean == n * M
  <2>5. d \in Int /\ d > 0 /\ close \in Int /\ mean \in Int
    <3>1. z * n \in Int
      BY <2>2
    <3>2. QED
      BY <2>1, <2>2, <3>1
  <2>6. side * (close - mean) > 0
    <3> DEFINE e == side * (z * c - M)
    <3>1. z * c - M \in Int
      BY <2>1, <2>2
    <3>2. e \in Int /\ e > 0
      BY <2>1, <3>1 DEF Sides
    <3>3. n * (z * c - M) = close - mean
      <4>1. n * (z * c - M) = n * (z * c) - n * M
        <5> DEFINE a == z * c
        <5>1. a \in Int
          BY <2>2
        <5> HIDE DEF a
        <5>2. n * (a - M) = n * a - n * M
          BY <2>1, <2>2, <5>1
        <5>3. QED
          BY <5>2 DEF a
      <4>2. n * (z * c) = z * n * c
        BY <2>2
      <4>3. QED
        BY <4>1, <4>2
    <3>4. side * (n * (z * c - M)) = n * e
      <4> DEFINE g == z * c - M
      <4> HIDE DEF g
      <4>1. side * (n * g) = n * (side * g)
        BY <2>2, <3>1 DEF Sides, g
      <4>2. QED
        BY <4>1 DEF g
    <3> HIDE DEF e
    <3>5. n * e > 0
      BY <2>2, <3>2
    <3>6. QED
      BY <3>3, <3>4, <3>5
  <2>7. -side \in Sides /\ side = -(-side)
    BY DEF Sides
  <2>8. 2 * side * z * R = 2 * side * d /\ (-side) * (z * n) * c = (-side) * close
    <3>1. CASE side = 1
      <4>1. 2 * side * z * R = 2 * (z * R)
        BY <2>2, <3>1
      <4>2. (-side) * (z * n) * c = -((z * n) * c)
        <5> DEFINE u == z * n
        <5>1. u \in Int
          BY <2>2
        <5> HIDE DEF u
        <5>2. (-side) * u * c = -(u * c)
          BY <2>2, <3>1, <5>1
        <5>3. QED
          BY <5>2 DEF u
      <4>3. QED
        BY <2>5, <3>1, <4>1, <4>2
    <3>2. CASE side = -1
      <4>1. 2 * side * z * R = -(2 * (z * R))
        BY <2>2, <3>2
      <4>2. (-side) * (z * n) * c = (z * n) * c
        <5> DEFINE u == z * n
        <5>1. u \in Int
          BY <2>2
        <5> HIDE DEF u
        <5>2. -side = 1
          <6>1. -side = 0 - side
            BY DEF Sides
          <6>2. QED
            BY <3>2, <6>1
        <5>3. (-side) * u * c = u * c
          BY <2>2, <5>1, <5>2
        <5>4. QED
          BY <5>3 DEF u
      <4>3. QED
        BY <2>5, <3>2, <4>1, <4>2
    <3>3. QED
      BY <3>1, <3>2 DEF Sides
  <2> HIDE DEF d, close, mean
  <2>9. (-side) * (close + 2 * side * d) < (-side) * close /\ (-side) * close < (-side) * mean
    <3>1. CASE side = 1
      <4>1. -side = 0 - 1
        BY <3>1
      <4>2. close - mean > 0
        BY <2>5, <2>6, <3>1
      <4>3. QED
        BY <2>5, <3>1, <4>1, <4>2
    <3>2. CASE side = -1
      <4>1. -side = 1
        <5>1. -side = 0 - side
          BY DEF Sides
        <5>2. QED
          BY <3>2, <5>1
      <4>2. mean - close > 0
        BY <2>5, <2>6, <3>2
      <4>3. 2 * side * d = -(2 * d)
        BY <2>5, <3>2
      <4>4. QED
        BY <2>5, <4>1, <4>2, <4>3
    <3>3. QED
      BY <3>1, <3>2 DEF Sides
  <2>10. s.sl = close + 2 * side * d /\ s.tp = mean
    BY <2>3, <2>8 DEF close, mean
  <2>11. CoinAt(s, bars)
    BY <2>1, <2>3, <2>4, <2>8, <2>9, <2>10 DEF CoinAt, c
  <2>12. QED
    BY <2>11 DEF s
<1>3. RevertEntries(bars) \subseteq {f[p] : p \in (DOMAIN bars) \X Sides}
  <2> SUFFICES ASSUME NEW x \in RevertEntries(bars) PROVE x \in {f[p] : p \in (DOMAIN bars) \X Sides}
    OBVIOUS
  <2>1. PICK side \in Sides : \E i \in Crossings(bars, side) : x = RevertSignal(bars, i, side)
    BY <1>1
  <2>2. PICK i \in Crossings(bars, side) : x = RevertSignal(bars, i, side)
    BY <2>1
  <2>3. <<i, side>> \in (DOMAIN bars) \X Sides /\ f[<<i, side>>] = x
    BY <2>2, CrossingsAre
  <2> HIDE DEF f
  <2>4. QED
    BY <2>3
<1> HIDE DEF f
<1>4. \A x \in RevertEntries(bars) : CoinAt(x, bars)
  BY <1>1, <1>2
<1>5. QED
  BY <1>3, <1>4, FoundAt

\* A poke beyond the channel is faded when the mean lies far enough back.
LEMMA SweepFound ==
    ASSUME NEW bars \in Seq(Ohlc)
    PROVE  Found(SweepReversals(bars), bars)
<1> DEFINE f == [p \in (DOMAIN bars) \X Sides |-> PokeSignal(bars, p[1], p[2])]
           Good(i, side) == /\ i \in DOMAIN bars /\ side \in Sides /\ i > Coin.channel /\ HasRange(bars, i)
                            /\ 2 * Coin.atr * side * (Coin.channel * bars[i].c - MeanTotal(bars, i))
                                  >= Coin.channel * RangeTotal(bars, i)
<1>1. ASSUME NEW x \in SweepReversals(bars)
      PROVE  \E i \in DOMAIN bars, side \in Sides : x = PokeSignal(bars, i, side) /\ Good(i, side)
  <2>1. PICK e \in ((Coin.channel + 1)..Len(bars)) \X Sides :
           /\ x = PokeSignal(bars, e[1], e[2]) /\ HasRange(bars, e[1])
           /\ 2 * Coin.atr * e[2] * (Coin.channel * bars[e[1]].c - MeanTotal(bars, e[1]))
                 >= Coin.channel * RangeTotal(bars, e[1])
    BY DEF SweepReversals
  <2>2. e[1] \in DOMAIN bars /\ e[2] \in Sides /\ e[1] > Coin.channel
    BY TapeIs, CoinsAre
  <2>3. QED
    BY <2>1, <2>2
<1>2. ASSUME NEW i, NEW side, Good(i, side)
      PROVE  CoinAt(PokeSignal(bars, i, side), bars)
  <2> DEFINE c == bars[i].c
             h == Facing(bars[i], side).h
             n == Coin.channel
             a == Coin.atr
             R == RangeTotal(bars, i)
             M == MeanTotal(bars, i)
             s == PokeSignal(bars, i, side)
  <2>1. i \in DOMAIN bars /\ side \in Sides /\ i > n /\ HasRange(bars, i) /\ 2 * a * side * (n * c - M) >= n * R
    BY <1>2
  <2>2. R \in Int /\ R > 0 /\ c \in Int /\ i \in Nat /\ n \in Nat \ {0} /\ a \in Nat \ {0}
    BY <2>1, RangeTotalIs, BarIs, CoinsAre
  <2>3. h \in Int /\ side * c <= h
    <3>1. bars[i] \in Ohlc
      BY <2>1, BarIs
    <3>2. Facing(bars[i], side) \in Ohlc /\ side * c <= h
      BY <2>1, <3>1, FacingIsBar
    <3>3. QED
      BY <3>2 DEF Ohlc
  <2>4. M \in Int
    <3>1. Trailing(i, Coin.channel) \in SUBSET (DOMAIN bars)
      BY <2>1, <2>2, TrailingIs
    <3>2. QED
      BY <3>1, ClosesSum DEF MeanTotal
  <2>5. /\ s.side = -side /\ s.entry = i + 1 /\ s.of.unit = 2 * n * a
        /\ s.sl = 2 * n * a * side * h + side * n * R /\ s.tp = 2 * a * M
    BY DEF PokeSignal, Signal
  <2> HIDE DEF s, c, h, n, a, R, M
  <2> DEFINE u == n * a
  <2>6. u \in Nat \ {0} /\ 2 * n * a = 2 * u
    BY <2>2
  <2> DEFINE d == n * R
             g == n * c - M
             e == a * g
             close == u * c
             mean == a * M
  <2>7. d \in Int /\ d > 0 /\ g \in Int /\ e \in Int /\ close \in Int /\ mean \in Int
    BY <2>2, <2>4, <2>6
  <2>8. e = close - mean
    <3> DEFINE nc == n * c
    <3>1. nc \in Int /\ a * nc = close
      BY <2>2
    <3> HIDE DEF nc
    <3>2. a * (nc - M) = a * nc - a * M
      BY <2>2, <2>4, <3>1
    <3>3. QED
      BY <3>1, <3>2 DEF nc
  <2>9. 2 * side * e >= d
    <3>1. 2 * a * side * g = 2 * side * (a * g)
      <4> HIDE DEF g
      <4>1. CASE side = 1
        BY <2>2, <2>7, <4>1
      <4>2. CASE side = -1
        BY <2>2, <2>7, <4>2
      <4>3. QED
        BY <2>1, <4>1, <4>2 DEF Sides
    <3>2. QED
      BY <2>1, <3>1
  <2> DEFINE top == u * h
  <2>10. top \in Int /\ side * close <= top
    <3>1. u * (side * c) <= u * h
      <4> DEFINE v == side * c
      <4>1. v \in Int /\ v <= h
        BY <2>1, <2>2, <2>3 DEF Sides
      <4> HIDE DEF v, u
      <4>2. u * v <= u * h
        BY <2>3, <2>6, <4>1
      <4>3. QED
        BY <4>2 DEF v
    <3>2. u * (side * c) = side * (u * c)
      <4> HIDE DEF u
      <4>1. QED
        BY <2>1, <2>2, <2>6 DEF Sides
    <3>3. top \in Int
      BY <2>3, <2>6
    <3>4. QED
      BY <3>1, <3>2, <3>3
  <2>11. s.sl = 2 * side * top + side * d /\ s.tp = 2 * mean
    <3>1. 2 * a * M = 2 * (a * M)
      BY <2>2, <2>4
    <3>2. 2 * u * side * h = 2 * side * (u * h)
      <4> HIDE DEF u
      <4>1. CASE side = 1
        BY <2>3, <2>6, <4>1
      <4>2. CASE side = -1
        BY <2>3, <2>6, <4>2
      <4>3. QED
        BY <2>1, <4>1, <4>2 DEF Sides
    <3>3. side * n * R = side * (n * R)
      BY <2>1, <2>2 DEF Sides
    <3>4. 2 * n * a * side * h = 2 * u * side * h
      BY <2>6
    <3> HIDE DEF u, d, top, mean
    <3>5. QED
      BY <2>5, <3>1, <3>2, <3>3, <3>4 DEF d, top, mean
  <2>12. (-side) * (2 * n * a) * c = (-side) * (2 * close)
    <3>1. 2 * u * c = 2 * close
      <4> HIDE DEF u
      <4>1. QED
        BY <2>2, <2>6
    <3>2. (-side) * (2 * u) * c = (-side) * (2 * u * c)
      <4> DEFINE k == 2 * u
      <4>1. k \in Int /\ -side \in Int
        BY <2>1, <2>6 DEF Sides
      <4> HIDE DEF k
      <4>2. (-side) * k * c = (-side) * (k * c)
        BY <2>2, <4>1
      <4>3. QED
        BY <4>2 DEF k
    <3>3. QED
      BY <2>6, <3>1, <3>2
  <2> HIDE DEF u, d, e, g, close, mean, top
  <2>13. (-side) * (2 * side * top + side * d) < (-side) * (2 * close) /\ (-side) * (2 * close) < (-side) * (2 * mean)
    <3>1. CASE side = 1
      <4>1. -side = 0 - 1
        BY <3>1
      <4>2. 2 * e >= d /\ close <= top
        BY <2>7, <2>9, <2>10, <3>1
      <4>3. QED
        BY <2>7, <2>8, <2>10, <3>1, <4>1, <4>2
    <3>2. CASE side = -1
      <4>1. -side = 1
        <5>1. -side = 0 - side
          BY <2>1 DEF Sides
        <5>2. QED
          BY <3>2, <5>1
      <4>2. -(2 * e) >= d /\ -close <= top /\ 2 * side * top = -(2 * top) /\ side * d = -d
        BY <2>7, <2>9, <2>10, <3>2
      <4>3. QED
        BY <2>7, <2>8, <2>10, <4>1, <4>2
    <3>3. QED
      BY <2>1, <3>1, <3>2 DEF Sides
  <2>14. s.entry - 1 = i
    BY <2>2, <2>5
  <2>15. CoinAt(s, bars)
    BY <2>1, <2>5, <2>11, <2>12, <2>13, <2>14 DEF CoinAt, c
  <2>16. QED
    BY <2>15 DEF s
<1>3. SweepReversals(bars) \subseteq {f[p] : p \in (DOMAIN bars) \X Sides}
  <2> SUFFICES ASSUME NEW x \in SweepReversals(bars) PROVE x \in {f[p] : p \in (DOMAIN bars) \X Sides}
    OBVIOUS
  <2>1. PICK i \in DOMAIN bars, side \in Sides : x = PokeSignal(bars, i, side)
    BY <1>1
  <2>2. <<i, side>> \in (DOMAIN bars) \X Sides /\ f[<<i, side>>] = x
    BY <2>1
  <2> HIDE DEF f
  <2>3. QED
    BY <2>2
<1> HIDE DEF f
<1>4. \A x \in SweepReversals(bars) : CoinAt(x, bars)
  <2> HIDE DEF Good
  <2>1. QED
    BY <1>1, <1>2
<1>5. QED
  BY <1>3, <1>4, FoundAt

\* Whatever the generator, all of its entries on any tape are fair.
LEMMA CoinFound ==
    ASSUME NEW bars \in Seq(Ohlc), mem.generator \in Generators
    PROVE  Found(CoinEntries(bars), bars)
<1>1. CASE mem.generator = "orb"
  BY <1>1, OrbFound DEF CoinEntries
<1>2. CASE mem.generator = "vbo"
  BY <1>2, VboFound DEF CoinEntries
<1>3. CASE mem.generator = "drop"
  BY <1>3, DropFound DEF CoinEntries
<1>4. CASE mem.generator = "sweep"
  BY <1>4, SweepFound DEF CoinEntries
<1>5. CASE mem.generator = "zrev"
  BY <1>5, RevertFound DEF CoinEntries
<1>6. CASE mem.generator = "both"
  <2>1. CoinEntries(bars) = SweepReversals(bars) \cup RevertEntries(bars)
    BY <1>6 DEF CoinEntries
  <2>2. IsFiniteSet(SweepReversals(bars)) /\ IsFiniteSet(RevertEntries(bars))
    BY SweepFound, RevertFound DEF Found
  <2>3. IsFiniteSet(SweepReversals(bars) \cup RevertEntries(bars))
    BY <2>2, FS_Union
  <2>4. \A x \in CoinEntries(bars) : CoinAt(x, bars)
    BY <2>1, SweepFound, RevertFound DEF Found
  <2>5. QED
    BY <2>1, <2>3, <2>4 DEF Found
<1>7. CASE mem.generator = "zmr"
  BY <1>7, FadeFound DEF CoinEntries
<1>8. QED
  BY <1>1, <1>2, <1>3, <1>4, <1>5, <1>6, <1>7 DEF Generators

\* Every run of a generator sees all of the tape.
LEMMA CoinBegins == InitCoin => CoinInv
<1> SUFFICES ASSUME InitCoin PROVE CoinInv
  OBVIOUS
<1>1. PICK g \in Generators : \E regime \in Regimes[g] : StartStudy("crypto", [generator |-> g, regime |-> regime])
  BY DEF InitCoin
<1>2. PICK regime \in Regimes[g] : StartStudy("crypto", [generator |-> g, regime |-> regime])
  BY <1>1
<1> DEFINE memory == [generator |-> g, regime |-> regime]
<1>3. DOMAIN memory = {"generator", "regime"} /\ memory.generator = g /\ StartStudy("crypto", memory)
  BY <1>2
<1> HIDE DEF memory
<1>4. tape = <<>> /\ out = <<>> /\ {"generator", "regime"} \subseteq DOMAIN mem /\ mem.generator = g
  BY <1>3, Started
<1>5. tape \in Seq(Ohlc) /\ Range(out) = {}
  BY <1>4 DEF Range
<1>6. QED
  BY <1>4, <1>5 DEF CoinInv

\* A step of a generator keeps its invariant.
LEMMA CoinGoesOn == CoinInv /\ Generate => CoinInv'
<1> SUFFICES ASSUME CoinInv, Generate PROVE CoinInv'
  OBVIOUS
<1>1. tape' \in Seq(Ohlc)
  BY NextTape DEF CoinInv, Generate, PriceStudies
<1>2. mem' = mem /\ out' = SetToSeq(CoinEntries(tape'))
  BY DEF Generate
<1>3. Found(CoinEntries(tape'), tape')
  BY <1>1, CoinFound DEF CoinInv
<1>4. Range(out') = CoinEntries(tape')
  BY <1>2, <1>3, SeqOfSet DEF Found
<1>5. \A s \in Range(out') : CoinAt(s, tape')
  BY <1>3, <1>4 DEF Found
<1>6. QED
  BY <1>1, <1>2, <1>5 DEF CoinInv

-----------------------------------------------------------------------------
(***************************************************************************)
(* The breakouts.                                                          *)
(***************************************************************************)
\* The first bars of the higher time frame.
Fours(past, bars, n) == past \o [j \in 1..n |-> HigherBar(bars, j)]

\* A sequence of bars, and one that it begins.
Grown(bars, more) ==
    /\ bars \in Seq(Ohlc) /\ more \in Seq(Ohlc)
    /\ \A i \in DOMAIN bars : i \in DOMAIN more /\ more[i] = bars[i]

\* A signal that stops behind the close of the bar that broke out.
BrokeAt(s, w, unit) ==
    /\ s.entry - 1 \in DOMAIN w
    /\ s.side * s.sl < s.side * unit * w[s.entry - 1].c

\* The signals of the challenge, and those the port gave last.
BreakoutInv ==
    /\ tape \in Seq(Ohlc)
    /\ {"past", "ports"} \subseteq DOMAIN mem /\ mem.past \in Seq(Ohlc)
    /\ IsList(out) /\ IsList(mem.ports) /\ Len(mem.ports) > 0
    /\ \A i \in DOMAIN out : BrokeAt(out[i], CompletedBars(tape), Trend.atr)
    /\ \A s \in Last(mem.ports) : BrokeAt(s, CompletedBars(tape), Period.atr)

\* The lengths of the breakouts.
LEMMA TrendsAre ==
    /\ Trend.channel \in Nat \ {0} /\ Trend.atr \in Nat \ {0} /\ Trend.mult \in Nat \ {0}
    /\ Trend.slow \in Nat \ {0} /\ Period.atr \in Nat \ {0}
    /\ Period.atr <= Trend.slow + Trend.channel + 2
    /\ Trend.atr <= Trend.slow + Trend.channel + 2 /\ Trend.fast < Trend.slow /\ Trend.fast \in Nat
BY TrendIsPositive, PeriodsArePositive, RangeIsKnown

\* Two sequences, one after the other.
LEMMA JoinAt ==
    ASSUME NEW S, NEW p \in Seq(S), NEW q \in Seq(S)
    PROVE  /\ DOMAIN (p \o q) = 1..(Len(p) + Len(q))
           /\ \A i \in 1..(Len(p) + Len(q)) : (p \o q)[i] = IF i <= Len(p) THEN p[i] ELSE q[i - Len(p)]
BY ConcatProperties

\* The bars of the higher time frame that are over stay what they are.
LEMMA FoursStay ==
    ASSUME NEW past \in Seq(Ohlc), NEW bars, NEW more, Grown(bars, more),
           NEW n \in Nat, NEW m \in Nat, n <= m, 2 * n <= Len(bars), 2 * m <= Len(more)
    PROVE  Grown(Fours(past, bars, n), Fours(past, more, m))
<1>0. /\ bars \in Seq(Ohlc) /\ more \in Seq(Ohlc)
      /\ \A j \in DOMAIN bars : j \in DOMAIN more /\ more[j] = bars[j]
  BY DEF Grown
<1>1. /\ Len(bars) \in Nat /\ DOMAIN bars = 1..Len(bars) /\ Len(more) \in Nat /\ DOMAIN more = 1..Len(more)
      /\ Len(past) \in Nat /\ DOMAIN past = 1..Len(past)
  BY <1>0, TapeIs
<1>2. Fours(past, bars, n) \in Seq(Ohlc)
  <2>1. 2 * n - 1 <= Len(bars)
    BY <1>1
  <2>2. QED
    BY <1>0, <2>1, HigherAre DEF Fours
<1>3. Fours(past, more, m) \in Seq(Ohlc)
  <2>1. 2 * m - 1 <= Len(more)
    BY <1>1
  <2>2. QED
    BY <1>0, <2>1, HigherAre DEF Fours
<1>4. \A j \in 1..n : HigherBar(more, j) = HigherBar(bars, j) /\ HigherBar(bars, j) \in Ohlc
  <2> SUFFICES ASSUME NEW j \in 1..n PROVE HigherBar(more, j) = HigherBar(bars, j) /\ HigherBar(bars, j) \in Ohlc
    OBVIOUS
  <2> DEFINE both == {2 * j - 1, 2 * j}
  <2>1. both \subseteq DOMAIN bars /\ both \subseteq DOMAIN more /\ 2 * j - 1 \in both /\ 2 * j \in both
    BY <1>1
  <2>2. both \cap DOMAIN bars = both /\ both \cap DOMAIN more = both
    BY <2>1
  <2>3. \A i \in both : more[i] = bars[i]
    BY <1>0, <2>1
  <2>4. Max(both) \in both
    <3>1. 2 * j - 1 \in Int /\ 2 * j \in Int
      BY <1>1
    <3>2. QED
      BY <3>1, MaxOfTwo
  <2>5. HigherBar(bars, j) = [o |-> bars[2 * j - 1].o, h |-> Max({bars[i].h : i \in both}),
                              l |-> Min({bars[i].l : i \in both}), c |-> bars[Max(both)].c]
    BY <2>2 DEF HigherBar
  <2>6. HigherBar(more, j) = [o |-> more[2 * j - 1].o, h |-> Max({more[i].h : i \in both}),
                              l |-> Min({more[i].l : i \in both}), c |-> more[Max(both)].c]
    BY <2>2 DEF HigherBar
  <2> HIDE DEF both
  <2>7. {more[i].h : i \in both} = {bars[i].h : i \in both} /\ {more[i].l : i \in both} = {bars[i].l : i \in both}
    BY <2>3
  <2>8. more[2 * j - 1] = bars[2 * j - 1] /\ more[Max(both)] = bars[Max(both)]
    BY <2>1, <2>3, <2>4
  <2>9. HigherBar(more, j) = HigherBar(bars, j)
    BY <2>5, <2>6, <2>7, <2>8
  <2>10. j \in Nat /\ 2 * j - 1 \in DOMAIN bars
    BY <2>1
  <2>11. QED
    BY <1>0, <2>9, <2>10, HigherBarIs
<1> DEFINE q == [j \in 1..n |-> HigherBar(bars, j)]
           r == [j \in 1..m |-> HigherBar(more, j)]
<1>5. \A j \in 1..m : HigherBar(more, j) \in Ohlc
  <2> SUFFICES ASSUME NEW j \in 1..m PROVE HigherBar(more, j) \in Ohlc
    OBVIOUS
  <2>1. j \in Nat /\ 2 * j - 1 \in DOMAIN more
    BY <1>1
  <2>2. QED
    BY <1>0, <2>1, HigherBarIs
<1>6. /\ q \in [1..n -> Ohlc] /\ r \in [1..m -> Ohlc] /\ \A j \in 1..n : j \in 1..m /\ r[j] = q[j]
  BY <1>4, <1>5
<1>7. Fours(past, bars, n) = past \o q /\ Fours(past, more, m) = past \o r
  BY DEF Fours
<1> HIDE DEF q, r
<1>8. q \in Seq(Ohlc) /\ r \in Seq(Ohlc) /\ Len(q) = n /\ Len(r) = m
  BY <1>6
<1>9. /\ DOMAIN (past \o q) = 1..(Len(past) + n) /\ DOMAIN (past \o r) = 1..(Len(past) + m)
      /\ \A i \in 1..(Len(past) + n) : (past \o q)[i] = IF i <= Len(past) THEN past[i] ELSE q[i - Len(past)]
      /\ \A i \in 1..(Len(past) + m) : (past \o r)[i] = IF i <= Len(past) THEN past[i] ELSE r[i - Len(past)]
  BY ZenonT(30), <1>1, <1>8, JoinAt
<1>10. ASSUME NEW i \in DOMAIN (past \o q)
       PROVE  i \in DOMAIN (past \o r) /\ (past \o r)[i] = (past \o q)[i]
  <2>1. i \in 1..(Len(past) + n) /\ i \in 1..(Len(past) + m)
    BY <1>1, <1>9
  <2>2. CASE i <= Len(past)
    BY <1>9, <2>1, <2>2
  <2>3. CASE ~(i <= Len(past))
    <3>1. i - Len(past) \in 1..n
      BY <1>1, <2>1, <2>3
    <3>2. QED
      BY <1>6, <1>9, <2>1, <2>3, <3>1
  <2>4. QED
    BY <2>2, <2>3
<1>11. QED
  BY <1>2, <1>3, <1>7, <1>10 DEF Grown

\* What broke out before broke out of the bars that are over now.
LEMMA BreaksJoin ==
    ASSUME NEW q, NEW found, IsList(q), IsFiniteSet(found), NEW old, NEW new, Grown(old, new), NEW unit,
           \A i \in DOMAIN q : BrokeAt(q[i], old, unit),
           \A s \in found : BrokeAt(s, new, unit)
    PROVE  /\ IsList(q \o SetToSeq(found))
           /\ \A i \in DOMAIN (q \o SetToSeq(found)) : BrokeAt((q \o SetToSeq(found))[i], new, unit)
<1> DEFINE e == SetToSeq(found)
<1>1. e \in Seq(found)
  BY SeqOfSet
<1> HIDE DEF e
<1>2. IsList(e)
  BY <1>1 DEF IsList
<1>3. \A j \in DOMAIN e : BrokeAt(e[j], new, unit)
  BY <1>1
<1>4. \A i \in DOMAIN q : BrokeAt(q[i], new, unit)
  BY DEF BrokeAt, Grown
<1>5. /\ IsList(q \o e)
      /\ \A i \in DOMAIN (q \o e) :
            \/ i \in DOMAIN q /\ (q \o e)[i] = q[i]
            \/ \E j \in DOMAIN e : (q \o e)[i] = e[j]
  BY <1>2, ListsJoin
<1>6. IsList(q \o e) /\ \A i \in DOMAIN (q \o e) : BrokeAt((q \o e)[i], new, unit)
  BY <1>3, <1>4, <1>5
<1>7. QED
  BY <1>6 DEF e

\* The highest high of the bars before one is a price, and no lower than the last close.
LEMMA DonchianIs ==
    ASSUME NEW w \in Seq(Ohlc), NEW t \in DOMAIN w, t > Trend.channel, NEW side \in Sides
    PROVE  Donchian(w, t, side) \in Int /\ side * w[t - 1].c <= Donchian(w, t, side)
<1> DEFINE n == Trend.channel
           q == SubSeq(w, t - n, t - 1)
           F == FacingAll(q, side)
<1>1. n \in Nat \ {0} /\ Len(w) \in Nat /\ DOMAIN w = 1..Len(w) /\ t \in Nat /\ t > n /\ t - 1 \in DOMAIN w
  BY TapeIs, TrendsAre
<1> HIDE DEF n
<1>2. q \in Seq(Ohlc) /\ Len(q) = n /\ q[n] = w[t - 1]
  <2> DEFINE a == t - n
             b == t - 1
  <2>1. a \in 1..Len(w) /\ b \in 1..Len(w) /\ a <= b /\ b - a + 1 = n /\ a + n - 1 = b /\ n \in 1..n
    BY <1>1
  <2>2. q = SubSeq(w, a, b)
    OBVIOUS
  <2> HIDE DEF a, b, q
  <2>3. SubSeq(w, a, b) \in Seq(Ohlc) /\ Len(SubSeq(w, a, b)) = b - a + 1
        /\ \A i \in 1..(b - a + 1) : SubSeq(w, a, b)[i] = w[a + i - 1]
    BY <1>1, <2>1
  <2>4. QED
    BY <2>1, <2>2, <2>3 DEF b
<1> HIDE DEF q
<1>3. /\ F \in Seq(Ohlc) /\ Len(F) = n
      /\ \A i \in DOMAIN q : F[i] = Facing(q[i], side)
  BY <1>2, FacingAllAre
<1> HIDE DEF F
<1>4. n \in DOMAIN q /\ n \in DOMAIN F
  BY <1>1, <1>2, <1>3
<1>5. F[n] = Facing(w[t - 1], side)
  BY <1>2, <1>3, <1>4
<1>6. side * w[t - 1].c <= F[n].h /\ side * w[t - 1].c \in Int /\ F[n].h \in Int
  <2>1. w[t - 1] \in Ohlc
    BY <1>1
  <2>2. Facing(w[t - 1], side) \in Ohlc /\ side * w[t - 1].c <= Facing(w[t - 1], side).h /\ side * w[t - 1].c \in Int
    BY <2>1, FacingIsBar
  <2>3. QED
    BY <1>5, <2>2 DEF Ohlc
<1>7. IsFiniteSet(DOMAIN F) /\ DOMAIN F # {} /\ \A j \in DOMAIN F : F[j] \in Ohlc
  BY <1>3, <1>4, TapeIs
<1>8. Max({F[j].h : j \in DOMAIN F}) \in Int /\ F[n].h <= Max({F[j].h : j \in DOMAIN F})
  BY <1>4, <1>7, Extremes
<1>9. Donchian(w, t, side) = Max({F[j].h : j \in DOMAIN F})
  BY DEF Donchian, Highs, F, q, n
<1>10. QED
  BY <1>6, <1>8, <1>9

\* The average range of a bar that broke out.
LEMMA AverageRangeIs ==
    ASSUME NEW w \in Seq(Ohlc), NEW t \in DOMAIN w, NEW n \in Nat \ {0}, t >= n
    PROVE  AverageRange(w, t, n) \in Int /\ AverageRange(w, t, n) >= TrueRange(w, t) /\ TrueRange(w, t) \in Int
<1>1. Trailing(t, n) \in SUBSET (DOMAIN w)
  BY TrailingIs
<1>2. t \in Trailing(t, n)
  BY BarIs DEF Trailing
<1>3. TrueRange(w, t) \in Int
  BY TrueRangeIs
<1>4. QED
  BY <1>1, <1>2, <1>3, RangesSum DEF AverageRange

\* A bar that closes outside the channel has a range: the stop has a distance.
LEMMA BreakHasRange ==
    ASSUME NEW w \in Seq(Ohlc), NEW t \in DOMAIN w, t > Trend.channel, NEW side \in Sides,
           side * w[t].c > Donchian(w, t, side)
    PROVE  TrueRange(w, t) > 0
<1> DEFINE c == w[t].c
           h == w[t].h
           l == w[t].l
           p == w[t - 1].c
<1>1. t \in Nat /\ t # 1 /\ t - 1 \in DOMAIN w
  BY TapeIs, TrendsAre
<1>2. w[t] \in Ohlc /\ w[t - 1] \in Ohlc
  BY <1>1, TapeIs
<1>3. c \in Int /\ h \in Int /\ l \in Int /\ p \in Int /\ l <= c /\ c <= h
  BY <1>2 DEF Ohlc
<1>4. TrueRange(w, t) \in Int /\ TrueRange(w, t) >= h - p /\ TrueRange(w, t) >= p - l
  BY <1>1, TrueRangeIs
<1>5. Donchian(w, t, side) \in Int /\ side * p <= Donchian(w, t, side)
  BY DonchianIs
<1>6. side * c > Donchian(w, t, side)
  OBVIOUS
<1> HIDE DEF c, h, l, p
<1>7. side * c > side * p
  <2>1. side * c \in Int /\ side * p \in Int
    BY <1>3 DEF Sides
  <2>2. QED
    BY <1>5, <1>6, <2>1
<1>8. CASE side = 1
  BY <1>3, <1>4, <1>7, <1>8
<1>9. CASE side = -1
  BY <1>3, <1>4, <1>7, <1>9
<1>10. QED
  BY <1>8, <1>9 DEF Sides

\* A stop so much behind a close.
LEMMA StopBehind ==
    ASSUME NEW side \in Sides, NEW unit \in Int, NEW c \in Int, NEW risk \in Int, risk > 0
    PROVE  side * (unit * c - side * risk) < side * unit * c
<1> DEFINE x == unit * c
<1>1. x \in Int /\ side * unit * c = side * x
  BY DEF Sides
<1> HIDE DEF x
<1>2. side * (x - side * risk) < side * x
  BY <1>1, RangesOff
<1>3. QED
  BY <1>1, <1>2 DEF x

\* A breakout of the last bar.
LEMMA TriggerFair ==
    ASSUME NEW w \in Seq(Ohlc)
    PROVE  /\ IsFiniteSet(SignalAtLastBar(w))
           /\ \A s \in SignalAtLastBar(w) : BrokeAt(s, w, Trend.atr)
<1> DEFINE t == Len(w)
           risk == Trend.mult * AverageRange(w, t, Trend.atr)
           f == [side \in Sides |-> [side |-> side, entry |-> t + 1, sl |-> Trend.atr * w[t].c - side * risk]]
<1>1. CASE t < 2
  <2>1. SignalAtLastBar(w) = {}
    BY <1>1 DEF SignalAtLastBar
  <2>2. QED
    BY <2>1, FS_EmptySet
<1>2. CASE ~(t < 2)
  <2>1. t \in DOMAIN w /\ t \in Nat
    BY <1>2, TapeIs
  <2>2. ASSUME NEW s \in SignalAtLastBar(w)
        PROVE  \E side \in Sides : /\ s = [side |-> side, entry |-> t + 1, sl |-> Trend.atr * w[t].c - side * risk]
                                   /\ t > Trend.channel /\ t >= Trend.atr /\ side * w[t].c > Donchian(w, t, side)
    BY <1>2 DEF SignalAtLastBar, SignalForTrigger
  <2>3. ASSUME NEW s \in SignalAtLastBar(w) PROVE BrokeAt(s, w, Trend.atr)
    <3>1. PICK side \in Sides : /\ s = [side |-> side, entry |-> t + 1, sl |-> Trend.atr * w[t].c - side * risk]
                                /\ t > Trend.channel /\ t >= Trend.atr /\ side * w[t].c > Donchian(w, t, side)
      BY <2>2
    <3>2. s.side = side /\ s.entry = t + 1 /\ s.sl = Trend.atr * w[t].c - side * risk
      BY <3>1
    <3>3. TrueRange(w, t) > 0
      BY <2>1, <3>1, BreakHasRange
    <3>4. AverageRange(w, t, Trend.atr) \in Int /\ AverageRange(w, t, Trend.atr) > 0
      <4> DEFINE n == Trend.atr
      <4>1. n \in Nat \ {0}
        BY TrendsAre
      <4>2. t >= n
        BY <3>1
      <4> HIDE DEF n, t
      <4>3. AverageRange(w, t, n) \in Int /\ AverageRange(w, t, n) > 0
        BY <2>1, <3>3, <4>1, <4>2, AverageRangeIs
      <4>4. QED
        BY <4>3 DEF n
    <3>5. risk \in Int /\ risk > 0
      <4> DEFINE a == AverageRange(w, t, Trend.atr)
      <4> HIDE DEF a
      <4>1. a \in Int /\ a > 0 /\ Trend.mult \in Nat \ {0}
        BY <3>4, TrendsAre DEF a
      <4>2. Trend.mult * a \in Int /\ Trend.mult * a > 0
        BY ONLY <4>1
      <4>3. QED
        BY <4>2 DEF a
    <3>6. w[t].c \in Int
      BY <2>1, BarIs
    <3> HIDE DEF t, risk
    <3>7. side * (Trend.atr * w[t].c - side * risk) < side * Trend.atr * w[t].c
      BY <3>5, <3>6, TrendsAre, StopBehind
    <3>8. s.entry - 1 = t
      BY <2>1, <3>2
    <3>9. QED
      BY <2>1, <3>2, <3>7, <3>8 DEF BrokeAt
  <2>4. SignalAtLastBar(w) \subseteq {f[side] : side \in Sides}
    BY <2>2
  <2> HIDE DEF f
  <2>5. IsFiniteSet({f[side] : side \in Sides})
    BY SidesAreFinite, ImageIsFinite
  <2>6. IsFiniteSet(SignalAtLastBar(w))
    BY <2>4, <2>5, FS_Subset
  <2>7. QED
    BY <2>3, <2>6
<1>3. QED
  BY <1>1, <1>2

\* The port's, on the bars that it does not drop.
LEMMA PortFair ==
    ASSUME NEW bars, ResampleH4(bars) \in Seq(Ohlc)
    PROVE  \A s \in PortSignal(bars) : BrokeAt(s, ResampleH4(bars), Period.atr)
<1> SUFFICES ASSUME NEW s \in PortSignal(bars) PROVE BrokeAt(s, ResampleH4(bars), Period.atr)
  OBVIOUS
<1> DEFINE w == ResampleH4(bars)
           t == Len(w)
           risk == Trend.mult * AverageRange(w, t, Period.atr)
<1>1. /\ ~(t < Trend.slow + Trend.channel + 2)
      /\ \E side \in Sides : /\ s = [side |-> side, entry |-> t + 1, sl |-> Period.atr * w[t].c - side * risk]
                             /\ risk > 0
  BY DEF PortSignal
<1>2. PICK side \in Sides : s = [side |-> side, entry |-> t + 1, sl |-> Period.atr * w[t].c - side * risk] /\ risk > 0
  BY <1>1
<1>3. s.side = side /\ s.entry = t + 1 /\ s.sl = Period.atr * w[t].c - side * risk
  BY <1>2
<1> HIDE DEF w
<1>4. w \in Seq(Ohlc)
  BY DEF w
<1>5. t \in DOMAIN w /\ t \in Nat /\ t >= Period.atr
  BY <1>1, <1>4, TapeIs, TrendsAre
<1>6. AverageRange(w, t, Period.atr) \in Int
  BY <1>4, <1>5, AverageRangeIs, TrendsAre
<1>7. risk \in Int
  BY <1>6, TrendsAre
<1>8. w[t].c \in Int
  BY <1>4, <1>5, BarIs
<1> HIDE DEF t, risk
<1>9. side * (Period.atr * w[t].c - side * risk) < side * Period.atr * w[t].c
  BY <1>2, <1>7, <1>8, TrendsAre, StopBehind
<1>10. s.entry - 1 = t
  BY <1>3, <1>5
<1>11. BrokeAt(s, w, Period.atr)
  BY <1>3, <1>5, <1>9, <1>10 DEF BrokeAt
<1>12. QED
  BY <1>11 DEF w

\* The invariant of the breakout holds at the start.
LEMMA BreakoutBegins == InitBreakout => BreakoutInv
<1> SUFFICES ASSUME InitBreakout PROVE BreakoutInv
  OBVIOUS
<1> DEFINE memory == [ports |-> <<{}>>]
<1>1. DOMAIN memory = {"ports"} /\ memory.ports = <<{}>> /\ StartStudy("breakout", memory)
  BY DEF InitBreakout
<1> HIDE DEF memory
<1>2. tape = <<>> /\ out = <<>> /\ {"past", "ports"} \subseteq DOMAIN mem /\ mem.ports = <<{}>>
      /\ mem.past \in Pasts["breakout"]
  BY <1>1, Started
<1>3. mem.past \in Seq(Ohlc)
  BY <1>2, DataAreBars DEF HigherStudies
<1>4. IsList(<<>>) /\ IsList(<<{}>>) /\ Len(<<{}>>) > 0 /\ Last(<<{}>>) = {}
  <2>1. <<>> \in Seq({}) /\ <<{}>> \in Seq({{}}) /\ Len(<<{}>>) > 0 /\ Last(<<{}>>) = {}
    BY DEF Last
  <2>2. QED
    BY <2>1 DEF IsList
<1>5. tape \in Seq(Ohlc) /\ DOMAIN out = {}
  BY <1>2
<1>6. QED
  BY <1>2, <1>3, <1>4, <1>5 DEF BreakoutInv

\* A step of the breakout keeps it.
LEMMA BreakoutGoesOn == BreakoutInv /\ Breakout => BreakoutInv'
<1> SUFFICES ASSUME BreakoutInv, Breakout PROVE BreakoutInv'
  OBVIOUS
<1>1. /\ tape' \in Seq(Ohlc) /\ tape \in Seq(Ohlc) /\ mem.past \in Seq(Ohlc)
      /\ DOMAIN tape' = 1..(Len(tape) + 1) /\ DOMAIN tape = 1..Len(tape) /\ Len(tape) \in Nat
      /\ Len(tape') = Len(tape) + 1
      /\ \A j \in DOMAIN tape : j \in DOMAIN tape' /\ tape'[j] = tape[j]
  BY NextTape DEF BreakoutInv, Breakout, PriceStudies
<1> DEFINE found == IF Len(tape') % 2 = 0 THEN SignalAtLastBar(CompletedBars(tape')) ELSE {}
           port == PortSignal(tape')
           old == Fours(mem.past, tape, Len(tape) \div 2)
           new == Fours(mem.past, tape', Len(tape') \div 2)
           shown == Fours(mem.past, tape', (Len(tape') - 1) \div 2)
<1>2. out' = out \o SetToSeq(found) /\ mem' = [mem EXCEPT !.ports = Append(@, port)]
  BY DEF Breakout
<1>3. CompletedBars(tape) = old /\ CompletedBars(tape') = new /\ ResampleH4(tape') = shown
  <2>1. Len(tape) + 1 - 1 = Len(tape) /\ Len(tape') + 1 - 1 = Len(tape')
    BY <1>1
  <2>2. QED
    BY <2>1 DEF CompletedBars, ResampleH4, HigherClosed, Fours
<1>4. mem'.past = mem.past /\ {"past", "ports"} \subseteq DOMAIN mem' /\ mem'.ports = Append(mem.ports, port)
  <2> HIDE DEF port
  <2>1. QED
    BY <1>2 DEF BreakoutInv
<1>5. (CompletedBars(tape))' = new
  <2>1. Len(tape') + 1 - 1 = Len(tape')
    BY <1>1
  <2>2. QED
    BY <1>4, <2>1 DEF CompletedBars, HigherClosed, Fours
<1>6. Grown(old, new)
  <2> DEFINE n == Len(tape) \div 2
             m == Len(tape') \div 2
  <2>1. n \in Nat /\ m \in Nat /\ n <= m /\ 2 * n <= Len(tape) /\ 2 * m <= Len(tape')
    BY <1>1
  <2>2. Grown(tape, tape')
    BY <1>1 DEF Grown
  <2> HIDE DEF n, m
  <2>3. Grown(Fours(mem.past, tape, n), Fours(mem.past, tape', m))
    BY <1>1, <2>1, <2>2, FoursStay
  <2>4. QED
    BY <2>3 DEF n, m
<1>7. Grown(shown, new)
  <2> DEFINE n == (Len(tape') - 1) \div 2
             m == Len(tape') \div 2
  <2>1. n \in Nat /\ m \in Nat /\ n <= m /\ 2 * n <= Len(tape') /\ 2 * m <= Len(tape')
    BY <1>1
  <2>2. Grown(tape', tape')
    BY <1>1 DEF Grown
  <2> HIDE DEF n, m
  <2>3. Grown(Fours(mem.past, tape', n), Fours(mem.past, tape', m))
    BY <1>1, <2>1, <2>2, FoursStay
  <2>4. QED
    BY <2>3 DEF n, m
<1>8. IsFiniteSet(found) /\ \A s \in found : BrokeAt(s, new, Trend.atr)
  <2>1. CASE Len(tape') % 2 = 0
    <3>1. found = SignalAtLastBar(new)
      BY <1>3, <2>1
    <3> HIDE DEF new
    <3>2. QED
      BY <1>6, <3>1, TriggerFair DEF Grown
  <2>2. CASE Len(tape') % 2 # 0
    <3>1. found = {}
      BY <2>2
    <3>2. QED
      BY <3>1, FS_EmptySet
  <2>3. QED
    BY <2>1, <2>2
<1>9. \A s \in port : BrokeAt(s, shown, Period.atr)
  <2>1. \A s \in PortSignal(tape') : BrokeAt(s, ResampleH4(tape'), Period.atr)
    BY <1>3, <1>7, PortFair DEF Grown
  <2>2. QED
    BY <1>3, <2>1
<1>10. \A i \in DOMAIN out : BrokeAt(out[i], old, Trend.atr)
  BY <1>3 DEF BreakoutInv
<1> HIDE DEF found, port, old, new, shown
<1>11. IsList(out') /\ \A i \in DOMAIN out' : BrokeAt(out'[i], new, Trend.atr)
  <2>1. IsList(out)
    BY DEF BreakoutInv
  <2>2. QED
    BY <1>2, <1>6, <1>8, <1>10, <2>1, BreaksJoin
<1>12. IsList(mem'.ports) /\ Len(mem'.ports) > 0 /\ Last(mem'.ports) = port
  <2> DEFINE q == mem.ports
  <2>1. PICK S : q \in Seq(S)
    BY DEF BreakoutInv, IsList
  <2>2. q \in Seq(S \cup {port}) /\ port \in S \cup {port}
    BY <2>1, SeqMonotonic
  <2> HIDE DEF q
  <2>3. Append(q, port) \in Seq(S \cup {port}) /\ Len(Append(q, port)) = Len(q) + 1 /\ Len(q) \in Nat
        /\ Append(q, port)[Len(q) + 1] = port
    BY <2>2
  <2>4. Last(Append(q, port)) = port
    BY <2>3 DEF Last
  <2>5. mem'.ports = Append(q, port)
    BY <1>4 DEF q
  <2>6. QED
    BY <2>3, <2>4, <2>5 DEF IsList
<1>13. \A s \in Last(mem'.ports) : BrokeAt(s, new, Period.atr)
  BY <1>7, <1>9, <1>12 DEF BrokeAt, Grown
<1>14. QED
  BY <1>1, <1>4, <1>5, <1>11, <1>12, <1>13 DEF BreakoutInv

-----------------------------------------------------------------------------
(***************************************************************************)
(* All of them.                                                            *)
(***************************************************************************)
\* What each study keeps.
FairInv ==
    /\ study = "inverse" => InverseInv
    /\ study = "sweep" => SweepInv
    /\ study = "ote" => OteInv
    /\ study = "breaker" => BreakerInv
    /\ study = "news" => NewsInv
    /\ study = "asia" => AsiaInv
    /\ study = "sigma" => SigmaInv
    /\ study = "crypto" => CoinInv
    /\ study = "breakout" => BreakoutInv
    /\ study \in ReplayStudies => ReplayInv

\* The invariant of all studies holds at the start.
LEMMA FairBegins == InitLab => FairInv
<1> SUFFICES ASSUME InitLab PROVE FairInv
  OBVIOUS
<1>1. Begin
  BY EachBegins
<1>2. /\ study = "inverse" => InverseInv
      /\ study = "sweep" => SweepInv
      /\ study = "ote" => OteInv
  BY <1>1, InverseBegins, SweepBegins, OteBegins DEF Begin
<1>3. /\ study = "breaker" => BreakerInv
      /\ study = "news" => NewsInv
      /\ study = "asia" => AsiaInv
      /\ study = "sigma" => SigmaInv
  BY <1>1, BreakerBegins, NewsBegins, AsiaBegins, SigmaBegins DEF Begin
<1>4. /\ study = "crypto" => CoinInv
      /\ study = "breakout" => BreakoutInv
      /\ study \in ReplayStudies => ReplayInv
  BY <1>1, CoinBegins, BreakoutBegins, ReplayBegins DEF Begin
<1>5. QED
  BY <1>2, <1>3, <1>4 DEF FairInv

\* A step of any study keeps the invariant of all studies.
LEMMA FairGoesOn == FairInv /\ NextLab => FairInv'
<1> SUFFICES ASSUME FairInv, NextLab PROVE FairInv'
  OBVIOUS
<1>1. GoOn
  BY EachGoesOn
<1>2. study' = study
  BY <1>1 DEF GoOn
<1>3. /\ study = "inverse" => InverseInv'
      /\ study = "sweep" => SweepInv'
      /\ study = "ote" => OteInv'
  BY <1>1, InverseGoesOn, SweepGoesOn, OteGoesOn DEF GoOn, FairInv
<1>4. /\ study = "breaker" => BreakerInv'
      /\ study = "news" => NewsInv'
      /\ study = "asia" => AsiaInv'
      /\ study = "sigma" => SigmaInv'
  BY <1>1, BreakerGoesOn, NewsGoesOn, AsiaGoesOn, SigmaGoesOn DEF GoOn, FairInv
<1>5. /\ study = "crypto" => CoinInv'
      /\ study = "breakout" => BreakoutInv'
      /\ study \in ReplayStudies => ReplayInv'
  BY <1>1, CoinGoesOn, BreakoutGoesOn, ReplayGoesOn DEF GoOn, FairInv
<1>6. QED
  BY <1>2, <1>3, <1>4, <1>5 DEF FairInv

\* The invariant of all studies reads nothing but the variables.
LEMMA FairRests == FairInv /\ UNCHANGED vars => FairInv'
<1> SUFFICES ASSUME FairInv, UNCHANGED vars PROVE FairInv'
  OBVIOUS
<1>1. study' = study /\ tape' = tape /\ mem' = mem /\ out' = out
  BY DEF vars
<1>2. /\ InverseInv' <=> InverseInv
      /\ SweepInv' <=> SweepInv
      /\ OteInv' <=> OteInv
  BY <1>1 DEF InverseInv, SweepInv, OteInv
<1>3. /\ BreakerInv' <=> BreakerInv
      /\ NewsInv' <=> NewsInv
      /\ AsiaInv' <=> AsiaInv
      /\ SigmaInv' <=> SigmaInv
  BY <1>1 DEF BreakerInv, NewsInv, AsiaInv, SigmaInv
<1>4. (CompletedBars(tape))' = CompletedBars(tape)
  BY <1>1 DEF CompletedBars, HigherClosed
<1>5. /\ CoinInv' <=> CoinInv
      /\ BreakoutInv' <=> BreakoutInv
      /\ ReplayInv' <=> ReplayInv
  BY <1>1, <1>4 DEF CoinInv, BreakoutInv, ReplayInv
<1>6. QED
  BY <1>1, <1>2, <1>3, <1>5 DEF FairInv

\* The signals of a detector.
LEMMA DetectorFair ==
    ASSUME NEW name, study = name, FairList(out, name, tape)
    PROVE  DetectorsAreFair
<1> SUFFICES ASSUME NEW i \in DOMAIN out
             PROVE  /\ out[i].side * out[i].sl < out[i].side * Unit(out[i]) * tape[out[i].entry].o
                    /\ out[i].side * Unit(out[i]) * tape[out[i].entry].o < out[i].side * out[i].tp
  BY DEF DetectorsAreFair
<1>1. FairAt(out[i], name, tape)
  BY DEF FairList
<1>2. Unit(out[i]) = UnitIn(out[i], name)
  BY DEF Unit, UnitIn
<1>3. QED
  BY <1>1, <1>2 DEF FairAt

\* The invariant says that no signal is unfair.
LEMMA InvFair == FairInv => SignalsAreFair
<1> SUFFICES ASSUME FairInv PROVE SignalsAreFair
  OBVIOUS
<1>1. DetectorsAreFair
  <2>1. CASE study \notin DetectorStudies
    BY <2>1 DEF DetectorsAreFair
  <2>2. CASE study \in DetectorStudies
    <3>1. FairList(out, study, tape)
      BY <2>2 DEF DetectorStudies, FairInv, InverseInv, SweepInv, OteInv, BreakerInv, NewsInv, AsiaInv, SigmaInv
    <3>2. QED
      BY <3>1, DetectorFair
  <2>3. QED
    BY <2>1, <2>2
<1>2. FairReplays
  <2>1. study \in ReplayStudies \ {"var2"} => TradeList(out)
    BY DEF FairInv, ReplayInv
  <2>2. QED
    BY <2>1 DEF FairReplays, TradeList, TradeIsFair
<1>3. CoinIsFair
  BY DEF FairInv, CoinInv, CoinIsFair, CoinAt
<1>4. BreakoutIsFair
  <2>1. ASSUME study = "breakout" PROVE BreakoutIsFair
    <3>1. \A i \in DOMAIN out : BrokeAt(out[i], CompletedBars(tape), Trend.atr)
      BY <2>1 DEF FairInv, BreakoutInv
    <3>2. \A s \in Last(mem.ports) : BrokeAt(s, CompletedBars(tape), Period.atr)
      BY <2>1 DEF FairInv, BreakoutInv
    <3>3. \A s \in Range(out) : BrokeAt(s, CompletedBars(tape), Trend.atr)
      BY <3>1 DEF Range
    <3>4. QED
      BY <3>2, <3>3 DEF BreakoutIsFair, BrokeAt
  <2>2. QED
    BY <2>1 DEF BreakoutIsFair
<1>5. QED
  BY <1>1, <1>2, <1>3, <1>4 DEF SignalsAreFair

\* No detector, no replay but VAR2 and no generator gives a signal whose stop or
\* target is on the wrong side of the price it is measured from, and no breakout one
\* whose stop is: for any bars, averages, windows, buffers and events.
THEOREM NoSignalIsUnfair == SpecLab => []SignalsAreFair
<1>1. InitLab => FairInv
  BY FairBegins
<1>2. FairInv /\ [NextLab]_vars => FairInv'
  BY FairGoesOn, FairRests
<1>3. FairInv => SignalsAreFair
  BY InvFair
<1>4. QED
  BY <1>1, <1>2, <1>3, PTL DEF SpecLab

-----------------------------------------------------------------------------
(***************************************************************************)
(* The breakouts are causal.                                               *)
(***************************************************************************)
\* The breakouts of the bars of four hours after the past.
Broken4(w, past) == UNION {SignalForTrigger(w, t) : t \in {u \in 2..Len(w) : u > Len(past)}}

\* What the challenge has answered is what those bars say, in their order; and
\* the port has answered last for the tape that there is.
CausalInv ==
    /\ BreakoutInv
    /\ Range(out) = Broken4(CompletedBars(tape), mem.past)
    /\ \A i, j \in DOMAIN out : i < j => out[i].entry < out[j].entry
    /\ Len(tape) > 0 => Last(mem.ports) = PortSignal(tape)

\* Of two that are as long as each other one does not begin the other without being it.
LEMMA GrownAlike ==
    ASSUME NEW bars, NEW more, Grown(bars, more), Len(more) = Len(bars)
    PROVE  more = bars
<1>1. /\ bars \in Seq(Ohlc) /\ more \in Seq(Ohlc) /\ \A i \in 1..Len(more) : more[i] = bars[i]
  BY TapeIs DEF Grown
<1>2. QED
  BY <1>1, SeqEqual

\* The average of closes that are the same.
LEMMA EmaAgrees ==
    ASSUME NEW bars, NEW more, Grown(bars, more), NEW i \in DOMAIN bars, NEW span
    PROVE  EmaTimes(more, span, i) = EmaTimes(bars, span, i)
<1>1. \A j \in 1..i : more[j] = bars[j]
  <2>1. DOMAIN bars = 1..Len(bars) /\ Len(bars) \in Nat
    BY TapeIs DEF Grown
  <2>2. QED
    BY <2>1 DEF Grown
<1>2. [j \in 1..i |-> more[j].c] = [j \in 1..i |-> bars[j].c]
  BY <1>1
<1>3. QED
  BY <1>2 DEF EmaTimes

\* The range of a bar that is there.
LEMMA RangeStays ==
    ASSUME NEW bars, NEW more, Grown(bars, more), NEW i \in DOMAIN bars
    PROVE  TrueRange(more, i) = TrueRange(bars, i)
<1>1. more[i] = bars[i] /\ i \in Nat \ {0} /\ DOMAIN bars = 1..Len(bars) /\ Len(bars) \in Nat
  BY TapeIs DEF Grown
<1>2. CASE i = 1
  BY <1>1, <1>2 DEF TrueRange
<1>3. CASE i # 1
  <2>1. i - 1 \in DOMAIN bars
    BY <1>1, <1>3
  <2>2. more[i - 1] = bars[i - 1]
    BY <2>1 DEF Grown
  <2>3. QED
    BY <1>1, <1>3, <2>2 DEF TrueRange
<1>4. QED
  BY <1>2, <1>3

\* The last bars up to one that is there, and their ranges.
LEMMA TrailStays ==
    ASSUME NEW bars, NEW more, Grown(bars, more), NEW i \in DOMAIN bars, NEW n \in Nat \ {0}, i >= n
    PROVE  /\ \A j \in Trailing(i, n) : j \in DOMAIN bars /\ more[j] = bars[j]
           /\ \A j \in Trailing(i, n) : TrueRange(more, j) = TrueRange(bars, j)
<1>1. \A j \in Trailing(i, n) : j \in DOMAIN bars
  BY TrailingIs DEF Grown
<1>2. QED
  BY <1>1, RangeStays DEF Grown

\* Their average.
LEMMA AverageStays ==
    ASSUME NEW bars, NEW more, Grown(bars, more), NEW i \in DOMAIN bars, NEW n \in Nat \ {0}, i >= n
    PROVE  AverageRange(more, i, n) = AverageRange(bars, i, n)
<1>1. [j \in Trailing(i, n) |-> TrueRange(more, j)] = [j \in Trailing(i, n) |-> TrueRange(bars, j)]
  BY TrailStays
<1>2. QED
  BY <1>1 DEF AverageRange, SumOver

\* A part of two sequences that agree on it.
LEMMA PartsAgree ==
    ASSUME NEW S, NEW a, NEW b, NEW m \in Int, NEW n \in Int, \A i \in m..n : a[i] \in S /\ b[i] = a[i]
    PROVE  SubSeq(a, m, n) = SubSeq(b, m, n)
<1> DEFINE x == SubSeq(a, m, n)
           y == SubSeq(b, m, n)
<1>1. /\ x \in Seq(S) /\ Len(x) = (IF m <= n THEN n - m + 1 ELSE 0)
      /\ \A i \in 1..(n - m + 1) : x[i] = a[m + i - 1]
  BY SubSeqProperties
<1>2. /\ y \in Seq(S) /\ Len(y) = (IF m <= n THEN n - m + 1 ELSE 0)
      /\ \A i \in 1..(n - m + 1) : y[i] = b[m + i - 1]
  <2>1. \A i \in m..n : b[i] \in S
    OBVIOUS
  <2>2. QED
    BY <2>1, SubSeqProperties
<1>3. \A i \in 1..(n - m + 1) : m + i - 1 \in m..n
  OBVIOUS
<1> HIDE DEF x, y
<1>4. \A i \in 1..Len(x) : x[i] = y[i]
  BY <1>1, <1>2, <1>3
<1>5. x = y
  BY <1>1, <1>2, <1>4, SeqEqual
<1>6. QED
  BY <1>5 DEF x, y

\* The channel before a bar that is there.
LEMMA DonchianStays ==
    ASSUME NEW bars, NEW more, Grown(bars, more), NEW t \in DOMAIN bars, t > Trend.channel, NEW side
    PROVE  Donchian(more, t, side) = Donchian(bars, t, side)
<1> DEFINE a == t - Trend.channel
           b == t - 1
<1>1. DOMAIN bars = 1..Len(bars) /\ Len(bars) \in Nat /\ \A i \in DOMAIN bars : bars[i] \in Ohlc
  BY TapeIs DEF Grown
<1>2. a \in Int /\ b \in Int /\ \A i \in a..b : i \in DOMAIN bars
  BY <1>1, TrendsAre
<1>3. \A i \in a..b : bars[i] \in Ohlc /\ more[i] = bars[i]
  BY <1>1, <1>2 DEF Grown
<1> HIDE DEF a, b
<1>4. SubSeq(bars, a, b) = SubSeq(more, a, b)
  BY <1>2, <1>3, PartsAgree
<1>5. QED
  BY <1>4 DEF Donchian, a, b

\* A bar that is there breaks out as it did.
LEMMA TriggerStays ==
    ASSUME NEW bars, NEW more, Grown(bars, more), NEW t \in DOMAIN bars, t >= 2
    PROVE  SignalForTrigger(more, t) = SignalForTrigger(bars, t)
<1> DEFINE known == t > Trend.channel /\ t >= Trend.atr /\ t > Max({Trend.fast, Trend.slow})
           Ready(w) == {s \in Sides : known /\ s * w[t].c > Donchian(w, t, s) /\ s * Bias(w, t - 1) > 0}
           F(w, side) == [side |-> side, entry |-> t + 1,
                          sl |-> Trend.atr * w[t].c - side * (Trend.mult * AverageRange(w, t, Trend.atr))]
<1>1. /\ SignalForTrigger(more, t) = {F(more, side) : side \in Ready(more)}
      /\ SignalForTrigger(bars, t) = {F(bars, side) : side \in Ready(bars)}
  BY DEF SignalForTrigger
<1>2. t \in Nat /\ DOMAIN bars = 1..Len(bars) /\ Len(bars) \in Nat /\ more[t] = bars[t]
  BY TapeIs DEF Grown
<1>3. Bias(more, t - 1) = Bias(bars, t - 1)
  <2>1. t - 1 \in DOMAIN bars
    BY <1>2
  <2>2. QED
    BY <2>1, EmaAgrees DEF Bias
<1>4. CASE known
  <2>1. t > Trend.channel /\ t >= Trend.atr
    BY <1>4
  <2>2. AverageRange(more, t, Trend.atr) = AverageRange(bars, t, Trend.atr)
    BY <2>1, AverageStays, TrendsAre
  <2>3. \A side : Donchian(more, t, side) = Donchian(bars, t, side)
    BY <2>1, DonchianStays
  <2>4. \A side : F(more, side) = F(bars, side)
    BY <1>2, <2>2
  <2>5. Ready(more) = Ready(bars)
    BY <1>2, <1>3, <2>3
  <2> HIDE DEF F, Ready
  <2>6. QED
    BY <1>1, <2>4, <2>5
<1>5. CASE ~known
  <2>1. Ready(more) = {} /\ Ready(bars) = {}
    BY <1>5
  <2> HIDE DEF F, Ready
  <2>2. QED
    BY <1>1, <2>1
<1>6. QED
  BY <1>4, <1>5

\* One bar breaks out on one side at most, for an entry on the next.
LEMMA TriggerIsOne ==
    ASSUME NEW w \in Seq(Ohlc), NEW t \in DOMAIN w
    PROVE  /\ IsFiniteSet(SignalForTrigger(w, t))
           /\ \A s \in SignalForTrigger(w, t) : s.entry = t + 1
           /\ \A s, u \in SignalForTrigger(w, t) : s = u
<1> DEFINE f == [side \in Sides |-> [side |-> side, entry |-> t + 1,
                     sl |-> Trend.atr * w[t].c - side * (Trend.mult * AverageRange(w, t, Trend.atr))]]
           Out(side) == t > Trend.channel /\ side * w[t].c > Donchian(w, t, side)
<1>1. /\ \A s \in SignalForTrigger(w, t) : \E side \in Sides : s = f[side] /\ Out(side)
      /\ \A side \in Sides : f[side].entry = t + 1
  BY DEF SignalForTrigger
<1>2. ~(Out(1) /\ Out(-1))
  <2>1. SUFFICES ASSUME Out(1), Out(-1) PROVE FALSE
    OBVIOUS
  <2>2. 1 \in Sides /\ -1 \in Sides
    BY DEF Sides
  <2>3. t > Trend.channel /\ t - 1 \in DOMAIN w /\ t \in Nat
    BY <2>1, TapeIs, TrendsAre
  <2> DEFINE up == Donchian(w, t, 1)
             down == Donchian(w, t, -1)
             c == w[t].c
             p == w[t - 1].c
  <2>4. /\ up \in Int /\ 1 * p <= up /\ down \in Int /\ (-1) * p <= down
        /\ 1 * c > up /\ (-1) * c > down
    BY <2>1, <2>2, <2>3, DonchianIs
  <2>5. c \in Int /\ p \in Int
    BY <2>3, BarIs
  <2> HIDE DEF up, down, c, p
  <2>6. QED
    BY ONLY <2>4, <2>5
<1> HIDE DEF f, Out
<1>3. \A side, other \in Sides : Out(side) /\ Out(other) => side = other
  BY <1>2 DEF Sides
<1>4. SignalForTrigger(w, t) \subseteq {f[side] : side \in Sides}
  BY <1>1
<1>5. IsFiniteSet({f[side] : side \in Sides})
  BY SidesAreFinite, ImageIsFinite
<1>6. QED
  BY <1>1, <1>3, <1>4, <1>5, FS_Subset

\* A list to which the members of a set are appended.
LEMMA SetJoins ==
    ASSUME NEW q, IsList(q), NEW S, IsFiniteSet(S)
    PROVE  LET r == q \o SetToSeq(S)
           IN  /\ Range(r) = Range(q) \cup S
               /\ \A i, j \in DOMAIN r : i < j =>
                     \/ i \in DOMAIN q /\ j \in DOMAIN q /\ r[i] = q[i] /\ r[j] = q[j]
                     \/ i \in DOMAIN q /\ r[i] = q[i] /\ r[j] \in S
                     \/ r[i] \in S /\ r[j] \in S /\ r[i] # r[j]
<1> DEFINE e == SetToSeq(S)
           n == Len(q)
           r == q \o e
<1>1. PICK T : q \in Seq(T)
  BY DEF IsList
<1>2. /\ e \in Seq(S) /\ Range(e) = S
      /\ \A i, j \in DOMAIN e : e[i] = e[j] => i = j
  BY SeqOfSet DEF IsInjective
<1> HIDE DEF e
<1>3. q \in Seq(T \cup S) /\ e \in Seq(T \cup S)
  BY <1>1, <1>2, SeqMonotonic
<1>4. /\ DOMAIN r = 1..(n + Len(e)) /\ n \in Nat /\ Len(e) \in Nat
      /\ DOMAIN q = 1..n /\ DOMAIN e = 1..Len(e)
      /\ \A i \in 1..(n + Len(e)) : r[i] = IF i <= n THEN q[i] ELSE e[i - n]
  BY <1>3, JoinAt
<1> HIDE DEF r, n
<1>5. \A i \in DOMAIN q : i \in DOMAIN r /\ r[i] = q[i]
  BY <1>4
<1>6. \A i \in DOMAIN e : n + i \in DOMAIN r /\ r[n + i] = e[i]
  BY <1>4
<1>7. \A i \in DOMAIN r : i \notin DOMAIN q => i - n \in DOMAIN e /\ r[i] = e[i - n] /\ r[i] \in S
  BY <1>2, <1>4
<1>8. Range(r) = Range(q) \cup S
  <2>1. Range(r) = {r[i] : i \in DOMAIN r} /\ Range(q) = {q[i] : i \in DOMAIN q} /\ S = {e[i] : i \in DOMAIN e}
    BY <1>2 DEF Range
  <2>2. \A x \in Range(r) : x \in Range(q) \/ x \in S
    BY <1>5, <1>7, <2>1
  <2>3. \A x \in Range(q) : x \in Range(r)
    BY <1>5, <2>1
  <2>4. \A x \in S : x \in Range(r)
    BY <1>6, <2>1
  <2>5. QED
    BY <2>2, <2>3, <2>4
<1>9. ASSUME NEW i \in DOMAIN r, NEW j \in DOMAIN r, i < j
      PROVE  \/ i \in DOMAIN q /\ j \in DOMAIN q /\ r[i] = q[i] /\ r[j] = q[j]
             \/ i \in DOMAIN q /\ r[i] = q[i] /\ r[j] \in S
             \/ r[i] \in S /\ r[j] \in S /\ r[i] # r[j]
  <2>1. CASE j \in DOMAIN q
    <3>1. i \in DOMAIN q
      BY <1>4, <1>9, <2>1
    <3>2. QED
      BY <1>5, <2>1, <3>1
  <2>2. CASE j \notin DOMAIN q /\ i \in DOMAIN q
    BY <1>5, <1>7, <2>2
  <2>3. CASE j \notin DOMAIN q /\ i \notin DOMAIN q
    <3>1. i - n # j - n
      BY <1>4, <1>9
    <3>2. QED
      BY <1>2, <1>7, <2>3, <3>1
  <2>4. QED
    BY <2>1, <2>2, <2>3
<1>10. QED
  BY <1>8, <1>9 DEF r, e

\* The number of bars of four hours.
LEMMA FoursLength ==
    ASSUME NEW past \in Seq(Ohlc), NEW bars, NEW n \in Nat
    PROVE  Len(Fours(past, bars, n)) = Len(past) + n
<1> DEFINE q == [j \in 1..n |-> HigherBar(bars, j)]
           S == {HigherBar(bars, j) : j \in 1..n}
<1>1. q \in [1..n -> S]
  OBVIOUS
<1> HIDE DEF S
<1>2. q \in Seq(S) /\ Len(q) = n
  BY <1>1
<1>3. Fours(past, bars, n) = past \o q
  BY DEF Fours
<1> HIDE DEF q
<1>4. past \in Seq(S \cup Ohlc) /\ q \in Seq(S \cup Ohlc)
  BY <1>2, SeqMonotonic
<1>5. Len(past \o q) = Len(past) + Len(q)
  BY <1>4, ConcatProperties
<1>6. QED
  BY <1>2, <1>3, <1>5

\* One more bar adds what breaks out of it.
LEMMA BrokenGrows ==
    ASSUME NEW old, NEW new, Grown(old, new), Len(new) = Len(old) + 1,
           NEW past \in Seq(Ohlc), Len(past) <= Len(old)
    PROVE  Broken4(new, past) = Broken4(old, past) \cup SignalAtLastBar(new)
<1> DEFINE n == Len(old)
           T(w) == {u \in 2..Len(w) : u > Len(past)}
<1>1. /\ n \in Nat /\ DOMAIN old = 1..n /\ DOMAIN new = 1..(n + 1) /\ Len(new) = n + 1
      /\ Len(past) \in Nat /\ Len(past) <= n
  BY TapeIs DEF Grown
<1>2. Broken4(new, past) = UNION {SignalForTrigger(new, t) : t \in T(new)}
  BY DEF Broken4
<1>3. Broken4(old, past) = UNION {SignalForTrigger(old, t) : t \in T(old)}
  BY DEF Broken4
<1> HIDE DEF n
<1>4. \A t \in T(old) : t \in DOMAIN old /\ t >= 2 /\ t \in T(new)
  BY <1>1 DEF n
<1>5. \A t \in T(old) : SignalForTrigger(new, t) = SignalForTrigger(old, t)
  BY <1>4, TriggerStays
<1>6. \A t \in T(new) : t \in T(old) \/ t = n + 1
  BY <1>1 DEF n
<1>7. CASE n + 1 < 2
  <2>1. T(new) = {} /\ T(old) = {}
    BY <1>1, <1>7 DEF n
  <2>2. SignalAtLastBar(new) = {}
    BY <1>1, <1>7 DEF SignalAtLastBar
  <2> HIDE DEF T
  <2>3. QED
    BY <1>2, <1>3, <2>1, <2>2
<1>8. CASE ~(n + 1 < 2)
  <2>1. n + 1 \in T(new)
    BY <1>1, <1>8
  <2>2. SignalAtLastBar(new) = SignalForTrigger(new, n + 1)
    BY <1>1, <1>8 DEF SignalAtLastBar
  <2> HIDE DEF T
  <2>3. \A s : s \in Broken4(new, past) <=> \E t \in T(new) : s \in SignalForTrigger(new, t)
    BY <1>2
  <2>4. \A s : s \in Broken4(old, past) <=> \E t \in T(old) : s \in SignalForTrigger(old, t)
    BY <1>3
  <2>5. ASSUME NEW s PROVE s \in Broken4(new, past) <=> s \in Broken4(old, past) \cup SignalAtLastBar(new)
    BY <1>4, <1>5, <1>6, <2>1, <2>2, <2>3, <2>4
  <2>6. QED
    BY <2>5
<1>9. QED
  BY <1>7, <1>8

\* What has been answered bar by bar is what a scan of those bars finds.
LEMMA AnswersAreScan ==
    ASSUME NEW w \in Seq(Ohlc), NEW past \in Seq(Ohlc)
    PROVE  {s \in Broken4(w, past) : s.entry <= Len(w)}
               = {s \in GenerateSignals(w) : s.entry > Len(past) + 1}
<1> DEFINE n == Len(w)
           p == Len(past)
<1>1. n \in Nat /\ p \in Nat /\ DOMAIN w = 1..n
  BY TapeIs
<1>2. \A s : s \in Broken4(w, past) <=> \E t \in 2..n : t > p /\ s \in SignalForTrigger(w, t)
  BY DEF Broken4
<1>3. \A s : s \in GenerateSignals(w) <=> \E t \in 2..(n - 1) : s \in SignalForTrigger(w, t)
  BY DEF GenerateSignals
<1>4. \A t \in 2..n : \A s \in SignalForTrigger(w, t) : s.entry = t + 1
  <2>1. \A t \in 2..n : t \in DOMAIN w
    BY <1>1
  <2>2. QED
    BY <2>1, TriggerIsOne
<1> HIDE DEF n, p
<1>5. ASSUME NEW s
      PROVE  s \in Broken4(w, past) /\ s.entry <= n <=> s \in GenerateSignals(w) /\ s.entry > p + 1
  <2>1. ASSUME s \in Broken4(w, past), s.entry <= n PROVE s \in GenerateSignals(w) /\ s.entry > p + 1
    <3>1. PICK t \in 2..n : t > p /\ s \in SignalForTrigger(w, t)
      BY <1>2, <2>1
    <3>2. s.entry = t + 1
      BY <1>4, <3>1
    <3>3. t \in 2..(n - 1)
      BY <1>1, <2>1, <3>2
    <3>4. QED
      BY <1>1, <1>3, <3>1, <3>2, <3>3
  <2>2. ASSUME s \in GenerateSignals(w), s.entry > p + 1 PROVE s \in Broken4(w, past) /\ s.entry <= n
    <3>1. PICK t \in 2..(n - 1) : s \in SignalForTrigger(w, t)
      BY <1>3, <2>2
    <3>2. t \in 2..n
      BY <1>1
    <3>3. s.entry = t + 1
      BY <1>4, <3>1, <3>2
    <3>4. t > p /\ t + 1 <= n
      BY <1>1, <2>2, <3>3
    <3>5. QED
      BY <1>2, <3>1, <3>2, <3>3, <3>4
  <2>3. QED
    BY <2>1, <2>2
<1>6. QED
  BY <1>5 DEF n, p

\* The invariant of the causal breakout holds at the start.
LEMMA CausalBegins == InitBreakout => CausalInv
<1> SUFFICES ASSUME InitBreakout PROVE CausalInv
  OBVIOUS
<1> DEFINE memory == [ports |-> <<{}>>]
<1>1. StartStudy("breakout", memory)
  BY DEF InitBreakout
<1> HIDE DEF memory
<1>2. BreakoutInv /\ tape = <<>> /\ out = <<>> /\ mem.past \in Seq(Ohlc)
  BY <1>1, BreakoutBegins DEF StartStudy, BreakoutInv
<1>3. Broken4(CompletedBars(tape), mem.past) = {}
  <2> DEFINE w == CompletedBars(tape)
             past == mem.past
  <2>1. Len(<<>>) = 0 /\ Len(tape) + 1 - 1 = 0 /\ 0 \div 2 = 0
    BY <1>2
  <2>2. w = Fours(past, tape, 0)
    BY <2>1 DEF CompletedBars, HigherClosed, Fours
  <2>3. Len(w) = Len(past)
    BY <1>2, <2>2, FoursLength
  <2>4. Len(past) \in Nat
    BY <1>2
  <2>5. {u \in 2..Len(w) : u > Len(past)} = {}
    BY <2>3, <2>4
  <2> HIDE DEF w, past
  <2>6. Broken4(w, past) = {}
    BY <2>5 DEF Broken4
  <2>7. QED
    BY <2>6 DEF w, past
<1>4. Range(out) = {} /\ DOMAIN out = {} /\ ~(Len(tape) > 0)
  BY <1>2 DEF Range
<1>5. QED
  BY <1>2, <1>3, <1>4 DEF CausalInv

\* A step of the breakout keeps it, and the port does not change its mind.
LEMMA CausalGoesOn == CausalInv /\ Breakout => CausalInv' /\ PortIsSteady
<1> SUFFICES ASSUME CausalInv, Breakout PROVE CausalInv' /\ PortIsSteady
  OBVIOUS
<1>0. BreakoutInv /\ BreakoutInv'
  BY BreakoutGoesOn DEF CausalInv
<1>1. /\ tape' \in Seq(Ohlc) /\ tape \in Seq(Ohlc) /\ mem.past \in Seq(Ohlc)
      /\ DOMAIN tape' = 1..(Len(tape) + 1) /\ DOMAIN tape = 1..Len(tape) /\ Len(tape) \in Nat
      /\ Len(tape') = Len(tape) + 1
      /\ \A j \in DOMAIN tape : j \in DOMAIN tape' /\ tape'[j] = tape[j]
  BY <1>0, NextTape DEF BreakoutInv, Breakout, PriceStudies
<1>2. Grown(tape, tape')
  BY <1>1 DEF Grown
<1> DEFINE n == Len(tape) \div 2
           m == Len(tape') \div 2
           found == IF Len(tape') % 2 = 0 THEN SignalAtLastBar(CompletedBars(tape')) ELSE {}
           port == PortSignal(tape')
           past == mem.past
           old == Fours(past, tape, n)
           new == Fours(past, tape', m)
<1>3. out' = out \o SetToSeq(found) /\ mem' = [mem EXCEPT !.ports = Append(@, port)]
  BY DEF Breakout
<1>4. CompletedBars(tape) = old /\ CompletedBars(tape') = new
  <2>1. Len(tape) + 1 - 1 = Len(tape) /\ Len(tape') + 1 - 1 = Len(tape')
    BY <1>1
  <2>2. QED
    BY <2>1 DEF CompletedBars, HigherClosed, Fours
<1>5. mem'.past = past /\ mem'.ports = Append(mem.ports, port)
  <2> HIDE DEF port
  <2>1. {"past", "ports"} \subseteq DOMAIN mem
    BY <1>0 DEF BreakoutInv
  <2>2. QED
    BY <1>3, <2>1
<1>6. (CompletedBars(tape))' = new
  <2>1. Len(tape') + 1 - 1 = Len(tape')
    BY <1>1
  <2>2. QED
    BY <1>5, <2>1 DEF CompletedBars, HigherClosed, Fours
<1>7. (PortSignal(tape))' = port
  <2>1. (ResampleH4(tape))' = ResampleH4(tape')
    BY <1>5 DEF ResampleH4, HigherClosed
  <2>2. QED
    BY <2>1 DEF PortSignal
<1>8. /\ n \in Nat /\ m \in Nat /\ n <= m /\ 2 * n <= Len(tape) /\ 2 * m <= Len(tape')
      /\ (Len(tape') % 2 = 0 => m = n + 1) /\ (Len(tape') % 2 # 0 => m = n)
  BY SMTT(30), <1>1
<1>9. Grown(old, new) /\ Len(old) = Len(past) + n /\ Len(new) = Len(past) + m /\ Len(past) \in Nat
  <2> HIDE DEF n, m
  <2>1. Grown(Fours(past, tape, n), Fours(past, tape', m))
    BY <1>1, <1>2, <1>8, FoursStay
  <2>2. QED
    BY <1>1, <1>8, <2>1, FoursLength
<1>10. Last(mem'.ports) = port
  <2> DEFINE q == mem.ports
  <2>1. PICK S : q \in Seq(S)
    BY <1>0 DEF BreakoutInv, IsList
  <2>2. q \in Seq(S \cup {port}) /\ port \in S \cup {port}
    BY <2>1, SeqMonotonic
  <2> HIDE DEF q, port
  <2>3. Append(q, port) \in Seq(S \cup {port}) /\ Len(Append(q, port)) = Len(q) + 1 /\ Len(q) \in Nat
        /\ Append(q, port)[Len(q) + 1] = port
    BY <2>2, AppendProperties
  <2>4. QED
    BY <1>5, <2>3 DEF Last, q
<1>11. PortIsSteady
  <2> SUFFICES ASSUME study = "breakout", Len(tape') % 2 = 0 PROVE Last(mem'.ports) = Last(mem.ports)
    BY DEF PortIsSteady
  <2> DEFINE k == (Len(tape) - 1) \div 2
             j == (Len(tape') - 1) \div 2
  <2>1. Len(tape) > 0 /\ k = j /\ k \in Nat /\ 2 * k <= Len(tape) /\ 2 * k <= Len(tape')
    <3>1. Len(tape) \in Nat /\ Len(tape') \in Nat /\ Len(tape') = Len(tape) + 1
      BY <1>1
    <3>2. PICK h \in Int : Len(tape') = 2 * h
      BY <3>1
    <3>3. h > 0 /\ k = h - 1 /\ j = h - 1
      BY <3>1, <3>2
    <3>4. QED
      BY <3>1, <3>2, <3>3
  <2>2. ResampleH4(tape) = Fours(past, tape, k) /\ ResampleH4(tape') = Fours(past, tape', j)
    BY DEF ResampleH4, HigherClosed, Fours
  <2> HIDE DEF k, j
  <2>3. Grown(Fours(past, tape, k), Fours(past, tape', k))
    BY <1>1, <1>2, <2>1, FoursStay
  <2>4. Len(Fours(past, tape, k)) = Len(past) + k /\ Len(Fours(past, tape', k)) = Len(past) + k
    BY <1>1, <2>1, FoursLength
  <2>5. Fours(past, tape', k) = Fours(past, tape, k)
    BY <2>3, <2>4, GrownAlike
  <2>6. PortSignal(tape') = PortSignal(tape)
    BY <2>1, <2>2, <2>5 DEF PortSignal
  <2>7. Last(mem.ports) = PortSignal(tape)
    BY <2>1 DEF CausalInv
  <2>8. QED
    BY <1>10, <2>6, <2>7
<1> HIDE DEF found, port, old, new, n, m, past
<1>12. /\ IsFiniteSet(found) /\ (\A s \in found : s.entry \in Int /\ s.entry > Len(old) + 1) /\ \A s, u \in found : s = u
  <2>1. CASE Len(tape') % 2 = 0
    <3>1. found = SignalAtLastBar(new) /\ Len(new) = Len(old) + 1 /\ Len(old) \in Nat
      BY <1>4, <1>8, <1>9, <2>1 DEF found
    <3>2. CASE Len(new) < 2
      <4>1. found = {}
        BY <3>1, <3>2 DEF SignalAtLastBar
      <4>2. QED
        BY <4>1, FS_EmptySet
    <3>3. CASE ~(Len(new) < 2)
      <4>1. found = SignalForTrigger(new, Len(new))
        BY <3>1, <3>3 DEF SignalAtLastBar
      <4>2. new \in Seq(Ohlc) /\ Len(new) \in DOMAIN new
        BY <1>9, <3>1, <3>3, TapeIs DEF Grown
      <4>3. /\ IsFiniteSet(found)
            /\ \A s \in found : s.entry = Len(new) + 1
            /\ \A s, u \in found : s = u
        BY <4>1, <4>2, TriggerIsOne
      <4>4. \A s \in found : s.entry \in Int /\ s.entry > Len(old) + 1
        BY <3>1, <4>3
      <4>5. QED
        BY <4>3, <4>4
    <3>4. QED
      BY <3>2, <3>3
  <2>2. CASE Len(tape') % 2 # 0
    <3>1. found = {}
      BY <2>2 DEF found
    <3>2. QED
      BY <3>1, FS_EmptySet
  <2>3. QED
    BY <2>1, <2>2
<1>13. Broken4(new, past) = Broken4(old, past) \cup found
  <2>1. CASE Len(tape') % 2 = 0
    <3>1. found = SignalAtLastBar(new) /\ Len(new) = Len(old) + 1 /\ Len(past) <= Len(old)
      BY <1>4, <1>8, <1>9, <2>1 DEF found
    <3>2. past \in Seq(Ohlc)
      BY <1>1 DEF past
    <3>3. QED
      BY <1>9, <3>1, <3>2, BrokenGrows
  <2>2. CASE Len(tape') % 2 # 0
    <3>1. found = {} /\ Len(new) = Len(old)
      BY <1>8, <1>9, <2>2 DEF found
    <3>2. new = old
      BY <1>9, <3>1, GrownAlike
    <3>3. QED
      BY <3>1, <3>2
  <2>3. QED
    BY <2>1, <2>2
<1>14. Range(out) = Broken4(old, past) /\ IsList(out) /\ \A i, j \in DOMAIN out : i < j => out[i].entry < out[j].entry
  BY <1>0, <1>4 DEF CausalInv, BreakoutInv, past
<1>15. \A i \in DOMAIN out : out[i].entry \in Int /\ out[i].entry <= Len(old) + 1
  <2>1. ASSUME NEW i \in DOMAIN out PROVE out[i].entry \in Int /\ out[i].entry <= Len(old) + 1
    <3>1. BrokeAt(out[i], old, Trend.atr)
      BY <1>0, <1>4 DEF BreakoutInv
    <3>2. PICK t \in 2..Len(old) : out[i] \in SignalForTrigger(old, t)
      <4>1. out[i] \in Range(out)
        BY DEF Range
      <4>2. out[i] \in Broken4(old, past)
        BY <1>14, <4>1
      <4>3. QED
        BY <4>2 DEF Broken4
    <3>3. old \in Seq(Ohlc) /\ t \in DOMAIN old
      BY <1>9, TapeIs DEF Grown
    <3>4. out[i].entry = t + 1
      BY <3>2, <3>3, TriggerIsOne
    <3>5. QED
      BY <1>9, <3>4, TapeIs DEF Grown
  <2>2. QED
    BY <2>1
<1>16. Range(out') = Broken4(new, past)
  BY <1>3, <1>12, <1>13, <1>14, SetJoins
<1>17. \A i, j \in DOMAIN out' : i < j => out'[i].entry < out'[j].entry
  <2> SUFFICES ASSUME NEW i \in DOMAIN out', NEW j \in DOMAIN out', i < j PROVE out'[i].entry < out'[j].entry
    OBVIOUS
  <2>1. \/ i \in DOMAIN out /\ j \in DOMAIN out /\ out'[i] = out[i] /\ out'[j] = out[j]
        \/ i \in DOMAIN out /\ out'[i] = out[i] /\ out'[j] \in found
        \/ out'[i] \in found /\ out'[j] \in found /\ out'[i] # out'[j]
    BY <1>3, <1>12, <1>14, SetJoins
  <2>2. CASE i \in DOMAIN out /\ j \in DOMAIN out /\ out'[i] = out[i] /\ out'[j] = out[j]
    BY <1>14, <2>2
  <2>3. CASE i \in DOMAIN out /\ out'[i] = out[i] /\ out'[j] \in found
    <3>1. /\ out[i].entry \in Int /\ out[i].entry <= Len(old) + 1
          /\ out'[j].entry \in Int /\ out'[j].entry > Len(old) + 1 /\ Len(old) \in Int
      BY SMTT(30), <1>8, <1>9, <1>12, <1>15, <2>3
    <3>2. QED
      BY <2>3, <3>1
  <2>4. QED
    BY <1>12, <2>1, <2>2, <2>3
<1>18. (Broken4(CompletedBars(tape), mem.past))' = Broken4(new, past)
  BY <1>5, <1>6 DEF past
<1>19. CausalInv'
  BY <1>0, <1>7, <1>10, <1>16, <1>17, <1>18 DEF CausalInv
<1>20. QED
  BY <1>11, <1>19

\* So the breakouts are what they would have been on longer data.
LEMMA CausalIs == CausalInv => LiveIsScan
<1> SUFFICES ASSUME CausalInv PROVE LiveIsScan
  OBVIOUS
<1> DEFINE w == CompletedBars(tape)
           past == mem.past
<1>1. past \in Seq(Ohlc) /\ tape \in Seq(Ohlc)
  BY DEF CausalInv, BreakoutInv
<1>2. w \in Seq(Ohlc)
  <2> DEFINE n == Len(tape) \div 2
  <2>0. Len(tape) \in Nat
    BY <1>1
  <2>a. \A k \in Nat : k + 1 - 1 = k /\ k \div 2 \in Nat /\ 2 * (k \div 2) <= k
    OBVIOUS
  <2>1. Len(tape) + 1 - 1 = Len(tape) /\ n \in Nat /\ 2 * n <= Len(tape)
    BY <2>0, <2>a
  <2>b. (Len(tape) + 1 - 1) \div 2 = n
    BY <2>1
  <2>c. w = past \o [j \in 1..((Len(tape) + 1 - 1) \div 2) |-> HigherBar(tape, j)]
    BY DEF CompletedBars, HigherClosed
  <2>2. w = Fours(past, tape, n)
    BY <2>b, <2>c DEF Fours
  <2>3. Grown(tape, tape)
    BY <1>1 DEF Grown
  <2> HIDE DEF n, w
  <2>4. Grown(Fours(past, tape, n), Fours(past, tape, n))
    BY <1>1, <2>1, <2>3, FoursStay
  <2>5. QED
    BY <2>2, <2>4 DEF Grown
<1>3. Range(out) = Broken4(w, past) /\ \A i, j \in DOMAIN out : i < j => out[i].entry < out[j].entry
  BY DEF CausalInv
<1> HIDE DEF w, past
<1>4. {s \in Range(out) : s.entry <= Len(w)} = {s \in GenerateSignals(w) : s.entry > Len(past) + 1}
  BY <1>1, <1>2, <1>3, AnswersAreScan
<1>5. QED
  BY <1>3, <1>4 DEF LiveIsScan, w, past

-----------------------------------------------------------------------------
(***************************************************************************)
(* The generators for Bitcoin are causal.                                  *)
(***************************************************************************)
\* What the generator enters on is what the frame so far says; the hours of its
\* rows are those of the data.
FrameInv ==
    /\ CoinInv
    /\ "times" \in DOMAIN mem /\ mem.times \in Times["crypto"] /\ Len(tape) <= Length["crypto"]
    /\ Range(out) = CoinEntries(tape)

\* The range of a bar that is there.
LEMMA TotalStays ==
    ASSUME NEW bars, NEW more, Grown(bars, more), NEW i \in DOMAIN bars, i >= Coin.atr
    PROVE  RangeTotal(more, i) = RangeTotal(bars, i)
<1>1. [j \in Trailing(i, Coin.atr) |-> TrueRange(more, j)] = [j \in Trailing(i, Coin.atr) |-> TrueRange(bars, j)]
  BY TrailStays, CoinsAre
<1>2. QED
  BY <1>1 DEF RangeTotal, SumOver

\* Whether it has one.
LEMMA HasRangeStays ==
    ASSUME NEW bars, NEW more, Grown(bars, more), NEW i \in DOMAIN bars
    PROVE  /\ HasRange(more, i) <=> HasRange(bars, i)
           /\ HasRange(bars, i) => RangeTotal(more, i) = RangeTotal(bars, i)
BY TotalStays DEF HasRange

\* The deviation of a bar that is there, and whether it has one.
LEMMA DeviationStays ==
    ASSUME NEW bars, NEW more, Grown(bars, more), NEW i \in DOMAIN bars
    PROVE  /\ HasZ(more, i) <=> HasZ(bars, i)
           /\ HasZ(bars, i) => CloseSum(more, i) = CloseSum(bars, i) /\ Variance(more, i) = Variance(bars, i)
<1>1. ASSUME i >= Coin.z
      PROVE  CloseSum(more, i) = CloseSum(bars, i) /\ Variance(more, i) = Variance(bars, i)
  <2>1. \A j \in Trailing(i, Coin.z) : more[j] = bars[j]
    BY <1>1, TrailStays, CoinsAre
  <2>2. /\ [j \in Trailing(i, Coin.z) |-> more[j].c] = [j \in Trailing(i, Coin.z) |-> bars[j].c]
        /\ [j \in Trailing(i, Coin.z) |-> more[j].c * more[j].c] = [j \in Trailing(i, Coin.z) |-> bars[j].c * bars[j].c]
    BY <2>1
  <2>3. CloseSum(more, i) = CloseSum(bars, i)
    BY <2>2 DEF CloseSum, SumOver
  <2>4. SumOver(Trailing(i, Coin.z), LAMBDA j : more[j].c * more[j].c)
          = SumOver(Trailing(i, Coin.z), LAMBDA j : bars[j].c * bars[j].c)
    BY <2>2 DEF SumOver
  <2>5. QED
    BY <2>3, <2>4 DEF Variance
<1>2. QED
  BY <1>1 DEF HasZ

\* Whether it is extreme.
LEMMA ExtremeStays ==
    ASSUME NEW bars, NEW more, Grown(bars, more), NEW i \in DOMAIN bars, HasZ(bars, i), NEW side
    PROVE  IsExtreme(more, i, side) <=> IsExtreme(bars, i, side)
<1>1. CloseSum(more, i) = CloseSum(bars, i) /\ Variance(more, i) = Variance(bars, i) /\ more[i] = bars[i]
  BY DeviationStays DEF Grown
<1>2. QED
  BY <1>1 DEF IsExtreme

\* A bar crosses, and has a range.
CrossAt(bars, i, side) == Crosses(bars, i, side) /\ HasRange(bars, i)

\* Whether it crosses.
LEMMA CrossStays ==
    ASSUME NEW bars, NEW more, Grown(bars, more), NEW i \in DOMAIN bars, i >= 2, NEW side
    PROVE  CrossAt(more, i, side) <=> CrossAt(bars, i, side)
<1>1. i - 1 \in DOMAIN bars
  <2>1. DOMAIN bars = 1..Len(bars) /\ Len(bars) \in Nat
    BY TapeIs DEF Grown
  <2>2. QED
    BY <2>1
<1>2. (HasZ(more, i) <=> HasZ(bars, i)) /\ (HasZ(more, i - 1) <=> HasZ(bars, i - 1))
  BY <1>1, DeviationStays
<1>3. HasZ(bars, i) => (IsExtreme(more, i, side) <=> IsExtreme(bars, i, side))
  BY ExtremeStays
<1>4. HasZ(bars, i - 1) => (IsExtreme(more, i - 1, side) <=> IsExtreme(bars, i - 1, side))
  BY <1>1, ExtremeStays
<1>5. HasRange(more, i) <=> HasRange(bars, i)
  BY HasRangeStays
<1>6. QED
  BY <1>2, <1>3, <1>4, <1>5 DEF CrossAt, Crosses

\* The channel before it, and the mean over the length of the channel.
LEMMA ChannelStays ==
    ASSUME NEW bars, NEW more, Grown(bars, more), NEW i \in DOMAIN bars, i >= Coin.channel + 1
    PROVE  /\ \A side : ChannelTop(more, i, side) = ChannelTop(bars, i, side)
           /\ MeanTotal(more, i) = MeanTotal(bars, i)
<1>0. DOMAIN bars = 1..Len(bars) /\ Len(bars) \in Nat /\ Coin.channel \in Nat \ {0}
  BY TapeIs, CoinsAre DEF Grown
<1>1. ASSUME NEW side PROVE ChannelTop(more, i, side) = ChannelTop(bars, i, side)
  <2>1. \A j \in (i - Coin.channel)..(i - 1) : j \in DOMAIN bars
    BY <1>0
  <2>2. \A j \in (i - Coin.channel)..(i - 1) : more[j] = bars[j]
    BY <2>1 DEF Grown
  <2>3. {Facing(more[j], side).h : j \in (i - Coin.channel)..(i - 1)}
           = {Facing(bars[j], side).h : j \in (i - Coin.channel)..(i - 1)}
    BY <2>2
  <2>4. QED
    BY <2>3 DEF ChannelTop
<1>2. MeanTotal(more, i) = MeanTotal(bars, i)
  <2>0. i >= Coin.channel
    BY <1>0
  <2>1. \A j \in Trailing(i, Coin.channel) : more[j] = bars[j]
    BY <2>0, TrailStays, CoinsAre
  <2>2. [j \in Trailing(i, Coin.channel) |-> more[j].c] = [j \in Trailing(i, Coin.channel) |-> bars[j].c]
    BY <2>1
  <2>3. QED
    BY <2>2 DEF MeanTotal, SumOver
<1>3. QED
  BY <1>1, <1>2

\* The trend at a bar that has a range.
LEMMA TrendStays ==
    ASSUME NEW bars, NEW more, Grown(bars, more), NEW i \in DOMAIN bars, HasRange(bars, i)
    PROVE  TrendStrong(more, i) <=> TrendStrong(bars, i)
<1>1. \A span : EmaTimes(more, span, i) = EmaTimes(bars, span, i)
  BY EmaAgrees
<1>2. RangeTotal(more, i) = RangeTotal(bars, i)
  BY HasRangeStays
<1>3. QED
  BY <1>1, <1>2 DEF TrendStrong

\* Kaufman's ratio.
LEMMA EfficiencyStays ==
    ASSUME NEW bars, NEW more, Grown(bars, more), NEW i \in DOMAIN bars
    PROVE  Efficient(more, i) <=> Efficient(bars, i)
<1>0. DOMAIN bars = 1..Len(bars) /\ Len(bars) \in Nat /\ Coin.er \in Nat \ {0}
  BY TapeIs, CoinOK DEF Grown
<1>1. CASE i <= Coin.er
  BY <1>1 DEF Efficient
<1>2. CASE i > Coin.er
  <2>1. \A j \in Trailing(i, Coin.er) : j \in DOMAIN bars /\ j - 1 \in DOMAIN bars
    <3>1. \A j \in Trailing(i, Coin.er) : j >= i - Coin.er + 1 /\ j <= i /\ j \in Int
      BY <1>0 DEF Trailing
    <3>2. QED
      BY <1>0, <1>2, <3>1
  <2>2. \A j \in Trailing(i, Coin.er) : more[j] = bars[j] /\ more[j - 1] = bars[j - 1]
    BY <2>1 DEF Grown
  <2>3. [j \in Trailing(i, Coin.er) |-> Abs(more[j].c - more[j - 1].c)]
           = [j \in Trailing(i, Coin.er) |-> Abs(bars[j].c - bars[j - 1].c)]
    BY <2>2
  <2>4. SumOver(Trailing(i, Coin.er), LAMBDA j : Abs(more[j].c - more[j - 1].c))
           = SumOver(Trailing(i, Coin.er), LAMBDA j : Abs(bars[j].c - bars[j - 1].c))
    BY <2>3 DEF SumOver
  <2>5. i - Coin.er \in DOMAIN bars
    BY <1>0, <1>2
  <2>6. more[i] = bars[i] /\ more[i - Coin.er] = bars[i - Coin.er]
    BY <2>5 DEF Grown
  <2>7. QED
    BY <2>4, <2>6 DEF Efficient
<1>3. QED
  BY <1>0, <1>1, <1>2

\* Whether the regime blocks an entry, but for the weekly gates.
LEMMA BlockStays ==
    ASSUME NEW bars, NEW more, Grown(bars, more), NEW i \in DOMAIN bars, HasRange(bars, i),
           mem.regime \notin WeeklyGates, NEW side
    PROVE  Blocked(more, i, side) <=> Blocked(bars, i, side)
<1>1. mem.regime # "align" /\ mem.regime # "range_only"
  BY DEF WeeklyGates
<1>2. CASE mem.regime = "trend"
  BY <1>2, TrendStays DEF Blocked
<1>3. CASE mem.regime = "efficiency"
  BY <1>3, EfficiencyStays DEF Blocked
<1>4. CASE mem.regime # "trend" /\ mem.regime # "efficiency"
  BY <1>1, <1>4 DEF Blocked
<1>5. QED
  BY <1>2, <1>3, <1>4

\* An hour before New York opens comes before the trading hours of its day.
LEMMA OpensBefore ==
    ASSUME NEW s \in Nat, NEW t \in Nat, s \div 48 = t \div 48, (s \div 2) % 24 = 12, (t \div 2) % 24 > 12
    PROVE  s < t
<1>1. PICK q \in Nat : s \div 48 = q
  OBVIOUS
<1>2. PICK a \in Nat : s \div 2 = a
  OBVIOUS
<1>3. PICK b \in Nat : t \div 2 = b
  OBVIOUS
<1>4. 48 * q <= s /\ s < 48 * q + 48 /\ 48 * q <= t /\ t < 48 * q + 48
  BY <1>1
<1>5. 2 * a <= s /\ s <= 2 * a + 1 /\ 2 * b <= t /\ t <= 2 * b + 1
  BY <1>2, <1>3
<1>6. 24 * q <= a /\ a < 24 * q + 24 /\ 24 * q <= b /\ b < 24 * q + 24
  BY <1>4, <1>5
<1>7. a % 24 = a - 24 * q /\ b % 24 = b - 24 * q
  BY <1>6
<1>8. QED
  BY <1>2, <1>3, <1>5, <1>7

\* The data's rows are sorted, so the opening of a bar's day is over by it.
LEMMA OpeningStays ==
    ASSUME NEW bars, NEW more, Grown(bars, more), NEW i \in DOMAIN bars, Hour(i) \in TradingHours,
           mem.times \in Times["crypto"], Len(more) <= Length["crypto"]
    PROVE  /\ Opening(more, i) = Opening(bars, i)
           /\ \A side : /\ OpeningTop(more, i, side) = OpeningTop(bars, i, side)
                        /\ OpeningWidth(more, i, side) = OpeningWidth(bars, i, side)
<1>0. /\ DOMAIN bars = 1..Len(bars) /\ Len(bars) \in Nat /\ DOMAIN more = 1..Len(more) /\ Len(more) \in Nat
      /\ \A j \in DOMAIN bars : j \in DOMAIN more /\ more[j] = bars[j]
  BY TapeIs DEF Grown
<1>1. "crypto" \in TimedStudies
  BY DEF TimedStudies
<1>2. \A j \in DOMAIN more : Slot(j) \in Nat
  BY <1>0, <1>1, RowsAreSorted
<1>3. \A j, k \in DOMAIN more : j < k => Slot(j) < Slot(k)
  BY <1>0, <1>1, RowsAreSorted
<1>4. ASSUME NEW j \in DOMAIN more, DayOf(j) = DayOf(i), Hour(j) = 12 PROVE j \in DOMAIN bars
  <2>1. Slot(j) \in Nat /\ Slot(i) \in Nat
    BY <1>0, <1>2
  <2> DEFINE s == Slot(j)
             t == Slot(i)
  <2>a. s \div 48 = t \div 48 /\ (s \div 2) % 24 = 12
    BY <1>4 DEF DayOf, SlotsOfDay, Hour
  <2>b. (t \div 2) % 24 > 12
    BY DEF Hour, TradingHours
  <2> HIDE DEF s, t
  <2>c. s < t
    BY <2>1, <2>a, <2>b, OpensBefore DEF s, t
  <2>2. Slot(j) < Slot(i)
    BY <2>c DEF s, t
  <2>3. ~(i < j)
    BY <1>0, <1>3, <2>1, <2>2
  <2>4. QED
    BY <1>0, <2>3
<1>5. Opening(more, i) = Opening(bars, i)
  BY <1>0, <1>4 DEF Opening
<1>6. \A j \in Opening(bars, i) : more[j] = bars[j]
  BY <1>0 DEF Opening
<1>7. ASSUME NEW side PROVE /\ OpeningTop(more, i, side) = OpeningTop(bars, i, side)
                            /\ OpeningWidth(more, i, side) = OpeningWidth(bars, i, side)
  <2>1. {Facing(more[j], side).h : j \in Opening(more, i)} = {Facing(bars[j], side).h : j \in Opening(bars, i)}
    BY <1>5, <1>6
  <2>2. {Facing(more[j], side).l : j \in Opening(more, i)} = {Facing(bars[j], side).l : j \in Opening(bars, i)}
    BY <1>5, <1>6
  <2>3. QED
    BY <2>1, <2>2 DEF OpeningTop, OpeningWidth
<1>8. QED
  BY <1>5, <1>7

\* Of a breakout of the opening range.
OrbAt(bars, i, side) ==
    /\ Hour(i) \in TradingHours /\ Opening(bars, i) # {} /\ OpeningWidth(bars, i, side) > 0
    /\ Close(bars, i, side) > OpeningTop(bars, i, side)
    /\ Close(bars, i - 1, side) <= OpeningTop(bars, i, side)

\* Of a breakout of the channel.
VboAt(bars, i, side) ==
    /\ InNewYork(i) /\ HasRange(bars, i)
    /\ 2 * Coin.atr * (bars[i].h - bars[i].l) > 3 * RangeTotal(bars, i)
    /\ Close(bars, i, side) > ChannelTop(bars, i, side)
    /\ Close(bars, i - 1, side) <= ChannelTop(bars, i, side)

\* Of a poke beyond the channel.
PokeAt(bars, i, side) ==
    /\ HasRange(bars, i)
    /\ Facing(bars[i], side).h > ChannelTop(bars, i, side)
    /\ Close(bars, i, side) < ChannelTop(bars, i, side)
    /\ ~(mem.regime = "trend" /\ TrendStrong(bars, i))
    /\ 2 * Coin.atr * side * (Coin.channel * bars[i].c - MeanTotal(bars, i)) >= Coin.channel * RangeTotal(bars, i)

\* The entries up to one bar.
UpTo(entries, n) == {s \in entries : s.entry <= n}

\* Whatever is found, the entry is on the next bar.
LEMMA EnterNext ==
    ASSUME NEW bars, NEW i, NEW side
    PROVE  /\ OrbSignal(bars, i, side).entry = i + 1
           /\ RevertSignal(bars, i, side).entry = i + 1
           /\ PokeSignal(bars, i, side).entry = i + 1
<1>1. \A a, e, sl, tp, of : Signal(a, e, sl, tp, of).entry = e
  BY DEF Signal
<1>2. QED
  BY <1>1 DEF OrbSignal, RevertSignal, PokeSignal

\* So it is for a bracket.
LEMMA BracketEnters ==
    ASSUME NEW bars, NEW i, NEW side, NEW stop, NEW aim
    PROVE  Bracket(bars, i, side, stop, aim).entry = i + 1
<1>1. \A a, e, sl, tp, of : Signal(a, e, sl, tp, of).entry = e
  BY DEF Signal
<1>2. QED
  BY <1>1 DEF Bracket

\* A frame and a longer one.
Longer(bars, more) ==
    /\ Grown(bars, more) /\ mem.times \in Times["crypto"] /\ Len(more) <= Length["crypto"]

\* What their lengths and their bars have to do with each other.
LEMMA FramesAre ==
    ASSUME NEW bars, NEW more, Longer(bars, more)
    PROVE  /\ DOMAIN bars = 1..Len(bars) /\ Len(bars) \in Nat /\ DOMAIN more = 1..Len(more) /\ Len(more) \in Nat
           /\ Len(bars) <= Len(more)
           /\ \A j \in DOMAIN bars : more[j] = bars[j]
<1>1. /\ DOMAIN bars = 1..Len(bars) /\ Len(bars) \in Nat /\ DOMAIN more = 1..Len(more) /\ Len(more) \in Nat
      /\ \A j \in DOMAIN bars : j \in DOMAIN more /\ more[j] = bars[j]
  BY TapeIs DEF Longer, Grown
<1>2. Len(bars) <= Len(more)
  <2>1. CASE Len(bars) = 0
    BY <1>1, <2>1
  <2>2. CASE Len(bars) # 0
    <3>1. Len(bars) \in DOMAIN bars
      BY <1>1, <2>2
    <3>2. QED
      BY <1>1, <3>1
  <2>3. QED
    BY <2>1, <2>2
<1>3. QED
  BY <1>1, <1>2

\* The breakouts of the opening range.
LEMMA OrbCut ==
    ASSUME NEW bars, NEW more, Longer(bars, more)
    PROVE  UpTo(OrbEntries(more), Len(bars) + 1) = OrbEntries(bars)
<1> DEFINE n == Len(bars)
           m == Len(more)
           AtBar(w, i, side) == OrbAt(w, i, side)
           Sig(w, i, side) == OrbSignal(w, i, side)
<1>0. /\ DOMAIN bars = 1..n /\ n \in Nat /\ DOMAIN more = 1..m /\ m \in Nat /\ n <= m
      /\ \A j \in DOMAIN bars : more[j] = bars[j]
      /\ 2 \in Nat /\ 2 >= 2
  BY FramesAre, CoinsAre
<1>1. \A x : x \in OrbEntries(bars) <=> \E i \in 2..n, side \in Sides : AtBar(bars, i, side) /\ x = Sig(bars, i, side)
  <2>1. ASSUME NEW x \in OrbEntries(bars)
        PROVE  \E i \in 2..n, side \in Sides : AtBar(bars, i, side) /\ x = Sig(bars, i, side)
    <3>1. PICK p \in (2..n) \X Sides : AtBar(bars, p[1], p[2]) /\ x = Sig(bars, p[1], p[2])
      BY DEF OrbEntries, OrbAt
    <3>2. p[1] \in 2..n /\ p[2] \in Sides
      OBVIOUS
    <3> HIDE DEF AtBar, Sig
    <3>3. QED
      BY <3>1, <3>2
  <2>2. ASSUME NEW i \in 2..n, NEW side \in Sides, AtBar(bars, i, side) PROVE Sig(bars, i, side) \in OrbEntries(bars)
    <3>1. PICK p \in (2..n) \X Sides : p[1] = i /\ p[2] = side
      <4>1. <<i, side>> \in (2..n) \X Sides /\ <<i, side>>[1] = i /\ <<i, side>>[2] = side
        OBVIOUS
      <4>2. QED
        BY <4>1
    <3>2. AtBar(bars, p[1], p[2])
      BY <2>2, <3>1
    <3>3. Sig(bars, p[1], p[2]) \in OrbEntries(bars)
      BY <3>2 DEF OrbEntries, OrbAt
    <3>4. QED
      BY <3>1, <3>3
  <2>3. QED
    BY <2>1, <2>2
<1>2. \A x : x \in OrbEntries(more) <=> \E i \in 2..m, side \in Sides : AtBar(more, i, side) /\ x = Sig(more, i, side)
  <2>1. ASSUME NEW x \in OrbEntries(more)
        PROVE  \E i \in 2..m, side \in Sides : AtBar(more, i, side) /\ x = Sig(more, i, side)
    <3>1. PICK p \in (2..m) \X Sides : AtBar(more, p[1], p[2]) /\ x = Sig(more, p[1], p[2])
      BY DEF OrbEntries, OrbAt
    <3>2. p[1] \in 2..m /\ p[2] \in Sides
      OBVIOUS
    <3> HIDE DEF AtBar, Sig
    <3>3. QED
      BY <3>1, <3>2
  <2>2. ASSUME NEW i \in 2..m, NEW side \in Sides, AtBar(more, i, side) PROVE Sig(more, i, side) \in OrbEntries(more)
    <3>1. PICK p \in (2..m) \X Sides : p[1] = i /\ p[2] = side
      <4>1. <<i, side>> \in (2..m) \X Sides /\ <<i, side>>[1] = i /\ <<i, side>>[2] = side
        OBVIOUS
      <4>2. QED
        BY <4>1
    <3>2. AtBar(more, p[1], p[2])
      BY <2>2, <3>1
    <3>3. Sig(more, p[1], p[2]) \in OrbEntries(more)
      BY <3>2 DEF OrbEntries, OrbAt
    <3>4. QED
      BY <3>1, <3>3
  <2>3. QED
    BY <2>1, <2>2
<1>3. ASSUME NEW i \in 2..n, NEW side \in Sides
      PROVE  /\ AtBar(more, i, side) <=> AtBar(bars, i, side)
             /\ AtBar(bars, i, side) => Sig(more, i, side) = Sig(bars, i, side)
  <2>1. i \in DOMAIN bars /\ i - 1 \in DOMAIN bars /\ i >= 2 /\ i >= 2
    BY <1>0
  <2>2. more[i] = bars[i] /\ more[i - 1] = bars[i - 1] /\ Grown(bars, more)
    BY <1>0, <2>1 DEF Longer
  <2>3. Hour(i) \in TradingHours =>
           /\ Opening(more, i) = Opening(bars, i)
           /\ OpeningTop(more, i, side) = OpeningTop(bars, i, side)
           /\ OpeningWidth(more, i, side) = OpeningWidth(bars, i, side)
    BY <2>1, OpeningStays DEF Longer
  <2>4. OrbAt(more, i, side) <=> OrbAt(bars, i, side)
    BY <2>2, <2>3 DEF OrbAt, Close
  <2>5. OrbAt(bars, i, side) => OrbSignal(more, i, side) = OrbSignal(bars, i, side)
    BY <2>2, <2>3 DEF OrbAt, OrbSignal
  <2>6. QED
    BY <2>4, <2>5
<1>4. ASSUME NEW i \in 2..m, NEW side \in Sides PROVE Sig(more, i, side).entry = i + 1
  BY EnterNext
<1> DEFINE F == OrbEntries(bars)
           G == OrbEntries(more)
<1> HIDE DEF F, G, n, m, AtBar, Sig
<1>5. ASSUME NEW x \in F PROVE x \in G /\ x.entry <= n + 1
  <2>1. PICK i \in 2..n, side \in Sides : AtBar(bars, i, side) /\ x = Sig(bars, i, side)
    BY <1>1 DEF F
  <2>2. i \in 2..m /\ i + 1 <= n + 1 /\ AtBar(more, i, side) /\ x = Sig(more, i, side)
    BY <1>0, <1>3, <2>1
  <2>3. x.entry = i + 1
    BY <1>4, <2>2
  <2>4. QED
    BY <1>2, <2>2, <2>3 DEF G
<1>6. ASSUME NEW x \in G, x.entry <= n + 1 PROVE x \in F
  <2>1. PICK i \in 2..m, side \in Sides : AtBar(more, i, side) /\ x = Sig(more, i, side)
    BY <1>2 DEF G
  <2>2. i + 1 <= n + 1
    BY <1>4, <1>6, <2>1
  <2>3. i \in 2..n
    BY <1>0, <2>2
  <2>4. AtBar(bars, i, side) /\ x = Sig(bars, i, side)
    BY <1>3, <2>1, <2>3
  <2>5. QED
    BY <1>1, <2>3, <2>4 DEF F
<1>7. QED
  BY <1>5, <1>6 DEF UpTo, F, G, n

\* The breakouts of the channel.
LEMMA VboCut ==
    ASSUME NEW bars, NEW more, Longer(bars, more)
    PROVE  UpTo(VboEntries(more), Len(bars) + 1) = VboEntries(bars)
<1> DEFINE n == Len(bars)
           m == Len(more)
           lo == Coin.channel + 1
           AtBar(w, i, side) == VboAt(w, i, side)
           Sig(w, i, side) == Bracket(w, i, side, 12, 25)
<1>0. /\ DOMAIN bars = 1..n /\ n \in Nat /\ DOMAIN more = 1..m /\ m \in Nat /\ n <= m
      /\ \A j \in DOMAIN bars : more[j] = bars[j]
      /\ lo \in Nat /\ lo >= 2
  BY FramesAre, CoinsAre
<1>1. \A x : x \in VboEntries(bars) <=> \E i \in lo..n, side \in Sides : AtBar(bars, i, side) /\ x = Sig(bars, i, side)
  <2>1. ASSUME NEW x \in VboEntries(bars)
        PROVE  \E i \in lo..n, side \in Sides : AtBar(bars, i, side) /\ x = Sig(bars, i, side)
    <3>1. PICK p \in (lo..n) \X Sides : AtBar(bars, p[1], p[2]) /\ x = Sig(bars, p[1], p[2])
      BY DEF VboEntries, VboAt
    <3>2. p[1] \in lo..n /\ p[2] \in Sides
      OBVIOUS
    <3> HIDE DEF AtBar, Sig
    <3>3. QED
      BY <3>1, <3>2
  <2>2. ASSUME NEW i \in lo..n, NEW side \in Sides, AtBar(bars, i, side) PROVE Sig(bars, i, side) \in VboEntries(bars)
    <3>1. PICK p \in (lo..n) \X Sides : p[1] = i /\ p[2] = side
      <4>1. <<i, side>> \in (lo..n) \X Sides /\ <<i, side>>[1] = i /\ <<i, side>>[2] = side
        OBVIOUS
      <4>2. QED
        BY <4>1
    <3>2. AtBar(bars, p[1], p[2])
      BY <2>2, <3>1
    <3>3. Sig(bars, p[1], p[2]) \in VboEntries(bars)
      BY <3>2 DEF VboEntries, VboAt
    <3>4. QED
      BY <3>1, <3>3
  <2>3. QED
    BY <2>1, <2>2
<1>2. \A x : x \in VboEntries(more) <=> \E i \in lo..m, side \in Sides : AtBar(more, i, side) /\ x = Sig(more, i, side)
  <2>1. ASSUME NEW x \in VboEntries(more)
        PROVE  \E i \in lo..m, side \in Sides : AtBar(more, i, side) /\ x = Sig(more, i, side)
    <3>1. PICK p \in (lo..m) \X Sides : AtBar(more, p[1], p[2]) /\ x = Sig(more, p[1], p[2])
      BY DEF VboEntries, VboAt
    <3>2. p[1] \in lo..m /\ p[2] \in Sides
      OBVIOUS
    <3> HIDE DEF AtBar, Sig
    <3>3. QED
      BY <3>1, <3>2
  <2>2. ASSUME NEW i \in lo..m, NEW side \in Sides, AtBar(more, i, side) PROVE Sig(more, i, side) \in VboEntries(more)
    <3>1. PICK p \in (lo..m) \X Sides : p[1] = i /\ p[2] = side
      <4>1. <<i, side>> \in (lo..m) \X Sides /\ <<i, side>>[1] = i /\ <<i, side>>[2] = side
        OBVIOUS
      <4>2. QED
        BY <4>1
    <3>2. AtBar(more, p[1], p[2])
      BY <2>2, <3>1
    <3>3. Sig(more, p[1], p[2]) \in VboEntries(more)
      BY <3>2 DEF VboEntries, VboAt
    <3>4. QED
      BY <3>1, <3>3
  <2>3. QED
    BY <2>1, <2>2
<1>3. ASSUME NEW i \in lo..n, NEW side \in Sides
      PROVE  /\ AtBar(more, i, side) <=> AtBar(bars, i, side)
             /\ AtBar(bars, i, side) => Sig(more, i, side) = Sig(bars, i, side)
  <2>1. i \in DOMAIN bars /\ i - 1 \in DOMAIN bars /\ i >= lo /\ i >= 2
    BY <1>0
  <2>2. more[i] = bars[i] /\ more[i - 1] = bars[i - 1] /\ Grown(bars, more)
    BY <1>0, <2>1 DEF Longer
  <2>3. /\ ChannelTop(more, i, side) = ChannelTop(bars, i, side)
        /\ HasRange(more, i) <=> HasRange(bars, i)
        /\ HasRange(bars, i) => RangeTotal(more, i) = RangeTotal(bars, i)
    BY <2>1, <2>2, ChannelStays, HasRangeStays
  <2>4. VboAt(more, i, side) <=> VboAt(bars, i, side)
    BY <2>2, <2>3 DEF VboAt, Close
  <2>5. VboAt(bars, i, side) => Bracket(more, i, side, 12, 25) = Bracket(bars, i, side, 12, 25)
    BY <2>2, <2>3 DEF VboAt, Bracket
  <2>6. QED
    BY <2>4, <2>5
<1>4. ASSUME NEW i \in lo..m, NEW side \in Sides PROVE Sig(more, i, side).entry = i + 1
  BY BracketEnters
<1> DEFINE F == VboEntries(bars)
           G == VboEntries(more)
<1> HIDE DEF F, G, n, m, lo, AtBar, Sig
<1>5. ASSUME NEW x \in F PROVE x \in G /\ x.entry <= n + 1
  <2>1. PICK i \in lo..n, side \in Sides : AtBar(bars, i, side) /\ x = Sig(bars, i, side)
    BY <1>1 DEF F
  <2>2. i \in lo..m /\ i + 1 <= n + 1 /\ AtBar(more, i, side) /\ x = Sig(more, i, side)
    BY <1>0, <1>3, <2>1
  <2>3. x.entry = i + 1
    BY <1>4, <2>2
  <2>4. QED
    BY <1>2, <2>2, <2>3 DEF G
<1>6. ASSUME NEW x \in G, x.entry <= n + 1 PROVE x \in F
  <2>1. PICK i \in lo..m, side \in Sides : AtBar(more, i, side) /\ x = Sig(more, i, side)
    BY <1>2 DEF G
  <2>2. i + 1 <= n + 1
    BY <1>4, <1>6, <2>1
  <2>3. i \in lo..n
    BY <1>0, <2>2
  <2>4. AtBar(bars, i, side) /\ x = Sig(bars, i, side)
    BY <1>3, <2>1, <2>3
  <2>5. QED
    BY <1>1, <2>3, <2>4 DEF F
<1>7. QED
  BY <1>5, <1>6 DEF UpTo, F, G, n

\* The pokes beyond the channel.
LEMMA PokeCut ==
    ASSUME NEW bars, NEW more, Longer(bars, more)
    PROVE  UpTo(SweepReversals(more), Len(bars) + 1) = SweepReversals(bars)
<1> DEFINE n == Len(bars)
           m == Len(more)
           lo == Coin.channel + 1
           AtBar(w, i, side) == PokeAt(w, i, side)
           Sig(w, i, side) == PokeSignal(w, i, side)
<1>0. /\ DOMAIN bars = 1..n /\ n \in Nat /\ DOMAIN more = 1..m /\ m \in Nat /\ n <= m
      /\ \A j \in DOMAIN bars : more[j] = bars[j]
      /\ lo \in Nat /\ lo >= 2
  BY FramesAre, CoinsAre
<1>1. \A x : x \in SweepReversals(bars) <=> \E i \in lo..n, side \in Sides : AtBar(bars, i, side) /\ x = Sig(bars, i, side)
  <2>1. ASSUME NEW x \in SweepReversals(bars)
        PROVE  \E i \in lo..n, side \in Sides : AtBar(bars, i, side) /\ x = Sig(bars, i, side)
    <3>1. PICK p \in (lo..n) \X Sides : AtBar(bars, p[1], p[2]) /\ x = Sig(bars, p[1], p[2])
      BY DEF SweepReversals, PokeAt
    <3>2. p[1] \in lo..n /\ p[2] \in Sides
      OBVIOUS
    <3> HIDE DEF AtBar, Sig
    <3>3. QED
      BY <3>1, <3>2
  <2>2. ASSUME NEW i \in lo..n, NEW side \in Sides, AtBar(bars, i, side) PROVE Sig(bars, i, side) \in SweepReversals(bars)
    <3>1. PICK p \in (lo..n) \X Sides : p[1] = i /\ p[2] = side
      <4>1. <<i, side>> \in (lo..n) \X Sides /\ <<i, side>>[1] = i /\ <<i, side>>[2] = side
        OBVIOUS
      <4>2. QED
        BY <4>1
    <3>2. AtBar(bars, p[1], p[2])
      BY <2>2, <3>1
    <3>3. Sig(bars, p[1], p[2]) \in SweepReversals(bars)
      BY <3>2 DEF SweepReversals, PokeAt
    <3>4. QED
      BY <3>1, <3>3
  <2>3. QED
    BY <2>1, <2>2
<1>2. \A x : x \in SweepReversals(more) <=> \E i \in lo..m, side \in Sides : AtBar(more, i, side) /\ x = Sig(more, i, side)
  <2>1. ASSUME NEW x \in SweepReversals(more)
        PROVE  \E i \in lo..m, side \in Sides : AtBar(more, i, side) /\ x = Sig(more, i, side)
    <3>1. PICK p \in (lo..m) \X Sides : AtBar(more, p[1], p[2]) /\ x = Sig(more, p[1], p[2])
      BY DEF SweepReversals, PokeAt
    <3>2. p[1] \in lo..m /\ p[2] \in Sides
      OBVIOUS
    <3> HIDE DEF AtBar, Sig
    <3>3. QED
      BY <3>1, <3>2
  <2>2. ASSUME NEW i \in lo..m, NEW side \in Sides, AtBar(more, i, side) PROVE Sig(more, i, side) \in SweepReversals(more)
    <3>1. PICK p \in (lo..m) \X Sides : p[1] = i /\ p[2] = side
      <4>1. <<i, side>> \in (lo..m) \X Sides /\ <<i, side>>[1] = i /\ <<i, side>>[2] = side
        OBVIOUS
      <4>2. QED
        BY <4>1
    <3>2. AtBar(more, p[1], p[2])
      BY <2>2, <3>1
    <3>3. Sig(more, p[1], p[2]) \in SweepReversals(more)
      BY <3>2 DEF SweepReversals, PokeAt
    <3>4. QED
      BY <3>1, <3>3
  <2>3. QED
    BY <2>1, <2>2
<1>3. ASSUME NEW i \in lo..n, NEW side \in Sides
      PROVE  /\ AtBar(more, i, side) <=> AtBar(bars, i, side)
             /\ AtBar(bars, i, side) => Sig(more, i, side) = Sig(bars, i, side)
  <2>1. i \in DOMAIN bars /\ i - 1 \in DOMAIN bars /\ i >= lo /\ i >= 2
    BY <1>0
  <2>2. more[i] = bars[i] /\ more[i - 1] = bars[i - 1] /\ Grown(bars, more)
    BY <1>0, <2>1 DEF Longer
  <2>3. /\ ChannelTop(more, i, side) = ChannelTop(bars, i, side)
        /\ MeanTotal(more, i) = MeanTotal(bars, i)
        /\ HasRange(more, i) <=> HasRange(bars, i)
        /\ HasRange(bars, i) => /\ RangeTotal(more, i) = RangeTotal(bars, i)
                                /\ TrendStrong(more, i) <=> TrendStrong(bars, i)
    BY <2>1, <2>2, ChannelStays, HasRangeStays, TrendStays
  <2>4. PokeAt(more, i, side) <=> PokeAt(bars, i, side)
    BY <2>2, <2>3 DEF PokeAt, Close
  <2>5. PokeAt(bars, i, side) => PokeSignal(more, i, side) = PokeSignal(bars, i, side)
    BY <2>2, <2>3 DEF PokeAt, PokeSignal
  <2>6. QED
    BY <2>4, <2>5
<1>4. ASSUME NEW i \in lo..m, NEW side \in Sides PROVE Sig(more, i, side).entry = i + 1
  BY EnterNext
<1> DEFINE F == SweepReversals(bars)
           G == SweepReversals(more)
<1> HIDE DEF F, G, n, m, lo, AtBar, Sig
<1>5. ASSUME NEW x \in F PROVE x \in G /\ x.entry <= n + 1
  <2>1. PICK i \in lo..n, side \in Sides : AtBar(bars, i, side) /\ x = Sig(bars, i, side)
    BY <1>1 DEF F
  <2>2. i \in lo..m /\ i + 1 <= n + 1 /\ AtBar(more, i, side) /\ x = Sig(more, i, side)
    BY <1>0, <1>3, <2>1
  <2>3. x.entry = i + 1
    BY <1>4, <2>2
  <2>4. QED
    BY <1>2, <2>2, <2>3 DEF G
<1>6. ASSUME NEW x \in G, x.entry <= n + 1 PROVE x \in F
  <2>1. PICK i \in lo..m, side \in Sides : AtBar(more, i, side) /\ x = Sig(more, i, side)
    BY <1>2 DEF G
  <2>2. i + 1 <= n + 1
    BY <1>4, <1>6, <2>1
  <2>3. i \in lo..n
    BY <1>0, <2>2
  <2>4. AtBar(bars, i, side) /\ x = Sig(bars, i, side)
    BY <1>3, <2>1, <2>3
  <2>5. QED
    BY <1>1, <2>3, <2>4 DEF F
<1>7. QED
  BY <1>5, <1>6 DEF UpTo, F, G, n

\* The drops.
LEMMA DropCut ==
    ASSUME NEW bars, NEW more, Longer(bars, more)
    PROVE  UpTo(DropEntries(more), Len(bars) + 1) = DropEntries(bars)
<1> DEFINE n == Len(bars)
           m == Len(more)
           AtBar(w, i, side) == side = -1 /\ CrossAt(w, i, side) /\ InNewYork(i)
           Sig(w, i, side) == Bracket(w, i, side, 15, 20)
<1>0. /\ DOMAIN bars = 1..n /\ n \in Nat /\ DOMAIN more = 1..m /\ m \in Nat /\ n <= m
      /\ \A j \in DOMAIN bars : more[j] = bars[j]
      /\ 2 \in Nat /\ 2 >= 2
  BY FramesAre, CoinsAre
<1>1. \A x : x \in DropEntries(bars) <=> \E i \in 2..n, side \in Sides : AtBar(bars, i, side) /\ x = Sig(bars, i, side)
  BY DEF DropEntries, Crossings, CrossAt, Sides
<1>2. \A x : x \in DropEntries(more) <=> \E i \in 2..m, side \in Sides : AtBar(more, i, side) /\ x = Sig(more, i, side)
  BY DEF DropEntries, Crossings, CrossAt, Sides
<1>3. ASSUME NEW i \in 2..n, NEW side \in Sides
      PROVE  /\ AtBar(more, i, side) <=> AtBar(bars, i, side)
             /\ AtBar(bars, i, side) => Sig(more, i, side) = Sig(bars, i, side)
  <2>1. i \in DOMAIN bars /\ i - 1 \in DOMAIN bars /\ i >= 2 /\ i >= 2
    BY <1>0
  <2>2. more[i] = bars[i] /\ more[i - 1] = bars[i - 1] /\ Grown(bars, more)
    BY <1>0, <2>1 DEF Longer
  <2>3. /\ \A s : CrossAt(more, i, s) <=> CrossAt(bars, i, s)
        /\ HasRange(bars, i) => RangeTotal(more, i) = RangeTotal(bars, i)
    BY <2>1, <2>2, CrossStays, HasRangeStays
  <2>4. CrossAt(more, i, side) <=> CrossAt(bars, i, side)
    BY <2>3
  <2>5. CrossAt(bars, i, side) => Bracket(more, i, side, 15, 20) = Bracket(bars, i, side, 15, 20)
    BY <2>2, <2>3 DEF CrossAt, Bracket
  <2>6. QED
    BY <2>4, <2>5
<1>4. ASSUME NEW i \in 2..m, NEW side \in Sides PROVE Sig(more, i, side).entry = i + 1
  BY BracketEnters
<1> DEFINE F == DropEntries(bars)
           G == DropEntries(more)
<1> HIDE DEF F, G, n, m, AtBar, Sig
<1>5. ASSUME NEW x \in F PROVE x \in G /\ x.entry <= n + 1
  <2>1. PICK i \in 2..n, side \in Sides : AtBar(bars, i, side) /\ x = Sig(bars, i, side)
    BY <1>1 DEF F
  <2>2. i \in 2..m /\ i + 1 <= n + 1 /\ AtBar(more, i, side) /\ x = Sig(more, i, side)
    BY <1>0, <1>3, <2>1
  <2>3. x.entry = i + 1
    BY <1>4, <2>2
  <2>4. QED
    BY <1>2, <2>2, <2>3 DEF G
<1>6. ASSUME NEW x \in G, x.entry <= n + 1 PROVE x \in F
  <2>1. PICK i \in 2..m, side \in Sides : AtBar(more, i, side) /\ x = Sig(more, i, side)
    BY <1>2 DEF G
  <2>2. i + 1 <= n + 1
    BY <1>4, <1>6, <2>1
  <2>3. i \in 2..n
    BY <1>0, <2>2
  <2>4. AtBar(bars, i, side) /\ x = Sig(bars, i, side)
    BY <1>3, <2>1, <2>3
  <2>5. QED
    BY <1>1, <2>3, <2>4 DEF F
<1>7. QED
  BY <1>5, <1>6 DEF UpTo, F, G, n

\* The fades of a deviation.
LEMMA FadeCut ==
    ASSUME NEW bars, NEW more, Longer(bars, more)
    PROVE  UpTo(FadeEntries(more), Len(bars) + 1) = FadeEntries(bars)
<1> DEFINE n == Len(bars)
           m == Len(more)
           AtBar(w, i, side) == CrossAt(w, i, side)
           Sig(w, i, side) == Bracket(w, i, -side, 20, 15)
<1>0. /\ DOMAIN bars = 1..n /\ n \in Nat /\ DOMAIN more = 1..m /\ m \in Nat /\ n <= m
      /\ \A j \in DOMAIN bars : more[j] = bars[j]
      /\ 2 \in Nat /\ 2 >= 2
  BY FramesAre, CoinsAre
<1>1. \A x : x \in FadeEntries(bars) <=> \E i \in 2..n, side \in Sides : AtBar(bars, i, side) /\ x = Sig(bars, i, side)
  BY DEF FadeEntries, Crossings, CrossAt
<1>2. \A x : x \in FadeEntries(more) <=> \E i \in 2..m, side \in Sides : AtBar(more, i, side) /\ x = Sig(more, i, side)
  BY DEF FadeEntries, Crossings, CrossAt
<1>3. ASSUME NEW i \in 2..n, NEW side \in Sides
      PROVE  /\ AtBar(more, i, side) <=> AtBar(bars, i, side)
             /\ AtBar(bars, i, side) => Sig(more, i, side) = Sig(bars, i, side)
  <2>1. i \in DOMAIN bars /\ i - 1 \in DOMAIN bars /\ i >= 2 /\ i >= 2
    BY <1>0
  <2>2. more[i] = bars[i] /\ more[i - 1] = bars[i - 1] /\ Grown(bars, more)
    BY <1>0, <2>1 DEF Longer
  <2>3. /\ \A s : CrossAt(more, i, s) <=> CrossAt(bars, i, s)
        /\ HasRange(bars, i) => RangeTotal(more, i) = RangeTotal(bars, i)
    BY <2>1, <2>2, CrossStays, HasRangeStays
  <2>4. CrossAt(more, i, side) <=> CrossAt(bars, i, side)
    BY <2>3
  <2>5. CrossAt(bars, i, side) => Bracket(more, i, -side, 20, 15) = Bracket(bars, i, -side, 20, 15)
    BY <2>2, <2>3 DEF CrossAt, Bracket
  <2>6. QED
    BY <2>4, <2>5
<1>4. ASSUME NEW i \in 2..m, NEW side \in Sides PROVE Sig(more, i, side).entry = i + 1
  BY BracketEnters
<1> DEFINE F == FadeEntries(bars)
           G == FadeEntries(more)
<1> HIDE DEF F, G, n, m, AtBar, Sig
<1>5. ASSUME NEW x \in F PROVE x \in G /\ x.entry <= n + 1
  <2>1. PICK i \in 2..n, side \in Sides : AtBar(bars, i, side) /\ x = Sig(bars, i, side)
    BY <1>1 DEF F
  <2>2. i \in 2..m /\ i + 1 <= n + 1 /\ AtBar(more, i, side) /\ x = Sig(more, i, side)
    BY <1>0, <1>3, <2>1
  <2>3. x.entry = i + 1
    BY <1>4, <2>2
  <2>4. QED
    BY <1>2, <2>2, <2>3 DEF G
<1>6. ASSUME NEW x \in G, x.entry <= n + 1 PROVE x \in F
  <2>1. PICK i \in 2..m, side \in Sides : AtBar(more, i, side) /\ x = Sig(more, i, side)
    BY <1>2 DEF G
  <2>2. i + 1 <= n + 1
    BY <1>4, <1>6, <2>1
  <2>3. i \in 2..n
    BY <1>0, <2>2
  <2>4. AtBar(bars, i, side) /\ x = Sig(bars, i, side)
    BY <1>3, <2>1, <2>3
  <2>5. QED
    BY <1>1, <2>3, <2>4 DEF F
<1>7. QED
  BY <1>5, <1>6 DEF UpTo, F, G, n

\* The swings back to the mean.
LEMMA RevertCut ==
    ASSUME NEW bars, NEW more, Longer(bars, more), mem.regime \notin WeeklyGates
    PROVE  UpTo(RevertEntries(more), Len(bars) + 1) = RevertEntries(bars)
<1> DEFINE n == Len(bars)
           m == Len(more)
           AtBar(w, i, side) == CrossAt(w, i, side) /\ ~Blocked(w, i, -side)
           Sig(w, i, side) == RevertSignal(w, i, side)
<1>0. /\ DOMAIN bars = 1..n /\ n \in Nat /\ DOMAIN more = 1..m /\ m \in Nat /\ n <= m
      /\ \A j \in DOMAIN bars : more[j] = bars[j]
      /\ 2 \in Nat /\ 2 >= 2
  BY FramesAre, CoinsAre
<1>1. \A x : x \in RevertEntries(bars) <=> \E i \in 2..n, side \in Sides : AtBar(bars, i, side) /\ x = Sig(bars, i, side)
  BY DEF RevertEntries, Crossings, CrossAt
<1>2. \A x : x \in RevertEntries(more) <=> \E i \in 2..m, side \in Sides : AtBar(more, i, side) /\ x = Sig(more, i, side)
  BY DEF RevertEntries, Crossings, CrossAt
<1>3. ASSUME NEW i \in 2..n, NEW side \in Sides
      PROVE  /\ AtBar(more, i, side) <=> AtBar(bars, i, side)
             /\ AtBar(bars, i, side) => Sig(more, i, side) = Sig(bars, i, side)
  <2>1. i \in DOMAIN bars /\ i - 1 \in DOMAIN bars /\ i >= 2 /\ i >= 2
    BY <1>0
  <2>2. more[i] = bars[i] /\ more[i - 1] = bars[i - 1] /\ Grown(bars, more)
    BY <1>0, <2>1 DEF Longer
  <2>3. /\ \A s : CrossAt(more, i, s) <=> CrossAt(bars, i, s)
        /\ HasRange(bars, i) => RangeTotal(more, i) = RangeTotal(bars, i)
    BY <2>1, <2>2, CrossStays, HasRangeStays
  <2>a. CrossAt(bars, i, side) => HasRange(bars, i) /\ HasZ(bars, i)
    BY DEF CrossAt, Crosses
  <2>4. (CrossAt(more, i, side) /\ ~Blocked(more, i, -side)) <=> (CrossAt(bars, i, side) /\ ~Blocked(bars, i, -side))
    BY <2>1, <2>2, <2>3, <2>a, BlockStays
  <2>5. CrossAt(bars, i, side) => RevertSignal(more, i, side) = RevertSignal(bars, i, side)
    BY <2>1, <2>2, <2>3, <2>a, DeviationStays DEF RevertSignal
  <2>6. QED
    BY <2>4, <2>5
<1>4. ASSUME NEW i \in 2..m, NEW side \in Sides PROVE Sig(more, i, side).entry = i + 1
  BY EnterNext
<1> DEFINE F == RevertEntries(bars)
           G == RevertEntries(more)
<1> HIDE DEF F, G, n, m, AtBar, Sig
<1>5. ASSUME NEW x \in F PROVE x \in G /\ x.entry <= n + 1
  <2>1. PICK i \in 2..n, side \in Sides : AtBar(bars, i, side) /\ x = Sig(bars, i, side)
    BY <1>1 DEF F
  <2>2. i \in 2..m /\ i + 1 <= n + 1 /\ AtBar(more, i, side) /\ x = Sig(more, i, side)
    BY <1>0, <1>3, <2>1
  <2>3. x.entry = i + 1
    BY <1>4, <2>2
  <2>4. QED
    BY <1>2, <2>2, <2>3 DEF G
<1>6. ASSUME NEW x \in G, x.entry <= n + 1 PROVE x \in F
  <2>1. PICK i \in 2..m, side \in Sides : AtBar(more, i, side) /\ x = Sig(more, i, side)
    BY <1>2 DEF G
  <2>2. i + 1 <= n + 1
    BY <1>4, <1>6, <2>1
  <2>3. i \in 2..n
    BY <1>0, <2>2
  <2>4. AtBar(bars, i, side) /\ x = Sig(bars, i, side)
    BY <1>3, <2>1, <2>3
  <2>5. QED
    BY <1>1, <2>3, <2>4 DEF F
<1>7. QED
  BY <1>5, <1>6 DEF UpTo, F, G, n

\* Whatever the generator, outside the weekly gates.
LEMMA EntriesCut ==
    ASSUME NEW bars, NEW more, Longer(bars, more), mem.generator \in Generators, mem.regime \notin WeeklyGates
    PROVE  UpTo(CoinEntries(more), Len(bars) + 1) = CoinEntries(bars)
<1>1. CASE mem.generator = "orb"
  BY <1>1, OrbCut DEF CoinEntries
<1>2. CASE mem.generator = "vbo"
  BY <1>2, VboCut DEF CoinEntries
<1>3. CASE mem.generator = "drop"
  BY <1>3, DropCut DEF CoinEntries
<1>4. CASE mem.generator = "sweep"
  BY <1>4, PokeCut DEF CoinEntries
<1>5. CASE mem.generator = "zrev"
  BY <1>5, RevertCut DEF CoinEntries
<1>6. CASE mem.generator = "both"
  <2>1. /\ CoinEntries(bars) = SweepReversals(bars) \cup RevertEntries(bars)
        /\ CoinEntries(more) = SweepReversals(more) \cup RevertEntries(more)
    BY <1>6 DEF CoinEntries
  <2>2. /\ UpTo(SweepReversals(more), Len(bars) + 1) = SweepReversals(bars)
        /\ UpTo(RevertEntries(more), Len(bars) + 1) = RevertEntries(bars)
    BY PokeCut, RevertCut
  <2>3. QED
    BY <2>1, <2>2 DEF UpTo
<1>7. CASE mem.generator = "zmr"
  BY <1>7, FadeCut DEF CoinEntries
<1>8. QED
  BY <1>1, <1>2, <1>3, <1>4, <1>5, <1>6, <1>7 DEF Generators

\* At the start there are no entries.
LEMMA FrameBegins == InitCoin => FrameInv
<1> SUFFICES ASSUME InitCoin PROVE FrameInv
  OBVIOUS
<1>1. CoinInv
  BY CoinBegins
<1>2. PICK g \in Generators : \E regime \in Regimes[g] : StartStudy("crypto", [generator |-> g, regime |-> regime])
  BY DEF InitCoin
<1>3. PICK regime \in Regimes[g] : StartStudy("crypto", [generator |-> g, regime |-> regime])
  BY <1>2
<1> DEFINE memory == [generator |-> g, regime |-> regime]
<1>4. DOMAIN memory = {"generator", "regime"} /\ StartStudy("crypto", memory)
  BY <1>3
<1> HIDE DEF memory
<1>5. tape = <<>> /\ out = <<>> /\ "times" \in DOMAIN mem /\ mem.times \in Times["crypto"]
  BY <1>4, Started
<1>6. Found(CoinEntries(tape), tape)
  BY <1>1, CoinFound DEF CoinInv
<1>7. DOMAIN tape = {} /\ Range(out) = {}
  BY <1>5 DEF Range
<1>8. CoinEntries(tape) = {}
  BY <1>6, <1>7 DEF Found, CoinAt
<1>9. Len(tape) <= Length["crypto"]
  BY <1>5, FrameIsSorted DEF TimedStudies
<1>10. QED
  BY <1>1, <1>5, <1>7, <1>8, <1>9 DEF FrameInv

\* A longer frame gives the same entries for the bars that the shorter one had.
LEMMA FrameGoesOn == FrameInv /\ Generate => FrameInv' /\ FrameIsCausal
<1> SUFFICES ASSUME FrameInv, Generate PROVE FrameInv' /\ FrameIsCausal
  OBVIOUS
<1>1. CoinInv' /\ CoinInv
  BY CoinGoesOn DEF FrameInv
<1>2. mem' = mem /\ out' = SetToSeq(CoinEntries(tape'))
  BY DEF Generate
<1>3. tape' \in Seq(Ohlc) /\ mem.generator \in Generators
  BY <1>1, <1>2 DEF CoinInv
<1>4. Range(out') = CoinEntries(tape')
  BY <1>2, <1>3, CoinFound, SeqOfSet DEF Found
<1>5. (CoinEntries(tape))' = CoinEntries(tape')
  <2>1. (OrbEntries(tape))' = OrbEntries(tape')
    BY <1>2 DEF OrbEntries, OrbSignal, OpeningTop, OpeningWidth, Opening, DayOf, Hour, Slot
  <2>2. (VboEntries(tape))' = VboEntries(tape') /\ (DropEntries(tape))' = DropEntries(tape')
    BY <1>2 DEF VboEntries, DropEntries, InNewYork, Hour, Slot
  <2>3. (SweepReversals(tape))' = SweepReversals(tape')
    BY <1>2 DEF SweepReversals
  <2>4. (RevertEntries(tape))' = RevertEntries(tape')
    BY <1>2 DEF RevertEntries, Blocked, WeeklyState, Weeks, Week, Slot
  <2>5. QED
    BY <1>2, <2>1, <2>2, <2>3, <2>4 DEF CoinEntries
<1>6. Longer(tape, tape')
  <2>1. /\ Len(tape) < Length["crypto"] /\ tape \in Seq(Ohlc) /\ Len(tape) \in Nat /\ Len(tape') = Len(tape) + 1
        /\ \A i \in DOMAIN tape : i \in DOMAIN tape' /\ tape'[i] = tape[i]
    BY <1>1, NextTape DEF CoinInv, Generate, NextBar, PriceStudies
  <2>2. Length["crypto"] \in Nat
    BY FrameIsSorted DEF TimedStudies
  <2>3. QED
    BY <1>3, <2>1, <2>2 DEF Longer, Grown, FrameInv
<1>7. FrameInv'
  <2>1. Len(tape') <= Length["crypto"]
    BY <1>6 DEF Longer
  <2>2. QED
    BY <1>1, <1>2, <1>4, <1>5, <2>1 DEF FrameInv
<1>8. FrameIsCausal
  <2> SUFFICES ASSUME mem.regime \notin WeeklyGates
               PROVE  {s \in Range(out') : s.entry <= Len(tape) + 1} = Range(out)
    BY DEF FrameIsCausal
  <2>1. UpTo(CoinEntries(tape'), Len(tape) + 1) = CoinEntries(tape)
    BY <1>3, <1>6, EntriesCut
  <2>2. QED
    BY <1>4, <2>1 DEF UpTo, FrameInv
<1>9. QED
  BY <1>7, <1>8

-----------------------------------------------------------------------------
(***************************************************************************)
(* The detectors do not look ahead.                                        *)
(***************************************************************************)
\* Two tapes that differ in their last bar, and not in its open.
Twins(a, b) ==
    /\ a \in Seq(Ohlc) /\ b \in Seq(Ohlc)
    /\ Len(a) > 0 /\ Len(b) = Len(a)
    /\ \A j \in 1..(Len(a) - 1) : a[j] = b[j]
    /\ a[Len(a)].o = b[Len(a)].o

\* What twins have in common, for the bar that a detector decides on.
LEMMA TwinsAgree ==
    ASSUME NEW a, NEW b, Twins(a, b), NEW k, k = Len(a) - 1
    PROVE  /\ k \in Nat /\ Len(a) = k + 1 /\ Len(b) = k + 1
           /\ DOMAIN a = 1..(k + 1) /\ DOMAIN b = 1..(k + 1)
           /\ \A j \in 1..k : a[j] = b[j] /\ a[j] \in Ohlc
           /\ a[k + 1].o = b[k + 1].o
BY DEF Twins

\* Asia.
LEMMA AsiaIsBlind ==
    ASSUME NEW a, NEW b, Twins(a, b)
    PROVE  AsiaAfter(a).trade = AsiaAfter(b).trade
<1> DEFINE k == Len(a) - 1
<1>1. /\ k \in Nat /\ Len(a) = k + 1 /\ Len(b) - 1 = k
      /\ \A j \in 1..k : a[j] = b[j]
      /\ a[k + 1].o = b[k + 1].o
  BY TwinsAgree
<1>2. k = Len(a) - 1
  OBVIOUS
<1> HIDE DEF k
<1>3. CASE k = 0
  BY <1>1, <1>2, <1>3 DEF AsiaAfter
<1>4. CASE k # 0
  <2>1. a[k] = b[k]
    BY <1>1, <1>4
  <2>2. \A side : AsiaLow(a, k, side) = AsiaLow(b, k, side) /\ AsiaHigh(a, k, side) = AsiaHigh(b, k, side)
    <3> SUFFICES ASSUME NEW side
                 PROVE  AsiaLow(a, k, side) = AsiaLow(b, k, side) /\ AsiaHigh(a, k, side) = AsiaHigh(b, k, side)
      OBVIOUS
    <3>1. \A j \in AsiaBars(k) : a[j] = b[j]
      BY <1>1 DEF AsiaBars
    <3>2. {Facing(a[j], side).l : j \in AsiaBars(k)} = {Facing(b[j], side).l : j \in AsiaBars(k)}
      BY <3>1
    <3>3. {Facing(a[j], side).h : j \in AsiaBars(k)} = {Facing(b[j], side).h : j \in AsiaBars(k)}
      BY <3>1
    <3>4. QED
      BY <3>2, <3>3 DEF AsiaLow, AsiaHigh
  <2>3. \A side : ClosesOut(a, k, side) = ClosesOut(b, k, side)
    BY <2>1, <2>2 DEF ClosesOut
  <2>4. \A side, extreme : AsiaTrade(a, k, side, extreme) = AsiaTrade(b, k, side, extreme)
    BY <1>1, <2>2 DEF AsiaTrade
  <2>5. \A m : AsiaBar(a, k, m).trade = AsiaBar(b, k, m).trade
    <3> SUFFICES ASSUME NEW m PROVE AsiaBar(a, k, m).trade = AsiaBar(b, k, m).trade
      OBVIOUS
    <3>1. ClosesOut(a, k, m.side) = ClosesOut(b, k, m.side)
      BY <2>3
    <3>2. AsiaTrade(a, k, m.side, Extreme(a[k], m)) = AsiaTrade(b, k, m.side, Extreme(b[k], m))
      BY <2>1, <2>4
    <3>3. QED
      BY <3>1, <3>2 DEF AsiaBar
  <2>6. QED
    BY <1>1, <1>2, <1>4, <2>5 DEF AsiaAfter
<1>5. QED
  BY <1>3, <1>4

\* A bar of the higher time frame is the same when the bars that it is made of are.
LEMMA HigherBarAgrees ==
    ASSUME NEW a, NEW b, NEW n \in Nat, 1..n \subseteq DOMAIN a, 1..n \subseteq DOMAIN b,
           \A j \in 1..n : a[j] = b[j], NEW j \in 1..(n \div 2)
    PROVE  HigherBar(a, j) = HigherBar(b, j)
<1> DEFINE both == {2 * j - 1, 2 * j}
<1>1. j \in Nat /\ j >= 1 /\ 2 * j <= n
  OBVIOUS
<1>2. both \cap DOMAIN a = both /\ both \cap DOMAIN b = both
  BY <1>1
<1>3. \A i \in both : a[i] = b[i]
  BY <1>1
<1>4. Max(both) \in both
  <2> DEFINE x == 2 * j - 1
             y == 2 * j
  <2>1. x \in Int /\ y \in Int
    BY <1>1
  <2> HIDE DEF x, y
  <2>2. Max({x, y}) \in {x, y}
    BY <2>1, MaxOfTwo
  <2>3. QED
    BY <2>2 DEF x, y
<1>5. 2 * j - 1 \in both
  OBVIOUS
<1> HIDE DEF both
<1>6. {a[i].h : i \in both} = {b[i].h : i \in both} /\ {a[i].l : i \in both} = {b[i].l : i \in both}
  BY <1>3
<1>7. a[Max(both)] = b[Max(both)] /\ a[2 * j - 1] = b[2 * j - 1]
  BY <1>3, <1>4, <1>5
<1> DEFINE G(o, hs, ls, c) == [o |-> o, h |-> Max(hs), l |-> Min(ls), c |-> c]
<1>8. HigherBar(a, j) = G(a[2 * j - 1].o, {a[i].h : i \in both}, {a[i].l : i \in both}, a[Max(both)].c)
  BY <1>2 DEF HigherBar, both
<1>9. HigherBar(b, j) = G(b[2 * j - 1].o, {b[i].h : i \in both}, {b[i].l : i \in both}, b[Max(both)].c)
  BY <1>2 DEF HigherBar, both
<1> HIDE DEF G
<1>10. QED
  BY <1>6, <1>7, <1>8, <1>9

\* The bars of the higher time frame that are over.
LEMMA HigherIsBlind ==
    ASSUME NEW a, NEW b, NEW k \in Nat, DOMAIN a = 1..(k + 1), DOMAIN b = 1..(k + 1),
           \A j \in 1..k : a[j] = b[j]
    PROVE  HigherClosed(a, k) = HigherClosed(b, k)
<1>1. ASSUME NEW j \in 1..((k - 1) \div 2) PROVE HigherBar(a, j) = HigherBar(b, j)
  <2>1. j \in 1..(k \div 2) /\ 1..k \subseteq DOMAIN a /\ 1..k \subseteq DOMAIN b
    OBVIOUS
  <2>2. QED
    BY <2>1, HigherBarAgrees
<1>2. [j \in 1..((k - 1) \div 2) |-> HigherBar(a, j)] = [j \in 1..((k - 1) \div 2) |-> HigherBar(b, j)]
  BY <1>1
<1>3. QED
  BY <1>2 DEF HigherClosed

\* The killzones.
LEMMA OteIsBlind ==
    ASSUME NEW a, NEW b, Twins(a, b)
    PROVE  OteFinds(a) = OteFinds(b)
<1> DEFINE k == Len(a) - 1
<1>1. /\ k \in Nat /\ Len(a) - 1 = k /\ Len(b) - 1 = k
      /\ DOMAIN a = 1..(k + 1) /\ DOMAIN b = 1..(k + 1)
      /\ \A j \in 1..k : a[j] = b[j]
      /\ a[k + 1].o = b[k + 1].o
  BY TwinsAgree
<1> HIDE DEF k
<1>2. CASE k = 0
  BY <1>1, <1>2 DEF OteFinds
<1>3. CASE k # 0
  <2> DEFINE G(hours, bar, o) ==
        LET side == BreakOfStructure(hours)
            open == side * o
            x == Facing(bar, side)
            Tagged(leg) == Overlap(x.l, x.h, OteZone(leg))
        IN  IF k = 0 THEN <<>>
            ELSE IF ~IsKillzone(k) \/ side = 0 THEN <<>>
            ELSE SetToSeq({Signal(side, k + 1, side * (leg.lo - OteBuffer), side * leg.hi, k) :
                    leg \in {g \in SwingLeg(hours, side) :
                        /\ g.hi - g.lo >= OteMinLeg
                        /\ Tagged(g)
                        /\ Confluent(hours, side, OteZone(g))
                        /\ WorthIt(g.lo - OteBuffer, open, g.hi)}})
  <2>1. OteFinds(a) = G(VisibleHours(a, k), a[k], a[k + 1].o)
    BY <1>1 DEF OteFinds
  <2>2. OteFinds(b) = G(VisibleHours(b, k), b[k], b[k + 1].o)
    BY <1>1 DEF OteFinds
  <2> HIDE DEF G
  <2>3. VisibleHours(a, k) = VisibleHours(b, k)
    BY <1>1, HigherIsBlind DEF VisibleHours
  <2>4. a[k] = b[k]
    BY <1>1, <1>3
  <2>5. QED
    BY <1>1, <2>1, <2>2, <2>3, <2>4
<1>4. QED
  BY <1>2, <1>3

\* The range of a bar that is the same, after one that is.
LEMMA RangeAgrees ==
    ASSUME NEW a, NEW b, NEW k \in Nat, \A j \in 1..k : a[j] = b[j], NEW j \in 1..k
    PROVE  TrueRange(a, j) = TrueRange(b, j)
<1>1. CASE j = 1
  BY <1>1 DEF TrueRange
<1>2. CASE j # 1
  <2>1. a[j] = b[j] /\ a[j - 1] = b[j - 1]
    BY <1>2
  <2>2. QED
    BY <1>2, <2>1 DEF TrueRange
<1>3. QED
  BY <1>1, <1>2

\* Three average ranges.
LEMMA SigmaIsBlind ==
    ASSUME NEW a, NEW b, Twins(a, b)
    PROVE  SigmaFinds(a) = SigmaFinds(b)
<1> DEFINE k == Len(a) - 1
<1>1. /\ k \in Nat /\ Len(a) - 1 = k /\ Len(b) - 1 = k
      /\ \A j \in 1..k : a[j] = b[j]
      /\ a[k + 1].o = b[k + 1].o
  BY TwinsAgree
<1> HIDE DEF k
<1>2. CASE k <= AtrLength
  BY <1>1, <1>2 DEF SigmaFinds
<1>3. CASE ~(k <= AtrLength)
  <2>1. k > AtrLength /\ AtrLength \in Nat /\ k >= 2 /\ k - 1 \in 1..k /\ k \in 1..k
    BY <1>1, <1>3, SomeAverage
  <2>2. RangesBefore(a, k) = RangesBefore(b, k)
    <3>1. \A j \in 1..(k - 1) : TrueRange(a, j) = TrueRange(b, j)
      BY <1>1, RangeAgrees
    <3>2. [j \in 1..(k - 1) |-> TrueRange(a, j)] = [j \in 1..(k - 1) |-> TrueRange(b, j)]
      BY <3>1
    <3>3. QED
      BY <3>2 DEF RangesBefore, SumOver
  <2>3. TrueRange(a, k - 1) = TrueRange(b, k - 1)
    BY <1>1, <2>1, RangeAgrees
  <2>4. AverageAt(a, k) = AverageAt(b, k)
    BY <2>2, <2>3 DEF AverageAt, Smoothed
  <2>5. a[k] = b[k]
    BY <1>1, <2>1
  <2>6. \A average : SigmaSignals(a, k, average) = SigmaSignals(b, k, average)
    BY <1>1, <2>5 DEF SigmaSignals
  <2>7. QED
    BY <1>1, <2>4, <2>6 DEF SigmaFinds
<1>4. QED
  BY <1>2, <1>3

\* The fades of a spike: nothing but the open is used of the bar that they enter at.
FadesOn(bars, s) == {Fade(bars, s, side, event) : side \in FadeSides(bars, s), event \in EventsOf(s)}

\* They agree when what they look at does.
LEMMA FadesAgree ==
    ASSUME NEW a, NEW b, NEW s \in Nat, s >= 2, \A j \in 1..(s + 1) : a[j] = b[j] /\ a[j] \in Ohlc,
           a[s + 2].o = b[s + 2].o
    PROVE  FadesOn(a, s) = FadesOn(b, s)
<1>1. a[s] = b[s] /\ a[s - 1] = b[s - 1]
  OBVIOUS
<1> DEFINE first == Max({1, s - NewsLookback})
<1>2. first \in Nat /\ first >= 1
  <2>1. 1 \in Int /\ s - NewsLookback \in Int
    BY NewsIsScheduled
  <2>2. first \in Int /\ 1 <= first
    BY <2>1, MaxOfTwo
  <2> HIDE DEF first
  <2>3. QED
    BY <2>2
<1> HIDE DEF first
<1>3. SubSeq(a, first, s - 1) = SubSeq(b, first, s - 1)
  <2>1. \A i \in first..(s - 1) : a[i] \in Ohlc /\ b[i] = a[i]
    BY <1>2
  <2>2. s - 1 \in Int /\ first \in Int
    BY <1>2
  <2>3. QED
    BY <2>1, <2>2, PartsAgree
<1>4. \A side : Spiked(a, s, side) = Spiked(b, s, side)
  BY <1>1, <1>3 DEF Spiked, first
<1>5. \A side : FadeFair(a, s, side) = FadeFair(b, s, side)
  BY <1>1 DEF FadeFair
<1>6. FadeSides(a, s) = FadeSides(b, s)
  <2>1. {side \in Sides : Spiked(a, s, side) /\ FadeFair(a, s, side)}
            = {side \in Sides : Spiked(b, s, side) /\ FadeFair(b, s, side)}
    BY <1>4, <1>5
  <2>2. QED
    BY <2>1 DEF FadeSides
<1>7. \A side, event : Fade(a, s, side, event) = Fade(b, s, side, event)
  BY <1>1 DEF Fade
<1>8. QED
  BY <1>6, <1>7 DEF FadesOn

\* So the fader sees nothing else of its last bar.
LEMMA NewsIsBlind ==
    ASSUME NEW a, NEW b, Twins(a, b)
    PROVE  NewsFinds(a) = NewsFinds(b)
<1> DEFINE k == Len(a) - 1
           s == Len(a) - 2
<1>1. /\ k \in Nat /\ Len(a) - 2 = s /\ Len(b) - 2 = s /\ s + 1 = k
      /\ \A j \in 1..k : a[j] = b[j] /\ a[j] \in Ohlc
      /\ a[k + 1].o = b[k + 1].o
  BY TwinsAgree
<1>2. s \in Int
  BY <1>1
<1> HIDE DEF k, s
<1> DEFINE Give(x, n) == IF n < 2 THEN <<>> ELSE SetToSeq(FadesOn(x, n))
<1>3. NewsFinds(a) = Give(a, Len(a) - 2) /\ NewsFinds(b) = Give(b, Len(b) - 2)
  BY DEF NewsFinds, FadesOn
<1>4. CASE s < 2
  BY <1>1, <1>3, <1>4
<1>5. CASE ~(s < 2)
  <2>1. s \in Nat /\ s >= 2 /\ s + 2 = k + 1 /\ s + 1 = k
    BY <1>1, <1>2, <1>5
  <2>2. FadesOn(a, s) = FadesOn(b, s)
    BY <1>1, <2>1, FadesAgree
  <2>3. Give(a, s) = Give(b, s)
    BY <2>2
  <2> HIDE DEF Give
  <2>4. QED
    BY <1>1, <1>3, <2>3
<1>6. QED
  BY <1>4, <1>5

\* The ranges and the order blocks of a bar are those of the bars up to it.
LEMMA BlocksAgree ==
    ASSUME NEW a, NEW b, NEW k \in Nat, \A j \in 1..k : a[j] = b[j], k >= FirstDecision
    PROVE  RangeSum(a, k) = RangeSum(b, k) /\ Blocks(a, k) = Blocks(b, k) /\ a[k] = b[k] /\ k >= 1
<1>1. k \in Nat /\ \A j \in 1..k : a[j] = b[j]
  OBVIOUS
<1>3. ~(k < FirstDecision)
  BY DecisionsLookBack
<1>4. QED
  <2>1. /\ SwingLookback \in Nat /\ BlockSearch \in Nat /\ AtrPeriod \in Nat
        /\ FirstDecision \in Nat /\ FirstDecision > SwingLookback + BlockSearch
    BY DecisionsLookBack, BreakerLooksBack
  <2>2. k > SwingLookback + BlockSearch /\ k >= 1 /\ a[k] = b[k]
    BY <1>1, <1>3, <2>1
  <2>3. RangeSum(a, k) = RangeSum(b, k)
    <3> DEFINE first == Max({1, k - AtrPeriod + 1})
    <3>1. first \in Int /\ first >= 1
      <4>1. 1 \in Int /\ k - AtrPeriod + 1 \in Int
        BY <1>1, <2>1
      <4>2. first \in Int /\ 1 <= first
        BY <4>1, MaxOfTwo
      <4>3. QED
        BY <4>2
    <3> HIDE DEF first
    <3>2. \A j \in first..k : j \in 1..k
      BY <1>1, <3>1
    <3>3. \A j \in first..k : TrueRange(a, j) = TrueRange(b, j)
      BY <1>1, <3>2, RangeAgrees
    <3>4. [j \in first..k |-> TrueRange(a, j)] = [j \in first..k |-> TrueRange(b, j)]
      BY <3>3
    <3>5. QED
      BY <3>4 DEF RangeSum, SumOver, first
  <2>4. Displaced(a, k) = Displaced(b, k)
    BY <2>2, <2>3 DEF Displaced
  <2>5. \A j \in (k - SwingLookback)..k : a[j] = b[j]
    BY <1>1, <2>1, <2>2
  <2>6. \A j \in (k - BlockSearch)..k : a[j] = b[j]
    BY <1>1, <2>1, <2>2
  <2>7. Blocks(a, k) = Blocks(b, k)
    <3> DEFINE C(x, side) == {j \in (k - BlockSearch)..(k - 1) : Facing(x[j], side).c > Facing(x[j], side).o}
               F(x, side) == /\ Facing(x[k], side).c < Facing(x[k], side).o
                             /\ \A j \in (k - SwingLookback)..(k - 1) : Facing(x[k], side).c < Facing(x[j], side).l
               R(x, s) == [side |-> s, made |-> k, broke |-> 0, lo |-> Facing(x[Max(C(x, s))], s).o,
                           hi |-> Facing(x[Max(C(x, s))], s).c]
    <3>a. /\ \A j \in (k - BlockSearch)..(k - 1) : a[j] = b[j]
          /\ \A j \in (k - SwingLookback)..(k - 1) : a[j] = b[j]
      BY <1>1, <2>1, <2>5, <2>6
    <3>1. \A side : C(a, side) = C(b, side)
      BY <3>a
    <3>2. \A side : F(a, side) = F(b, side)
      BY <2>2, <3>a
    <3>3. \A side : C(a, side) # {} => R(a, side) = R(b, side)
      <4> SUFFICES ASSUME NEW side, C(a, side) # {} PROVE R(a, side) = R(b, side)
        OBVIOUS
      <4> DEFINE S == C(a, side)
      <4>1. S \subseteq (k - BlockSearch)..(k - 1) /\ S # {}
        OBVIOUS
      <4>2. k - BlockSearch \in Int /\ k - 1 \in Int
        BY <1>1, <2>1
      <4> DEFINE m == k - BlockSearch
                 n == k - 1
      <4> HIDE DEF S
      <4>3. S \subseteq m..n /\ m \in Int /\ n \in Int
        BY <4>1, <4>2
      <4>x. \A j \in m..n : j \in (k - BlockSearch)..k
        BY <1>1, <2>1
      <4> HIDE DEF m, n
      <4>y. IsFiniteSet(S) /\ S \subseteq Int
        <5>1. m \in Int /\ n \in Int
          BY <4>3
        <5>2. IsFiniteSet(m..n)
          BY <5>1, FS_Interval
        <5>3. S \subseteq Int
          BY <4>3
        <5>4. QED
          BY <4>3, <5>2, <5>3, FS_Subset
      <4>z. Max(S) \in S
        BY <4>1, <4>y, MaxIsOne
      <4> DEFINE last == Max(S)
      <4>w. last \in m..n
        BY <4>3, <4>z
      <4> HIDE DEF last
      <4>4. last \in (k - BlockSearch)..k
        BY <4>x, <4>w
      <4> USE DEF last
      <4>5. a[Max(S)] = b[Max(S)]
        BY <2>6, <4>4
      <4>6. C(a, side) = S /\ C(b, side) = S
        BY <3>1 DEF S
      <4> HIDE DEF C
      <4>7. QED
        BY <4>5, <4>6
    <3> HIDE DEF C, F, R
    <3>4. {R(a, s) : s \in {t \in Sides : F(a, t) /\ C(a, t) # {}}}
              = {R(b, s) : s \in {t \in Sides : F(b, t) /\ C(b, t) # {}}}
      BY <3>1, <3>2, <3>3
    <3>5. Blocks(a, k) = IF ~Displaced(a, k) THEN {} ELSE {R(a, s) : s \in {t \in Sides : F(a, t) /\ C(a, t) # {}}}
      BY DEF Blocks, R, F, C
    <3>6. Blocks(b, k) = IF ~Displaced(b, k) THEN {} ELSE {R(b, s) : s \in {t \in Sides : F(b, t) /\ C(b, t) # {}}}
      BY DEF Blocks, R, F, C
    <3>7. QED
      BY <2>4, <3>4, <3>5, <3>6
  <2>8. QED
    BY <2>2, <2>3, <2>7

\* The breakers.
LEMMA BreakerIsBlind ==
    ASSUME NEW a, NEW b, Twins(a, b)
    PROVE  BreakerBar(a).finds = BreakerBar(b).finds
<1> DEFINE k == Len(a) - 1
<1>1. /\ k \in Nat /\ Len(a) - 1 = k /\ Len(b) - 1 = k
      /\ \A j \in 1..k : a[j] = b[j]
      /\ a[k + 1].o = b[k + 1].o
  BY TwinsAgree
<1> HIDE DEF k
<1>2. CASE k < FirstDecision
  BY <1>1, <1>2 DEF BreakerBar
<1>3. CASE ~(k < FirstDecision)
  <2>1. RangeSum(a, k) = RangeSum(b, k) /\ Blocks(a, k) = Blocks(b, k) /\ a[k] = b[k] /\ k >= 1
    <3>1. k >= FirstDecision
      BY <1>1, <1>3, DecisionsLookBack
    <3>2. QED
      BY <1>1, <3>1, BlocksAgree
  <2>2. \A x : TurnsAway(a, k, x) = TurnsAway(b, k, x)
    BY <1>1, <2>1 DEF TurnsAway
  <2>3. \A x : BreakerSignal(a, k, x) = BreakerSignal(b, k, x)
    BY <1>1 DEF BreakerSignal
  <2> DEFINE Known(x) == {c \in mem.blocks : k - c.made <= BlockMaxAge} \cup Blocks(x, k)
             Broke(x) == {c \in Known(x) : Broken(x[k], c)}
             All(x) == {c \in mem.breakers : k - c.broke <= BreakerMaxAge}
                          \cup {[c EXCEPT !.broke = k] : c \in Broke(x)}
             Fire(x) == Oldest({c \in All(x) : TurnsAway(x, k, c)})
             Sigs(x) == {BreakerSignal(x, k, c) : c \in Fire(x)}
             Give(x) == IF RangeSum(x, k) = 0 THEN <<>> ELSE SetToSeq(Sigs(x))
  <2>4. BreakerBar(a).finds = Give(a) /\ BreakerBar(b).finds = Give(b)
    BY <1>1, <1>3 DEF BreakerBar
  <2>5. Broke(a) = Broke(b)
    BY <2>1
  <2> HIDE DEF Broke
  <2>6. All(a) = All(b)
    BY <2>5
  <2> HIDE DEF All
  <2>7. {c \in All(a) : TurnsAway(a, k, c)} = {c \in All(b) : TurnsAway(b, k, c)}
    BY <2>2, <2>6
  <2>8. Fire(a) = Fire(b)
    BY <2>7
  <2> HIDE DEF Fire
  <2>9. Sigs(a) = Sigs(b)
    BY <2>3, <2>8
  <2> HIDE DEF Sigs
  <2>10. QED
    BY <2>1, <2>4, <2>9
<1>4. QED
  BY <1>2, <1>3

\* What was appended to a list.
LEMMA TailIs ==
    ASSUME NEW q, NEW e, IsList(q), IsList(e)
    PROVE  SubSeq(q \o e, Len(q) + 1, Len(q \o e)) = e
<1>1. PICK S : q \in Seq(S)
  BY DEF IsList
<1>2. PICK T : e \in Seq(T)
  BY DEF IsList
<1> DEFINE U == S \cup T
<1>3. q \in Seq(U) /\ e \in Seq(U)
  <2>1. S \subseteq U /\ T \subseteq U
    OBVIOUS
  <2>2. QED
    BY <1>1, <1>2, <2>1, SeqMonotonic
<1> HIDE DEF U
<1> DEFINE both == q \o e
           m == Len(q)
           n == Len(e)
           tail == SubSeq(both, m + 1, m + n)
<1>4. m \in Nat /\ n \in Nat
  BY <1>3
<1>5. /\ both \in Seq(U) /\ Len(both) = m + n
      /\ \A i \in 1..(m + n) : both[i] = IF i <= m THEN q[i] ELSE e[i - m]
  BY <1>3, ConcatProperties
<1>6. DOMAIN both = 1..(m + n)
  BY <1>5
<1>7. \A i \in (m + 1)..(m + n) : both[i] \in U
  BY <1>4, <1>5, <1>6
<1> HIDE DEF both, m, n
<1>8. tail \in Seq(U) /\ Len(tail) = n /\ \A i \in 1..n : tail[i] = both[m + i]
  <2> DEFINE i1 == m + 1
             i2 == m + n
  <2>1. i1 \in Int /\ i2 \in Int /\ \A i \in i1..i2 : both[i] \in U
    BY <1>4, <1>7
  <2>2. (IF i1 <= i2 THEN i2 - i1 + 1 ELSE 0) = n /\ i2 - i1 + 1 = n
    BY <1>4
  <2>3. \A i \in 1..n : i1 + i - 1 = m + i
    BY <1>4
  <2>4. tail = SubSeq(both, i1, i2)
    OBVIOUS
  <2> HIDE DEF i1, i2, tail
  <2>5. /\ SubSeq(both, i1, i2) \in Seq(U)
        /\ Len(SubSeq(both, i1, i2)) = IF i1 <= i2 THEN i2 - i1 + 1 ELSE 0
        /\ \A i \in 1..(i2 - i1 + 1) : SubSeq(both, i1, i2)[i] = both[i1 + i - 1]
    BY <2>1, SubSeqProperties
  <2>6. tail \in Seq(U) /\ Len(tail) = n
    BY <2>2, <2>4, <2>5
  <2>7. \A i \in 1..n : tail[i] = both[i1 + i - 1]
    BY <2>2, <2>4, <2>5
  <2>8. QED
    BY <2>3, <2>6, <2>7
<1> HIDE DEF tail
<1>9. \A i \in 1..n : tail[i] = e[i]
  <2> SUFFICES ASSUME NEW i \in 1..n PROVE tail[i] = e[i]
    OBVIOUS
  <2>1. m + i \in 1..(m + n) /\ ~(m + i <= m) /\ (m + i) - m = i
    BY <1>4
  <2>2. tail[i] = both[m + i]
    BY <1>8
  <2>3. both[m + i] = e[(m + i) - m]
    BY <1>5, <2>1
  <2>4. QED
    BY <2>1, <2>2, <2>3
<1>10. tail = e
  BY <1>3, <1>8, <1>9, SeqEqual DEF n
<1>11. QED
  BY <1>5, <1>10 DEF tail, both, m, n

\* Another bar on the same tape that opens where the bar did that came.
LEMMA TwinTapes ==
    ASSUME NEW s \in PriceStudies, NextBar(s), tape \in Seq(Ohlc),
           NEW other \in Shapes[s], other.o = Last(tape').o
    PROVE  Twins(Append(tape, other), tape')
<1>1. PICK bar \in Shapes[s] : tape' = Append(tape, bar)
  BY DEF NextBar
<1>2. bar \in Ohlc /\ other \in Ohlc
  BY <1>1, DataAreBars
<1>3. PICK k \in Nat : k = Len(tape)
  OBVIOUS
<1> DEFINE a == Append(tape, other)
<1>4. /\ a \in Seq(Ohlc) /\ tape' \in Seq(Ohlc)
      /\ Len(a) = k + 1 /\ Len(tape') = k + 1
      /\ \A j \in 1..k : a[j] = tape'[j]
      /\ a[k + 1] = other
  BY <1>1, <1>2, <1>3
<1>5. other.o = tape'[k + 1].o
  BY <1>4 DEF Last
<1> HIDE DEF a
<1>6. (k + 1) - 1 = k /\ k + 1 > 0
  OBVIOUS
<1>7. Twins(a, tape')
  BY <1>4, <1>5, <1>6 DEF Twins
<1>8. QED
  BY <1>7 DEF a

\* A study that finds the same on twins, and appends what it finds, is blind.
LEMMA BlindIf ==
    ASSUME NEW s \in PriceStudies, study = s, NextBar(s), tape \in Seq(Ohlc), NEW f, IsList(out), IsList(f),
           out' = out \o f,
           \A a : Twins(a, tape') => Finds(a) = f
    PROVE  DetectorIsBlind
<1> SUFFICES ASSUME NEW other \in Shapes[s], other.o = Last(tape').o
             PROVE  Finds(Append(tape, other)) = SubSeq(out', Len(out) + 1, Len(out'))
  BY DEF DetectorIsBlind
<1>1. Finds(Append(tape, other)) = f
  BY TwinTapes
<1>2. SubSeq(out', Len(out) + 1, Len(out')) = f
  BY TailIs
<1>3. QED
  BY <1>1, <1>2

\* No detector but those that peek uses more of the entry bar than its open.
LEMMA DetectorsBlind == FairInv /\ NextLab => DetectorIsBlind
<1> SUFFICES ASSUME FairInv, NextLab PROVE DetectorIsBlind
  OBVIOUS
<1>1. GoOn
  BY EachGoesOn
<1>2. CASE study = "ote"
  <2>1. OteInv /\ Ote
    BY <1>1, <1>2 DEF GoOn, FairInv
  <2>2. FairList(OteFinds(tape'), "ote", tape') /\ FairList(out, "ote", tape) /\ tape \in Seq(Ohlc)
    BY <2>1, OteGoesOn DEF OteInv
  <2>3. \A a : Twins(a, tape') => Finds(a) = OteFinds(tape')
    BY <1>2, OteIsBlind DEF Finds
  <2>4. "ote" \in PriceStudies /\ NextBar("ote") /\ out' = out \o OteFinds(tape')
    BY <2>1 DEF Ote, PriceStudies
  <2>5. QED
    BY <1>2, <2>2, <2>3, <2>4, BlindIf DEF FairList
<1>3. CASE study = "breaker"
  <2>1. BreakerInv /\ BreakerStep
    BY <1>1, <1>3 DEF GoOn, FairInv
  <2>2. FairList(BreakerBar(tape').finds, "breaker", tape') /\ FairList(out, "breaker", tape) /\ tape \in Seq(Ohlc)
    BY <2>1, BreakerGoesOn DEF BreakerInv
  <2>3. \A a : Twins(a, tape') => Finds(a) = BreakerBar(tape').finds
    BY <1>3, BreakerIsBlind DEF Finds
  <2>4. "breaker" \in PriceStudies /\ NextBar("breaker") /\ out' = out \o BreakerBar(tape').finds
    BY <2>1 DEF BreakerStep, PriceStudies
  <2>5. QED
    BY <1>3, <2>2, <2>3, <2>4, BlindIf DEF FairList
<1>4. CASE study = "news"
  <2>1. NewsInv /\ News
    BY <1>1, <1>4 DEF GoOn, FairInv
  <2>2. FairList(NewsFinds(tape'), "news", tape') /\ FairList(out, "news", tape) /\ tape \in Seq(Ohlc)
    BY <2>1, NewsGoesOn DEF NewsInv
  <2>3. \A a : Twins(a, tape') => Finds(a) = NewsFinds(tape')
    BY <1>4, NewsIsBlind DEF Finds
  <2>4. "news" \in PriceStudies /\ NextBar("news") /\ out' = out \o NewsFinds(tape')
    BY <2>1 DEF News, PriceStudies
  <2>5. QED
    BY <1>4, <2>2, <2>3, <2>4, BlindIf DEF FairList
<1>5. CASE study = "asia"
  <2>1. AsiaInv /\ Asia
    BY <1>1, <1>5 DEF GoOn, FairInv
  <2>2. FairList(AsiaAfter(tape').trade, "asia", tape') /\ FairList(out, "asia", tape) /\ tape \in Seq(Ohlc)
    BY <2>1, AsiaGoesOn DEF AsiaInv
  <2>3. \A a : Twins(a, tape') => Finds(a) = AsiaAfter(tape').trade
    BY <1>5, AsiaIsBlind DEF Finds
  <2>4. "asia" \in PriceStudies /\ NextBar("asia") /\ out' = out \o AsiaAfter(tape').trade
    BY <2>1 DEF Asia, PriceStudies
  <2>5. QED
    BY <1>5, <2>2, <2>3, <2>4, BlindIf DEF FairList
<1>6. CASE study = "sigma"
  <2>1. SigmaInv /\ Sigma
    BY <1>1, <1>6 DEF GoOn, FairInv
  <2>2. FairList(SigmaFinds(tape'), "sigma", tape') /\ FairList(out, "sigma", tape) /\ tape \in Seq(Ohlc)
    BY <2>1, SigmaGoesOn DEF SigmaInv
  <2>3. \A a : Twins(a, tape') => Finds(a) = SigmaFinds(tape')
    BY <1>6, SigmaIsBlind DEF Finds
  <2>4. "sigma" \in PriceStudies /\ NextBar("sigma") /\ out' = out \o SigmaFinds(tape')
    BY <2>1 DEF Sigma, PriceStudies
  <2>5. QED
    BY <1>6, <2>2, <2>3, <2>4, BlindIf DEF FairList
<1>7. QED
  BY <1>2, <1>3, <1>4, <1>5, <1>6 DEF DetectorIsBlind, DetectorStudies, Peeking

\* The invariant of all that look at bars: the studies' own, and what the generators
\* for Bitcoin and the breakouts have answered is what their tape says.
CausalLab ==
    /\ FairInv
    /\ study = "crypto" => FrameInv
    /\ study = "breakout" => CausalInv

\* It holds at the start,
LEMMA CausalLabBegins == InitLab => CausalLab
<1> SUFFICES ASSUME InitLab PROVE CausalLab
  OBVIOUS
<1>1. Begin /\ FairInv
  BY EachBegins, FairBegins
<1>2. QED
  BY <1>1, FrameBegins, CausalBegins DEF Begin, CausalLab

\* every step keeps it, and depends on nothing that is not over,
LEMMA CausalLabGoesOn == CausalLab /\ NextLab => CausalLab' /\ DetectorIsBlind /\ FrameIsCausal /\ BreakoutIsCausal
<1> SUFFICES ASSUME CausalLab, NextLab
             PROVE  CausalLab' /\ DetectorIsBlind /\ FrameIsCausal /\ BreakoutIsCausal
  OBVIOUS
<1>1. GoOn /\ FairInv' /\ DetectorIsBlind
  BY EachGoesOn, FairGoesOn, DetectorsBlind DEF CausalLab
<1>2. study' = study
  BY <1>1 DEF GoOn
<1>3. study = "crypto" => FrameInv' /\ FrameIsCausal
  BY <1>1, FrameGoesOn DEF GoOn, CausalLab
<1>4. study = "breakout" => CausalInv' /\ PortIsSteady /\ LiveIsScan
  BY <1>1, CausalGoesOn, CausalIs DEF GoOn, CausalLab
<1>5. FrameIsCausal
  BY <1>3 DEF FrameIsCausal
<1>6. BreakoutIsCausal
  BY <1>4 DEF BreakoutIsCausal, LiveIsScan, PortIsSteady
<1>7. CausalLab'
  BY <1>1, <1>2, <1>3, <1>4 DEF CausalLab
<1>8. QED
  BY <1>1, <1>5, <1>6, <1>7

\* and nothing else changes it.
LEMMA CausalLabRests == CausalLab /\ UNCHANGED vars => CausalLab'
<1> SUFFICES ASSUME CausalLab, UNCHANGED vars PROVE CausalLab'
  OBVIOUS
<1>1. study' = study /\ tape' = tape /\ mem' = mem /\ out' = out
  BY DEF vars
<1>2. FairInv'
  BY FairRests DEF CausalLab
<1>3. (CompletedBars(tape))' = CompletedBars(tape)
  BY <1>1 DEF CompletedBars, HigherClosed
<1>4. CausalInv => CausalInv'
  <2>1. (PortSignal(tape))' = PortSignal(tape)
    BY <1>1 DEF PortSignal, ResampleH4, HigherClosed
  <2>2. BreakoutInv' <=> BreakoutInv
    BY <1>1, <1>3 DEF BreakoutInv
  <2>3. QED
    BY <1>1, <1>3, <2>1, <2>2 DEF CausalInv
<1>5. (CoinEntries(tape))' = CoinEntries(tape)
  <2>1. (OrbEntries(tape))' = OrbEntries(tape)
    BY <1>1 DEF OrbEntries, OrbSignal, OpeningTop, OpeningWidth, Opening, DayOf, Hour, Slot
  <2>2. (VboEntries(tape))' = VboEntries(tape) /\ (DropEntries(tape))' = DropEntries(tape)
    BY <1>1 DEF VboEntries, DropEntries, InNewYork, Hour, Slot
  <2>3. (SweepReversals(tape))' = SweepReversals(tape)
    BY <1>1 DEF SweepReversals
  <2>4. (RevertEntries(tape))' = RevertEntries(tape)
    BY <1>1 DEF RevertEntries, Blocked, WeeklyState, Weeks, Week, Slot
  <2>5. QED
    BY <1>1, <2>1, <2>2, <2>3, <2>4 DEF CoinEntries
<1>6. FrameInv => FrameInv'
  BY <1>1, <1>5 DEF FrameInv, CoinInv
<1>7. QED
  BY <1>1, <1>2, <1>4, <1>6 DEF CausalLab

\* No signal of a detector, a generator for Bitcoin or a breakout study depends on a
\* bar that is not over when it is acted on, except those of the two detectors that
\* look into the bar of the higher time frame and of the weekly gates.
THEOREM NothingPeeks == SpecLab => NoPeeking
<1>1. CausalLab /\ [NextLab]_vars => CausalLab'
  BY CausalLabGoesOn, CausalLabRests
<1>2. CausalLab /\ [NextLab]_vars => [DetectorIsBlind /\ FrameIsCausal /\ BreakoutIsCausal]_vars
  BY CausalLabGoesOn
<1>3. QED
  BY <1>1, <1>2, CausalLabBegins, PTL DEF SpecLab, NoPeeking

=============================================================================
