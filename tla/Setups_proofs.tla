------------------------- MODULE Setups_proofs -------------------------
(***************************************************************************)
(* What the detectors have found, bar by bar, are the setups that the whole *)
(* tape holds, for every tape and every value of the constants; the          *)
(* generators for Bitcoin ask for a crossing once, and the port of the       *)
(* challenge's breakouts answers as the challenge does.                      *)
(***************************************************************************)
EXTENDS Signals_proofs

-----------------------------------------------------------------------------
(***************************************************************************)
(* What is answered has happened, and is answered once.                    *)
(***************************************************************************)
\* The bias is an integer.
LEMMA BiasIsWhole ==
    ASSUME NEW w \in Seq(Ohlc), NEW i \in DOMAIN w
    PROVE  Bias(w, i) \in Int
<1> DEFINE a == EmaTimes(w, Trend.fast, i)
           b == EmaScale(Trend.slow, i)
           c == EmaTimes(w, Trend.slow, i)
           d == EmaScale(Trend.fast, i)
<1>1. a \in Int /\ b \in Int /\ c \in Int /\ d \in Int
  BY EmaIsWhole, TrendsAre
<1>2. Bias(w, i) = a * b - c * d
  BY DEF Bias
<1> HIDE DEF a, b, c, d
<1>3. QED
  BY <1>1, <1>2

\* A bar between two of one day is of that day.
LEMMA DaysBetween ==
    ASSUME NEW r \in Nat, NEW s \in Nat, NEW t \in Nat, r <= s, s <= t, r \div 48 = t \div 48
    PROVE  s \div 48 = r \div 48
<1>1. PICK q \in Nat : r \div 48 = q
  OBVIOUS
<1>2. 48 * q <= r /\ t < 48 * q + 48
  BY <1>1
<1>3. 48 * q <= s /\ s < 48 * q + 48
  BY <1>2
<1>4. s \div 48 = q
  BY <1>3
<1>5. QED
  BY <1>1, <1>4

\* A bar that has broken out of the opening range of the day has a bar before it that
\* did not: the opening of both is the same, as the data's rows are sorted.
LEMMA OrbOnce ==
    ASSUME FrameInv, NEW side \in Sides, NEW i \in DOMAIN tape, i - 1 \in DOMAIN tape,
           OrbAt(tape, i, side), OrbAt(tape, i - 1, side)
    PROVE  FALSE
<1>1. /\ tape \in Seq(Ohlc) /\ mem.times \in Times["crypto"] /\ Len(tape) <= Length["crypto"]
  BY DEF FrameInv, CoinInv
<1>2. DOMAIN tape = 1..Len(tape) /\ Len(tape) \in Nat
  BY <1>1, TapeIs
<1>3. /\ \A j \in DOMAIN tape : Slot(j) \in Nat
      /\ \A j, k \in DOMAIN tape : j < k => Slot(j) < Slot(k)
  <2>1. "crypto" \in TimedStudies
    BY DEF TimedStudies
  <2>2. QED
    BY <1>1, <1>2, <2>1, RowsAreSorted
<1>4. PICK j \in DOMAIN tape : DayOf(j) = DayOf(i) /\ Hour(j) = 12
  BY DEF OrbAt, Opening
<1>5. Slot(j) < Slot(i)
  <2> DEFINE s == Slot(j)
             t == Slot(i)
  <2>1. s \div 48 = t \div 48 /\ (s \div 2) % 24 = 12
    BY <1>4 DEF DayOf, SlotsOfDay, Hour
  <2>2. (t \div 2) % 24 > 12
    BY DEF OrbAt, Hour, TradingHours
  <2>3. s \in Nat /\ t \in Nat
    BY <1>3
  <2> HIDE DEF s, t
  <2>4. s < t
    BY <2>1, <2>2, <2>3, OpensBefore
  <2>5. QED
    BY <2>4 DEF s, t
<1>6. j <= i - 1
  <2>1. ~(i < j) /\ i # j
    BY <1>3, <1>5
  <2>2. QED
    BY <1>2, <2>1
<1>7. DayOf(i - 1) = DayOf(i)
  <2> DEFINE r == Slot(j)
             s == Slot(i - 1)
             t == Slot(i)
  <2>1. r \in Nat /\ s \in Nat /\ t \in Nat
    BY <1>3
  <2>2. r <= s /\ s <= t
    <3>1. j = i - 1 \/ j < i - 1
      BY <1>2, <1>6
    <3>2. i - 1 < i
      BY <1>2
    <3>3. QED
      BY <1>3, <3>1, <3>2
  <2>3. r \div 48 = t \div 48
    BY <1>4 DEF DayOf, SlotsOfDay
  <2> HIDE DEF r, s, t
  <2>4. s \div 48 = t \div 48
    BY <2>1, <2>2, <2>3, DaysBetween
  <2>5. QED
    BY <2>4 DEF s, t, DayOf, SlotsOfDay
<1>8. Opening(tape, i - 1) = Opening(tape, i)
  BY <1>7 DEF Opening
<1>9. OpeningTop(tape, i - 1, side) = OpeningTop(tape, i, side)
  BY <1>8 DEF OpeningTop
<1> DEFINE c == Close(tape, i - 1, side)
           t == OpeningTop(tape, i, side)
<1>10. c > t /\ c <= t
  BY <1>9 DEF OrbAt
<1>11. c \in Int /\ t \in Int
  <2>1. tape[i - 1].c \in Int
    BY <1>1, <1>2 DEF Ohlc
  <2>2. c \in Int
    BY <2>1 DEF Close, Sides
  <2> DEFINE S == Opening(tape, i)
  <2>3. S \subseteq DOMAIN tape /\ S # {}
    BY <1>4 DEF Opening
  <2>4. t = Max({Facing(tape[k], side).h : k \in S})
    BY DEF OpeningTop
  <2> HIDE DEF S
  <2>5. IsFiniteSet(S) /\ \A k \in S : tape[k] \in Ohlc
    BY <1>1, <2>3, TapeIs, FS_Subset
  <2>6. Max({Facing(tape[k], side).h : k \in S}) \in Int
    BY <2>3, <2>5, ExtremesFacing
  <2>7. QED
    BY <2>2, <2>4, <2>6
<1> HIDE DEF c, t
<1>12. QED
  BY <1>10, <1>11

\* No generator that asks for a crossing enters twice in a row on a side.
LEMMA CrossingsAreSingle == FrameInv => CrossesOnce
<1> SUFFICES ASSUME FrameInv, mem.generator \in {"orb", "drop", "zrev", "zmr"},
                    NEW s \in Range(out), NEW t \in Range(out), s.side = t.side, s.entry = t.entry + 1
             PROVE  FALSE
  BY DEF CrossesOnce
<1>1. s \in CoinEntries(tape) /\ t \in CoinEntries(tape)
  BY DEF FrameInv
<1>2. DOMAIN tape = 1..Len(tape) /\ Len(tape) \in Nat
  BY TapeIs DEF FrameInv, CoinInv
<1>3. \A a, e, sl, tp, of : Signal(a, e, sl, tp, of).entry = e /\ Signal(a, e, sl, tp, of).side = a
  BY DEF Signal
<1>4. ASSUME NEW i \in 2..Len(tape), NEW j \in 2..Len(tape), s.entry = i + 1, t.entry = j + 1
      PROVE  j = i - 1 /\ i \in DOMAIN tape /\ i - 1 \in DOMAIN tape
  BY <1>2, <1>4
<1>5. CASE mem.generator = "orb"
  <2>1. CoinEntries(tape) = OrbEntries(tape)
    BY <1>5 DEF CoinEntries
  <2>2. ASSUME NEW x \in OrbEntries(tape)
        PROVE  \E i \in 2..Len(tape), side \in Sides : x.entry = i + 1 /\ x.side = side /\ OrbAt(tape, i, side)
    <3>1. PICK e \in (2..Len(tape)) \X Sides : x = OrbSignal(tape, e[1], e[2]) /\ OrbAt(tape, e[1], e[2])
      BY DEF OrbEntries, OrbAt
    <3>2. x.entry = e[1] + 1 /\ x.side = e[2]
      BY <1>3, <3>1 DEF OrbSignal
    <3>3. QED
      BY <3>1, <3>2
  <2>3. PICK i \in 2..Len(tape), a \in Sides : s.entry = i + 1 /\ s.side = a /\ OrbAt(tape, i, a)
    BY <1>1, <2>1, <2>2
  <2>4. PICK j \in 2..Len(tape), b \in Sides : t.entry = j + 1 /\ t.side = b /\ OrbAt(tape, j, b)
    BY <1>1, <2>1, <2>2
  <2>5. j = i - 1 /\ i \in DOMAIN tape /\ i - 1 \in DOMAIN tape
    BY <1>4, <2>3, <2>4
  <2>6. QED
    BY <2>3, <2>4, <2>5, OrbOnce
<1>6. ASSUME NEW factor \in {1, -1},
             \A x \in CoinEntries(tape) : \E i \in 2..Len(tape), side \in Sides :
                x.entry = i + 1 /\ x.side = factor * side /\ Crosses(tape, i, side)
      PROVE  FALSE
  <2>1. PICK i \in 2..Len(tape), a \in Sides : s.entry = i + 1 /\ s.side = factor * a /\ Crosses(tape, i, a)
    BY <1>1, <1>6
  <2>2. PICK j \in 2..Len(tape), b \in Sides : t.entry = j + 1 /\ t.side = factor * b /\ Crosses(tape, j, b)
    BY <1>1, <1>6
  <2>3. j = i - 1
    BY <1>4, <2>1, <2>2
  <2>4. a = b
    <3>1. factor * a = factor * b
      BY <2>1, <2>2
    <3>2. QED
      BY <1>6, <3>1 DEF Sides
  <2>5. QED
    BY <2>1, <2>2, <2>3, <2>4 DEF Crosses
<1>7. CASE mem.generator = "drop"
  <2>1. CoinEntries(tape) = DropEntries(tape)
    BY <1>7 DEF CoinEntries
  <2>2. ASSUME NEW x \in DropEntries(tape)
        PROVE  \E i \in 2..Len(tape), side \in Sides :
                  x.entry = i + 1 /\ x.side = 1 * side /\ Crosses(tape, i, side)
    <3>1. PICK i \in 2..Len(tape) : x = Bracket(tape, i, -1, 15, 20) /\ Crosses(tape, i, -1)
      BY DEF DropEntries, Crossings
    <3>2. x.entry = i + 1 /\ x.side = -1
      BY <1>3, <3>1 DEF Bracket
    <3>3. -1 \in Sides /\ 1 * (-1) = -1
      BY DEF Sides
    <3>4. QED
      BY <3>1, <3>2, <3>3
  <2>3. QED
    BY <1>6, <2>1, <2>2
<1>8. CASE mem.generator = "zmr"
  <2>1. CoinEntries(tape) = FadeEntries(tape)
    BY <1>8 DEF CoinEntries
  <2>2. ASSUME NEW x \in FadeEntries(tape)
        PROVE  \E i \in 2..Len(tape), side \in Sides :
                  x.entry = i + 1 /\ x.side = (-1) * side /\ Crosses(tape, i, side)
    <3>1. PICK side \in Sides, i \in 2..Len(tape) : x = Bracket(tape, i, -side, 20, 15) /\ Crosses(tape, i, side)
      BY DEF FadeEntries, Crossings
    <3>2. x.entry = i + 1 /\ x.side = -side
      BY <1>3, <3>1 DEF Bracket
    <3>3. -side = (-1) * side
      BY DEF Sides
    <3>4. QED
      BY <3>1, <3>2, <3>3
  <2>3. QED
    BY <1>6, <2>1, <2>2
<1>9. CASE mem.generator = "zrev"
  <2>1. CoinEntries(tape) = RevertEntries(tape)
    BY <1>9 DEF CoinEntries
  <2>2. ASSUME NEW x \in RevertEntries(tape)
        PROVE  \E i \in 2..Len(tape), side \in Sides :
                  x.entry = i + 1 /\ x.side = (-1) * side /\ Crosses(tape, i, side)
    <3>1. PICK side \in Sides, i \in 2..Len(tape) : x = RevertSignal(tape, i, side) /\ Crosses(tape, i, side)
      BY DEF RevertEntries, Crossings
    <3>2. x.entry = i + 1 /\ x.side = -side
      BY <1>3, <3>1 DEF RevertSignal
    <3>3. -side = (-1) * side
      BY DEF Sides
    <3>4. QED
      BY <3>1, <3>2, <3>3
  <2>3. QED
    BY <1>6, <2>1, <2>2
<1>10. QED
  BY <1>5, <1>7, <1>8, <1>9

\* The port of the challenge's breakouts answers with the sides that the challenge finds.
LEMMA PortFollows == CausalInv => PortAgrees
<1> DEFINE w == ResampleH4(tape)
           t == Len(w)
<1> SUFFICES ASSUME CausalInv, tape # <<>>, t >= Trend.slow + Trend.channel + 2,
                    NEW b \in Sides, b * Bias(w, t) > 0, b * Bias(w, t - 1) > 0
             PROVE  {x.side : x \in Last(mem.ports)} = {x.side : x \in SignalForTrigger(w, t)}
  BY DEF PortAgrees
<1>1. w \in Seq(Ohlc) /\ t \in DOMAIN w /\ t \in Nat
  <2>1. w \in Seq(Ohlc)
    <3>1. tape \in Seq(Ohlc) /\ mem.past \in Seq(Ohlc)
      BY DEF CausalInv, BreakoutInv
    <3>2. Len(tape) \in Nat \ {0} /\ Len(tape) <= Len(tape) + 1
      BY <3>1
    <3>3. QED
      BY <3>1, <3>2, HigherClosedAre DEF ResampleH4
  <2> HIDE DEF w
  <2>2. t \in Nat /\ DOMAIN w = 1..t
    BY <2>1, TapeIs
  <2>3. t >= 1
    BY <2>2, TrendsAre
  <2>4. QED
    BY <2>1, <2>2, <2>3
<1>2. Last(mem.ports) = PortSignal(tape)
  <2>1. Len(tape) > 0
    BY DEF CausalInv, BreakoutInv
  <2>2. QED
    BY <2>1 DEF CausalInv
<1> DEFINE portRisk == Trend.mult * AverageRange(w, t, Period.atr)
           risk == Trend.mult * AverageRange(w, t, Trend.atr)
           Agrees(s) == IF s = 1 THEN Bias(w, t) > 0 ELSE Bias(w, t) <= 0
           Ports == {s \in Sides : portRisk > 0 /\ s * w[t].c > Donchian(w, t, s) /\ Agrees(s)}
           Known == t > Trend.channel /\ t >= Trend.atr /\ t > Max({Trend.fast, Trend.slow})
           Mine == {s \in Sides : Known /\ s * w[t].c > Donchian(w, t, s) /\ s * Bias(w, t - 1) > 0}
<1>3. PortSignal(tape) = {[side |-> s, entry |-> t + 1, sl |-> Period.atr * w[t].c - s * portRisk] : s \in Ports}
  <2>1. ~(t < Trend.slow + Trend.channel + 2)
    <3>1. t \in Nat /\ t >= Trend.slow + Trend.channel + 2 /\ Trend.slow + Trend.channel + 2 \in Nat
      BY <1>1, TrendsAre
    <3> HIDE DEF t
    <3>2. QED
      BY <3>1
  <2>2. QED
    BY <2>1 DEF PortSignal
<1>4. SignalForTrigger(w, t) = {[side |-> s, entry |-> t + 1, sl |-> Trend.atr * w[t].c - s * risk] : s \in Mine}
  BY DEF SignalForTrigger
<1>5. Ports = Mine
  <2> HIDE DEF w, t
  <2>1. t > Trend.channel /\ t >= Trend.atr /\ t >= Period.atr
    BY <1>1, TrendsAre
  <2>2. t > Max({Trend.fast, Trend.slow})
    <3>1. Trend.fast \in Int /\ Trend.slow \in Int /\ Trend.fast < Trend.slow /\ Trend.channel \in Nat
      BY TrendsAre
    <3>2. Max({Trend.fast, Trend.slow}) \in {Trend.fast, Trend.slow}
      BY <3>1, MaxOfTwo
    <3>3. QED
      BY <1>1, <3>1, <3>2
  <2>3. Known
    BY <2>1, <2>2
  <2> DEFINE now == Bias(w, t)
             then == Bias(w, t - 1)
  <2>4. \A s \in Sides : Agrees(s) <=> s * then > 0
    <3>1. b * now > 0 /\ b * then > 0 /\ b \in {1, -1}
      BY DEF Sides
    <3>2. now \in Int /\ then \in Int
      <4>1. TRUE
        OBVIOUS
      <4>2. QED
        BY BiasIsWhole, <1>1, <2>1, TrendsAre
    <3> HIDE DEF now, then
    <3>3. QED
      BY <3>1, <3>2 DEF Sides, now
  <2>5. \A s \in Sides : s * w[t].c > Donchian(w, t, s) => portRisk > 0
    <3> SUFFICES ASSUME NEW s \in Sides, s * w[t].c > Donchian(w, t, s) PROVE portRisk > 0
      OBVIOUS
    <3>1. TrueRange(w, t) > 0
      BY <1>1, <2>1, BreakHasRange
    <3> DEFINE a == AverageRange(w, t, Period.atr)
    <3>2. a \in Int /\ a > 0
      <4> DEFINE n == Period.atr
                 x == TrueRange(w, t)
      <4>1. n \in Nat \ {0} /\ t >= n
        BY <2>1, TrendsAre
      <4> HIDE DEF n
      <4>2. a \in Int /\ a >= x /\ x \in Int
        BY <1>1, <4>1, AverageRangeIs DEF n
      <4>3. x > 0
        BY <3>1
      <4> HIDE DEF a, x
      <4>4. QED
        BY <4>2, <4>3
    <3> HIDE DEF a
    <3>3. Trend.mult \in Nat \ {0}
      BY TrendsAre
    <3>4. QED
      BY <3>2, <3>3 DEF a
  <2> HIDE DEF Known, Agrees, portRisk
  <2>6. QED
    BY <2>3, <2>4, <2>5
<1> DEFINE pf(s) == [side |-> s, entry |-> t + 1, sl |-> Period.atr * w[t].c - s * portRisk]
           cf(s) == [side |-> s, entry |-> t + 1, sl |-> Trend.atr * w[t].c - s * risk]
<1>6. \A s : pf(s).side = s /\ cf(s).side = s
  OBVIOUS
<1>7. {x.side : x \in PortSignal(tape)} = Ports
  <2>1. PortSignal(tape) = {pf(s) : s \in Ports}
    BY <1>3
  <2> DEFINE X == PortSignal(tape)
  <2>2. X = {pf(s) : s \in Ports} /\ \A s : pf(s).side = s
    BY <1>6, <2>1
  <2> HIDE DEF pf, Ports, X
  <2>3. \A x \in X : \E s \in Ports : x = pf(s)
    BY <2>2
  <2>4. \A s \in Ports : pf(s) \in X
    BY <2>2
  <2>5. {x.side : x \in X} = Ports
    BY <2>2, <2>3, <2>4
  <2>6. QED
    BY <2>5 DEF X
<1>8. {x.side : x \in SignalForTrigger(w, t)} = Mine
  <2>1. SignalForTrigger(w, t) = {cf(s) : s \in Mine}
    BY <1>4
  <2> DEFINE X == SignalForTrigger(w, t)
  <2>2. X = {cf(s) : s \in Mine} /\ \A s : cf(s).side = s
    BY <1>6, <2>1
  <2> HIDE DEF cf, Mine, X
  <2>3. \A x \in X : \E s \in Mine : x = cf(s)
    BY <2>2
  <2>4. \A s \in Mine : cf(s) \in X
    BY <2>2
  <2>5. {x.side : x \in X} = Mine
    BY <2>2, <2>3, <2>4
  <2>6. QED
    BY <2>5 DEF X
<1> HIDE DEF w, t, Ports, Mine
<1>9. QED
  BY <1>2, <1>5, <1>7, <1>8

-----------------------------------------------------------------------------
(***************************************************************************)
(* The fader of news.                                                      *)
(***************************************************************************)
\* What the bars up to bar n have given.
FadesUpTo(bars, n) == UNION {FadesOn(bars, s) : s \in 2..n}

\* That is what has been found.
NewsFound ==
    /\ NewsInv
    /\ mem.times \in Times["news"] /\ Len(tape) <= Length["news"] /\ mem.events \subseteq Int
    /\ Lists(out, FadesUpTo(tape, Len(tape) - 2))

\* A fade is known by the bar of the spike; there are finitely many on one.
LEMMA FadesAre ==
    ASSUME NEW bars, NEW s, IsFiniteSet(mem.events)
    PROVE  IsFiniteSet(FadesOn(bars, s)) /\ \A x \in FadesOn(bars, s) : x.entry = s + 2
<1> DEFINE sides == FadeSides(bars, s)
           events == EventsOf(s)
           both == sides \X events
           f == [p \in both |-> Fade(bars, s, p[1], p[2])]
<1>1. IsFiniteSet(both)
  <2>1. sides \in SUBSET Sides
    BY DEF FadeSides, Sides
  <2>2. events \in SUBSET mem.events
    BY DEF EventsOf
  <2>3. IsFiniteSet(sides) /\ IsFiniteSet(events)
    BY <2>1, <2>2, SidesAreFinite, FS_Subset
  <2>4. QED
    BY <2>3, FS_Product
<1>2. FadesOn(bars, s) = {f[p] : p \in both}
  <2>1. \A p \in both : f[p] = Fade(bars, s, p[1], p[2])
    OBVIOUS
  <2>2. \A side \in sides, event \in events : <<side, event>> \in both /\ f[<<side, event>>] = Fade(bars, s, side, event)
    OBVIOUS
  <2>3. \A p \in both : p[1] \in sides /\ p[2] \in events
    OBVIOUS
  <2> HIDE DEF f, both
  <2>4. ASSUME NEW x \in FadesOn(bars, s) PROVE x \in {f[p] : p \in both}
    <3>1. PICK side \in sides, event \in events : x = Fade(bars, s, side, event)
      BY DEF FadesOn
    <3>2. QED
      BY <2>2, <3>1
  <2>5. ASSUME NEW p \in both PROVE f[p] \in FadesOn(bars, s)
    <3>1. f[p] = Fade(bars, s, p[1], p[2]) /\ p[1] \in sides /\ p[2] \in events
      BY <2>1, <2>3
    <3>2. QED
      BY <3>1 DEF FadesOn
  <2>6. QED
    BY <2>4, <2>5
<1>3. \A side, event : Fade(bars, s, side, event).entry = s + 2
  BY DEF Fade, Signal
<1> HIDE DEF f, both
<1>4. IsFiniteSet(FadesOn(bars, s))
  BY <1>1, <1>2, ImageIsFinite
<1>5. QED
  BY <1>3, <1>4 DEF FadesOn

\* The first bar that does not open before an event is the one that meets it.
LEMMA FadesAreSetups == NewsFound => NewsSetups = FadesUpTo(tape, Len(tape) - 2)
<1> SUFFICES ASSUME NewsFound PROVE NewsSetups = FadesUpTo(tape, Len(tape) - 2)
  OBVIOUS
<1> DEFINE MeetsOn(e) == {i \in DOMAIN tape : Slot(i) >= e /\ \A j \in 1..(i - 1) : Slot(j) < e}
           pairs == {p \in mem.events \X (2..(Len(tape) - 2)) :
                       p[2] \in MeetsOn(p[1]) /\ (p[1] \div SlotsOfDay) % 7 < 5}
<1>1. /\ DOMAIN tape = 1..Len(tape) /\ Len(tape) \in Nat /\ mem.events \subseteq Int
      /\ \A j \in DOMAIN tape : Slot(j) \in Nat
      /\ \A j, k \in DOMAIN tape : j < k => Slot(j) < Slot(k)
  <2>1. DOMAIN tape = 1..Len(tape) /\ Len(tape) \in Nat
    BY TapeIs DEF NewsFound, NewsInv
  <2>2. "news" \in TimedStudies /\ mem.times \in Times["news"] /\ Len(tape) <= Length["news"]
    BY DEF NewsFound, TimedStudies
  <2>3. QED
    BY <2>1, <2>2, RowsAreSorted DEF NewsFound
<1>2. ASSUME NEW s \in 2..(Len(tape) - 2), NEW e \in mem.events
      PROVE  e \in EventsOf(s) <=> (s \in MeetsOn(e) /\ (e \div SlotsOfDay) % 7 < 5)
  <2>1. s \in DOMAIN tape /\ s - 1 \in DOMAIN tape /\ s > 1 /\ s - 1 \in 1..(s - 1)
    BY <1>1
  <2>2. Slot(s) \in Nat /\ Slot(s - 1) \in Nat /\ e \in Int
    BY <1>1, <2>1
  <2>3. ASSUME Slot(s - 1) < e, NEW j \in 1..(s - 1) PROVE Slot(j) < e
    <3>1. j \in DOMAIN tape /\ (j = s - 1 \/ j < s - 1)
      BY <1>1, <2>1
    <3>2. Slot(j) \in Nat /\ (j < s - 1 => Slot(j) < Slot(s - 1))
      BY <1>1, <2>1, <3>1
    <3>3. QED
      BY <2>2, <2>3, <3>1, <3>2
  <2>4. s \in MeetsOn(e) <=> (Slot(s) >= e /\ Slot(s - 1) < e)
    BY <2>1, <2>3
  <2>5. e <= Slot(s) <=> Slot(s) >= e
    BY <2>2
  <2> HIDE DEF MeetsOn
  <2>6. QED
    BY <2>1, <2>4, <2>5 DEF EventsOf
<1>3. NewsSetups = UNION {{Fade(tape, p[2], side, p[1]) : side \in FadeSides(tape, p[2])} : p \in pairs}
  BY DEF NewsSetups
<1> HIDE DEF MeetsOn
<1>4. \A s \in 2..(Len(tape) - 2), e \in mem.events : <<e, s>> \in pairs <=> e \in EventsOf(s)
  BY <1>2
<1>5. \A p \in pairs : /\ p[1] \in mem.events /\ p[2] \in 2..(Len(tape) - 2) /\ p = <<p[1], p[2]>>
  OBVIOUS
<1> HIDE DEF pairs
<1>6. \A x \in NewsSetups : x \in FadesUpTo(tape, Len(tape) - 2)
  <2> SUFFICES ASSUME NEW x \in NewsSetups PROVE x \in FadesUpTo(tape, Len(tape) - 2)
    OBVIOUS
  <2>1. PICK p \in pairs : x \in {Fade(tape, p[2], side, p[1]) : side \in FadeSides(tape, p[2])}
    BY <1>3
  <2>2. PICK side \in FadeSides(tape, p[2]) : x = Fade(tape, p[2], side, p[1])
    BY <2>1
  <2>3. p[2] \in 2..(Len(tape) - 2) /\ p[1] \in EventsOf(p[2])
    BY <1>4, <1>5
  <2>4. x \in FadesOn(tape, p[2])
    BY <2>2, <2>3 DEF FadesOn
  <2>5. QED
    BY <2>3, <2>4 DEF FadesUpTo
<1>7. \A x \in FadesUpTo(tape, Len(tape) - 2) : x \in NewsSetups
  <2> SUFFICES ASSUME NEW x \in FadesUpTo(tape, Len(tape) - 2) PROVE x \in NewsSetups
    OBVIOUS
  <2>1. PICK s \in 2..(Len(tape) - 2) : x \in FadesOn(tape, s)
    BY DEF FadesUpTo
  <2>2. PICK side \in FadeSides(tape, s), event \in EventsOf(s) : x = Fade(tape, s, side, event)
    BY <2>1 DEF FadesOn
  <2>3. event \in mem.events
    BY DEF EventsOf
  <2> DEFINE p == <<event, s>>
  <2>4. p \in pairs /\ p[1] = event /\ p[2] = s
    BY <1>4, <2>2, <2>3
  <2> HIDE DEF p
  <2>5. x \in {Fade(tape, p[2], a, p[1]) : a \in FadeSides(tape, p[2])}
    BY <2>2, <2>4
  <2>6. QED
    BY <1>3, <2>4, <2>5
<1>8. QED
  BY <1>6, <1>7

\* Nothing has been found at the start.
LEMMA NewsFoundBegins == InitNews => NewsFound
<1> SUFFICES ASSUME InitNews PROVE NewsFound
  OBVIOUS
<1>1. PICK events \in Events : StartStudy("news", [events |-> events])
  BY DEF InitNews
<1> DEFINE memory == [events |-> events]
<1>2. DOMAIN memory = {"events"} /\ memory.events = events /\ StartStudy("news", memory)
  BY <1>1
<1> HIDE DEF memory
<1>3. tape = <<>> /\ out = <<>> /\ mem.times \in Times["news"] /\ mem.events = events
  BY <1>2, Started
<1>4. events \subseteq Int /\ Length["news"] \in Nat
  BY <1>1, NewsIsScheduled, FrameIsSorted DEF TimedStudies
<1>5. Len(tape) = 0 /\ 2..(0 - 2) = {}
  BY <1>3
<1>6. FadesUpTo(tape, Len(tape) - 2) = {}
  BY <1>5 DEF FadesUpTo
<1>7. Lists(out, FadesUpTo(tape, Len(tape) - 2))
  BY <1>3, <1>6, NoneLists
<1>8. Len(tape) <= Length["news"] /\ mem.events \subseteq Int
  BY <1>3, <1>4, <1>5
<1>9. NewsInv
  BY NewsBegins
<1>10. QED
  BY <1>3, <1>7, <1>8, <1>9 DEF NewsFound

\* A bar adds what its spike gives, two bars later.
LEMMA NewsFoundGoesOn == NewsFound /\ News => NewsFound'
<1> SUFFICES ASSUME NewsFound, News PROVE NewsFound'
  OBVIOUS
<1> DEFINE n == Len(tape)
           s == n - 1
<1>1. /\ tape' \in Seq(Ohlc) /\ n \in Nat /\ Len(tape') = n + 1
      /\ DOMAIN tape' = 1..(n + 1) /\ DOMAIN tape = 1..n
      /\ \A j \in DOMAIN tape : tape'[j] = tape[j] /\ tape[j] \in Ohlc
      /\ Len(tape) < Length["news"]
  <2>1. tape \in Seq(Ohlc) /\ "news" \in PriceStudies /\ NextBar("news")
    BY DEF NewsFound, NewsInv, News, PriceStudies
  <2>2. Len(tape) < Length["news"]
    BY <2>1 DEF NextBar
  <2>3. QED
    BY <2>1, <2>2, NextTape, TapeIs
<1>2. mem' = mem /\ out' = out \o NewsFinds(tape')
  BY DEF News
<1>3. IsFiniteSet(mem.events)
  BY DEF NewsFound, NewsInv
<1> HIDE DEF n
<1>4. \A k \in 2..(s - 1) : FadesOn(tape', k) = FadesOn(tape, k)
  <2> SUFFICES ASSUME NEW k \in 2..(s - 1) PROVE FadesOn(tape', k) = FadesOn(tape, k)
    OBVIOUS
  <2>1. /\ k \in Nat /\ k >= 2 /\ k + 2 \in DOMAIN tape
        /\ \A j \in 1..(k + 1) : j \in DOMAIN tape
    BY <1>1
  <2>2. /\ \A j \in 1..(k + 1) : tape'[j] = tape[j] /\ tape'[j] \in Ohlc
        /\ tape'[k + 2].o = tape[k + 2].o
    BY <1>1, <2>1
  <2>3. QED
    BY <2>1, <2>2, FadesAgree
<1>5. Len(tape') - 2 = s /\ Len(tape) - 2 = s - 1 /\ s \in Int
  BY <1>1 DEF n
<1> HIDE DEF s
<1>6. NewsFinds(tape') = IF s < 2 THEN <<>> ELSE SetToSeq(FadesOn(tape', s))
  <2> DEFINE Give(m) == IF m < 2 THEN <<>> ELSE SetToSeq(FadesOn(tape', m))
  <2>1. NewsFinds(tape') = Give(Len(tape') - 2)
    BY DEF NewsFinds, FadesOn
  <2> HIDE DEF Give
  <2>2. NewsFinds(tape') = Give(s)
    BY <1>5, <2>1
  <2>3. QED
    BY <2>2 DEF Give
<1>7. Lists(out, FadesUpTo(tape, s - 1))
  BY <1>5 DEF NewsFound
<1>8. Lists(out', FadesUpTo(tape', s))
  <2>1. CASE s < 2
    <3>1. 2..(s - 1) = {} /\ 2..s = {}
      BY <1>5, <2>1
    <3>2. FadesUpTo(tape, s - 1) = {} /\ FadesUpTo(tape', s) = {}
      BY <3>1 DEF FadesUpTo
    <3>3. Lists(out \o <<>>, {} \cup {})
      BY <1>7, <3>2, NoneLists, ListsAdd
    <3>4. QED
      BY <1>2, <1>6, <2>1, <3>2, <3>3
  <2>2. CASE ~(s < 2)
    <3> DEFINE f == [k \in 2..(s - 1) |-> FadesOn(tape, k)]
               g == [k \in 2..s |-> FadesOn(tape', k)]
               old == FadesUpTo(tape, s - 1)
               new == FadesOn(tape', s)
    <3>1. 2 <= s /\ s \in 2..s /\ \A k \in 2..(s - 1) : k \in 2..s /\ k + 2 # s + 2
      BY <1>5, <2>2
    <3>2. \A k \in 2..(s - 1) : g[k] = f[k] /\ f[k] = FadesOn(tape, k)
      BY <1>4, <3>1
    <3>3. \A k \in 2..s : g[k] = FadesOn(tape', k)
      OBVIOUS
    <3> HIDE DEF f, g
    <3>4. UNION {g[k] : k \in 2..s} = (UNION {f[k] : k \in 2..(s - 1)}) \cup g[s]
      <4>1. 2 \in Int /\ s \in Int /\ 2 <= s /\ \A k \in 2..(s - 1) : g[k] = f[k]
        BY <1>5, <3>1, <3>2
      <4>2. QED
        BY ONLY <4>1, UnionNext
    <3>5. FadesUpTo(tape', s) = UNION {g[k] : k \in 2..s}
      BY <3>3 DEF FadesUpTo
    <3>6. old = UNION {f[k] : k \in 2..(s - 1)}
      BY <3>2 DEF FadesUpTo
    <3>7. g[s] = new
      BY <3>1, <3>3
    <3> HIDE DEF old, new
    <3>8. FadesUpTo(tape', s) = old \cup new
      BY <3>4, <3>5, <3>6, <3>7
    <3>9. IsFiniteSet(new) /\ \A x \in new : x.entry = s + 2
      BY <1>3, FadesAre DEF new
    <3>10. \A x \in old : x.entry # s + 2
      BY <1>3, <3>1, FadesAre DEF FadesUpTo, old
    <3>11. old \cap new = {}
      BY <3>9, <3>10
    <3>12. Lists(SetToSeq(new), new)
      BY <3>9, SetLists
    <3>13. Lists(out \o SetToSeq(new), old \cup new)
      BY <1>7, <3>11, <3>12, ListsAdd DEF old
    <3>14. QED
      BY <1>2, <1>6, <2>2, <3>8, <3>13 DEF new
  <2>3. QED
    BY <2>1, <2>2
<1>9. (FadesUpTo(tape, Len(tape) - 2))' = FadesUpTo(tape', s)
  <2>1. \A k : (EventsOf(k))' = EventsOf(k)
    BY <1>2 DEF EventsOf, Slot
  <2>2. \A k : (FadesOn(tape, k))' = FadesOn(tape', k)
    BY <2>1 DEF FadesOn
  <2>3. QED
    BY <1>5, <2>2 DEF FadesUpTo
<1>10. Len(tape') <= Length["news"]
  <2>1. Length["news"] \in Nat
    BY FrameIsSorted DEF TimedStudies
  <2>2. QED
    BY <1>1, <2>1 DEF n
<1>11. NewsInv'
  BY NewsGoesOn DEF NewsFound
<1>12. QED
  BY <1>2, <1>8, <1>9, <1>10, <1>11 DEF NewsFound

-----------------------------------------------------------------------------
(***************************************************************************)
(* The fader of large bars.                                                *)
(***************************************************************************)
\* The average in closed form, of any bars.
Later(bars, k) ==
    SumOver((AtrLength + 1)..(k - 1), LAMBDA j :
                TrueRange(bars, j) * Power(AtrLength, j - AtrLength) * Power(AtrLength - 1, k - 1 - j))
Wilder(bars, k) ==
    [scale |-> Power(AtrLength, k - 1 - AtrLength + 1),
     atr |-> RangesBefore(bars, AtrLength + 1) * Power(AtrLength - 1, k - 1 - AtrLength) + Later(bars, k)]

\* Three factors.
LEMMA ThreeFactors ==
    ASSUME NEW a \in Int, NEW b \in Int, NEW c \in Int, NEW d \in Int
    PROVE  a * b \in Int /\ a * b * c \in Int /\ a * b * (d * c) = d * (a * b * c) /\ a * (d * c) = d * (a * c)
<1>1. a * b \in Int /\ a * c \in Int
  OBVIOUS
<1> DEFINE p == a * b
<1>2. p \in Int
  BY <1>1
<1> HIDE DEF p
<1>3. p * c \in Int /\ p * (d * c) = d * (p * c)
  BY <1>2
<1>4. a * (d * c) = d * (a * c)
  OBVIOUS
<1>5. QED
  BY <1>1, <1>3, <1>4 DEF p

\* What is summed, before a bar and before the next one.
LEMMA LaterNext ==
    ASSUME NEW bars \in Seq(Ohlc), NEW k \in Nat, k > AtrLength, k - 1 \in DOMAIN bars
    PROVE  /\ Later(bars, k) \in Int
           /\ k = AtrLength + 1 => Later(bars, k) = 0
           /\ k > AtrLength + 1 =>
                Later(bars, k) = (AtrLength - 1) * Later(bars, k - 1)
                                   + TrueRange(bars, k - 1) * Power(AtrLength, k - 1 - AtrLength)
<1> DEFINE n == AtrLength
           S == (n + 1)..(k - 1)
           f(j) == TrueRange(bars, j) * Power(n, j - n) * Power(n - 1, k - 1 - j)
           e(j) == TrueRange(bars, j) * Power(n, j - n) * Power(n - 1, k - 2 - j)
           F == [j \in S |-> f(j)]
           x == k - 1
           R == S \ {x}
           E == [j \in R |-> e(j)]
           G == [j \in R |-> F[j]]
<1>1. /\ n \in Nat \ {0} /\ n - 1 \in Int /\ k \in Nat /\ k > n /\ k - 1 \in Nat
      /\ DOMAIN bars = 1..Len(bars) /\ Len(bars) \in Nat /\ k - 1 <= Len(bars)
  BY TapeIs, SomeAverage
<1> HIDE DEF n
<1>2. \A j \in S : /\ j \in DOMAIN bars /\ j - n \in Nat /\ k - 1 - j \in Nat
                   /\ (j # x => k - 2 - j \in Nat /\ k - 1 - j = (k - 2 - j) + 1)
  BY <1>1
<1>3. \A j \in S : /\ TrueRange(bars, j) \in Int /\ Power(n, j - n) \in Int /\ Power(n - 1, k - 1 - j) \in Int
                   /\ (j # x => Power(n - 1, k - 2 - j) \in Int
                               /\ Power(n - 1, k - 1 - j) = (n - 1) * Power(n - 1, k - 2 - j))
  <2> SUFFICES ASSUME NEW j \in S
               PROVE  /\ TrueRange(bars, j) \in Int /\ Power(n, j - n) \in Int
                      /\ Power(n - 1, k - 1 - j) \in Int
                      /\ (j # x => Power(n - 1, k - 2 - j) \in Int
                               /\ Power(n - 1, k - 1 - j) = (n - 1) * Power(n - 1, k - 2 - j))
    OBVIOUS
  <2>1. TrueRange(bars, j) \in Int
    BY <1>2, TrueRangeIs
  <2>2. Power(n, j - n) \in Int /\ Power(n - 1, k - 1 - j) \in Int
    <3> DEFINE p == j - n
               q == k - 1 - j
    <3>1. p \in Nat /\ q \in Nat /\ n \in Int /\ n - 1 \in Int
      BY <1>1, <1>2
    <3> HIDE DEF p, q
    <3>2. Power(n, p) \in Int /\ Power(n - 1, q) \in Int
      BY <3>1, PowerIs
    <3>3. QED
      BY <3>2 DEF p, q
  <2>3. ASSUME j # x
        PROVE  Power(n - 1, k - 2 - j) \in Int
               /\ Power(n - 1, k - 1 - j) = (n - 1) * Power(n - 1, k - 2 - j)
    <3> DEFINE i == k - 2 - j
    <3>1. i \in Nat /\ k - 1 - j = i + 1
      BY <1>2, <2>3
    <3> HIDE DEF i
    <3>2. Power(n - 1, i) \in Int /\ Power(n - 1, i + 1) = (n - 1) * Power(n - 1, i)
      BY <1>1, <3>1, PowerIs
    <3>3. QED
      BY <3>1, <3>2 DEF i
  <2>4. QED
    BY <2>1, <2>2, <2>3
<1>4. \A j \in S : f(j) \in Int /\ (j # x => e(j) \in Int /\ f(j) = (n - 1) * e(j))
  <2> SUFFICES ASSUME NEW j \in S PROVE f(j) \in Int /\ (j # x => e(j) \in Int /\ f(j) = (n - 1) * e(j))
    OBVIOUS
  <2> DEFINE a == TrueRange(bars, j)
             b == Power(n, j - n)
             c == Power(n - 1, k - 1 - j)
             d == Power(n - 1, k - 2 - j)
             m == n - 1
  <2>1. a \in Int /\ b \in Int /\ c \in Int /\ (j # x => d \in Int /\ c = m * d) /\ m \in Int
    BY <1>1, <1>3
  <2>2. f(j) = a * b * c /\ e(j) = a * b * d
    OBVIOUS
  <2> HIDE DEF a, b, c, d, f, e
  <2>3. a * b * c \in Int /\ (j # x => a * b * d \in Int /\ a * b * (m * d) = m * (a * b * d))
    BY <2>1, ThreeFactors
  <2>4. QED
    BY <2>1, <2>2, <2>3
<1>5. IsFiniteSet(S) /\ IsFiniteSet(R) /\ R \in SUBSET S
  <2>1. IsFiniteSet(S)
    BY <1>1, FS_Interval
  <2>2. R \in SUBSET S
    OBVIOUS
  <2> HIDE DEF S
  <2>3. QED
    BY <2>1, <2>2, FS_Subset
<1> HIDE DEF f, e
<1>6. F \in [S -> Int]
  BY <1>4
<1>7. Later(bars, k) = SumFunction(F)
  BY DEF Later, SumOver, f, n
<1>8. Later(bars, k) \in Int
  <2> HIDE DEF F, S
  <2>1. QED
    BY <1>5, <1>6, <1>7, SumIs
<1>9. ASSUME k = n + 1 PROVE Later(bars, k) = 0
  <2>1. S = {}
    BY <1>1, <1>9
  <2>2. F \in [{} -> Int] /\ DOMAIN F = {}
    BY <1>6, <2>1
  <2> HIDE DEF F
  <2>3. QED
    BY <1>7, <2>2, SumOfNone
<1>10. ASSUME k > n + 1
       PROVE  Later(bars, k) = (n - 1) * Later(bars, k - 1) + TrueRange(bars, k - 1) * Power(n, k - 1 - n)
  <2>1. x \in S /\ R = (n + 1)..(k - 2) /\ k - 1 - 1 = k - 2 /\ \A j : k - 1 - 1 - j = k - 2 - j
    <3>1. x \in S /\ R = (n + 1)..(k - 2) /\ k - 1 - 1 = k - 2
      BY <1>1, <1>10
    <3>2. QED
      BY <3>1
  <2>2. Later(bars, k - 1) = SumFunction(E)
    <3>1. Later(bars, k - 1) = SumFunction([j \in (n + 1)..(k - 1 - 1) |->
                TrueRange(bars, j) * Power(n, j - n) * Power(n - 1, k - 1 - 1 - j)])
      BY DEF Later, SumOver, n
    <3>2. [j \in (n + 1)..(k - 1 - 1) |->
                TrueRange(bars, j) * Power(n, j - n) * Power(n - 1, k - 1 - 1 - j)] = E
      BY <2>1 DEF e
    <3>3. QED
      BY <3>1, <3>2
  <2>3. E \in [R -> Int] /\ G \in [R -> Int] /\ \A j \in R : G[j] = (n - 1) * E[j]
    <3>1. \A j \in R : j \in S /\ j # x /\ F[j] = f(j)
      OBVIOUS
    <3> HIDE DEF F, S
    <3>2. \A j \in R : G[j] = F[j] /\ E[j] = e(j)
      OBVIOUS
    <3> HIDE DEF R
    <3>3. QED
      BY <1>4, <3>1, <3>2
  <2>4. F[x] = TrueRange(bars, k - 1) * Power(n, k - 1 - n)
    <3>1. F[x] = f(x) /\ k - 1 - x = 0
      BY <1>1, <2>1
    <3>2. Power(n - 1, 0) = 1
      BY <1>1, PowerIs
    <3> DEFINE a == TrueRange(bars, x)
               b == Power(n, x - n)
               c == Power(n - 1, k - 1 - x)
    <3>3. f(x) = a * b * c /\ c = 1 /\ a \in Int /\ b \in Int
      BY <1>3, <2>1, <3>1, <3>2 DEF f
    <3> HIDE DEF a, b, c
    <3>4. a * b * c = a * b
      <4>1. a * b \in Int
        BY <3>3
      <4> DEFINE ab == a * b
      <4> HIDE DEF ab
      <4>2. ab * 1 = ab
        BY <4>1 DEF ab
      <4>3. QED
        BY <3>3, <4>2 DEF ab
    <3>5. QED
      BY <3>1, <3>3, <3>4 DEF a, b
  <2> HIDE DEF F, E, R, S
  <2>5. SumFunction(F) = F[x] + SumFunction(G) /\ SumFunction(G) \in Int
    <3>1. R = S \ {x} /\ G \in [R -> Int] /\ \A i \in R : G[i] = F[i]
      BY <2>3 DEF R
    <3> HIDE DEF G, x
    <3>2. IsFiniteSet(S) /\ F \in [S -> Int] /\ x \in S
      BY <1>5, <1>6, <2>1
    <3>3. Without(G, R, F, S, x)
      BY <3>1, <3>2 DEF Without
    <3>4. QED
      BY <3>3, SumWithout
  <2> HIDE DEF G
  <2>6. SumFunction(G) = (n - 1) * SumFunction(E)
    BY <1>1, <1>5, <2>3, SumScaled
  <2>7. F[x] \in Int
    BY <1>6, <2>1
  <2> DEFINE fx == F[x]
             sg == SumFunction(G)
  <2>8. fx + sg = sg + fx /\ SumFunction(F) = fx + sg
    <3>1. fx \in Int /\ sg \in Int
      BY <2>5, <2>7
    <3>2. SumFunction(F) = fx + sg
      BY <2>5
    <3> HIDE DEF fx, sg
    <3>3. QED
      BY <3>1, <3>2
  <2> HIDE DEF fx, sg
  <2>9. QED
    BY <1>7, <2>2, <2>4, <2>6, <2>8 DEF fx, sg
<1>11. QED
  BY <1>8, <1>9, <1>10 DEF n

\* The average by the bars before a bar alone.
LEMMA WilderAgrees ==
    ASSUME NEW a, NEW b, NEW k \in Nat, k > AtrLength, \A j \in 1..(k - 1) : a[j] = b[j]
    PROVE  Wilder(a, k) = Wilder(b, k)
<1>1. k - 1 \in Nat /\ AtrLength \in Nat /\ AtrLength + 1 - 1 = AtrLength
  BY SomeAverage
<1>2. \A j \in 1..(k - 1) : TrueRange(a, j) = TrueRange(b, j)
  BY <1>1, RangeAgrees
<1>3. RangesBefore(a, AtrLength + 1) = RangesBefore(b, AtrLength + 1)
  <2>1. \A j \in 1..AtrLength : j \in 1..(k - 1)
    BY <1>1
  <2>2. [j \in 1..AtrLength |-> TrueRange(a, j)] = [j \in 1..AtrLength |-> TrueRange(b, j)]
    BY <1>2, <2>1
  <2>3. QED
    BY <1>1, <2>2 DEF RangesBefore, SumOver
<1>4. Later(a, k) = Later(b, k)
  <2> DEFINE f(j) == TrueRange(a, j) * Power(AtrLength, j - AtrLength) * Power(AtrLength - 1, k - 1 - j)
             g(j) == TrueRange(b, j) * Power(AtrLength, j - AtrLength) * Power(AtrLength - 1, k - 1 - j)
             S == (AtrLength + 1)..(k - 1)
  <2>1. \A j \in S : j \in 1..(k - 1)
    BY <1>1
  <2>2. \A j \in S : f(j) = g(j)
    BY <1>2, <2>1
  <2>3. Later(a, k) = SumFunction([j \in S |-> f(j)]) /\ Later(b, k) = SumFunction([j \in S |-> g(j)])
    BY DEF Later, SumOver
  <2> HIDE DEF f, g, S
  <2>4. [j \in S |-> f(j)] = [j \in S |-> g(j)]
    BY <2>2
  <2>5. QED
    BY <2>3, <2>4
<1>5. QED
  BY <1>3, <1>4 DEF Wilder

\* The average that is kept goes the same way.
LEMMA WilderNext ==
    ASSUME NEW bars \in Seq(Ohlc), NEW k \in Nat, k > AtrLength, k - 1 \in DOMAIN bars
    PROVE  /\ k = AtrLength + 1 => /\ Wilder(bars, k).scale = AtrLength
                                   /\ Wilder(bars, k).atr = RangesBefore(bars, k)
           /\ k > AtrLength + 1 =>
                /\ Wilder(bars, k).scale = Wilder(bars, k - 1).scale * AtrLength
                /\ Wilder(bars, k).atr = (AtrLength - 1) * Wilder(bars, k - 1).atr
                                           + Wilder(bars, k - 1).scale * TrueRange(bars, k - 1)
<1> DEFINE n == AtrLength
           r == RangesBefore(bars, n + 1)
           W(i) == Wilder(bars, i)
<1>1. /\ n \in Nat \ {0} /\ n \in Int /\ n - 1 \in Int /\ k \in Nat /\ k > n /\ k - 1 \in Nat
      /\ DOMAIN bars = 1..Len(bars) /\ Len(bars) \in Nat /\ k - 1 <= Len(bars)
  BY TapeIs, SomeAverage
<1>2. r \in Int
  <2> DEFINE c == n + 1
  <2>1. 1..(c - 1) \in SUBSET (DOMAIN bars)
    BY <1>1
  <2> HIDE DEF c
  <2>2. RangesBefore(bars, c) \in Int
    BY <2>1, RangesSum DEF RangesBefore
  <2>3. QED
    BY <2>2 DEF c
<1>3. \A i : /\ W(i).scale = Power(n, i - 1 - n + 1)
             /\ W(i).atr = r * Power(n - 1, i - 1 - n) + Later(bars, i)
  BY DEF Wilder
<1> HIDE DEF n, r, W
<1>4. ASSUME k = n + 1
      PROVE  W(k).scale = n /\ W(k).atr = r
  <2>1. k - 1 - n + 1 = 0 + 1 /\ k - 1 - n = 0 /\ 0 \in Nat
    BY <1>1, <1>4
  <2>2. Power(n, 0) = 1 /\ Power(n - 1, 0) = 1 /\ Power(n, 0 + 1) = n * Power(n, 0)
    BY <1>1, <2>1, PowerIs
  <2>3. Later(bars, k) = 0
    <3>1. k = AtrLength + 1
      BY <1>4 DEF n
    <3>2. QED
      BY ONLY <3>1, k \in Nat, k > AtrLength, k - 1 \in DOMAIN bars, bars \in Seq(Ohlc), LaterNext
  <2>4. n * 1 = n /\ r * 1 + 0 = r
    BY <1>1, <1>2
  <2>5. W(k).scale = n * 1 /\ W(k).atr = r * 1 + 0
    BY <1>3, <2>1, <2>2, <2>3
  <2>6. QED
    BY <2>4, <2>5
<1>5. ASSUME k > n + 1
      PROVE  /\ W(k).scale = W(k - 1).scale * n
             /\ W(k).atr = (n - 1) * W(k - 1).atr + W(k - 1).scale * TrueRange(bars, k - 1)
  <2> DEFINE i == k - 2 - n
             p == Power(n, i + 1)
             q == Power(n - 1, i)
             l == Later(bars, k - 1)
             t == TrueRange(bars, k - 1)
             m == n - 1
  <2>1. /\ i \in Nat /\ i + 1 \in Nat /\ k - 1 - n + 1 = (i + 1) + 1 /\ k - 1 - n = i + 1
        /\ (k - 1) - 1 - n + 1 = i + 1 /\ (k - 1) - 1 - n = i
    BY <1>1, <1>5
  <2> HIDE DEF i
  <2>2. Power(n, (i + 1) + 1) = n * p /\ Power(n - 1, i + 1) = m * q /\ p \in Int /\ q \in Int /\ m \in Int
    BY <1>1, <2>1, PowerIs
  <2>3. Later(bars, k) = m * l + t * p
    <3>1. Later(bars, k) = (n - 1) * Later(bars, k - 1) + TrueRange(bars, k - 1) * Power(n, k - 1 - n)
      BY <1>1, <1>5, LaterNext DEF n
    <3>2. QED
      BY <2>1, <3>1
  <2>4. l \in Int
    <3>1. k - 1 > n /\ (k - 1) - 1 \in DOMAIN bars
      BY <1>1, <1>5
    <3> DEFINE c == k - 1
    <3>2. c \in Nat /\ c > n /\ c - 1 \in DOMAIN bars
      BY <1>1, <3>1
    <3> HIDE DEF c
    <3>3. Later(bars, c) \in Int
      BY <3>2, LaterNext DEF n
    <3>4. QED
      BY <3>3 DEF c
  <2>5. t \in Int
    BY TrueRangeIs
  <2>6. /\ W(k).scale = n * p /\ W(k).atr = r * (m * q) + (m * l + t * p)
        /\ W(k - 1).scale = p /\ W(k - 1).atr = r * q + l
    BY <1>3, <2>1, <2>2, <2>3
  <2> HIDE DEF p, q, l, t, m
  <2>7. n * p = p * n
    BY <1>1, <2>2
  <2>8. r * (m * q) + (m * l + t * p) = m * (r * q + l) + p * t
    <3>1. r * (m * q) = m * (r * q) /\ t * p = p * t /\ m * (r * q + l) = m * (r * q) + m * l
      <4>1. r * q \in Int
        BY <1>2, <2>2
      <4> DEFINE x == r * q
      <4>2. r * (m * q) = m * x /\ t * p = p * t
        BY <1>2, <2>2, <2>5
      <4> HIDE DEF x
      <4>3. m * (x + l) = m * x + m * l
        BY <2>2, <2>4, <4>1 DEF x
      <4>4. QED
        BY <4>2, <4>3 DEF x
    <3> DEFINE a == m * (r * q)
               b == m * l
               c == p * t
    <3>2. a \in Int /\ b \in Int /\ c \in Int
      <4>1. r * q \in Int
        BY <1>2, <2>2
      <4> DEFINE x == r * q
      <4> HIDE DEF x
      <4>2. m * x \in Int /\ m * l \in Int /\ p * t \in Int
        BY <2>2, <2>4, <2>5, <4>1 DEF x
      <4>3. QED
        BY <4>2 DEF x
    <3>3. r * (m * q) + (m * l + t * p) = a + (b + c) /\ m * (r * q + l) + p * t = (a + b) + c
      BY <3>1
    <3> HIDE DEF a, b, c
    <3>4. a + (b + c) = (a + b) + c
      BY <3>2
    <3>5. QED
      BY <3>3, <3>4
  <2>9. QED
    BY <2>6, <2>7, <2>8 DEF m, t
<1>6. QED
  BY <1>1, <1>4, <1>5 DEF n, r, W

\* What is found on a bar, and on the bars up to one.
SigmaOn(bars, k) == Range(SigmaSignals(bars, k, Wilder(bars, k)))
SigmaUpTo(bars, m) == UNION {SigmaOn(bars, k) : k \in (AtrLength + 1)..m}

\* The average is the one of the whole tape, and what has been found is what that finds.
SigmaFound ==
    /\ SigmaInv
    /\ "times" \in DOMAIN mem
    /\ Len(tape) > AtrLength + 1 =>
         /\ mem.atr = Wilder(tape, Len(tape) - 1).atr
         /\ mem.scale = Wilder(tape, Len(tape) - 1).scale
    /\ Lists(out, SigmaUpTo(tape, Len(tape) - 1))

\* The setups of the tape are these.
LEMMA SigmaSetupsAre == SigmaSetups = SigmaUpTo(tape, Len(tape) - 1)
<1>1. \A k : WilderAt(k) = Wilder(tape, k)
  BY DEF WilderAt, Wilder, Later
<1>2. QED
  BY <1>1 DEF SigmaSetups, SigmaUpTo, SigmaOn

\* One signal at most, for the bar after.
LEMMA SigmaOne ==
    ASSUME NEW bars, NEW k, NEW average
    PROVE  /\ Lists(SigmaSignals(bars, k, average), Range(SigmaSignals(bars, k, average)))
           /\ \A x \in Range(SigmaSignals(bars, k, average)) : x.entry = k + 1
<1> DEFINE side == IF bars[k].c >= bars[k].o THEN -1 ELSE 1
           open == 2 * average.scale * bars[k + 1].o
           s == Signal(side, k + 1, open - 3 * side * average.atr, open + side * average.atr,
                       [bar |-> k, unit |-> 2 * average.scale])
           q == SigmaSignals(bars, k, average)
<1>1. q = <<>> \/ q = <<s>>
  BY DEF SigmaSignals
<1>2. s.entry = k + 1
  BY DEF Signal
<1> HIDE DEF s, q
<1>3. CASE q = <<>>
  <2>1. Lists(q, {})
    BY <1>3, NoneLists
  <2>2. QED
    BY <2>1 DEF Lists, q
<1>4. CASE q = <<s>>
  <2>1. Lists(q, {s})
    BY <1>4, OneLists
  <2>2. Range(q) = {s}
    BY <2>1 DEF Lists
  <2>3. QED
    BY <1>2, <2>1, <2>2 DEF q
<1>5. QED
  BY <1>1, <1>3, <1>4

\* A list of what earlier bars gave, and of what one more gives.
Adds(q, e, f, g, m, n) ==
    /\ m \in Int /\ n \in Int
    /\ \A k \in m..(n - 1) : g[k] = f[k] /\ \A x \in f[k] : x \notin g[n]
    /\ Lists(q, UNION {f[k] : k \in m..(n - 1)})
    /\ m <= n => Lists(e, g[n])
    /\ n < m => e = <<>>

\* The list then has what the longer tape tells of, up to the new bar.
LEMMA FoundNext ==
    ASSUME NEW q, NEW e, NEW f, NEW g, NEW m, NEW n, Adds(q, e, f, g, m, n)
    PROVE  Lists(q \o e, UNION {g[k] : k \in m..n})
<1> USE DEF Adds
<1> DEFINE old == UNION {f[k] : k \in m..(n - 1)}
<1>1. CASE m <= n
  <2>1. UNION {g[k] : k \in m..n} = old \cup g[n]
    BY <1>1, UnionNext
  <2>2. old \cap g[n] = {}
    OBVIOUS
  <2> HIDE DEF old
  <2>3. Lists(q \o e, old \cup g[n])
    BY <1>1, <2>2, ListsAdd DEF old
  <2>4. QED
    BY <2>1, <2>3
<1>2. CASE n < m
  <2>1. m..n = {} /\ m..(n - 1) = {}
    BY <1>2
  <2>2. UNION {g[k] : k \in m..n} = {} /\ old = {}
    BY <2>1
  <2>3. Lists(q \o <<>>, {} \cup {})
    <3>1. Lists(q, {})
      BY <2>2
    <3>2. QED
      BY <3>1, NoneLists, ListsAdd
  <2>4. QED
    BY <1>2, <2>2, <2>3
<1>3. QED
  BY <1>1, <1>2

\* Nothing has been found at the start.
LEMMA SigmaFoundBegins == InitSigma => SigmaFound
<1> SUFFICES ASSUME InitSigma PROVE SigmaFound
  OBVIOUS
<1> DEFINE memory == [atr |-> 0, scale |-> 1]
<1>1. StartStudy("sigma", memory)
  BY DEF InitSigma
<1> HIDE DEF memory
<1>2. tape = <<>> /\ out = <<>> /\ "times" \in DOMAIN mem
  BY <1>1, Started
<1>3. Len(tape) = 0 /\ AtrLength \in Nat /\ (AtrLength + 1)..(0 - 1) = {} /\ ~(0 > AtrLength + 1)
  BY <1>2, SomeAverage
<1>4. SigmaUpTo(tape, Len(tape) - 1) = {}
  BY <1>3 DEF SigmaUpTo
<1>5. Lists(out, SigmaUpTo(tape, Len(tape) - 1))
  BY <1>2, <1>4, NoneLists
<1>6. QED
  BY <1>2, <1>3, <1>5, SigmaBegins DEF SigmaFound

\* A bar adds its fade, by the average of the bars before it.
LEMMA SigmaFoundGoesOn == SigmaFound /\ Sigma => SigmaFound'
<1> SUFFICES ASSUME SigmaFound, Sigma PROVE SigmaFound'
  OBVIOUS
<1> DEFINE k == Len(tape)
           average == AverageAt(tape', k)
           n == AtrLength
<1>1. /\ tape' \in Seq(Ohlc) /\ tape \in Seq(Ohlc)
      /\ DOMAIN tape' = 1..(k + 1) /\ DOMAIN tape = 1..k /\ k \in Nat /\ Len(tape') = k + 1
      /\ \A j \in DOMAIN tape : j \in DOMAIN tape' /\ tape'[j] = tape[j]
  BY NextTape DEF SigmaFound, SigmaInv, Sigma, PriceStudies
<1>2. /\ out' = out \o SigmaFinds(tape')
      /\ mem' = IF k <= n THEN mem ELSE [mem EXCEPT !.atr = average.atr, !.scale = average.scale]
      /\ {"atr", "scale", "times"} \subseteq DOMAIN mem
  BY DEF Sigma, SigmaFound, SigmaInv
<1>3. n \in Nat \ {0} /\ n \in Int /\ n + 1 \in Int
  BY SomeAverage
<1>4. mem'.times = mem.times /\ "times" \in DOMAIN mem'
  <2> HIDE DEF average, k, n
  <2>1. QED
    BY <1>2
<1>5. SigmaFinds(tape') = IF k <= n THEN <<>> ELSE SigmaSignals(tape', k, average)
  BY <1>1 DEF SigmaFinds
<1>6. ~(k <= n) => average.atr = Wilder(tape', k).atr /\ average.scale = Wilder(tape', k).scale
  <2> SUFFICES ASSUME ~(k <= n)
               PROVE  average.atr = Wilder(tape', k).atr /\ average.scale = Wilder(tape', k).scale
    OBVIOUS
  <2> HIDE DEF k
  <2>1. k \in Nat /\ k > n /\ k - 1 \in DOMAIN tape' /\ \A j \in 1..(k - 1) : tape'[j] = tape[j]
    BY <1>1, <1>3
  <2>2. k = n + 1 => Wilder(tape', k).scale = n /\ Wilder(tape', k).atr = RangesBefore(tape', k)
    BY <1>1, <2>1, WilderNext
  <2>3. k > n + 1 =>
          /\ Wilder(tape', k).scale = Wilder(tape', k - 1).scale * n
          /\ Wilder(tape', k).atr = (n - 1) * Wilder(tape', k - 1).atr
                                       + Wilder(tape', k - 1).scale * TrueRange(tape', k - 1)
    BY <1>1, <2>1, WilderNext
  <2>4. k > n + 1 => Wilder(tape', k - 1) = Wilder(tape, k - 1)
    <3> DEFINE c == k - 1
    <3>1. k > n + 1 => c \in Nat /\ c > n /\ \A j \in 1..(c - 1) : j \in 1..(k - 1)
      BY <1>1, <1>3
    <3> HIDE DEF c, n
    <3>2. k > n + 1 => Wilder(tape', c) = Wilder(tape, c)
      BY <2>1, <3>1, WilderAgrees DEF n
    <3>3. QED
      BY <3>2 DEF c
  <2>5. k > n + 1 => mem.atr = Wilder(tape, k - 1).atr /\ mem.scale = Wilder(tape, k - 1).scale
    BY DEF SigmaFound, k
  <2>6. k = n + 1 => average.atr = RangesBefore(tape', k) /\ average.scale = n
    BY DEF AverageAt
  <2>7. k > n + 1 => /\ average.atr = (n - 1) * mem.atr + mem.scale * TrueRange(tape', k - 1)
                     /\ average.scale = mem.scale * n
    <3>1. k > n + 1 => k # n + 1
      BY <1>1, <1>3
    <3>2. QED
      BY <3>1 DEF AverageAt, Smoothed
  <2>8. k = n + 1 \/ k > n + 1
    BY <1>3, <2>1
  <2> HIDE DEF average
  <2>9. QED
    BY <2>2, <2>3, <2>4, <2>5, <2>6, <2>7, <2>8
<1>7. ~(k <= n) => SigmaSignals(tape', k, average) = SigmaSignals(tape', k, Wilder(tape', k))
  BY <1>6 DEF SigmaSignals
<1>8. \A i \in (n + 1)..(k - 1) : SigmaOn(tape', i) = SigmaOn(tape, i)
  <2> SUFFICES ASSUME NEW i \in (n + 1)..(k - 1) PROVE SigmaOn(tape', i) = SigmaOn(tape, i)
    OBVIOUS
  <2> HIDE DEF k
  <2>1. i \in Nat /\ i > n /\ i \in DOMAIN tape /\ i + 1 \in DOMAIN tape /\ \A j \in 1..(i - 1) : j \in DOMAIN tape
    BY <1>1, <1>3
  <2>2. Wilder(tape', i) = Wilder(tape, i)
    BY <1>1, <2>1, WilderAgrees
  <2>3. tape'[i] = tape[i] /\ tape'[i + 1] = tape[i + 1]
    BY <1>1, <2>1
  <2>4. QED
    BY <2>2, <2>3 DEF SigmaOn, SigmaSignals
<1> HIDE DEF average
<1>9. Lists(out', SigmaUpTo(tape', k))
  <2> DEFINE f == [i \in (n + 1)..(k - 1) |-> SigmaOn(tape, i)]
             g == [i \in (n + 1)..k |-> SigmaOn(tape', i)]
             e == SigmaFinds(tape')
             m == n + 1
  <2> HIDE DEF k
  <2>1. m \in Int /\ k \in Int /\ \A i \in m..(k - 1) : i \in m..k
    BY <1>1, <1>3
  <2>2. \A i \in m..(k - 1) : g[i] = f[i]
    BY <1>8, <2>1
  <2>3. SigmaUpTo(tape, k - 1) = UNION {f[i] : i \in m..(k - 1)} /\ SigmaUpTo(tape', k) = UNION {g[i] : i \in m..k}
    BY DEF SigmaUpTo
  <2>4. Lists(out, UNION {f[i] : i \in m..(k - 1)})
    BY <2>3 DEF SigmaFound, k
  <2>5. m <= k => g[k] = SigmaOn(tape', k) /\ ~(k <= n)
    BY <2>1, <1>3
  <2>6. k < m => k <= n
    BY <2>1, <1>3
  <2>7. \A i \in m..(k - 1) : \A x \in f[i] : x \notin g[k]
    <3> SUFFICES ASSUME NEW i \in m..(k - 1), NEW x \in f[i], x \in g[k] PROVE FALSE
      OBVIOUS
    <3>1. x \in SigmaOn(tape, i) /\ x \in SigmaOn(tape', k) /\ i + 1 # k + 1
      <4>1. m <= k /\ i < k /\ i \in Int
        BY <2>1
      <4>2. QED
        BY <2>1, <2>5, <4>1
    <3>2. x.entry = i + 1 /\ x.entry = k + 1
      BY <3>1, SigmaOne DEF SigmaOn
    <3>3. QED
      BY <3>1, <3>2
  <2> HIDE DEF f, g, m, e
  <2>8. m <= k => Lists(e, g[k])
    <3>1. Lists(SigmaSignals(tape', k, Wilder(tape', k)), SigmaOn(tape', k))
      BY SigmaOne DEF SigmaOn
    <3>2. QED
      BY <1>5, <1>7, <2>5, <3>1 DEF e
  <2>9. k < m => e = <<>>
    BY <1>5, <2>6 DEF e
  <2>10. Lists(out \o e, UNION {g[i] : i \in m..k})
    <3>1. Adds(out, e, f, g, m, k)
      BY <2>1, <2>2, <2>4, <2>7, <2>8, <2>9 DEF Adds
    <3>2. QED
      BY <3>1, FoundNext
  <2>11. QED
    BY <1>2, <2>3, <2>10 DEF e
<1>10. (SigmaUpTo(tape, Len(tape) - 1))' = SigmaUpTo(tape', k)
  <2>1. Len(tape') - 1 = k
    BY <1>1
  <2>2. \A i : (InSession(i))' <=> InSession(i)
    BY <1>4 DEF InSession, Weekday, Hour, DayOf, Slot
  <2>3. \A i : (SigmaOn(tape, i))' = SigmaOn(tape', i)
    BY <2>2 DEF SigmaOn, SigmaSignals
  <2>4. QED
    BY <2>1, <2>3 DEF SigmaUpTo
<1>11. Len(tape') > n + 1 => mem'.atr = Wilder(tape', Len(tape') - 1).atr
                            /\ mem'.scale = Wilder(tape', Len(tape') - 1).scale
  <2>1. Len(tape') > n + 1 => ~(k <= n) /\ Len(tape') - 1 = k
    BY <1>1, <1>3
  <2> HIDE DEF k
  <2>2. QED
    BY <1>2, <1>6, <2>1
<1>12. SigmaInv'
  BY SigmaGoesOn DEF SigmaFound
<1>13. QED
  <2>1. (Lists(out, SigmaUpTo(tape, Len(tape) - 1)))'
    BY <1>9, <1>10 DEF Lists
  <2>2. QED
    BY <1>4, <1>11, <1>12, <2>1 DEF SigmaFound

-----------------------------------------------------------------------------
(***************************************************************************)
(* The sweeps.                                                             *)
(***************************************************************************)
\* What is found on a bar, and on the bars up to one.
SweepAt(bars, k) == SweepSignals(bars, k, Levels(bars, BeforeInSession(k)))
SweepOn(bars, k) == IF Weekday(k) THEN Range(SweepAt(bars, k)) ELSE {}
SweepUpTo(bars, m) == UNION {SweepOn(bars, k) : k \in 2..m}

\* The bars of a session up to one of them.
InSessionUpTo(k) == BeforeInSession(k) \cup {k}

\* The levels, widened by the last bar, are the extremes of its session.
SweepsFound ==
    /\ SweepInv
    /\ {"times", "past"} \subseteq DOMAIN mem
    /\ mem.session = IF Len(tape) > 2 /\ Weekday(Len(tape) - 1) THEN SessionId(Len(tape) - 1) ELSE 0
    /\ mem.session # 0 =>
         Widen(mem.levels, tape[Len(tape) - 1]) = Levels(tape, InSessionUpTo(Len(tape) - 1))
    /\ Lists(out, SweepUpTo(tape, Len(tape) - 1))

\* The greatest and the least of some bars and one more.
LEMMA LevelsWiden ==
    ASSUME NEW bars \in Seq(Ohlc), NEW S \in SUBSET (DOMAIN bars), NEW k \in DOMAIN bars
    PROVE  Widen(Levels(bars, S), bars[k]) = Levels(bars, S \cup {k})
<1> DEFINE R == S \cup {k}
           hs(T) == {bars[j].h : j \in T}
           ls(T) == {bars[j].l : j \in T}
           h == bars[k].h
           l == bars[k].l
<1>1. /\ \A j \in DOMAIN bars : bars[j] \in Ohlc /\ bars[j].h \in Int /\ bars[j].l \in Int
      /\ IsFiniteSet(DOMAIN bars)
  <2>1. \A j \in DOMAIN bars : bars[j] \in Ohlc
    BY TapeIs
  <2>2. QED
    BY <2>1, TapeIs DEF Ohlc
<1>2. R \in SUBSET (DOMAIN bars) /\ S \subseteq R /\ k \in R
  OBVIOUS
<1>3. ASSUME NEW T \in SUBSET (DOMAIN bars), T # {}
      PROVE  /\ Max(hs(T)) \in hs(T) /\ Max(hs(T)) \in Int /\ \A y \in hs(T) : y <= Max(hs(T))
             /\ Min(ls(T)) \in ls(T) /\ Min(ls(T)) \in Int /\ \A y \in ls(T) : Min(ls(T)) <= y
  <2> DEFINE f == [j \in DOMAIN bars |-> bars[j].h]
             g == [j \in DOMAIN bars |-> bars[j].l]
  <2>1. IsFiniteSet(T)
    BY <1>1, FS_Subset
  <2>2. hs(T) = {f[j] : j \in T} /\ ls(T) = {g[j] : j \in T}
    OBVIOUS
  <2>3. hs(T) # {} /\ ls(T) # {} /\ hs(T) \subseteq Int /\ ls(T) \subseteq Int
    BY <1>1, <1>3
  <2> HIDE DEF hs, ls, f, g
  <2>4. IsFiniteSet(hs(T)) /\ IsFiniteSet(ls(T))
    BY <2>1, <2>2, ImageIsFinite
  <2>5. Max(hs(T)) \in hs(T) /\ \A y \in hs(T) : Max(hs(T)) >= y
    BY <2>3, <2>4, MaxIsOne
  <2>6. Min(ls(T)) \in ls(T) /\ \A y \in ls(T) : Min(ls(T)) <= y
    BY <2>3, <2>4, MinIsOne
  <2>7. QED
    BY <2>3, <2>5, <2>6
<1>4. h \in Int /\ l \in Int /\ hs(R) = hs(S) \cup {h} /\ ls(R) = ls(S) \cup {l}
  BY <1>1
<1>5. Levels(bars, R) = [h |-> Max(hs(R)), l |-> Min(ls(R))]
  BY <1>2 DEF Levels
<1>6. CASE S = {}
  <2>1. Levels(bars, S) = NoLevels
    BY <1>6 DEF Levels
  <2>2. hs(R) = {h} /\ ls(R) = {l}
    BY <1>6
  <2>3. Max(hs(R)) = h /\ Min(ls(R)) = l
    <3>1. Max(hs(R)) \in hs(R) /\ Min(ls(R)) \in ls(R)
      BY <1>2, <1>3
    <3>2. QED
      BY <2>2, <3>1
  <2>4. Widen(NoLevels, bars[k]) = [h |-> h, l |-> l]
    BY DEF Widen
  <2>5. QED
    BY <1>5, <2>1, <2>3, <2>4
<1>7. CASE S # {}
  <2> DEFINE a == Max(hs(S))
             b == Min(ls(S))
             c == Max(hs(R))
             d == Min(ls(R))
  <2>1. /\ a \in hs(S) /\ a \in Int /\ \A y \in hs(S) : y <= a
        /\ b \in ls(S) /\ b \in Int /\ \A y \in ls(S) : b <= y
    BY <1>3, <1>7
  <2>2. /\ c \in hs(R) /\ c \in Int /\ \A y \in hs(R) : y <= c
        /\ d \in ls(R) /\ d \in Int /\ \A y \in ls(R) : d <= y
    BY <1>2, <1>3
  <2> HIDE DEF hs, ls, R
  <2>3. Levels(bars, S) = [h |-> a, l |-> b]
    BY <1>7 DEF Levels, hs, ls
  <2> HIDE DEF a, b, c, d, h, l
  <2>4. a <= c /\ h <= c /\ (c = h \/ c <= a) /\ d <= b /\ d <= l /\ (d = l \/ b <= d)
    BY <1>4, <2>1, <2>2
  <2>5. Max({a, h}) = c
    <3>1. Max({a, h}) \in Int /\ Max({a, h}) \in {a, h} /\ a <= Max({a, h}) /\ h <= Max({a, h})
      BY <1>4, <2>1, MaxOfTwo
    <3>2. QED
      BY <1>4, <2>1, <2>2, <2>4, <3>1
  <2>6. Min({b, l}) = d
    <3>1. Min({b, l}) \in Int /\ Min({b, l}) \in {b, l} /\ Min({b, l}) <= b /\ Min({b, l}) <= l
      BY <1>4, <2>1, MinOfTwo
    <3>2. QED
      BY <1>4, <2>1, <2>2, <2>4, <3>1
  <2>7. [h |-> a, l |-> b] # NoLevels
    <3>1. DOMAIN [h |-> a, l |-> b] = {"h", "l"} /\ DOMAIN NoLevels = {"none"}
      BY DEF NoLevels
    <3>2. QED
      BY <3>1
  <2>8. Widen([h |-> a, l |-> b], bars[k]) = [h |-> Max({a, h}), l |-> Min({b, l})]
    BY <2>7 DEF Widen, h, l
  <2>9. QED
    BY <1>5, <2>3, <2>5, <2>6, <2>8 DEF c, d, R
<1>8. QED
  BY <1>6, <1>7

\* No signal without levels; one at most, for the bar after.
LEMMA SweepOne ==
    ASSUME NEW bars, NEW k, NEW levels
    PROVE  /\ Lists(SweepSignals(bars, k, levels), Range(SweepSignals(bars, k, levels)))
           /\ \A x \in Range(SweepSignals(bars, k, levels)) : x.entry = k + 1
           /\ SweepSignals(bars, k, levels) # <<>> =>
                Range(SweepSignals(bars, k, levels)) = {SweepSignals(bars, k, levels)[1]}
           /\ SweepSignals(bars, k, levels) = <<>> => Range(SweepSignals(bars, k, levels)) = {}
           /\ SessionId(k) = 0 => SweepSignals(bars, k, levels) = <<>>
<1> DEFINE side == SweepSide(bars[k], levels)
           b == Facing(bars[k], side)
           level == Swept(levels, side)
           s == Signal(side, k + 1, side * (b.l - SweepBuffer), side * level.h, k)
           q == SweepSignals(bars, k, levels)
<1>1. (q = <<>> \/ q = <<s>>) /\ (SessionId(k) = 0 => q = <<>>)
  BY DEF SweepSignals
<1>2. s.entry = k + 1
  BY DEF Signal
<1> HIDE DEF s, q
<1>3. CASE q = <<>>
  <2>1. Lists(q, {})
    BY <1>3, NoneLists
  <2>2. QED
    BY <1>1, <1>3, <2>1 DEF Lists, q
<1>4. CASE q = <<s>>
  <2>1. Lists(q, {s})
    BY <1>4, OneLists
  <2>2. Range(q) = {s} /\ q # <<>> /\ q[1] = s
    BY <1>4, <2>1 DEF Lists
  <2>3. QED
    BY <1>1, <1>2, <2>1, <2>2 DEF q
<1>5. QED
  BY <1>1, <1>3, <1>4

\* The setups of the tape are these.
LEMMA SweepSetupsAre == SweepSetups = SweepUpTo(tape, Len(tape) - 1)
<1> DEFINE q(k) == SweepAt(tape, k)
           n == Len(tape) - 1
           ks == {j \in 2..n : Weekday(j) /\ q(j) # <<>>}
<1>1. SweepSetups = {q(k)[1] : k \in ks}
  BY DEF SweepSetups, SweepAt
<1>2. \A k : (q(k) # <<>> => Range(q(k)) = {q(k)[1]}) /\ (q(k) = <<>> => Range(q(k)) = {})
  BY SweepOne DEF SweepAt
<1>3. \A k : SweepOn(tape, k) = IF Weekday(k) THEN Range(q(k)) ELSE {}
  BY DEF SweepOn
<1> HIDE DEF q, n
<1>4. \A k \in ks : q(k)[1] \in SweepOn(tape, k) /\ k \in 2..n
  BY <1>2, <1>3
<1>5. \A k \in 2..n : \A x \in SweepOn(tape, k) : k \in ks /\ x = q(k)[1]
  BY <1>2, <1>3
<1> HIDE DEF ks
<1>6. SweepUpTo(tape, n) = UNION {SweepOn(tape, k) : k \in 2..n}
  BY DEF SweepUpTo
<1>7. \A x \in SweepSetups : x \in SweepUpTo(tape, n)
  BY <1>1, <1>4, <1>6
<1>8. \A x \in SweepUpTo(tape, n) : x \in SweepSetups
  BY <1>1, <1>5, <1>6
<1>9. QED
  BY <1>7, <1>8 DEF n

\* What a bar gives stays, as the tape goes on.
LEMMA SweepAgrees ==
    ASSUME NEW a, NEW b, NEW k \in Nat, k >= 2, 1..(k + 1) \subseteq DOMAIN a, 1..(k + 1) \subseteq DOMAIN b,
           \A j \in 1..(k + 1) : a[j] = b[j]
    PROVE  SweepOn(a, k) = SweepOn(b, k)
<1>1. HigherOpened(a, k + 1) = HigherOpened(b, k + 1)
  <2> DEFINE n == k + 1
  <2>1. n \in Nat /\ 1..n \subseteq DOMAIN a /\ 1..n \subseteq DOMAIN b /\ \A j \in 1..n : a[j] = b[j]
    OBVIOUS
  <2> HIDE DEF n
  <2>2. \A j \in 1..(n \div 2) : HigherBar(a, j) = HigherBar(b, j)
    BY <2>1, HigherBarAgrees
  <2>3. [j \in 1..(n \div 2) |-> HigherBar(a, j)] = [j \in 1..(n \div 2) |-> HigherBar(b, j)]
    BY <2>2
  <2>4. HigherOpened(a, n) = HigherOpened(b, n)
    BY <2>3 DEF HigherOpened
  <2>5. QED
    BY <2>4 DEF n
<1>2. HtfSwingBias(a, k) = HtfSwingBias(b, k)
  BY <1>1 DEF HtfSwingBias
<1>3. \A side, level : GapNear(a, k, side, level) <=> GapNear(b, k, side, level)
  <2> DEFINE m == k - SweepLookback
             first == Max({3, m})
  <2>1. first \in Int /\ 3 <= first
    <3>1. 3 \in Int /\ m \in Int
      BY SweepBufferIsPrice
    <3> HIDE DEF m
    <3>2. QED
      BY <3>1, MaxOfTwo
  <2> HIDE DEF first
  <2>2. \A i \in first..k : i \in 1..(k + 1) /\ i - 2 \in 1..(k + 1)
    BY <2>1
  <2>3. \A i \in first..k : a[i] = b[i] /\ a[i - 2] = b[i - 2]
    BY <2>2
  <2>4. QED
    BY <2>3 DEF GapNear, first, m
<1>4. Levels(a, BeforeInSession(k)) = Levels(b, BeforeInSession(k))
  <2> DEFINE S == BeforeInSession(k)
  <2>1. \A j \in S : a[j] = b[j]
    BY DEF BeforeInSession
  <2> HIDE DEF S
  <2>2. {a[j].h : j \in S} = {b[j].h : j \in S} /\ {a[j].l : j \in S} = {b[j].l : j \in S}
    BY <2>1
  <2>3. Levels(a, S) = Levels(b, S)
    BY <2>2 DEF Levels
  <2>4. QED
    BY <2>3 DEF S
<1>5. a[k] = b[k] /\ a[k + 1] = b[k + 1]
  OBVIOUS
<1>6. \A levels : SweepSignals(a, k, levels) = SweepSignals(b, k, levels)
  BY <1>2, <1>3, <1>5 DEF SweepSignals
<1>7. QED
  BY <1>4, <1>6 DEF SweepOn, SweepAt

\* Nothing has been found at the start.
LEMMA SweepsFoundBegins == InitSweep => SweepsFound
<1> SUFFICES ASSUME InitSweep PROVE SweepsFound
  OBVIOUS
<1> DEFINE memory == [session |-> 0, levels |-> NoLevels]
<1>1. StartStudy("sweep", memory) /\ DOMAIN memory = {"session", "levels"} /\ memory.session = 0
  BY DEF InitSweep
<1> HIDE DEF memory
<1>2. tape = <<>> /\ out = <<>> /\ {"times", "past"} \subseteq DOMAIN mem /\ mem.session = 0
  BY <1>1, Started
<1>3. Len(tape) = 0 /\ 2..(0 - 1) = {} /\ ~(0 > 2)
  BY <1>2
<1>4. SweepUpTo(tape, Len(tape) - 1) = {}
  BY <1>3 DEF SweepUpTo
<1>5. Lists(out, SweepUpTo(tape, Len(tape) - 1))
  BY <1>2, <1>4, NoneLists
<1>6. QED
  BY <1>2, <1>3, <1>5, SweepBegins DEF SweepsFound

\* The levels that are kept are those of the session's bars before.
LEMMA SweepLevels ==
    ASSUME SweepsFound, NEW bars \in Seq(Ohlc), NEW k \in Nat, k = Len(tape), k >= 2, k \in DOMAIN bars,
           \A j \in DOMAIN tape : bars[j] = tape[j], SessionId(k) # 0
    PROVE  CurrentLevels(bars, k) = Levels(bars, BeforeInSession(k))
<1>1. CASE SessionId(k) # mem.session
  BY <1>1 DEF CurrentLevels
<1>2. CASE SessionId(k) = mem.session
  <2>1. k > 2 /\ Weekday(k - 1) /\ mem.session = SessionId(k - 1)
    BY <1>2 DEF SweepsFound
  <2>2. CurrentLevels(bars, k) = Widen(mem.levels, bars[k - 1])
    BY <1>2, <2>1 DEF CurrentLevels
  <2>3. Widen(mem.levels, tape[k - 1]) = Levels(tape, InSessionUpTo(k - 1))
    BY <1>2 DEF SweepsFound
  <2>4. DOMAIN tape = 1..k /\ k - 1 \in DOMAIN tape
    BY <2>1, TapeIs DEF SweepsFound, SweepInv
  <2>5. InSessionUpTo(k - 1) = BeforeInSession(k)
    <3>1. \A j : j \in 1..(k - 1) <=> j \in 1..(k - 1 - 1) \/ j = k - 1
      BY <2>1
    <3>2. \A j : j \in BeforeInSession(k) <=> j \in 1..(k - 1) /\ SessionId(j) = SessionId(k) /\ Weekday(j)
      BY DEF BeforeInSession
    <3>3. \A j : j \in InSessionUpTo(k - 1) <=>
               (j \in 1..(k - 1 - 1) /\ SessionId(j) = SessionId(k - 1) /\ Weekday(j)) \/ j = k - 1
      BY DEF BeforeInSession, InSessionUpTo
    <3>4. \A j : j \in BeforeInSession(k) <=> j \in InSessionUpTo(k - 1)
      BY <1>2, <2>1, <3>1, <3>2, <3>3
    <3>5. QED
      BY <3>4
  <2>6. Levels(tape, BeforeInSession(k)) = Levels(bars, BeforeInSession(k))
    <3> DEFINE S == BeforeInSession(k)
    <3>1. \A j \in S : j \in DOMAIN tape
      BY <2>4 DEF BeforeInSession
    <3> HIDE DEF S
    <3>2. \A j \in S : tape[j] = bars[j]
      BY <3>1
    <3>3. {tape[j].h : j \in S} = {bars[j].h : j \in S} /\ {tape[j].l : j \in S} = {bars[j].l : j \in S}
      BY <3>2
    <3>4. Levels(tape, S) = Levels(bars, S)
      BY <3>3 DEF Levels
    <3>5. QED
      BY <3>4 DEF S
  <2>7. QED
    BY <2>2, <2>3, <2>4, <2>5, <2>6
<1>3. QED
  BY <1>1, <1>2

\* A bar adds its sweep, by the extremes of its session before it.
LEMMA SweepsFoundGoesOn == SweepsFound /\ Sweep => SweepsFound'
<1> SUFFICES ASSUME SweepsFound, Sweep PROVE SweepsFound'
  OBVIOUS
<1> DEFINE k == Len(tape)
           levels == CurrentLevels(tape', k)
<1>1. /\ tape' \in Seq(Ohlc) /\ tape \in Seq(Ohlc)
      /\ DOMAIN tape' = 1..(k + 1) /\ DOMAIN tape = 1..k /\ k \in Nat /\ Len(tape') = k + 1
      /\ \A j \in DOMAIN tape : j \in DOMAIN tape' /\ tape'[j] = tape[j]
  BY NextTape DEF SweepsFound, SweepInv, Sweep, PriceStudies
<1>2. /\ out' = out \o SweepFinds(tape')
      /\ mem' = IF k < 2 THEN mem
                ELSE IF ~Weekday(k) THEN [mem EXCEPT !.session = 0]
                ELSE [mem EXCEPT !.session = SessionId(k),
                                 !.levels = IF SessionId(k) = 0 \/ levels = NoLevels THEN levels
                                            ELSE Widen(levels, tape'[k])]
      /\ {"times", "past", "session", "levels"} \subseteq DOMAIN mem
  BY DEF Sweep, SweepsFound, SweepInv
<1>3. SweepFinds(tape') = IF k < 2 \/ ~Weekday(k) THEN <<>> ELSE SweepSignals(tape', k, levels)
  BY <1>1 DEF SweepFinds
<1>4. k >= 2 => k \in DOMAIN tape'
  BY SMTT(30), <1>1
<1>5. k >= 2 /\ SessionId(k) # 0 => levels = Levels(tape', BeforeInSession(k))
  BY <1>1, <1>4, SweepLevels
<1> HIDE DEF k, levels
<1>6. /\ mem'.times = mem.times /\ mem'.past = mem.past /\ {"times", "past"} \subseteq DOMAIN mem'
      /\ mem'.session = IF k >= 2 /\ Weekday(k) THEN SessionId(k) ELSE 0
  <2>1. CASE k < 2
    <3>1. mem.session = 0
      BY <1>1, <2>1 DEF SweepsFound, k
    <3>2. QED
      BY <1>1, <1>2, <2>1, <3>1
  <2>2. CASE ~(k < 2) /\ ~Weekday(k)
    BY <1>1, <1>2, <2>2
  <2>3. CASE ~(k < 2) /\ Weekday(k)
    <3> DEFINE after == IF SessionId(k) = 0 \/ levels = NoLevels THEN levels ELSE Widen(levels, tape'[k])
    <3>1. mem' = [mem EXCEPT !.session = SessionId(k), !.levels = after] /\ k >= 2
      BY <1>1, <1>2, <2>3
    <3> HIDE DEF after
    <3>2. QED
      BY <1>2, <2>3, <3>1
  <2>4. QED
    BY <2>1, <2>2, <2>3
<1>7. mem'.session # 0 => Widen(mem'.levels, tape'[k]) = Levels(tape', InSessionUpTo(k))
  <2> SUFFICES ASSUME mem'.session # 0
               PROVE  Widen(mem'.levels, tape'[k]) = Levels(tape', InSessionUpTo(k))
    OBVIOUS
  <2>1. k >= 2 /\ Weekday(k) /\ SessionId(k) # 0 /\ ~(k < 2)
    BY <1>1, <1>6
  <2> DEFINE S == BeforeInSession(k)
             b == tape'[k]
  <2>2. S \in SUBSET (DOMAIN tape') /\ k \in DOMAIN tape'
    BY <1>1, <1>4, <2>1 DEF BeforeInSession
  <2>3. levels = Levels(tape', S)
    BY <1>5, <2>1
  <2>4. mem'.levels = IF levels = NoLevels THEN levels ELSE Widen(levels, b)
    BY <1>2, <2>1
  <2> HIDE DEF S, b
  <2>5. Widen(levels, b) = Levels(tape', S \cup {k})
    BY <1>1, <2>2, <2>3, LevelsWiden DEF b
  <2>6. (S \cup {k}) \cup {k} = S \cup {k} /\ S \cup {k} \in SUBSET (DOMAIN tape')
    BY <2>2
  <2>7. Widen(Levels(tape', S \cup {k}), b) = Levels(tape', S \cup {k})
    <3> DEFINE T == S \cup {k}
    <3>1. T \in SUBSET (DOMAIN tape') /\ T \cup {k} = T
      BY <2>6
    <3> HIDE DEF T
    <3>2. Widen(Levels(tape', T), b) = Levels(tape', T \cup {k})
      BY <1>1, <2>2, <3>1, LevelsWiden DEF b
    <3>3. QED
      BY <3>1, <3>2 DEF T
  <2>8. Widen(mem'.levels, b) = Levels(tape', S \cup {k})
    BY <2>4, <2>5, <2>7
  <2>9. QED
    BY <2>8 DEF S, b, InSessionUpTo
<1>8. \A i \in 2..(k - 1) : SweepOn(tape', i) = SweepOn(tape, i)
  <2> SUFFICES ASSUME NEW i \in 2..(k - 1) PROVE SweepOn(tape', i) = SweepOn(tape, i)
    OBVIOUS
  <2>1. /\ i \in Nat /\ i >= 2 /\ 1..(i + 1) \subseteq DOMAIN tape' /\ 1..(i + 1) \subseteq DOMAIN tape
        /\ \A j \in 1..(i + 1) : j \in DOMAIN tape
    BY <1>1
  <2>2. \A j \in 1..(i + 1) : tape'[j] = tape[j]
    BY <1>1, <2>1
  <2>3. QED
    BY <2>1, <2>2, SweepAgrees
<1>9. k >= 2 /\ Weekday(k) => SweepFinds(tape') = SweepAt(tape', k)
  <2> SUFFICES ASSUME k >= 2, Weekday(k) PROVE SweepFinds(tape') = SweepAt(tape', k)
    OBVIOUS
  <2>1. SweepFinds(tape') = SweepSignals(tape', k, levels)
    <3>1. ~(k < 2)
      BY <1>1
    <3>2. QED
      BY <1>3, <3>1
  <2>2. CASE SessionId(k) # 0
    BY <1>5, <2>1, <2>2 DEF SweepAt
  <2>3. CASE SessionId(k) = 0
    <3>1. SweepSignals(tape', k, levels) = <<>> /\ SweepAt(tape', k) = <<>>
      BY <2>3, SweepOne DEF SweepAt
    <3>2. QED
      BY <2>1, <3>1
  <2>4. QED
    BY <2>2, <2>3
<1>10. Lists(out', SweepUpTo(tape', k))
  <2> DEFINE f == [i \in 2..(k - 1) |-> SweepOn(tape, i)]
             g == [i \in 2..k |-> SweepOn(tape', i)]
             e == SweepFinds(tape')
  <2>1. 2 \in Int /\ k \in Int /\ \A i \in 2..(k - 1) : i \in 2..k
    BY <1>1
  <2>2. \A i \in 2..(k - 1) : g[i] = f[i]
    BY <1>8, <2>1
  <2>3. SweepUpTo(tape, k - 1) = UNION {f[i] : i \in 2..(k - 1)} /\ SweepUpTo(tape', k) = UNION {g[i] : i \in 2..k}
    BY DEF SweepUpTo
  <2>4. Lists(out, UNION {f[i] : i \in 2..(k - 1)})
    BY <2>3 DEF SweepsFound, k
  <2>5. 2 <= k => g[k] = SweepOn(tape', k)
    BY <2>1
  <2>6. \A n : \A bars : \A x \in SweepOn(bars, n) : x.entry = n + 1
    BY SweepOne DEF SweepOn, SweepAt
  <2>7. \A i \in 2..(k - 1) : \A x \in f[i] : x \notin g[k]
    <3> SUFFICES ASSUME NEW i \in 2..(k - 1), NEW x \in f[i], x \in g[k] PROVE FALSE
      OBVIOUS
    <3>1. x \in SweepOn(tape, i) /\ x \in SweepOn(tape', k) /\ i + 1 # k + 1
      <4>1. 2 <= k /\ i < k /\ i \in Int
        BY <2>1
      <4>2. QED
        BY <2>1, <2>5, <4>1
    <3>2. QED
      BY <2>6, <3>1
  <2> HIDE DEF f, g, e
  <2>8. 2 <= k => Lists(e, g[k])
    <3> SUFFICES ASSUME 2 <= k PROVE Lists(e, g[k])
      OBVIOUS
    <3>1. CASE Weekday(k)
      <4>1. e = SweepAt(tape', k) /\ g[k] = Range(SweepAt(tape', k))
        BY <1>1, <1>9, <2>5, <3>1 DEF SweepOn, e
      <4>2. Lists(SweepAt(tape', k), Range(SweepAt(tape', k)))
        BY SweepOne DEF SweepAt
      <4>3. QED
        BY <4>1, <4>2
    <3>2. CASE ~Weekday(k)
      <4>1. e = <<>> /\ g[k] = {}
        BY <1>3, <2>5, <3>2 DEF SweepOn, e
      <4>2. QED
        BY <4>1, NoneLists
    <3>3. QED
      BY <3>1, <3>2
  <2>9. k < 2 => e = <<>>
    BY <1>3 DEF e
  <2>10. Adds(out, e, f, g, 2, k)
    BY <2>1, <2>2, <2>4, <2>7, <2>8, <2>9 DEF Adds
  <2>11. Lists(out \o e, UNION {g[i] : i \in 2..k})
    BY <2>10, FoundNext
  <2>12. QED
    BY <1>2, <2>3, <2>11 DEF e
<1>11. /\ Len(tape') - 1 = k /\ (Len(tape') > 2 <=> k >= 2)
  BY <1>1
<1>12. /\ \A i : (Weekday(i))' <=> Weekday(i)
       /\ \A i : (SessionId(i))' = SessionId(i)
       /\ \A i : (BeforeInSession(i))' = BeforeInSession(i)
       /\ \A i : (InSessionUpTo(i))' = InSessionUpTo(i)
  <2>1. \A i : ((Weekday(i))' <=> Weekday(i)) /\ (SessionId(i))' = SessionId(i)
    BY <1>6 DEF Weekday, SessionId, Hour, DayOf, Slot
  <2>2. \A i : (BeforeInSession(i))' = BeforeInSession(i)
    BY <2>1 DEF BeforeInSession
  <2>3. QED
    BY <2>1, <2>2 DEF InSessionUpTo
<1>13. (SweepUpTo(tape, Len(tape) - 1))' = SweepUpTo(tape', k)
  <2>2. \A i : (HtfSwingBias(tape, i))' = HtfSwingBias(tape', i)
    BY <1>6 DEF HtfSwingBias, HigherOpened
  <2>3. \A i : (SweepAt(tape, i))' = SweepAt(tape', i)
    BY <1>12, <2>2 DEF SweepAt, SweepSignals
  <2>4. \A i : (SweepOn(tape, i))' = SweepOn(tape', i)
    BY <1>12, <2>3 DEF SweepOn
  <2>5. QED
    BY <1>11, <2>4 DEF SweepUpTo
<1>14. (Lists(out, SweepUpTo(tape, Len(tape) - 1)))'
  BY <1>10, <1>13 DEF Lists
<1>15. (mem.session = IF Len(tape) > 2 /\ Weekday(Len(tape) - 1) THEN SessionId(Len(tape) - 1) ELSE 0)'
  BY <1>6, <1>11, <1>12
<1>16. (mem.session # 0 => Widen(mem.levels, tape[Len(tape) - 1]) = Levels(tape, InSessionUpTo(Len(tape) - 1)))'
  BY <1>7, <1>11, <1>12
<1>17. SweepInv'
  BY SweepGoesOn DEF SweepsFound
<1>18. QED
  BY <1>6, <1>14, <1>15, <1>16, <1>17 DEF SweepsFound

-----------------------------------------------------------------------------
(***************************************************************************)
(* The range of the Asian hours.                                           *)
(***************************************************************************)
\* What is remembered before bar k: the side of the break that it may end and how far that
\* went; or no side, and a bar outside before it only when that jumped over the range.
AsiaReady(bars, k, m) ==
    /\ DayMemory(m)
    /\ ~m.fired =>
        /\ m.side # 0 =>
             /\ k > 1 /\ AsiaBars(k - 1) # {}
             /\ \E b \in AsiaRun(bars, k, m.side) :
                  /\ BeginsBreak(bars, b, k, m.side)
                  /\ m.extreme = Min({Facing(bars[j], m.side).l : j \in b..(k - 1)})
        /\ m.side = 0 =>
             \A s \in Sides :
               (/\ k > 1 /\ AsiaBars(k - 1) # {} /\ InLondon(k - 1) /\ DayOf(k - 1) = DayOf(k)
                /\ ClosesOut(bars, k - 1, s)) => Jumped(bars, k - 1, s)

\* A signal that ends a break on its bar.
AsiaGood(bars, s) ==
    LET k == s.entry - 1
    IN  /\ s.entry \in Int /\ s.of = DayOf(k) /\ s.side \in Sides
        /\ k \in 1..(Len(bars) - 1)
        /\ AsiaBars(k) # {}
        /\ \E b \in AsiaRun(bars, k, s.side) :
             BeginsBreak(bars, b, k, s.side) /\ AsiaTradeFrom(bars, b, k, s.side) = <<s>>

\* The hours of London are not those of the range: the range is known when they begin.
LEMMA RangeIsSet ==
    ASSUME NEW k \in Nat, k > 1, InLondon(k), DayOf(k - 1) = DayOf(k)
    PROVE  AsiaBars(k) = AsiaBars(k - 1)
<1>1. ~(Hour(k) < 6)
  BY DEF InLondon
<1>2. \A j : j \in 1..k <=> j \in 1..(k - 1) \/ j = k
  OBVIOUS
<1>3. \A j : j \in AsiaBars(k) <=> j \in AsiaBars(k - 1)
  BY <1>1, <1>2 DEF AsiaBars
<1>4. QED
  BY <1>3

\* No close is below a bar from both sides.
LEMMA OneSideOut ==
    ASSUME NEW x \in Ohlc, NEW y \in Ohlc, NEW s \in Sides,
           Facing(x, s).c < Facing(y, s).l, Facing(x, -s).c < Facing(y, -s).l
    PROVE  FALSE
<1>1. x.c \in Int /\ y.l \in Int /\ y.h \in Int /\ y.l <= y.h
  BY DEF Ohlc
<1>2. CASE s = 1
  <2>1. -s # 1
    BY <1>2
  <2>2. x.c < y.l /\ -x.c < -y.h
    BY <1>2, <2>1 DEF Facing
  <2>3. QED
    BY <1>1, <2>2
<1>3. CASE s = -1
  <2>1. s # 1 /\ -s = 1
    <3>1. -s = 0 - s
      BY DEF Sides
    <3>2. 0 - s = 1 /\ s # 1
      BY <1>3
    <3>3. QED
      BY <3>1, <3>2
  <2>2. x.c < y.l /\ -x.c < -y.h
    BY <1>3, <2>1 DEF Facing
  <2>3. QED
    BY <1>1, <2>2
<1>4. QED
  BY <1>2, <1>3 DEF Sides

\* No close is on both sides of the range.
LEMMA NotBothOut ==
    ASSUME NEW bars \in Seq(Ohlc), NEW k \in DOMAIN bars, AsiaBars(k) # {}, NEW s \in Sides,
           ClosesOut(bars, k, s)
    PROVE  ~ClosesOut(bars, k, -s) /\ -s \in Sides /\ -s # s /\ -(-s) = s /\ \A t \in Sides : t = s \/ t = -s
<1>1. /\ -s \in Sides /\ -s # s /\ -(-s) = s /\ \A t \in Sides : t = s \/ t = -s
  BY DEF Sides
<1>2. DOMAIN bars = 1..Len(bars) /\ Len(bars) \in Nat /\ \A j \in DOMAIN bars : bars[j] \in Ohlc
  BY TapeIs
<1>3. IsFiniteSet(AsiaBars(k)) /\ \A j \in AsiaBars(k) : bars[j] \in Ohlc
  <2>1. k \in Nat /\ k \in Int /\ \A j \in 1..k : j \in DOMAIN bars
    BY <1>2
  <2>2. IsFiniteSet(1..k)
    BY <2>1, FS_Interval
  <2>3. AsiaBars(k) \in SUBSET (1..k)
    BY DEF AsiaBars
  <2>4. IsFiniteSet(AsiaBars(k))
    BY <2>2, <2>3, FS_Subset
  <2>5. QED
    BY <1>2, <2>1, <2>3, <2>4
<1>4. PICK j \in AsiaBars(k) : TRUE
  OBVIOUS
<1>5. \A t \in Sides : AsiaLow(bars, k, t) \in Int /\ AsiaLow(bars, k, t) <= Facing(bars[j], t).l
  BY <1>3, <1>4, ExtremesFacing DEF AsiaLow
<1>6. \A t \in Sides : ClosesOut(bars, k, t) => Facing(bars[k], t).c < Facing(bars[j], t).l
  <2> SUFFICES ASSUME NEW t \in Sides, ClosesOut(bars, k, t)
               PROVE  Facing(bars[k], t).c < Facing(bars[j], t).l
    OBVIOUS
  <2>1. Facing(bars[k], t) \in Ohlc /\ Facing(bars[j], t) \in Ohlc
    BY <1>2, <1>3, <1>4, FacingIsBar
  <2>2. Facing(bars[k], t).c \in Int /\ Facing(bars[j], t).l \in Int
    BY <2>1 DEF Ohlc
  <2>3. QED
    BY <1>5, <2>2 DEF ClosesOut
<1>7. bars[k] \in Ohlc /\ bars[j] \in Ohlc
  BY <1>2, <1>3, <1>4
<1>8. ~ClosesOut(bars, k, -s)
  BY <1>1, <1>6, <1>7, OneSideOut
<1>9. QED
  BY <1>1, <1>8

\* The first bar of a break, and the break after one more bar.
LEMMA RunIs ==
    ASSUME NEW bars, NEW k \in Nat, NEW s
    PROVE  /\ \A b \in AsiaRun(bars, k, s) :
                /\ b \in 1..(k - 1)
                /\ \A j \in b..(k - 1) : /\ InLondon(j) /\ DayOf(j) = DayOf(k) /\ ClosesOut(bars, j, s)
                                         /\ j \in AsiaRun(bars, k, s)
           /\ AsiaRun(bars, k, s) # {} =>
                /\ Min(AsiaRun(bars, k, s)) \in AsiaRun(bars, k, s)
                /\ \A b \in AsiaRun(bars, k, s) : Min(AsiaRun(bars, k, s)) <= b
                /\ k - 1 \in AsiaRun(bars, k, s)
<1> DEFINE R == AsiaRun(bars, k, s)
<1>1. R \in SUBSET (1..(k - 1)) /\ IsFiniteSet(1..(k - 1))
  BY FS_Interval DEF AsiaRun
<1>2. IsFiniteSet(R) /\ R \subseteq Int
  BY <1>1, FS_Subset
<1>3. \A b \in R : \A j \in b..(k - 1) : InLondon(j) /\ DayOf(j) = DayOf(k) /\ ClosesOut(bars, j, s)
  BY DEF AsiaRun
<1>4. \A b \in R : \A j \in b..(k - 1) : j \in R
  <2> SUFFICES ASSUME NEW b \in R, NEW j \in b..(k - 1) PROVE j \in R
    OBVIOUS
  <2>1. b \in 1..(k - 1) /\ j \in 1..(k - 1) /\ \A i \in j..(k - 1) : i \in b..(k - 1)
    BY <1>1
  <2>2. QED
    BY <1>3, <2>1 DEF AsiaRun
<1>5. \A b \in R : k - 1 \in b..(k - 1)
  BY <1>1
<1> HIDE DEF R
<1>6. R # {} => Min(R) \in R /\ \A b \in R : Min(R) <= b
  BY <1>2, MinIsOne
<1>7. QED
  BY <1>1, <1>3, <1>4, <1>5, <1>6 DEF R

\* A bar outside after the break goes on with it.
LEMMA RunGoesOn ==
    ASSUME NEW bars, NEW k \in Nat, k > 0, NEW s, InLondon(k), DayOf(k + 1) = DayOf(k), ClosesOut(bars, k, s)
    PROVE  /\ AsiaRun(bars, k + 1, s) = AsiaRun(bars, k, s) \cup {k}
           /\ AsiaRun(bars, k, s) # {} => Min(AsiaRun(bars, k + 1, s)) = Min(AsiaRun(bars, k, s))
           /\ AsiaRun(bars, k, s) = {} => Min(AsiaRun(bars, k + 1, s)) = k
<1> DEFINE R == AsiaRun(bars, k, s)
           T == AsiaRun(bars, k + 1, s)
<1>1. T = R \cup {k}
  <2>1. \A b \in 1..k : b..k = (b..(k - 1)) \cup {k}
    OBVIOUS
  <2>2. \A b : b \in T <=> b \in 1..k /\ \A j \in b..k : InLondon(j) /\ DayOf(j) = DayOf(k) /\ ClosesOut(bars, j, s)
    BY DEF AsiaRun
  <2>3. \A b : b \in R <=> b \in 1..(k - 1) /\ \A j \in b..(k - 1) : InLondon(j) /\ DayOf(j) = DayOf(k) /\ ClosesOut(bars, j, s)
    BY DEF AsiaRun
  <2>4. \A b : b \in 1..k <=> b \in 1..(k - 1) \/ b = k
    OBVIOUS
  <2>5. k..(k - 1) = {}
    OBVIOUS
  <2> HIDE DEF R, T
  <2>6. \A b : b \in T <=> b \in R \/ b = k
    BY <2>1, <2>2, <2>3, <2>4, <2>5
  <2>7. QED
    BY <2>6
<1>2. \A b \in R : b \in Int /\ b < k
  BY RunIs
<1>3. R # {} => Min(R) \in R /\ \A b \in R : Min(R) <= b
  BY RunIs
<1>4. Min(T) \in T /\ \A b \in T : Min(T) <= b
  <2>1. k + 1 \in Nat /\ T # {}
    BY <1>1
  <2>2. QED
    BY <2>1, RunIs
<1> HIDE DEF R, T
<1>5. R # {} => Min(T) = Min(R)
  BY SMTT(30), <1>1, <1>2, <1>3, <1>4
<1>6. R = {} => Min(T) = k
  BY <1>1, <1>4
<1>7. QED
  BY <1>1, <1>5, <1>6 DEF R, T

\* A bar that jumped is the first of its break.
LEMMA JumpBegins ==
    ASSUME NEW bars \in Seq(Ohlc), NEW k \in Nat, k > 1, k - 1 \in DOMAIN bars, NEW s \in Sides,
           Jumped(bars, k - 1, s), AsiaRun(bars, k, s) # {}
    PROVE  AsiaRun(bars, k, s) = {k - 1} /\ Min(AsiaRun(bars, k, s)) = k - 1
<1> DEFINE R == AsiaRun(bars, k, s)
           i == k - 2
<1>1. i > 0 /\ i \in Nat /\ i + 1 = k - 1 /\ (k - 1) - 1 = i /\ i \in DOMAIN bars
  BY TapeIs DEF Jumped
<1>2. AsiaBars(k - 1) # {} /\ InLondon(i) /\ DayOf(i) = DayOf(k - 1) /\ ClosesOut(bars, i, -s)
  BY <1>1 DEF Jumped
<1>3. k - 1 \in R /\ Min(R) \in R /\ \A b \in R : Min(R) <= b /\ b \in 1..(k - 1)
  BY RunIs
<1>4. InLondon(k - 1)
  <2>1. k - 1 \in (k - 1)..(k - 1)
    OBVIOUS
  <2>2. QED
    BY <1>3, <2>1, RunIs
<1>5. AsiaBars(i) # {}
  <2> DEFINE n == k - 1
  <2>1. n \in Nat /\ n > 1 /\ InLondon(n) /\ n - 1 = i /\ DayOf(n - 1) = DayOf(n)
    BY <1>1, <1>2, <1>4
  <2> HIDE DEF n
  <2>2. AsiaBars(n) = AsiaBars(n - 1)
    BY <2>1, RangeIsSet
  <2>3. QED
    BY <1>2, <2>1, <2>2 DEF n
<1> HIDE DEF i
<1>6. ~ClosesOut(bars, i, s)
  <2>1. -s \in Sides /\ -(-s) = s
    BY DEF Sides
  <2> DEFINE t == -s
  <2>2. t \in Sides /\ ClosesOut(bars, i, t) /\ -t = s
    BY <1>2, <2>1
  <2> HIDE DEF t
  <2>3. ~ClosesOut(bars, i, -t)
    BY <1>1, <1>5, <2>2, NotBothOut
  <2>4. QED
    BY <2>2, <2>3
<1>7. \A b \in R : b = k - 1
  <2> SUFFICES ASSUME NEW b \in R, b # k - 1 PROVE FALSE
    OBVIOUS
  <2>1. i \in b..(k - 1)
    BY <1>1, <1>3
  <2>2. ClosesOut(bars, i, s)
    BY <2>1, RunIs
  <2>3. QED
    BY <1>6, <2>2
<1> HIDE DEF R
<1>8. R = {k - 1} /\ Min(R) = k - 1
  BY <1>3, <1>7
<1>9. QED
  BY <1>8 DEF R

\* The lowest of the bars so far and of one more.
LEMMA LowestNext ==
    ASSUME NEW bars \in Seq(Ohlc), NEW k \in DOMAIN bars, NEW b \in 1..(k - 1), NEW s \in Sides
    PROVE  /\ Min({Facing(bars[j], s).l : j \in b..(k - 1)}) \in Int
           /\ Min({Min({Facing(bars[j], s).l : j \in b..(k - 1)}), Facing(bars[k], s).l})
                = Min({Facing(bars[j], s).l : j \in b..k})
           /\ Min({Facing(bars[j], s).l : j \in k..k}) = Facing(bars[k], s).l
<1>1. DOMAIN bars = 1..Len(bars) /\ Len(bars) \in Nat /\ \A j \in DOMAIN bars : bars[j] \in Ohlc
  BY TapeIs
<1> DEFINE f == [j \in DOMAIN bars |-> Facing(bars[j], s).l]
           A == b..(k - 1)
           B == b..k
<1>2. f \in [DOMAIN bars -> Int]
  BY <1>1, FacingIsBar DEF Ohlc
<1>3. /\ A \in SUBSET (DOMAIN bars) /\ B \in SUBSET (DOMAIN bars) /\ IsFiniteSet(A) /\ IsFiniteSet(B)
      /\ A # {} /\ B # {} /\ B = A \cup {k} /\ k..k = {k}
  <2>1. b \in Int /\ k \in Int /\ k - 1 \in Int /\ b <= k - 1
    BY <1>1
  <2>2. IsFiniteSet(A) /\ IsFiniteSet(B)
    BY <2>1, FS_Interval
  <2>3. \A j \in B : j \in 1..Len(bars)
    BY <1>1, <2>1
  <2>4. B = A \cup {k} /\ k..k = {k} /\ b \in A
    BY <2>1
  <2>5. QED
    BY <1>1, <2>2, <2>3, <2>4
<1>4. \A j \in DOMAIN bars : f[j] = Facing(bars[j], s).l
  OBVIOUS
<1> HIDE DEF f, A, B
<1> DEFINE fa == {f[j] : j \in A}
           fb == {f[j] : j \in B}
<1>5. {Facing(bars[j], s).l : j \in A} = fa /\ {Facing(bars[j], s).l : j \in B} = fb
  BY <1>3, <1>4
<1>6. /\ IsFiniteSet(fa) /\ IsFiniteSet(fb) /\ fa # {} /\ fb # {} /\ fa \subseteq Int /\ fb \subseteq Int
      /\ fb = fa \cup {f[k]}
  <2>1. IsFiniteSet(fa) /\ IsFiniteSet(fb)
    BY <1>3, ImageIsFinite
  <2>2. fa # {} /\ fb # {} /\ fa \subseteq Int /\ fb \subseteq Int /\ fb = fa \cup {f[k]}
    BY <1>2, <1>3
  <2>3. QED
    BY <2>1, <2>2
<1> HIDE DEF fa, fb
<1>7. Min(fa) \in fa /\ \A y \in fa : Min(fa) <= y
  BY <1>6, MinIsOne
<1>8. Min(fb) \in fb /\ \A y \in fb : Min(fb) <= y
  BY <1>6, MinIsOne
<1>9. f[k] \in Int /\ Min(fa) \in Int
  BY <1>2, <1>6, <1>7
<1> DEFINE x == Min(fa)
           y == f[k]
<1>10. Min({x, y}) \in {x, y} /\ Min({x, y}) <= x /\ Min({x, y}) <= y
  BY <1>9, MinOfTwo
<1>11. Min({x, y}) = Min(fb)
  <2> DEFINE z == Min({x, y})
             w == Min(fb)
  <2>1. x \in Int /\ y \in Int /\ z \in {x, y} /\ z <= x /\ z <= y /\ w \in fb /\ w \in Int /\ w <= x /\ w <= y
    BY <1>6, <1>7, <1>8, <1>9, <1>10
  <2>2. w = y \/ x <= w
    BY <1>6, <1>7, <2>1
  <2> HIDE DEF x, y, z, w
  <2>3. z = w
    BY <2>1, <2>2
  <2>4. QED
    BY <2>3 DEF z, w
<1>12. Min({Facing(bars[j], s).l : j \in k..k}) = y
  <2>1. {Facing(bars[j], s).l : j \in k..k} = {y} \cup {}
    BY <1>3, <1>4
  <2>2. IsFiniteSet({y}) /\ {y} # {} /\ {y} \subseteq Int
    BY <1>9, FS_Singleton
  <2> HIDE DEF y
  <2>3. Min({y}) \in {y}
    BY <2>2, MinIsOne
  <2>4. QED
    BY <2>1, <2>3
<1>13. y = Facing(bars[k], s).l
  BY <1>4
<1>14. QED
  BY <1>5, <1>9, <1>11, <1>12, <1>13 DEF A, B, x

\* What a bar leaves to the next one, the signal that it gives, and the break that it
\* does not pass over.
AsiaStepped(bars, k, m, r) ==
    /\ DayOf(k + 1) = DayOf(k) => AsiaReady(bars, k + 1, r.m)
    /\ r.m.fired <=> m.fired \/ r.trade # <<>>
    /\ r.trade # <<>> => ~m.fired /\ \E s : r.trade = <<s>> /\ s.entry = k + 1 /\ AsiaGood(bars, s)
    /\ \A side \in Sides :
         EndsBreak(bars, k, side) =>
           Jumped(bars, Min(AsiaRun(bars, k, side)), side) \/ m.fired \/ r.trade # <<>>
    /\ \A f \in {"times", "past"} : f \in DOMAIN m => f \in DOMAIN r.m /\ r.m[f] = m[f]

\* The first bar outside leads to a trade, from that bar on.
LEMMA BreakBegins ==
    ASSUME NEW bars \in Seq(Ohlc), NEW k \in Nat, k > 0, k \in DOMAIN bars, NEW m, AsiaReady(bars, k, m),
           ~m.fired, m.side = 0, InLondon(k), DayOf(k + 1) = DayOf(k), AsiaBars(k) # {},
           NEW s \in Sides, ClosesOut(bars, k, s)
    PROVE  k \in AsiaRun(bars, k + 1, s) /\ BeginsBreak(bars, k, k + 1, s)
<1> DEFINE R == AsiaRun(bars, k, s)
           T == AsiaRun(bars, k + 1, s)
<1>1. T = R \cup {k} /\ (R # {} => Min(T) = Min(R)) /\ (R = {} => Min(T) = k)
  <2> DEFINE n == k + 1
  <2>1. /\ AsiaRun(bars, n, s) = AsiaRun(bars, k, s) \cup {k}
        /\ AsiaRun(bars, k, s) # {} => Min(AsiaRun(bars, n, s)) = Min(AsiaRun(bars, k, s))
        /\ AsiaRun(bars, k, s) = {} => Min(AsiaRun(bars, n, s)) = k
    BY ONLY k \in Nat, k > 0, InLondon(k), DayOf(k + 1) = DayOf(k), ClosesOut(bars, k, s), RunGoesOn
  <2>2. QED
    BY <2>1
<1>2. R # {} => Min(R) = k - 1 /\ Jumped(bars, k - 1, s)
  <2> SUFFICES ASSUME R # {} PROVE Min(R) = k - 1 /\ Jumped(bars, k - 1, s)
    OBVIOUS
  <2>1. k - 1 \in R /\ k - 1 \in 1..(k - 1) /\ k - 1 \in (k - 1)..(k - 1)
    <3>1. k - 1 \in R
      BY RunIs
    <3>2. k - 1 \in 1..(k - 1)
      BY <3>1, RunIs
    <3>3. QED
      BY <3>1, <3>2
  <2>2. InLondon(k - 1) /\ DayOf(k - 1) = DayOf(k) /\ ClosesOut(bars, k - 1, s)
    BY <2>1, RunIs
  <2>3. k > 1 /\ k - 1 \in DOMAIN bars
    BY <2>1, TapeIs
  <2>4. AsiaBars(k - 1) # {}
    BY <2>2, <2>3, RangeIsSet
  <2>5. Jumped(bars, k - 1, s)
    BY <2>2, <2>3, <2>4 DEF AsiaReady
  <2>6. Min(R) = k - 1
    BY <2>3, <2>5, JumpBegins
  <2>7. QED
    BY <2>5, <2>6
<1> HIDE DEF R, T
<1>3. k = Min(T) \/ (k = Min(T) + 1 /\ Jumped(bars, Min(T), s))
  BY <1>1, <1>2
<1>4. QED
  BY <1>1, <1>3 DEF BeginsBreak, T

\* A break that no side is remembered for began with a jump.
LEMMA NoSideJumped ==
    ASSUME NEW bars \in Seq(Ohlc), NEW k \in Nat, k \in DOMAIN bars, NEW m, AsiaReady(bars, k, m),
           ~m.fired, m.side = 0, NEW s \in Sides, EndsBreak(bars, k, s)
    PROVE  Jumped(bars, Min(AsiaRun(bars, k, s)), s)
<1> DEFINE R == AsiaRun(bars, k, s)
<1>1. R # {} /\ InLondon(k) /\ AsiaBars(k) # {}
  BY DEF EndsBreak
<1>2. k - 1 \in R
  BY <1>1, RunIs
<1>3. k - 1 \in 1..(k - 1) /\ k - 1 \in (k - 1)..(k - 1)
  BY <1>2, RunIs
<1>4. InLondon(k - 1) /\ DayOf(k - 1) = DayOf(k) /\ ClosesOut(bars, k - 1, s)
  BY <1>2, <1>3, RunIs
<1>5. k > 1 /\ k - 1 \in DOMAIN bars
  BY <1>3, TapeIs
<1>6. AsiaBars(k - 1) # {}
  BY <1>1, <1>4, <1>5, RangeIsSet
<1>7. Jumped(bars, k - 1, s)
  BY <1>4, <1>5, <1>6 DEF AsiaReady
<1>8. Min(R) = k - 1
  BY <1>1, <1>5, <1>7, JumpBegins
<1>9. QED
  BY <1>7, <1>8

\* A side that is remembered is that of the bar before.
LEMMA SideBefore ==
    ASSUME NEW bars \in Seq(Ohlc), NEW k \in Nat, k \in DOMAIN bars, NEW m, AsiaReady(bars, k, m),
           ~m.fired, m.side # 0
    PROVE  /\ m.side \in Sides /\ k > 1 /\ k - 1 \in DOMAIN bars /\ AsiaBars(k - 1) # {}
           /\ InLondon(k - 1) /\ DayOf(k - 1) = DayOf(k) /\ ClosesOut(bars, k - 1, m.side)
           /\ AsiaBars(k) # {}
           /\ \A s \in Sides : ClosesOut(bars, k - 1, s) => s = m.side
           /\ \A s \in Sides : AsiaRun(bars, k, s) # {} => s = m.side
<1>1. m.side \in Sides /\ k > 1 /\ AsiaBars(k - 1) # {} /\ AsiaRun(bars, k, m.side) # {}
  BY DEF AsiaReady, DayMemory
<1>2. \A s \in Sides : AsiaRun(bars, k, s) # {} =>
         InLondon(k - 1) /\ DayOf(k - 1) = DayOf(k) /\ ClosesOut(bars, k - 1, s)
  <2> SUFFICES ASSUME NEW s \in Sides, AsiaRun(bars, k, s) # {}
               PROVE  InLondon(k - 1) /\ DayOf(k - 1) = DayOf(k) /\ ClosesOut(bars, k - 1, s)
    OBVIOUS
  <2>1. k - 1 \in AsiaRun(bars, k, s) /\ k - 1 \in (k - 1)..(k - 1)
    BY RunIs
  <2>2. QED
    BY <2>1, RunIs
<1>3. k - 1 \in DOMAIN bars
  BY <1>1, TapeIs
<1>4. \A s \in Sides : ClosesOut(bars, k - 1, s) => s = m.side
  <2> DEFINE d == m.side
             i == k - 1
  <2>1. d \in Sides /\ ClosesOut(bars, i, d) /\ i \in DOMAIN bars /\ AsiaBars(i) # {}
    BY <1>1, <1>2, <1>3
  <2> HIDE DEF d, i
  <2>2. ~ClosesOut(bars, i, -d) /\ \A t \in Sides : t = d \/ t = -d
    BY <2>1, NotBothOut
  <2>3. QED
    BY <2>2 DEF d, i
<1>5. AsiaBars(k) # {}
  <2>1. \A j \in AsiaBars(k - 1) : j \in AsiaBars(k)
    BY <1>1, <1>2 DEF AsiaBars
  <2>2. QED
    BY <1>1, <2>1
<1>6. QED
  BY <1>1, <1>2, <1>3, <1>4, <1>5

\* No hour before London's follows one of them on the same day.
LEMMA HoursGoOn ==
    ASSUME NEW k \in Nat, k > 1, Slot(k - 1) \in Nat, Slot(k) \in Nat, Slot(k - 1) < Slot(k),
           InLondon(k - 1), DayOf(k - 1) = DayOf(k), ~InLondon(k)
    PROVE  Hour(k) >= 11
<1> DEFINE a == Slot(k - 1)
           b == Slot(k)
<1>1. (a \div 2) % 24 \in 7..10 /\ a \div 48 = b \div 48 /\ (a \div 48) % 7 < 5
  BY DEF InLondon, Weekday, Hour, DayOf, SlotsOfDay
<1>2. (b \div 48) % 7 < 5 /\ (b \div 2) % 24 \notin 7..10
  BY <1>1 DEF InLondon, Weekday, Hour, DayOf, SlotsOfDay
<1>3. a \in Nat /\ b \in Nat /\ a < b
  OBVIOUS
<1> HIDE DEF a, b
<1>4. (b \div 2) % 24 >= 11
  BY <1>1, <1>2, <1>3
<1>5. QED
  BY <1>4 DEF Hour, b

\* What a bar of a weekday does.
LEMMA AsiaBarGives ==
    ASSUME NEW bars \in Seq(Ohlc), NEW k \in Nat, k > 0, k \in DOMAIN bars, k + 1 \in DOMAIN bars,
           Weekday(k), k > 1 => Slot(k - 1) \in Nat /\ Slot(k) \in Nat /\ Slot(k - 1) < Slot(k),
           NEW m, AsiaReady(bars, k, m)
    PROVE  AsiaStepped(bars, k, m, AsiaBar(bars, k, m))
<1> DEFINE out_ == {s \in Sides : ClosesOut(bars, k, s)}
           side == CHOOSE s \in out_ : TRUE
           extreme == Extreme(bars[k], m)
           trade == AsiaTrade(bars, k, m.side, extreme)
           low == Facing(bars[k], side).l
           r == AsiaBar(bars, k, m)
           Same == [m |-> m, trade |-> <<>>]
           Gone == [m |-> [m EXCEPT !.side = 0], trade |-> <<>>]
           Broke == [m |-> [m EXCEPT !.side = side, !.extreme = low], trade |-> <<>>]
           Further == [m |-> [m EXCEPT !.extreme = extreme], trade |-> <<>>]
           Refused == [m |-> [m EXCEPT !.side = 0, !.extreme = extreme], trade |-> trade]
           Fired == [m |-> [m EXCEPT !.fired = TRUE, !.extreme = extreme], trade |-> trade]
           On == ~m.fired /\ AsiaBars(k) # {} /\ InLondon(k) /\ DayOf(k + 1) = DayOf(k)
<1>1. /\ m.fired \/ AsiaBars(k) = {} => r = Same
      /\ ~(m.fired \/ AsiaBars(k) = {}) /\ ~InLondon(k) => r = IF Hour(k) >= 11 THEN Gone ELSE Same
      /\ ~(m.fired \/ AsiaBars(k) = {}) /\ InLondon(k) /\ DayOf(k + 1) # DayOf(k) => r = Same
      /\ On /\ m.side = 0 => r = IF out_ = {} THEN Same ELSE Broke
      /\ On /\ m.side # 0 /\ ClosesOut(bars, k, m.side) => r = Further
      /\ On /\ m.side # 0 /\ ~ClosesOut(bars, k, m.side) => r = IF trade = <<>> THEN Refused ELSE Fired
  <2>1. m.fired \/ AsiaBars(k) = {} => r = Same
    BY DEF AsiaBar
  <2>2. ~(m.fired \/ AsiaBars(k) = {}) /\ ~InLondon(k) => r = IF Hour(k) >= 11 THEN Gone ELSE Same
    BY DEF AsiaBar
  <2>3. ~(m.fired \/ AsiaBars(k) = {}) /\ InLondon(k) /\ DayOf(k + 1) # DayOf(k) => r = Same
    BY DEF AsiaBar
  <2>4. On /\ m.side = 0 => r = IF out_ = {} THEN Same ELSE Broke
    BY DEF AsiaBar
  <2>5. On /\ m.side # 0 /\ ClosesOut(bars, k, m.side) => r = Further
    BY DEF AsiaBar
  <2>6. On /\ m.side # 0 /\ ~ClosesOut(bars, k, m.side) => r = IF trade = <<>> THEN Refused ELSE Fired
    BY DEF AsiaBar
  <2>7. QED
    BY <2>1, <2>2, <2>3, <2>4, <2>5, <2>6
<1>2. DayMemory(m) /\ {"side", "extreme", "fired"} \subseteq DOMAIN m /\ m.extreme \in Int /\ bars[k] \in Ohlc
  BY TapeIs DEF AsiaReady, DayMemory
<1>3. DayStep(r, bars)
  BY AsiaBarIs DEF AsiaReady
<1>4. DayMemory(r.m)
  BY <1>3 DEF DayStep
<1> HIDE DEF r, side, low, extreme, trade
<1>5. \A f \in {"times", "past"} : f \in DOMAIN m =>
         /\ f \in DOMAIN Same.m /\ Same.m[f] = m[f]
         /\ f \in DOMAIN Gone.m /\ Gone.m[f] = m[f]
         /\ f \in DOMAIN Broke.m /\ Broke.m[f] = m[f]
         /\ f \in DOMAIN Further.m /\ Further.m[f] = m[f]
         /\ f \in DOMAIN Refused.m /\ Refused.m[f] = m[f]
         /\ f \in DOMAIN Fired.m /\ Fired.m[f] = m[f]
  BY <1>2
<1>6. /\ Same.m.side = m.side /\ Same.m.fired = m.fired /\ Same.trade = <<>>
      /\ Gone.m.side = 0 /\ Gone.m.fired = m.fired /\ Gone.trade = <<>>
      /\ Broke.m.side = side /\ Broke.m.extreme = low /\ Broke.m.fired = m.fired /\ Broke.trade = <<>>
      /\ Further.m.side = m.side /\ Further.m.extreme = extreme /\ Further.m.fired = m.fired
      /\ Further.trade = <<>>
      /\ Refused.m.side = 0 /\ Refused.m.fired = m.fired /\ Refused.trade = trade
      /\ Fired.m.fired = TRUE /\ Fired.trade = trade
  BY <1>2
<1> HIDE DEF Same, Gone, Broke, Further, Refused, Fired
\* Everything but what the next bar needs to know.
<1>7. CASE m.fired
  <2>1. r = Same
    BY <1>1, <1>7
  <2>2. AsiaReady(bars, k + 1, r.m)
    BY <1>4, <1>6, <1>7, <2>1 DEF AsiaReady
  <2>3. QED
    BY <1>5, <1>6, <1>7, <2>1, <2>2 DEF AsiaStepped, r
<1>8. CASE ~m.fired /\ ~On
  <2>1. \/ r.m.side = 0 /\ (r = Same \/ r = Gone)
        \/ DayOf(k + 1) # DayOf(k) /\ r = Same
    <3>1. CASE AsiaBars(k) = {}
      <4>1. r = Same
        BY <1>1, <3>1
      <4>2. m.side = 0
        BY <1>8, <3>1, SideBefore
      <4>3. QED
        BY <1>6, <4>1, <4>2
    <3>2. CASE AsiaBars(k) # {} /\ ~InLondon(k)
      <4>1. m.side # 0 => Hour(k) >= 11
        BY <1>8, <3>2, SideBefore, HoursGoOn
      <4>2. r = IF Hour(k) >= 11 THEN Gone ELSE Same
        BY <1>1, <1>8, <3>2
      <4>3. QED
        BY <1>6, <4>1, <4>2
    <3>3. CASE AsiaBars(k) # {} /\ InLondon(k) /\ DayOf(k + 1) # DayOf(k)
      BY <1>1, <1>8, <3>3
    <3>4. QED
      BY <1>8, <3>1, <3>2, <3>3 DEF On
  <2>2. r = Same \/ r = Gone
    BY <2>1
  <2>3. r.m.fired = m.fired /\ r.trade = <<>>
    BY <1>6, <2>2
  <2>4. DayOf(k + 1) = DayOf(k) => AsiaReady(bars, k + 1, r.m)
    <3> SUFFICES ASSUME DayOf(k + 1) = DayOf(k) PROVE AsiaReady(bars, k + 1, r.m)
      OBVIOUS
    <3>1. r.m.side = 0
      BY <2>1
    <3>2. (k + 1) - 1 = k /\ ~(AsiaBars(k) # {} /\ InLondon(k))
      BY <1>8 DEF On
    <3>3. QED
      BY <1>4, <3>1, <3>2 DEF AsiaReady
  <2>5. \A s \in Sides : ~EndsBreak(bars, k, s)
    BY <1>8 DEF EndsBreak, On
  <2>6. QED
    BY <1>5, <2>2, <2>3, <2>4, <2>5 DEF AsiaStepped, r
<1>9. CASE On /\ m.side = 0
  <2>1. r = IF out_ = {} THEN Same ELSE Broke
    BY <1>1, <1>9
  <2>2. r.m.fired = m.fired /\ r.trade = <<>> /\ (r = Same \/ r = Broke)
    BY <1>6, <2>1
  <2>3. AsiaReady(bars, k + 1, r.m)
    <3>1. (k + 1) - 1 = k
      OBVIOUS
    <3>2. CASE out_ = {}
      <4>1. r.m.side = 0 /\ \A s \in Sides : ~ClosesOut(bars, k, s)
        BY <1>6, <1>9, <2>1, <3>2
      <4>2. QED
        BY <1>4, <3>1, <4>1 DEF AsiaReady
    <3>3. CASE out_ # {}
      <4>1. side \in Sides /\ ClosesOut(bars, k, side)
        BY <3>3 DEF side
      <4>2. r.m.side = side /\ r.m.extreme = low /\ side # 0
        BY <1>6, <2>1, <3>3, <4>1 DEF Sides
      <4>3. k \in AsiaRun(bars, k + 1, side) /\ BeginsBreak(bars, k, k + 1, side)
        BY <1>9, <4>1, BreakBegins
      <4>4. low = Min({Facing(bars[j], side).l : j \in k..k})
        <5>1. bars[k] \in Ohlc /\ k \in Int
          BY <1>2
        <5>2. Facing(bars[k], side).l \in Int
          BY <4>1, <5>1, FacingIsBar DEF Ohlc
        <5> DEFINE x == Facing(bars[k], side).l
        <5>3. k..k = {k}
          OBVIOUS
        <5>4. {Facing(bars[j], side).l : j \in k..k} = {x}
          BY <5>3
        <5> HIDE DEF x
        <5>5. IsFiniteSet({x}) /\ {x} # {} /\ {x} \subseteq Int
          BY <5>2, FS_Singleton DEF x
        <5>6. Min({x}) \in {x}
          BY <5>5, MinIsOne
        <5>7. QED
          BY <5>4, <5>6 DEF x, low
      <4>5. k + 1 > 1 /\ AsiaBars(k) # {}
        BY <1>9 DEF On
      <4>6. QED
        BY <1>4, <3>1, <4>2, <4>3, <4>4, <4>5 DEF AsiaReady
    <3>4. QED
      BY <3>2, <3>3
  <2>4. \A s \in Sides : EndsBreak(bars, k, s) => Jumped(bars, Min(AsiaRun(bars, k, s)), s)
    BY <1>9, NoSideJumped DEF On
  <2>5. QED
    BY <1>5, <2>2, <2>3, <2>4 DEF AsiaStepped, r
<1>10. CASE On /\ m.side # 0
  <2> DEFINE s == m.side
             i == k - 1
  <2>1. /\ s \in Sides /\ s # 0 /\ k > 1 /\ i \in DOMAIN bars /\ InLondon(i) /\ DayOf(i) = DayOf(k)
        /\ ClosesOut(bars, i, s) /\ AsiaBars(i) # {} /\ AsiaBars(k) # {}
        /\ \A t \in Sides : AsiaRun(bars, k, t) # {} => t = s
    BY <1>10, SideBefore DEF On
  <2>2. PICK b \in AsiaRun(bars, k, s) :
           BeginsBreak(bars, b, k, s) /\ m.extreme = Min({Facing(bars[j], s).l : j \in b..(k - 1)})
    BY <1>10 DEF AsiaReady, On
  <2>3. b \in 1..(k - 1) /\ AsiaRun(bars, k, s) # {}
    BY RunIs
  <2> DEFINE lowest == Min({Facing(bars[j], s).l : j \in b..k})
  <2>4. extreme = lowest
    <3>1. extreme = Min({m.extreme, Facing(bars[k], s).l})
      BY DEF extreme, Extreme
    <3> HIDE DEF s, i
    <3>2. Min({Min({Facing(bars[j], s).l : j \in b..(k - 1)}), Facing(bars[k], s).l}) = lowest
      BY ZenonT(30), <2>1, <2>3, LowestNext
    <3>3. QED
      BY <2>2, <3>1, <3>2
  <2>5. trade = AsiaTradeFrom(bars, b, k, s)
    BY <2>4 DEF trade, AsiaTradeFrom
  <2>6. (k + 1) - 1 = k /\ k + 1 > 1 /\ DayOf(k + 1) = DayOf(k) /\ InLondon(k) /\ ~m.fired
    BY <1>10 DEF On
  <2>7. CASE ClosesOut(bars, k, s)
    <3>1. r = Further
      BY <1>1, <1>10, <2>7
    <3>2. r.m.side = s /\ r.m.extreme = lowest /\ r.m.fired = m.fired /\ r.trade = <<>>
      BY <1>6, <2>4, <3>1
    <3>3. b \in AsiaRun(bars, k + 1, s) /\ BeginsBreak(bars, b, k + 1, s)
      BY <2>2, <2>3, <2>6, <2>7, RunGoesOn DEF BeginsBreak
    <3> HIDE DEF s, i, lowest
    <3>4. AsiaReady(bars, k + 1, r.m)
      BY <1>4, <2>1, <2>6, <3>2, <3>3 DEF AsiaReady, lowest
    <3>5. \A t \in Sides : ~EndsBreak(bars, k, t)
      BY <2>1, <2>7 DEF EndsBreak
    <3>6. QED
      BY <1>5, <2>6, <3>1, <3>2, <3>4, <3>5 DEF AsiaStepped, r
  <2>8. CASE ~ClosesOut(bars, k, s)
    <3>1. r = IF trade = <<>> THEN Refused ELSE Fired
      BY <1>1, <1>10, <2>8
    <3>2. r.trade = trade /\ (r.m.fired <=> trade # <<>>) /\ (trade = <<>> => r.m.side = 0)
      BY <1>6, <2>6, <3>1
    <3> HIDE DEF i, lowest
    <3>3. \A t \in Sides : EndsBreak(bars, k, t) =>
             Jumped(bars, Min(AsiaRun(bars, k, t)), t) \/ r.trade # <<>>
      <4> SUFFICES ASSUME NEW t \in Sides, EndsBreak(bars, k, t), ~Jumped(bars, Min(AsiaRun(bars, k, t)), t)
                   PROVE  r.trade # <<>>
        OBVIOUS
      <4>1. t = s
        BY <2>1 DEF EndsBreak
      <4>2. b = Min(AsiaRun(bars, k, s))
        BY <2>2, <4>1 DEF BeginsBreak
      <4>3. AsiaTradeFrom(bars, b, k, s) # <<>>
        BY <4>1, <4>2 DEF EndsBreak
      <4>4. QED
        BY <2>5, <3>2, <4>3
    <3>4. r.trade # <<>> => \E x : r.trade = <<x>> /\ x.entry = k + 1 /\ AsiaGood(bars, x)
      <4> SUFFICES ASSUME r.trade # <<>> PROVE \E x : r.trade = <<x>> /\ x.entry = k + 1 /\ AsiaGood(bars, x)
        OBVIOUS
      <4> DEFINE x == Signal(s, k + 1, s * (extreme - AsiaBuffer), s * AsiaHigh(bars, k, s), DayOf(k))
      <4>1. trade = <<x>>
        BY <3>2 DEF trade, AsiaTrade
      <4>2. x.side = s /\ x.entry = k + 1 /\ x.of = DayOf(k)
        BY DEF Signal
      <4> HIDE DEF x, s
      <4>3. x.entry - 1 = k /\ x.entry \in Int /\ k \in 1..(Len(bars) - 1)
        BY <4>2, TapeIs
      <4>4. AsiaTradeFrom(bars, b, k, s) = <<x>>
        BY <2>5, <4>1
      <4>5. AsiaGood(bars, x)
        BY <2>1, <2>2, <4>2, <4>3, <4>4 DEF AsiaGood
      <4>6. QED
        BY <3>2, <4>1, <4>2, <4>5
    <3>5. AsiaReady(bars, k + 1, r.m)
      <4>1. CASE trade # <<>>
        BY <1>4, <3>2, <4>1 DEF AsiaReady
      <4>2. CASE trade = <<>>
        <5>1. r.m.side = 0
          BY <3>2, <4>2
        <5>2. \A t \in Sides : ClosesOut(bars, k, t) => Jumped(bars, k, t)
          <6> SUFFICES ASSUME NEW t \in Sides, ClosesOut(bars, k, t) PROVE Jumped(bars, k, t)
            OBVIOUS
          <6>1. t # s
            BY <2>8
          <6> HIDE DEF s
          <6>2. s = -t
            BY <2>1, <6>1 DEF Sides
          <6>3. ClosesOut(bars, i, -t)
            BY <2>1, <6>2
          <6>4. QED
            BY <2>1, <6>3 DEF Jumped, i
        <5>3. QED
          BY <1>4, <2>6, <5>1, <5>2 DEF AsiaReady
      <4>3. QED
        BY <4>1, <4>2
    <3>6. r = Refused \/ r = Fired
      BY <3>1
    <3>7. \A f \in {"times", "past"} : f \in DOMAIN m => f \in DOMAIN r.m /\ r.m[f] = m[f]
      BY <1>5, <3>6
    <3>8. AsiaStepped(bars, k, m, r)
      BY <2>6, <3>2, <3>3, <3>4, <3>5, <3>7 DEF AsiaStepped
    <3>9. QED
      BY <3>8 DEF r
  <2>9. QED
    BY <2>7, <2>8
<1>11. QED
  BY <1>7, <1>8, <1>9, <1>10 DEF On

\* What the bars up to one say stays, as the tape goes on.
LEMMA OutAgrees ==
    ASSUME NEW a, NEW b, NEW k \in Nat, \A j \in 1..k : a[j] = b[j]
    PROVE  \A s : \A j \in 1..k : /\ ClosesOut(a, j, s) <=> ClosesOut(b, j, s)
                                  /\ AsiaHigh(a, j, s) = AsiaHigh(b, j, s)
                                  /\ Jumped(a, j, s) <=> Jumped(b, j, s)
<1>1. \A s : \A j \in 1..k : /\ ClosesOut(a, j, s) <=> ClosesOut(b, j, s)
                             /\ AsiaHigh(a, j, s) = AsiaHigh(b, j, s)
  <2> SUFFICES ASSUME NEW j \in 1..k, NEW s
               PROVE  (ClosesOut(a, j, s) <=> ClosesOut(b, j, s)) /\ AsiaHigh(a, j, s) = AsiaHigh(b, j, s)
    OBVIOUS
  <2> DEFINE S == AsiaBars(j)
  <2>1. \A i \in S : i \in 1..k
    BY DEF AsiaBars
  <2> HIDE DEF S
  <2>2. \A i \in S : a[i] = b[i]
    BY <2>1
  <2>3. {Facing(a[i], s).l : i \in S} = {Facing(b[i], s).l : i \in S}
    BY <2>2
  <2>4. {Facing(a[i], s).h : i \in S} = {Facing(b[i], s).h : i \in S}
    BY <2>2
  <2>5. AsiaLow(a, j, s) = AsiaLow(b, j, s) /\ AsiaHigh(a, j, s) = AsiaHigh(b, j, s)
    BY <2>3, <2>4 DEF AsiaLow, AsiaHigh, S
  <2>6. QED
    BY <2>5 DEF ClosesOut
<1>2. \A s : \A j \in 1..k : Jumped(a, j, s) <=> Jumped(b, j, s)
  <2> SUFFICES ASSUME NEW j \in 1..k, NEW s PROVE Jumped(a, j, s) <=> Jumped(b, j, s)
    OBVIOUS
  <2>1. j > 1 => j - 1 \in 1..k
    OBVIOUS
  <2>2. j > 1 => (ClosesOut(a, j - 1, -s) <=> ClosesOut(b, j - 1, -s))
    BY <1>1, <2>1
  <2>3. QED
    BY <2>2 DEF Jumped
<1>3. QED
  BY <1>1, <1>2

\* The break before a bar, by the bars before it.
LEMMA RunAgrees ==
    ASSUME NEW a, NEW b, NEW k \in Nat, \A j \in 1..(k - 1) : a[j] = b[j], NEW s
    PROVE  /\ AsiaRun(a, k, s) = AsiaRun(b, k, s)
           /\ \A i : i \in AsiaRun(a, k, s) => (BeginsBreak(a, i, k, s) <=> BeginsBreak(b, i, k, s))
           /\ \A j \in 1..(k - 1) : Jumped(a, j, s) <=> Jumped(b, j, s)
<1>1. CASE k = 0
  <2>1. 1..(k - 1) = {}
    BY <1>1
  <2>2. AsiaRun(a, k, s) = {} /\ AsiaRun(b, k, s) = {}
    BY <2>1 DEF AsiaRun
  <2>3. QED
    BY <2>1, <2>2
<1>2. CASE k # 0
  <2> DEFINE n == k - 1
  <2>1. n \in Nat /\ \A j \in 1..n : a[j] = b[j]
    BY <1>2
  <2> HIDE DEF n
  <2>2. \A j \in 1..n : (ClosesOut(a, j, s) <=> ClosesOut(b, j, s)) /\ (Jumped(a, j, s) <=> Jumped(b, j, s))
    BY <2>1, OutAgrees
  <2>3. \A i \in 1..n : \A j \in i..n : j \in 1..n
    BY <2>1
  <2>4. AsiaRun(a, k, s) = AsiaRun(b, k, s)
    <3>1. \A i \in 1..n : (\A j \in i..n : InLondon(j) /\ DayOf(j) = DayOf(k) /\ ClosesOut(a, j, s))
                          <=> (\A j \in i..n : InLondon(j) /\ DayOf(j) = DayOf(k) /\ ClosesOut(b, j, s))
      BY <2>2, <2>3
    <3>2. QED
      BY <3>1 DEF AsiaRun, n
  <2>5. ASSUME NEW i, i \in AsiaRun(a, k, s)
        PROVE  BeginsBreak(a, i, k, s) <=> BeginsBreak(b, i, k, s)
    <3>1. Min(AsiaRun(a, k, s)) \in 1..n
      BY <2>5, RunIs DEF n
    <3>2. Jumped(a, Min(AsiaRun(a, k, s)), s) <=> Jumped(b, Min(AsiaRun(a, k, s)), s)
      BY <2>2, <3>1
    <3>3. QED
      BY <2>4, <3>2 DEF BeginsBreak
  <2>6. QED
    BY <2>2, <2>4, <2>5 DEF n
<1>3. QED
  BY <1>1, <1>2

\* What is remembered before a bar, by the bars before it.
LEMMA ReadyAgrees ==
    ASSUME NEW a, NEW b, NEW k \in Nat, \A j \in 1..(k - 1) : a[j] = b[j], NEW m, AsiaReady(a, k, m)
    PROVE  AsiaReady(b, k, m)
<1>1. \A s : AsiaRun(a, k, s) = AsiaRun(b, k, s)
  BY RunAgrees
<1>2. \A s, i : i \in AsiaRun(a, k, s) => (BeginsBreak(a, i, k, s) <=> BeginsBreak(b, i, k, s))
  BY RunAgrees
<1>3. k > 1 => k - 1 \in 1..(k - 1)
  OBVIOUS
<1>4. \A s : k > 1 => (Jumped(a, k - 1, s) <=> Jumped(b, k - 1, s))
  BY <1>3, RunAgrees
<1>5. \A s : k > 1 => (ClosesOut(a, k - 1, s) <=> ClosesOut(b, k - 1, s))
  <2> SUFFICES ASSUME k > 1 PROVE \A s : ClosesOut(a, k - 1, s) <=> ClosesOut(b, k - 1, s)
    OBVIOUS
  <2> DEFINE n == k - 1
  <2>1. n \in Nat /\ n \in 1..n /\ \A j \in 1..n : a[j] = b[j]
    OBVIOUS
  <2> HIDE DEF n
  <2>2. \A s : ClosesOut(a, n, s) <=> ClosesOut(b, n, s)
    BY <2>1, OutAgrees
  <2>3. QED
    BY <2>2 DEF n
<1>6. \A s, i : i \in AsiaRun(a, k, s) =>
         {Facing(a[j], s).l : j \in i..(k - 1)} = {Facing(b[j], s).l : j \in i..(k - 1)}
  <2> SUFFICES ASSUME NEW s, NEW i, i \in AsiaRun(a, k, s)
               PROVE  {Facing(a[j], s).l : j \in i..(k - 1)} = {Facing(b[j], s).l : j \in i..(k - 1)}
    OBVIOUS
  <2>1. i \in 1..(k - 1)
    BY RunIs
  <2>2. \A j \in i..(k - 1) : j \in 1..(k - 1)
    BY <2>1
  <2>3. \A j \in i..(k - 1) : a[j] = b[j]
    BY <2>2
  <2>4. QED
    BY <2>3
<1>7. ~m.fired /\ m.side = 0 =>
        \A s \in Sides :
          (/\ k > 1 /\ AsiaBars(k - 1) # {} /\ InLondon(k - 1) /\ DayOf(k - 1) = DayOf(k)
           /\ ClosesOut(b, k - 1, s)) => Jumped(b, k - 1, s)
  BY <1>4, <1>5 DEF AsiaReady
<1>8. ~m.fired /\ m.side # 0 =>
        /\ k > 1 /\ AsiaBars(k - 1) # {}
        /\ \E i \in AsiaRun(b, k, m.side) :
             /\ BeginsBreak(b, i, k, m.side)
             /\ m.extreme = Min({Facing(b[j], m.side).l : j \in i..(k - 1)})
  <2> SUFFICES ASSUME ~m.fired, m.side # 0
               PROVE  /\ k > 1 /\ AsiaBars(k - 1) # {}
                      /\ \E i \in AsiaRun(b, k, m.side) :
                           /\ BeginsBreak(b, i, k, m.side)
                           /\ m.extreme = Min({Facing(b[j], m.side).l : j \in i..(k - 1)})
    OBVIOUS
  <2> DEFINE s == m.side
  <2>1. /\ k > 1 /\ AsiaBars(k - 1) # {}
        /\ \E i \in AsiaRun(a, k, s) :
             BeginsBreak(a, i, k, s) /\ m.extreme = Min({Facing(a[j], s).l : j \in i..(k - 1)})
    BY DEF AsiaReady
  <2> HIDE DEF s
  <2>2. PICK i \in AsiaRun(a, k, s) :
             BeginsBreak(a, i, k, s) /\ m.extreme = Min({Facing(a[j], s).l : j \in i..(k - 1)})
    BY <2>1
  <2>3. i \in AsiaRun(b, k, s) /\ BeginsBreak(b, i, k, s)
    BY <1>1, <1>2, <2>2
  <2>4. m.extreme = Min({Facing(b[j], s).l : j \in i..(k - 1)})
    BY <1>6, <2>2
  <2>5. QED
    BY <2>1, <2>3, <2>4 DEF s
<1>9. QED
  BY <1>7, <1>8 DEF AsiaReady

\* What a bar ends, by the bars up to the next one.
LEMMA EndsAgree ==
    ASSUME NEW a, NEW b, NEW k \in Nat, k > 0, \A j \in 1..(k + 1) : a[j] = b[j], NEW s
    PROVE  /\ EndsBreak(a, k, s) <=> EndsBreak(b, k, s)
           /\ AsiaRun(a, k, s) # {} =>
                (Jumped(a, Min(AsiaRun(a, k, s)), s) <=> Jumped(b, Min(AsiaRun(b, k, s)), s))
           /\ \A i \in AsiaRun(a, k, s) : AsiaTradeFrom(a, i, k, s) = AsiaTradeFrom(b, i, k, s)
<1>1. \A j \in 1..k : a[j] = b[j]
  OBVIOUS
<1>2. a[k + 1] = b[k + 1] /\ k \in 1..k /\ \A j \in 1..(k - 1) : a[j] = b[j]
  OBVIOUS
<1>3. (ClosesOut(a, k, s) <=> ClosesOut(b, k, s)) /\ AsiaHigh(a, k, s) = AsiaHigh(b, k, s)
  BY <1>1, <1>2, OutAgrees
<1>4. AsiaRun(a, k, s) = AsiaRun(b, k, s)
  BY <1>2, RunAgrees
<1>5. \A j \in 1..(k - 1) : Jumped(a, j, s) <=> Jumped(b, j, s)
  BY <1>2, RunAgrees
<1>6. \A i \in AsiaRun(a, k, s) : AsiaTradeFrom(a, i, k, s) = AsiaTradeFrom(b, i, k, s)
  <2> SUFFICES ASSUME NEW i \in AsiaRun(a, k, s) PROVE AsiaTradeFrom(a, i, k, s) = AsiaTradeFrom(b, i, k, s)
    OBVIOUS
  <2>1. i \in 1..(k - 1)
    BY RunIs
  <2>2. \A j \in i..k : j \in 1..k
    BY <2>1
  <2>3. \A j \in i..k : a[j] = b[j]
    BY <1>1, <2>2
  <2>4. {Facing(a[j], s).l : j \in i..k} = {Facing(b[j], s).l : j \in i..k}
    BY <2>3
  <2>5. QED
    BY <1>2, <1>3, <2>4 DEF AsiaTradeFrom, AsiaTrade
<1>7. AsiaRun(a, k, s) # {} => Min(AsiaRun(a, k, s)) \in AsiaRun(a, k, s) /\ Min(AsiaRun(a, k, s)) \in 1..(k - 1)
  BY RunIs
<1>8. AsiaRun(a, k, s) # {} => (Jumped(a, Min(AsiaRun(a, k, s)), s) <=> Jumped(b, Min(AsiaRun(b, k, s)), s))
  BY <1>4, <1>5, <1>7
<1>9. EndsBreak(a, k, s) <=> EndsBreak(b, k, s)
  BY <1>3, <1>4, <1>6, <1>7 DEF EndsBreak
<1>10. QED
  BY <1>6, <1>8, <1>9

\* A signal that ends a break still does, as the tape goes on.
LEMMA GoodStays ==
    ASSUME NEW a, NEW b, NEW s, AsiaGood(a, s), Len(a) \in Nat, Len(b) \in Nat, Len(a) <= Len(b),
           \A j \in 1..Len(a) : a[j] = b[j]
    PROVE  AsiaGood(b, s)
<1> DEFINE k == s.entry - 1
           side == s.side
<1>1. /\ s.entry \in Int /\ s.of = DayOf(k) /\ side \in Sides /\ k \in 1..(Len(a) - 1) /\ AsiaBars(k) # {}
      /\ \E i \in AsiaRun(a, k, side) : BeginsBreak(a, i, k, side) /\ AsiaTradeFrom(a, i, k, side) = <<s>>
  BY DEF AsiaGood
<1> HIDE DEF k, side
<1>2. PICK i \in AsiaRun(a, k, side) : BeginsBreak(a, i, k, side) /\ AsiaTradeFrom(a, i, k, side) = <<s>>
  BY <1>1
<1>3. k \in Nat /\ k > 0 /\ k \in 1..(Len(b) - 1) /\ \A j \in 1..(k + 1) : j \in 1..Len(a)
  BY <1>1
<1>4. \A j \in 1..(k + 1) : a[j] = b[j]
  BY <1>3
<1>5. \A j \in 1..(k - 1) : a[j] = b[j]
  BY <1>3, <1>4
<1>6. i \in AsiaRun(b, k, side) /\ BeginsBreak(b, i, k, side)
  BY <1>2, <1>3, <1>5, RunAgrees
<1>7. AsiaTradeFrom(b, i, k, side) = <<s>>
  BY <1>2, <1>3, <1>4, EndsAgree
<1>8. QED
  BY <1>1, <1>3, <1>6, <1>7 DEF AsiaGood, k, side

\* A break that a bar ends is traded, unless it began with a jump or its day has had a trade.
NotPassed(bars, q, k, s) ==
    EndsBreak(bars, k, s) =>
      \/ Jumped(bars, Min(AsiaRun(bars, k, s)), s)
      \/ \E i \in DOMAIN q : q[i].of = DayOf(k) /\ q[i].entry <= k + 1

\* The signals so far are one a day and end their breaks, and the memory is that of the day.
AsiaSignals(bars, q, n) ==
    /\ IsList(q)
    /\ \A i \in DOMAIN q : AsiaGood(bars, q[i])
    /\ \A i, j \in DOMAIN q : q[i].of = q[j].of => i = j
    /\ \A k \in 2..(n - 1), s \in Sides : NotPassed(bars, q, k, s)

\* The memory of the day is what its bars amount to, and the signals are as they should be.
AsiaFound ==
    /\ AsiaInv
    /\ "times" \in DOMAIN mem /\ mem.times \in Times["asia"] /\ Len(tape) <= Length["asia"]
    /\ Len(tape) > 1 /\ DayOf(Len(tape) - 1) = DayOf(Len(tape)) => AsiaReady(tape, Len(tape), mem)
    /\ Len(tape) > 1 => (mem.fired <=> \E i \in DOMAIN out : out[i].of = DayOf(Len(tape) - 1))
    /\ AsiaSignals(tape, out, Len(tape))

\* So they are as they should be.
LEMMA AsiaFoundFires == AsiaFound => AsiaFires
<1> SUFFICES ASSUME AsiaFound PROVE AsiaFires
  OBVIOUS
<1>1. /\ \A i \in DOMAIN out : AsiaGood(tape, out[i])
      /\ \A i, j \in DOMAIN out : out[i].of = out[j].of => i = j
      /\ \A k \in 2..(Len(tape) - 1), s \in Sides : NotPassed(tape, out, k, s)
  BY DEF AsiaFound, AsiaSignals
<1>2. \A i \in DOMAIN out :
         LET k == out[i].entry - 1
             side == out[i].side
         IN  \E b \in AsiaRun(tape, k, side) :
                BeginsBreak(tape, b, k, side) /\ AsiaTradeFrom(tape, b, k, side) = <<out[i]>>
  BY <1>1 DEF AsiaGood
<1>3. \A e \in AsiaEnds :
         Jumped(tape, Min(AsiaRun(tape, e[1], e[2])), e[2]) \/
         \E i \in DOMAIN out : out[i].of = DayOf(e[1]) /\ out[i].entry <= e[1] + 1
  BY <1>1 DEF AsiaEnds, NotPassed
<1>4. QED
  BY <1>1, <1>2, <1>3 DEF AsiaFires

\* Nothing has been found at the start.
LEMMA AsiaFoundBegins == InitAsia => AsiaFound
<1> SUFFICES ASSUME InitAsia PROVE AsiaFound
  OBVIOUS
<1>1. StartStudy("asia", QuietDay)
  BY DEF InitAsia
<1>2. tape = <<>> /\ out = <<>> /\ "times" \in DOMAIN mem /\ mem.times \in Times["asia"]
  BY <1>1, Started
<1>3. Len(tape) = 0 /\ DOMAIN out = {} /\ 2..(0 - 1) = {} /\ out \in Seq({})
  BY <1>2
<1>4. Len(tape) <= Length["asia"]
  BY <1>3, FrameIsSorted DEF TimedStudies
<1>5. AsiaSignals(tape, out, Len(tape))
  BY <1>3 DEF AsiaSignals, IsList
<1>6. QED
  BY <1>2, <1>3, <1>4, <1>5, AsiaBegins DEF AsiaFound

\* The rows of the tape are sorted, and so are their days.
LEMMA AsiaSorted ==
    ASSUME NEW n \in Nat, n <= Length["asia"], mem.times \in Times["asia"]
    PROVE  /\ \A i \in 1..n : Slot(i) \in Nat
           /\ \A i, j \in 1..n : i < j => Slot(i) < Slot(j)
           /\ \A i, j \in 1..n : i <= j => DayOf(i) <= DayOf(j) /\ DayOf(i) \in Nat /\ DayOf(j) \in Nat
<1>1. "asia" \in TimedStudies
  BY DEF TimedStudies
<1>3. /\ \A i \in 1..n : Slot(i) \in Nat
      /\ \A i, j \in 1..n : i < j => Slot(i) < Slot(j)
  BY <1>1, RowsAreSorted
<1>4. ASSUME NEW i \in 1..n, NEW j \in 1..n, i <= j
      PROVE  DayOf(i) <= DayOf(j) /\ DayOf(i) \in Nat /\ DayOf(j) \in Nat
  <2> DEFINE a == Slot(i)
             b == Slot(j)
  <2>1. a \in Nat /\ b \in Nat /\ a <= b
    <3>1. i = j \/ i < j
      BY <1>4
    <3>2. a \in Nat /\ b \in Nat
      BY <1>3
    <3>3. CASE i < j
      <4>1. a < b
        BY <1>3, <3>3
      <4> HIDE DEF a, b
      <4>2. QED
        BY <3>2, <4>1
    <3>4. CASE i = j
      <4>1. a = b
        BY <3>4
      <4> HIDE DEF a, b
      <4>2. QED
        BY <3>2, <4>1
    <3>5. QED
      BY <3>1, <3>3, <3>4
  <2> HIDE DEF a, b
  <2>2. a \div 48 <= b \div 48 /\ a \div 48 \in Nat /\ b \div 48 \in Nat
    BY <2>1
  <2>3. QED
    BY <2>2 DEF DayOf, SlotsOfDay, a, b
<1>5. QED
  BY <1>3, <1>4

\* One more signal, of a day that had none, or none.
OneMoreDay(a, b, q, e, k) ==
    /\ Len(a) \in Nat /\ Len(b) = Len(a) + 1 /\ \A j \in 1..Len(a) : a[j] = b[j]
    /\ AsiaSignals(a, q, Len(a)) /\ k = Len(a)
    /\ e # <<>> => /\ \A i \in DOMAIN q : q[i].of # DayOf(k)
                   /\ \E s : e = <<s>> /\ s.entry = k + 1 /\ AsiaGood(b, s)
    /\ k > 0 => \A s \in Sides :
         EndsBreak(b, k, s) =>
           \/ Jumped(b, Min(AsiaRun(b, k, s)), s) \/ e # <<>>
           \/ \E i \in DOMAIN q : q[i].of = DayOf(k)

\* The signals go on being those of the tape.
LEMMA SignalsGoOn ==
    ASSUME NEW a, NEW b, NEW q, NEW e, NEW k, OneMoreDay(a, b, q, e, k)
    PROVE  /\ AsiaSignals(b, q \o e, k + 1)
           /\ (\E i \in DOMAIN (q \o e) : (q \o e)[i].of = DayOf(k)) <=>
                (e # <<>> \/ \E i \in DOMAIN q : q[i].of = DayOf(k))
<1> USE DEF OneMoreDay
<1> DEFINE p == q \o e
<1>1. k \in Nat /\ Len(b) = k + 1 /\ k = Len(a) /\ \A j \in 1..k : a[j] = b[j]
  OBVIOUS
<1>2. PICK A : q \in Seq(A)
  BY DEF AsiaSignals, IsList
<1>3. Len(q) \in Nat /\ DOMAIN q = 1..Len(q)
  BY <1>2
<1>4. /\ IsList(p) /\ DOMAIN p = DOMAIN q \cup (IF e = <<>> THEN {} ELSE {Len(q) + 1})
      /\ \A i \in DOMAIN q : p[i] = q[i]
      /\ e # <<>> => /\ p[Len(q) + 1].of = DayOf(k) /\ p[Len(q) + 1].entry = k + 1
                     /\ AsiaGood(b, p[Len(q) + 1])
  <2>1. CASE e = <<>>
    <3>1. p = q
      BY <1>2, <2>1
    <3>2. IsList(q)
      BY DEF AsiaSignals
    <3> HIDE DEF p
    <3>3. QED
      BY <2>1, <3>1, <3>2
  <2>2. CASE e # <<>>
    <3>1. PICK s : e = <<s>> /\ s.entry = k + 1 /\ AsiaGood(b, s)
      BY <2>2
    <3>2. /\ p \in Seq(A \cup {s}) /\ DOMAIN p = 1..(Len(q) + 1) /\ p[Len(q) + 1] = s
          /\ \A i \in 1..Len(q) : p[i] = q[i]
      BY <1>2, <1>3, <3>1
    <3>3. s.of = DayOf(k)
      <4>1. s.entry - 1 = k /\ s.of = DayOf(s.entry - 1)
        BY <1>1, <3>1 DEF AsiaGood
      <4>2. QED
        BY <4>1
    <3>4. 1..(Len(q) + 1) = 1..Len(q) \cup {Len(q) + 1}
      BY <1>3
    <3> HIDE DEF p
    <3>5. QED
      BY <1>3, <2>2, <3>1, <3>2, <3>3, <3>4 DEF IsList
  <2>3. QED
    BY <2>1, <2>2
<1> HIDE DEF p
<1>5. \A i \in DOMAIN q : AsiaGood(b, q[i])
  <2>1. \A i \in DOMAIN q : AsiaGood(a, q[i])
    BY DEF AsiaSignals
  <2>2. QED
    BY <1>1, <2>1, GoodStays
<1>6. \A i \in DOMAIN p : AsiaGood(b, p[i])
  BY <1>4, <1>5
<1>7. \A i, j \in DOMAIN p : p[i].of = p[j].of => i = j
  <2>1. \A i, j \in DOMAIN q : q[i].of = q[j].of => i = j
    BY DEF AsiaSignals
  <2>2. QED
    BY <1>4, <2>1
<1>8. \A n \in 2..k, s \in Sides : NotPassed(b, p, n, s)
  <2> SUFFICES ASSUME NEW n \in 2..k, NEW s \in Sides, EndsBreak(b, n, s),
                      ~Jumped(b, Min(AsiaRun(b, n, s)), s)
               PROVE  \E i \in DOMAIN p : p[i].of = DayOf(n) /\ p[i].entry <= n + 1
    BY DEF NotPassed
  <2>1. CASE n = k
    <3>1. e # <<>> \/ \E i \in DOMAIN q : q[i].of = DayOf(k)
      BY <2>1
    <3>2. CASE e # <<>>
      BY <1>1, <1>4, <2>1, <3>2
    <3>3. CASE \E i \in DOMAIN q : q[i].of = DayOf(k)
      <4>1. PICK i \in DOMAIN q : q[i].of = DayOf(k)
        BY <3>3
      <4>2. q[i].entry \in Int /\ q[i].entry - 1 \in 1..(k - 1)
        <5>1. AsiaGood(a, q[i])
          BY DEF AsiaSignals
        <5>2. QED
          BY <1>1, <5>1 DEF AsiaGood
      <4>3. q[i].entry <= n + 1
        BY <1>1, <2>1, <4>2
      <4>4. QED
        BY <1>4, <2>1, <4>1, <4>3
    <3>4. QED
      BY <3>1, <3>2, <3>3
  <2>2. CASE n # k
    <3>1. /\ n \in 2..(k - 1) /\ n \in Nat /\ n > 0 /\ \A j \in 1..(n + 1) : j \in 1..k
      BY <1>1, <2>2
    <3>2. \A j \in 1..(n + 1) : a[j] = b[j]
      BY <1>1, <3>1
    <3>3. NotPassed(a, q, n, s)
      BY <1>1, <3>1 DEF AsiaSignals
    <3>4. EndsBreak(a, n, s) /\ AsiaRun(b, n, s) # {}
      BY <3>1, <3>2, EndsAgree DEF EndsBreak
    <3>5. AsiaRun(a, n, s) # {}
      BY <3>4 DEF EndsBreak
    <3>6. ~Jumped(a, Min(AsiaRun(a, n, s)), s)
      BY <3>1, <3>2, <3>5, EndsAgree
    <3>7. PICK i \in DOMAIN q : q[i].of = DayOf(n) /\ q[i].entry <= n + 1
      BY <3>3, <3>4, <3>6 DEF NotPassed
    <3>8. QED
      BY <1>4, <3>7
  <2>3. QED
    BY <2>1, <2>2
<1>9. (\E i \in DOMAIN p : p[i].of = DayOf(k)) <=> (e # <<>> \/ \E i \in DOMAIN q : q[i].of = DayOf(k))
  BY <1>4
<1>10. (k + 1) - 1 = k
  BY <1>1
<1>11. QED
  BY <1>4, <1>6, <1>7, <1>8, <1>9, <1>10 DEF AsiaSignals, p

\* A bar adds the trade of the break that it ends.
LEMMA AsiaFoundGoesOn == AsiaFound /\ Asia => AsiaFound'
<1> SUFFICES ASSUME AsiaFound, Asia PROVE AsiaFound'
  OBVIOUS
<1> DEFINE k == Len(tape)
           start == IF k > 1 /\ DayOf(k - 1) = DayOf(k) THEN mem ELSE With(QuietDay, mem)
           r == AsiaAfter(tape')
<1>1. /\ tape' \in Seq(Ohlc) /\ tape \in Seq(Ohlc)
      /\ DOMAIN tape' = 1..(k + 1) /\ DOMAIN tape = 1..k /\ k \in Nat /\ Len(tape') = k + 1
      /\ \A j \in 1..k : tape'[j] = tape[j]
  BY NextTape DEF AsiaFound, AsiaInv, Asia, PriceStudies
<1>2. mem' = r.m /\ out' = out \o r.trade
  BY DEF Asia
<1>3. r = IF k = 0 THEN [m |-> mem, trade |-> <<>>]
          ELSE IF ~Weekday(k) THEN [m |-> start, trade |-> <<>>]
          ELSE AsiaBar(tape', k, start)
  <2> DEFINE n == Len(tape') - 1
  <2>1. n = k
    BY <1>1
  <2>2. AsiaAfter(tape') =
          LET first == IF n > 1 /\ DayOf(n - 1) = DayOf(n) THEN mem ELSE With(QuietDay, mem)
          IN  IF n = 0 THEN [m |-> mem, trade |-> <<>>]
              ELSE IF ~Weekday(n) THEN [m |-> first, trade |-> <<>>]
              ELSE AsiaBar(tape', n, first)
    BY DEF AsiaAfter
  <2> HIDE DEF n
  <2>3. QED
    BY <2>1, <2>2
<1>4. k + 1 <= Length["asia"] /\ k < Length["asia"]
  <2>1. k < Length["asia"]
    BY DEF Asia, NextBar
  <2>2. Length["asia"] \in Nat
    BY FrameIsSorted DEF TimedStudies
  <2>3. QED
    BY <1>1, <2>1, <2>2
<1>5. "times" \in DOMAIN mem /\ mem.times \in Times["asia"]
  BY DEF AsiaFound
<1>6. /\ \A i \in 1..(k + 1) : Slot(i) \in Nat
      /\ \A i, j \in 1..(k + 1) : i < j => Slot(i) < Slot(j)
      /\ \A i, j \in 1..(k + 1) : i <= j => DayOf(i) <= DayOf(j) /\ DayOf(i) \in Nat /\ DayOf(j) \in Nat
  <2> DEFINE n == k + 1
  <2>1. n \in Nat /\ n <= Length["asia"]
    BY <1>1, <1>4
  <2> HIDE DEF n
  <2>2. /\ \A i \in 1..n : Slot(i) \in Nat
        /\ \A i, j \in 1..n : i < j => Slot(i) < Slot(j)
        /\ \A i, j \in 1..n : i <= j => DayOf(i) <= DayOf(j) /\ DayOf(i) \in Nat /\ DayOf(j) \in Nat
    BY <1>5, <2>1, AsiaSorted
  <2>3. QED
    BY <2>2 DEF n
<1> DEFINE quiet == With(QuietDay, mem)
<1>7. /\ {"side", "extreme", "fired"} \subseteq DOMAIN quiet
      /\ quiet.side = 0 /\ quiet.extreme = 0 /\ quiet.fired = FALSE
      /\ "times" \in DOMAIN quiet /\ quiet.times = mem.times
  <2>1. DOMAIN QuietDay = {"side", "extreme", "fired"} /\ QuietDay.side = 0 /\ QuietDay.extreme = 0
        /\ QuietDay.fired = FALSE
    BY DEF QuietDay
  <2>2. /\ DOMAIN quiet = DOMAIN QuietDay \cup DOMAIN mem
        /\ \A f \in DOMAIN quiet : quiet[f] = IF f \in DOMAIN QuietDay THEN QuietDay[f] ELSE mem[f]
    BY DEF With
  <2> HIDE DEF quiet
  <2>3. QED
    BY <1>5, <2>1, <2>2
<1>8. start = mem \/ start = quiet
  OBVIOUS
<1>9. start = IF k > 1 /\ DayOf(k - 1) = DayOf(k) THEN mem ELSE quiet
  OBVIOUS
<1> HIDE DEF k, start, r, quiet
<1>10. "times" \in DOMAIN start /\ start.times = mem.times
  BY <1>5, <1>7, <1>8
<1>11. k > 0 => AsiaReady(tape', k, start)
  <2> SUFFICES ASSUME k > 0 PROVE AsiaReady(tape', k, start)
    OBVIOUS
  <2>1. CASE k > 1 /\ DayOf(k - 1) = DayOf(k)
    <3>1. AsiaReady(tape, k, mem)
      BY <2>1 DEF AsiaFound, k
    <3>2. \A j \in 1..(k - 1) : tape[j] = tape'[j]
      BY <1>1
    <3>3. AsiaReady(tape', k, mem)
      BY <1>1, <3>1, <3>2, ReadyAgrees
    <3>4. QED
      BY <1>9, <2>1, <3>3
  <2>2. CASE ~(k > 1 /\ DayOf(k - 1) = DayOf(k))
    <3>1. start = quiet
      BY <1>9, <2>2
    <3>2. DayMemory(quiet)
      BY <1>7 DEF DayMemory
    <3>3. QED
      BY <1>7, <2>2, <3>1, <3>2 DEF AsiaReady
  <2>3. QED
    BY <2>1, <2>2
<1>12. \A i \in DOMAIN out : out[i].entry - 1 \in 1..(k - 1) /\ out[i].of = DayOf(out[i].entry - 1)
  BY DEF AsiaFound, AsiaSignals, AsiaGood, k
<1>13. k > 0 => (start.fired <=> \E i \in DOMAIN out : out[i].of = DayOf(k))
  <2> SUFFICES ASSUME k > 0 PROVE start.fired <=> \E i \in DOMAIN out : out[i].of = DayOf(k)
    OBVIOUS
  <2>1. CASE k > 1 /\ DayOf(k - 1) = DayOf(k)
    BY <1>9, <2>1 DEF AsiaFound, k
  <2>2. CASE ~(k > 1 /\ DayOf(k - 1) = DayOf(k))
    <3>1. start.fired = FALSE
      BY <1>7, <1>9, <2>2
    <3>2. ASSUME NEW i \in DOMAIN out, out[i].of = DayOf(k) PROVE FALSE
      <4> DEFINE n == out[i].entry - 1
      <4>1. n \in 1..(k - 1) /\ DayOf(n) = DayOf(k)
        BY <1>12, <3>2
      <4> HIDE DEF n
      <4>2. k > 1 /\ n \in 1..(k + 1) /\ k - 1 \in 1..(k + 1) /\ k \in 1..(k + 1) /\ n <= k - 1 /\ k - 1 <= k
        BY <1>1, <4>1
      <4>3. DayOf(n) <= DayOf(k - 1) /\ DayOf(k - 1) <= DayOf(k) /\ DayOf(n) \in Nat /\ DayOf(k - 1) \in Nat
            /\ DayOf(k) \in Nat
        BY <1>6, <4>2
      <4>4. DayOf(k - 1) = DayOf(k)
        BY <4>1, <4>3
      <4>5. QED
        BY <2>2, <4>2, <4>4
    <3>3. QED
      BY <3>1, <3>2
  <2>3. QED
    BY <2>1, <2>2
<1>14. k > 0 => AsiaStepped(tape', k, start, r)
  <2> SUFFICES ASSUME k > 0 PROVE AsiaStepped(tape', k, start, r)
    OBVIOUS
  <2>1. AsiaReady(tape', k, start) /\ k \in DOMAIN tape' /\ k + 1 \in DOMAIN tape'
    BY <1>1, <1>11
  <2>2. CASE Weekday(k)
    <3>1. r = AsiaBar(tape', k, start)
      BY <1>3, <2>2
    <3>2. k > 1 => Slot(k - 1) \in Nat /\ Slot(k) \in Nat /\ Slot(k - 1) < Slot(k)
      <4>1. k > 1 => k - 1 \in 1..(k + 1) /\ k \in 1..(k + 1) /\ k - 1 < k
        BY <1>1
      <4>2. QED
        BY <1>6, <4>1
    <3>3. QED
      BY <1>1, <2>1, <2>2, <3>1, <3>2, AsiaBarGives
  <2>3. CASE ~Weekday(k)
    <3>1. r.m = start /\ r.trade = <<>>
      BY <1>3, <2>3
    <3>2. ~start.fired => start.side = 0
      <4> SUFFICES ASSUME ~start.fired, start.side # 0 PROVE FALSE
        OBVIOUS
      <4>1. InLondon(k - 1) /\ DayOf(k - 1) = DayOf(k)
        BY <1>1, <2>1, SideBefore
      <4>2. QED
        BY <2>3, <4>1 DEF InLondon, Weekday
    <3>3. (k + 1) - 1 = k /\ ~InLondon(k)
      BY <1>1, <2>3 DEF InLondon
    <3>4. AsiaReady(tape', k + 1, start)
      BY <2>1, <3>2, <3>3 DEF AsiaReady
    <3>5. \A s \in Sides : ~EndsBreak(tape', k, s)
      BY <3>3 DEF EndsBreak
    <3>6. QED
      BY <3>1, <3>4, <3>5 DEF AsiaStepped
  <2>4. QED
    BY <2>2, <2>3
<1>15. k = 0 => r.m = mem /\ r.trade = <<>>
  BY <1>3
<1>16. "times" \in DOMAIN mem' /\ mem'.times = mem.times
  <2>1. CASE k = 0
    BY <1>2, <1>5, <1>15, <2>1
  <2>2. CASE k # 0
    <3>1. k > 0
      BY <1>1, <2>2
    <3>2. \A f \in {"times", "past"} : f \in DOMAIN start => f \in DOMAIN r.m /\ r.m[f] = start[f]
      BY <1>14, <3>1 DEF AsiaStepped
    <3>3. QED
      BY <1>2, <1>10, <3>2
  <2>3. QED
    BY <2>1, <2>2
<1> DEFINE e == r.trade
<1>17. e # <<>> => k > 0 /\ ~start.fired /\ \E s : e = <<s>> /\ s.entry = k + 1 /\ AsiaGood(tape', s)
  <2>1. e # <<>> => k > 0
    BY <1>1, <1>15
  <2>2. QED
    BY <1>14, <2>1 DEF AsiaStepped
<1>18. k > 0 => \A s \in Sides :
         EndsBreak(tape', k, s) => Jumped(tape', Min(AsiaRun(tape', k, s)), s) \/ start.fired \/ e # <<>>
  BY <1>14 DEF AsiaStepped
<1> HIDE DEF e
<1>19. /\ AsiaSignals(tape', out \o e, k + 1)
       /\ (\E i \in DOMAIN (out \o e) : (out \o e)[i].of = DayOf(k)) <=>
            (e # <<>> \/ \E i \in DOMAIN out : out[i].of = DayOf(k))
  <2>1. AsiaSignals(tape, out, Len(tape)) /\ Len(tape) \in Nat /\ Len(tape') = Len(tape) + 1 /\ k = Len(tape)
        /\ \A j \in 1..Len(tape) : tape[j] = tape'[j]
    BY <1>1 DEF AsiaFound, k
  <2>2. e # <<>> => /\ \A i \in DOMAIN out : out[i].of # DayOf(k)
                    /\ \E s : e = <<s>> /\ s.entry = k + 1 /\ AsiaGood(tape', s)
    BY <1>13, <1>17
  <2>3. k > 0 => \A s \in Sides :
             EndsBreak(tape', k, s) =>
               \/ Jumped(tape', Min(AsiaRun(tape', k, s)), s) \/ e # <<>>
               \/ \E i \in DOMAIN out : out[i].of = DayOf(k)
    BY <1>13, <1>18
  <2>4. OneMoreDay(tape, tape', out, e, k)
    BY <2>1, <2>2, <2>3 DEF OneMoreDay
  <2>5. QED
    BY <2>4, SignalsGoOn
<1>20. out' = out \o e
  BY <1>2 DEF e
<1>21. k > 0 => (mem'.fired <=> \E i \in DOMAIN out' : out'[i].of = DayOf(k))
  <2> SUFFICES ASSUME k > 0 PROVE mem'.fired <=> \E i \in DOMAIN out' : out'[i].of = DayOf(k)
    OBVIOUS
  <2>1. mem'.fired <=> start.fired \/ e # <<>>
    BY <1>2, <1>14 DEF AsiaStepped, e
  <2>2. QED
    BY <1>13, <1>19, <1>20, <2>1
<1>22. k > 0 /\ DayOf(k + 1) = DayOf(k) => AsiaReady(tape', k + 1, mem')
  BY <1>2, <1>14 DEF AsiaStepped
<1>23. /\ \A i : (DayOf(i))' = DayOf(i)
       /\ \A i : (InLondon(i))' <=> InLondon(i)
       /\ \A i : (AsiaBars(i))' = AsiaBars(i)
  <2>1. \A i : (DayOf(i))' = DayOf(i) /\ (Hour(i))' = Hour(i)
    BY <1>16 DEF DayOf, Hour, Slot
  <2>2. \A i : ((InLondon(i))' <=> InLondon(i)) /\ (AsiaBars(i))' = AsiaBars(i)
    BY <2>1 DEF InLondon, Weekday, AsiaBars
  <2>3. QED
    BY <2>1, <2>2
<1>24. /\ \A i, s : (ClosesOut(tape, i, s))' <=> ClosesOut(tape', i, s)
       /\ \A i, s, x : (AsiaTrade(tape, i, s, x))' = AsiaTrade(tape', i, s, x)
  <2>1. \A i, s : (AsiaLow(tape, i, s))' = AsiaLow(tape', i, s) /\ (AsiaHigh(tape, i, s))' = AsiaHigh(tape', i, s)
    BY <1>23 DEF AsiaLow, AsiaHigh
  <2>2. QED
    BY <1>23, <2>1 DEF ClosesOut, AsiaTrade
<1>25. /\ \A i, s : (AsiaRun(tape, i, s))' = AsiaRun(tape', i, s)
       /\ \A i, s : (Jumped(tape, i, s))' <=> Jumped(tape', i, s)
       /\ \A b, i, s : (AsiaTradeFrom(tape, b, i, s))' = AsiaTradeFrom(tape', b, i, s)
  BY <1>23, <1>24 DEF AsiaRun, Jumped, AsiaTradeFrom
<1>26. /\ \A b, i, s : (BeginsBreak(tape, b, i, s))' <=> BeginsBreak(tape', b, i, s)
       /\ \A i, s : (EndsBreak(tape, i, s))' <=> EndsBreak(tape', i, s)
  BY <1>23, <1>24, <1>25 DEF BeginsBreak, EndsBreak
<1>27. /\ \A s : (AsiaGood(tape, s))' <=> AsiaGood(tape', s)
       /\ \A q, i, s : (NotPassed(tape, q, i, s))' <=> NotPassed(tape', q, i, s)
  BY <1>23, <1>25, <1>26 DEF AsiaGood, NotPassed
<1>28. (AsiaSignals(tape, out, Len(tape)))'
  <2>1. AsiaSignals(tape', out', Len(tape'))
    BY <1>1, <1>19, <1>20
  <2>2. QED
    BY <1>27, <2>1 DEF AsiaSignals
<1>29. Len(tape') - 1 = k /\ (Len(tape') > 1 <=> k > 0)
  BY <1>1
<1>30. (Len(tape) > 1 /\ DayOf(Len(tape) - 1) = DayOf(Len(tape)) => AsiaReady(tape, Len(tape), mem))'
  <2> SUFFICES ASSUME Len(tape') > 1, DayOf(Len(tape') - 1) = DayOf(Len(tape'))
               PROVE  (AsiaReady(tape, Len(tape), mem))'
    BY <1>23
  <2>1. AsiaReady(tape', k + 1, mem')
    BY <1>1, <1>22, <1>29
  <2>2. AsiaReady(tape', Len(tape'), mem')
    BY <1>1, <2>1
  <2>3. QED
    BY <1>23, <1>24, <1>25, <1>26, <2>2 DEF AsiaReady, DayMemory
<1>31. (Len(tape) > 1 => (mem.fired <=> \E i \in DOMAIN out : out[i].of = DayOf(Len(tape) - 1)))'
  <2>1. Len(tape') > 1 => (mem'.fired <=> \E i \in DOMAIN out' : out'[i].of = DayOf(Len(tape') - 1))
    BY <1>21, <1>29
  <2>2. QED
    BY <1>23, <2>1
<1>32. AsiaInv' /\ Len(tape') <= Length["asia"]
  <2>1. AsiaInv'
    BY AsiaGoesOn DEF AsiaFound
  <2>2. QED
    BY <1>1, <1>4, <2>1
<1>33. ("times" \in DOMAIN mem /\ mem.times \in Times["asia"])'
  BY <1>5, <1>16
<1>34. QED
  BY <1>28, <1>30, <1>31, <1>32, <1>33 DEF AsiaFound

-----------------------------------------------------------------------------
(***************************************************************************)
(* The gaps that are violated.                                             *)
(***************************************************************************)
\* Whether a gap has been filled before bar j, and violated after that; and whether bar j
\* is a retest that fires it.
FilledBefore(bars, g, j) == \E f \in (g.formed + 1)..(j - 1) : EntersZone(Facing(bars[f], g.side), g)
ViolatedBefore(bars, g, j) ==
    \E v \in (g.formed + 1)..(j - 1) : FilledBefore(bars, g, v) /\ Facing(bars[v], g.side).c < g.lo
StateBefore(bars, g, j) ==
    IF ViolatedBefore(bars, g, j) THEN "retest"
    ELSE IF FilledBefore(bars, g, j) THEN "violation" ELSE "fill"
MayFire(bars, g, j) ==
    /\ g.formed < j /\ j <= g.formed + GapMaxAge
    /\ ViolatedBefore(bars, g, j) /\ Retested(bars, j, g)

\* The gaps up to a bar; as they are watched before bar k; those that still are; and those
\* that fire on it.
GapsUpTo(bars, n) == UNION {Gaps(bars, i) : i \in 1..n}
ZoneBefore(bars, g, k) == [g EXCEPT !.state = StateBefore(bars, g, k)]
Unfired(bars, g, k) == \A j \in (g.formed + 1)..(k - 1) : ~MayFire(bars, g, j)
WatchedAt(bars, k) == {g \in GapsUpTo(bars, k - 1) : k - 1 - g.formed <= GapMaxAge /\ Unfired(bars, g, k)}
ZonesBefore(bars, k) == {ZoneBefore(bars, g, k) : g \in WatchedAt(bars, k)}
Firing(bars, k) == {g \in GapsUpTo(bars, k - 1) : MayFire(bars, g, k) /\ Unfired(bars, g, k)}
FiredOn(bars, k) == {GapSignal(g, k + 1, bars[k + 1].o) : g \in Firing(bars, k)}
FiredUpTo(bars, n) == UNION {FiredOn(bars, k) : k \in 1..n}

\* A gap is known by its bar.
LEMMA GapIs ==
    ASSUME NEW bars \in Seq(Ohlc), NEW n \in Nat, n <= Len(bars), NEW g \in GapsUpTo(bars, n)
    PROVE  /\ g \in ZoneRecord /\ g.formed \in 1..n /\ g.formed >= 3 /\ g.state = "fill"
           /\ g \in Gaps(bars, g.formed)
<1>1. PICK i \in 1..n : g \in Gaps(bars, i)
  BY DEF GapsUpTo
<1>2. i \in DOMAIN bars /\ i \in Int
  BY TapeIs
<1>3. g \in ZoneRecord
  BY <1>1, <1>2, GapsAre
<1>4. ~(i < 3) /\ \E side \in Sides : g = Gap(bars, i, side)
  BY <1>1 DEF Gaps
<1>5. g.formed = i /\ g.state = "fill"
  BY <1>4 DEF Gap
<1>6. QED
  BY <1>1, <1>2, <1>3, <1>4, <1>5

\* A zone with another state.
LEMMA StateIsSet ==
    ASSUME NEW g \in ZoneRecord, NEW s \in {"fill", "violation", "retest"}
    PROVE  LET z == [g EXCEPT !.state = s]
           IN  /\ z.side = g.side /\ z.lo = g.lo /\ z.hi = g.hi /\ z.formed = g.formed
               /\ z.state = s /\ z \in ZoneRecord
BY DEF ZoneRecord

\* A zone is its gap but for the state.
LEMMA GapWatchedIs ==
    ASSUME NEW bars, NEW g, NEW k, g \in ZoneRecord
    PROVE  /\ ZoneBefore(bars, g, k).side = g.side /\ ZoneBefore(bars, g, k).lo = g.lo
           /\ ZoneBefore(bars, g, k).hi = g.hi /\ ZoneBefore(bars, g, k).formed = g.formed
           /\ ZoneBefore(bars, g, k).state = StateBefore(bars, g, k)
           /\ ZoneBefore(bars, g, k) \in ZoneRecord
<1> DEFINE s == StateBefore(bars, g, k)
           z == ZoneBefore(bars, g, k)
<1>1. s \in {"fill", "violation", "retest"}
  BY DEF StateBefore
<1>2. z = [g EXCEPT !.state = s]
  BY DEF ZoneBefore
<1> HIDE DEF s, z
<1>3. /\ z.side = g.side /\ z.lo = g.lo /\ z.hi = g.hi /\ z.formed = g.formed
      /\ z.state = s /\ z \in ZoneRecord
  BY <1>1, <1>2, StateIsSet
<1>4. QED
  BY <1>3 DEF s, z

\* Zones with the same bounds and states are the same.
LEMMA SameZone ==
    ASSUME NEW a \in ZoneRecord, NEW b \in ZoneRecord, a.side = b.side, a.lo = b.lo, a.hi = b.hi,
           a.formed = b.formed, a.state = b.state
    PROVE  a = b
<1> DEFINE names == {"side", "lo", "hi", "formed", "state"}
<1>1. ASSUME NEW z \in ZoneRecord PROVE z = [x \in names |-> z[x]]
  BY DEF ZoneRecord
<1>2. a = [x \in names |-> a[x]] /\ b = [x \in names |-> b[x]]
  BY <1>1
<1>3. \A x \in names : a[x] = b[x]
  OBVIOUS
<1> HIDE DEF names
<1>4. [x \in names |-> a[x]] = [x \in names |-> b[x]]
  BY <1>3
<1>5. QED
  BY <1>2, <1>4

\* One more bar is watched as the loop does.
LEMMA WatchIs ==
    ASSUME NEW bars, NEW g \in ZoneRecord, NEW k \in Nat, g.formed < k
    PROVE  Watch(ZoneBefore(bars, g, k), bars[k]) = ZoneBefore(bars, g, k + 1)
<1> DEFINE z == ZoneBefore(bars, g, k)
           b == Facing(bars[k], g.side)
           F(j) == FilledBefore(bars, g, j)
           V(j) == ViolatedBefore(bars, g, j)
           enters == EntersZone(b, g)
           beyond == b.c < g.lo
<1>1. g.formed \in Int /\ g.formed + 1 <= k
  BY DEF ZoneRecord
<1>2. (g.formed + 1)..k = ((g.formed + 1)..(k - 1)) \cup {k} /\ (k + 1) - 1 = k
  BY <1>1
<1>3. F(k + 1) <=> F(k) \/ enters
  BY <1>2 DEF FilledBefore
<1>4. V(k + 1) <=> V(k) \/ (F(k) /\ beyond)
  BY <1>2 DEF ViolatedBefore
<1>5. V(k) => F(k)
  <2> SUFFICES ASSUME V(k) PROVE F(k)
    OBVIOUS
  <2>1. PICK v \in (g.formed + 1)..(k - 1) : F(v)
    BY DEF ViolatedBefore
  <2>2. \A f \in (g.formed + 1)..(v - 1) : f \in (g.formed + 1)..(k - 1)
    BY <1>1
  <2>3. QED
    BY <2>1, <2>2 DEF FilledBefore
<1>6. /\ z.side = g.side /\ z.lo = g.lo /\ z.hi = g.hi /\ z.formed = g.formed /\ z.state = StateBefore(bars, g, k)
      /\ z \in ZoneRecord
  <2>1. g \in ZoneRecord
    OBVIOUS
  <2>2. QED
    BY ONLY <2>1, GapWatchedIs DEF z
<1> DEFINE w == ZoneBefore(bars, g, k + 1)
<1>7. /\ w.side = g.side /\ w.lo = g.lo /\ w.hi = g.hi /\ w.formed = g.formed
      /\ w.state = StateBefore(bars, g, k + 1) /\ w \in ZoneRecord
  <2>1. g \in ZoneRecord
    OBVIOUS
  <2>2. QED
    BY ONLY <2>1, GapWatchedIs DEF w
<1> DEFINE y == Watch(z, bars[k])
<1>8. EntersZone(b, z) <=> enters
  BY <1>6 DEF EntersZone
<1>9. y = IF z.state = "fill" /\ enters THEN [z EXCEPT !.state = "violation"]
          ELSE IF z.state = "violation" /\ beyond THEN [z EXCEPT !.state = "retest"] ELSE z
  BY <1>6, <1>8 DEF Watch
<1>10. /\ StateBefore(bars, g, k) = IF V(k) THEN "retest" ELSE IF F(k) THEN "violation" ELSE "fill"
       /\ StateBefore(bars, g, k + 1) = IF V(k + 1) THEN "retest" ELSE IF F(k + 1) THEN "violation" ELSE "fill"
  BY DEF StateBefore
<1> HIDE DEF z, w, y, b, F, V, enters, beyond
<1>11. /\ y.side = z.side /\ y.lo = z.lo /\ y.hi = z.hi /\ y.formed = z.formed /\ y \in ZoneRecord
       /\ y.state = IF z.state = "fill" /\ enters THEN "violation"
                    ELSE IF z.state = "violation" /\ beyond THEN "retest" ELSE z.state
  BY <1>6, <1>9 DEF ZoneRecord
<1>12. y.state = w.state
  BY <1>3, <1>4, <1>5, <1>6, <1>7, <1>10, <1>11
<1>13. y = w
  BY <1>6, <1>7, <1>11, <1>12, SameZone
<1>14. QED
  BY <1>13 DEF y, w, z

\* A gap starts unfilled.
LEMMA FreshIs ==
    ASSUME NEW bars, NEW g \in ZoneRecord, g.state = "fill"
    PROVE  ZoneBefore(bars, g, g.formed + 1) = g
<1>1. g.formed \in Int
  BY DEF ZoneRecord
<1>2. (g.formed + 1)..((g.formed + 1) - 1) = {}
  BY <1>1
<1>3. StateBefore(bars, g, g.formed + 1) = "fill"
  BY <1>2 DEF StateBefore, ViolatedBefore, FilledBefore
<1> DEFINE k == g.formed + 1
           z == ZoneBefore(bars, g, k)
<1>4. g \in ZoneRecord /\ StateBefore(bars, g, k) = "fill"
  BY <1>3
<1> HIDE DEF k
<1>5. /\ z.side = g.side /\ z.lo = g.lo /\ z.hi = g.hi /\ z.formed = g.formed
      /\ z.state = g.state /\ z \in ZoneRecord
  BY <1>4, GapWatchedIs
<1> HIDE DEF z
<1>6. z = g
  BY <1>4, <1>5, SameZone
<1>7. QED
  BY <1>6 DEF z, k

\* The zone fires when its gap does, with the signal of the gap.
LEMMA FiresIs ==
    ASSUME NEW bars, NEW g \in ZoneRecord, NEW k \in Nat, g.formed < k
    PROVE  /\ Fires(bars, k, ZoneBefore(bars, g, k)) <=> MayFire(bars, g, k)
           /\ \A entry, open : GapSignal(ZoneBefore(bars, g, k), entry, open) = GapSignal(g, entry, open)
<1> DEFINE z == ZoneBefore(bars, g, k)
<1>1. z.side = g.side /\ z.lo = g.lo /\ z.hi = g.hi /\ z.formed = g.formed /\ z.state = StateBefore(bars, g, k)
  <2>1. g \in ZoneRecord
    OBVIOUS
  <2>2. QED
    BY ONLY <2>1, GapWatchedIs DEF z
<1> HIDE DEF z
<1>2. z.state = "retest" <=> ViolatedBefore(bars, g, k)
  BY <1>1 DEF StateBefore
<1>3. Retested(bars, k, z) <=> Retested(bars, k, g)
  BY <1>1 DEF Retested, Rejects
<1>4. g.formed \in Int /\ GapMaxAge \in Nat
  BY GapBufferIsPrice DEF ZoneRecord
<1>5. k - z.formed <= GapMaxAge <=> k <= g.formed + GapMaxAge
  BY <1>1, <1>4
<1>6. Fires(bars, k, z) <=> MayFire(bars, g, k)
  BY <1>1, <1>2, <1>3, <1>4, <1>5 DEF Fires, MayFire
<1>7. \A entry, open : GapSignal(z, entry, open) = GapSignal(g, entry, open)
  BY <1>1 DEF GapSignal
<1>8. QED
  BY <1>6, <1>7 DEF z

\* One bar more has the gaps that it completes.
LEMMA GapsNext ==
    ASSUME NEW bars, NEW k \in Nat, k >= 1
    PROVE  GapsUpTo(bars, k) = GapsUpTo(bars, k - 1) \cup Gaps(bars, k)
<1>1. 1..k = (1..(k - 1)) \cup {k}
  OBVIOUS
<1>2. QED
  BY <1>1 DEF GapsUpTo

\* After a bar the gaps are watched that were before it, but for those that are too old or
\* fire on it, and its own.
LEMMA WatchedNext ==
    ASSUME NEW bars \in Seq(Ohlc), NEW k \in Nat, k >= 1, k <= Len(bars), NEW g
    PROVE  g \in WatchedAt(bars, k + 1) <=>
             \/ g \in Gaps(bars, k)
             \/ /\ g \in WatchedAt(bars, k)
                /\ k - g.formed <= GapMaxAge
                /\ ~MayFire(bars, g, k)
<1>1. Len(bars) \in Nat /\ k - 1 \in Nat /\ k - 1 <= Len(bars) /\ (k + 1) - 1 = k /\ GapMaxAge \in Nat
  BY TapeIs, GapBufferIsPrice
<1>2. ASSUME g \in GapsUpTo(bars, k) PROVE g.formed \in 1..k /\ g \in Gaps(bars, g.formed)
  BY <1>1, <1>2, GapIs
<1>3. ASSUME g \in Gaps(bars, k) PROVE g \in GapsUpTo(bars, k) /\ g.formed = k
  <2>1. g \in GapsUpTo(bars, k)
    BY <1>3, GapsNext
  <2>2. \E side \in Sides : g = Gap(bars, k, side)
    BY <1>3 DEF Gaps
  <2>3. QED
    BY <2>1, <2>2 DEF Gap
<1>4. ASSUME g \in GapsUpTo(bars, k - 1) PROVE g.formed \in 1..(k - 1)
  <2> DEFINE n == k - 1
  <2>1. n \in Nat /\ n <= Len(bars) /\ g \in GapsUpTo(bars, n)
    BY <1>1, <1>4
  <2> HIDE DEF n
  <2>2. g.formed \in 1..n
    BY <2>1, GapIs
  <2>3. QED
    BY <2>2 DEF n
<1>5. ASSUME g.formed \in 1..(k - 1) PROVE Unfired(bars, g, k + 1) <=> Unfired(bars, g, k) /\ ~MayFire(bars, g, k)
  <2>1. (g.formed + 1)..k = ((g.formed + 1)..(k - 1)) \cup {k}
    BY <1>5
  <2>2. QED
    BY <1>1, <2>1 DEF Unfired
<1>6. ASSUME g.formed = k PROVE Unfired(bars, g, k + 1)
  <2>1. (g.formed + 1)..((k + 1) - 1) = {}
    BY <1>6
  <2>2. QED
    BY <2>1 DEF Unfired
<1>7. g \in WatchedAt(bars, k + 1) <=>
        g \in GapsUpTo(bars, k) /\ k - g.formed <= GapMaxAge /\ Unfired(bars, g, k + 1)
  BY <1>1 DEF WatchedAt
<1>8. g \in WatchedAt(bars, k) <=>
        g \in GapsUpTo(bars, k - 1) /\ k - 1 - g.formed <= GapMaxAge /\ Unfired(bars, g, k)
  BY DEF WatchedAt
<1>9. CASE g \in Gaps(bars, k)
  <2>1. g \in GapsUpTo(bars, k) /\ g.formed = k /\ k - k <= GapMaxAge
    BY <1>1, <1>3, <1>9
  <2>2. QED
    BY <1>6, <1>7, <1>9, <2>1
<1>10. CASE g \notin Gaps(bars, k)
  <2>1. g \in GapsUpTo(bars, k) <=> g \in GapsUpTo(bars, k - 1)
    BY <1>10, GapsNext
  <2>2. CASE g \in GapsUpTo(bars, k - 1)
    <3>1. g.formed \in 1..(k - 1)
      BY <1>4, <2>2
    <3>2. k - g.formed <= GapMaxAge => k - 1 - g.formed <= GapMaxAge
      BY <1>1, <3>1
    <3>3. QED
      BY <1>5, <1>7, <1>8, <1>10, <2>1, <2>2, <3>1, <3>2
  <2>3. CASE g \notin GapsUpTo(bars, k - 1)
    BY <1>7, <1>8, <1>10, <2>1, <2>3
  <2>4. QED
    BY <2>2, <2>3
<1>11. QED
  BY <1>9, <1>10

\* A gap that is watched has been completed before.
LEMMA WatchedIs ==
    ASSUME NEW bars \in Seq(Ohlc), NEW k \in Nat, k >= 1, k <= Len(bars), NEW g \in WatchedAt(bars, k)
    PROVE  g \in ZoneRecord /\ g.formed < k /\ g.formed \in Int /\ g.state = "fill"
<1> DEFINE n == k - 1
<1>1. n \in Nat /\ n <= Len(bars) /\ g \in GapsUpTo(bars, n)
  BY TapeIs DEF WatchedAt
<1> HIDE DEF n
<1>2. g \in ZoneRecord /\ g.formed \in 1..n /\ g.state = "fill"
  BY <1>1, GapIs
<1>3. QED
  BY <1>2 DEF n

\* The zones that the loop watches on are the gaps that are watched after the bar.
LEMMA ZonesNext ==
    ASSUME NEW bars \in Seq(Ohlc), NEW k \in Nat, k >= 1, k <= Len(bars)
    PROVE  {IF z.formed = k THEN z ELSE Watch(z, bars[k]) :
              z \in Kept(bars, k, ZonesBefore(bars, k) \cup Gaps(bars, k))} = ZonesBefore(bars, k + 1)
<1> DEFINE Next(z) == IF z.formed = k THEN z ELSE Watch(z, bars[k])
           zones == ZonesBefore(bars, k) \cup Gaps(bars, k)
           kept == Kept(bars, k, zones)
           new == {Next(z) : z \in kept}
<1>1. k \in DOMAIN bars
  BY TapeIs
<1>2. \A g \in Gaps(bars, k) : g \in ZoneRecord /\ g.formed = k /\ g.state = "fill"
  <2>1. \A g \in Gaps(bars, k) : \E side \in Sides : g = Gap(bars, k, side)
    BY DEF Gaps
  <2>2. \A g \in Gaps(bars, k) : g.formed = k /\ g.state = "fill"
    BY <2>1 DEF Gap
  <2>3. QED
    BY <1>1, <2>2, GapsAre
<1>3. \A z : z \in kept <=> z \in zones /\ (z.formed = k \/ (k - z.formed <= GapMaxAge /\ ~Fires(bars, k, z)))
  BY DEF Kept
<1>4. ASSUME NEW g \in WatchedAt(bars, k)
      PROVE  LET z == ZoneBefore(bars, g, k)
             IN  /\ z.formed = g.formed /\ z.formed # k /\ (Fires(bars, k, z) <=> MayFire(bars, g, k))
                 /\ Next(z) = ZoneBefore(bars, g, k + 1)
  <2> DEFINE z == ZoneBefore(bars, g, k)
  <2>1. g \in ZoneRecord /\ g.formed < k /\ g.formed \in Int
    BY WatchedIs
  <2>2. z.formed = g.formed
    BY <2>1, GapWatchedIs
  <2>3. Fires(bars, k, z) <=> MayFire(bars, g, k)
    BY <2>1, FiresIs
  <2>4. Watch(z, bars[k]) = ZoneBefore(bars, g, k + 1)
    BY <2>1, WatchIs
  <2> HIDE DEF z
  <2>5. z.formed # k
    BY <2>1, <2>2
  <2>6. QED
    BY <2>2, <2>3, <2>4, <2>5 DEF z
<1>5. ASSUME NEW g \in Gaps(bars, k) PROVE g \in kept /\ Next(g) = ZoneBefore(bars, g, k + 1)
  <2>1. g \in ZoneRecord /\ g.formed = k /\ g.state = "fill"
    BY <1>2
  <2>2. ZoneBefore(bars, g, g.formed + 1) = g
    BY <2>1, FreshIs
  <2>3. QED
    BY <1>3, <2>1, <2>2
<1> HIDE DEF kept, Next
<1>6. ASSUME NEW y \in new PROVE y \in ZonesBefore(bars, k + 1)
  <2>1. PICK z \in kept : y = Next(z)
    OBVIOUS
  <2>2. z \in zones
    BY <1>3
  <2>3. CASE z \in Gaps(bars, k)
    <3>1. y = ZoneBefore(bars, z, k + 1) /\ z \in WatchedAt(bars, k + 1)
      BY <1>5, <2>1, <2>3, WatchedNext
    <3>2. QED
      BY <3>1 DEF ZonesBefore
  <2>4. CASE z \in ZonesBefore(bars, k)
    <3>1. PICK g \in WatchedAt(bars, k) : z = ZoneBefore(bars, g, k)
      BY <2>4 DEF ZonesBefore
    <3>2. k - g.formed <= GapMaxAge /\ ~MayFire(bars, g, k)
      BY <1>3, <1>4, <3>1
    <3>3. g \in WatchedAt(bars, k + 1)
      BY <3>2, WatchedNext
    <3>4. y = ZoneBefore(bars, g, k + 1)
      BY <1>4, <2>1, <3>1
    <3>5. QED
      BY <3>3, <3>4 DEF ZonesBefore
  <2>5. QED
    BY <2>2, <2>3, <2>4
<1>7. ASSUME NEW y \in ZonesBefore(bars, k + 1) PROVE y \in new
  <2>1. PICK g \in WatchedAt(bars, k + 1) : y = ZoneBefore(bars, g, k + 1)
    BY <1>7 DEF ZonesBefore
  <2>2. CASE g \in Gaps(bars, k)
    BY <1>5, <2>1, <2>2
  <2>3. CASE g \notin Gaps(bars, k)
    <3>1. g \in WatchedAt(bars, k) /\ k - g.formed <= GapMaxAge /\ ~MayFire(bars, g, k)
      BY <2>1, <2>3, WatchedNext
    <3> DEFINE z == ZoneBefore(bars, g, k)
    <3>2. z \in zones
      BY <3>1 DEF ZonesBefore
    <3>3. z.formed = g.formed /\ (Fires(bars, k, z) <=> MayFire(bars, g, k)) /\ Next(z) = y
      BY <1>4, <2>1, <3>1
    <3> HIDE DEF z
    <3>4. z \in kept
      BY <1>3, <3>1, <3>2, <3>3
    <3>5. QED
      BY <3>3, <3>4
  <2>4. QED
    BY <2>2, <2>3
<1>8. new = ZonesBefore(bars, k + 1)
  BY <1>6, <1>7
<1>9. QED
  BY <1>8 DEF kept, Next

\* What the loop finds on a bar is what fires on it.
LEMMA FiringIs ==
    ASSUME NEW bars \in Seq(Ohlc), NEW k \in Nat, k >= 1, k <= Len(bars)
    PROVE  GapSignals(bars, k, ZonesBefore(bars, k) \cup Gaps(bars, k)) = FiredOn(bars, k)
<1> DEFINE zones == ZonesBefore(bars, k) \cup Gaps(bars, k)
           open == bars[k + 1].o
<1>1. ASSUME NEW g \in WatchedAt(bars, k)
      PROVE  /\ Fires(bars, k, ZoneBefore(bars, g, k)) <=> MayFire(bars, g, k)
             /\ GapSignal(ZoneBefore(bars, g, k), k + 1, open) = GapSignal(g, k + 1, open)
  <2>1. g \in ZoneRecord /\ g.formed < k
    BY WatchedIs
  <2>2. QED
    BY <2>1, FiresIs
<1>2. \A g : g \in Firing(bars, k) <=> g \in WatchedAt(bars, k) /\ MayFire(bars, g, k)
  <2> SUFFICES ASSUME NEW g PROVE g \in Firing(bars, k) <=> g \in WatchedAt(bars, k) /\ MayFire(bars, g, k)
    OBVIOUS
  <2> DEFINE n == k - 1
  <2>1. n \in Nat /\ n <= Len(bars)
    BY TapeIs
  <2>2. ASSUME g \in GapsUpTo(bars, n), MayFire(bars, g, k) PROVE n - g.formed <= GapMaxAge
    <3> HIDE DEF n
    <3>1. g.formed \in 1..n
      BY <2>1, <2>2, GapIs
    <3>2. k <= g.formed + GapMaxAge
      BY <2>2 DEF MayFire
    <3>3. QED
      BY <3>1, <3>2, GapBufferIsPrice DEF n
  <2>3. QED
    BY <2>2 DEF Firing, WatchedAt
<1>3. \A g \in Gaps(bars, k) : ~Fires(bars, k, g)
  <2>1. \A g \in Gaps(bars, k) : \E side \in Sides : g = Gap(bars, k, side)
    BY DEF Gaps
  <2>2. \A g \in Gaps(bars, k) : g.formed = k
    BY <2>1 DEF Gap
  <2>3. QED
    BY <2>2 DEF Fires
<1>4. ASSUME NEW x \in GapSignals(bars, k, zones) PROVE x \in FiredOn(bars, k)
  <2>1. PICK z \in zones : Fires(bars, k, z) /\ x = GapSignal(z, k + 1, open)
    BY <1>4 DEF GapSignals
  <2>2. PICK g \in WatchedAt(bars, k) : z = ZoneBefore(bars, g, k)
    BY <1>3, <2>1 DEF ZonesBefore
  <2>3. g \in Firing(bars, k) /\ x = GapSignal(g, k + 1, open)
    BY <1>1, <1>2, <2>1, <2>2
  <2>4. QED
    BY <2>3 DEF FiredOn
<1>5. ASSUME NEW x \in FiredOn(bars, k) PROVE x \in GapSignals(bars, k, zones)
  <2>1. PICK g \in Firing(bars, k) : x = GapSignal(g, k + 1, open)
    BY <1>5 DEF FiredOn
  <2> DEFINE z == ZoneBefore(bars, g, k)
  <2>2. g \in WatchedAt(bars, k) /\ MayFire(bars, g, k)
    BY <1>2, <2>1
  <2>3. z \in zones
    BY <2>2 DEF ZonesBefore
  <2>4. Fires(bars, k, z) /\ x = GapSignal(z, k + 1, open)
    BY <1>1, <2>1, <2>2
  <2> HIDE DEF z
  <2>5. QED
    BY <2>3, <2>4 DEF GapSignals
<1>6. QED
  BY <1>4, <1>5

\* Tapes that agree on their first bars.
Alike(a, b, n) ==
    /\ n \in Nat /\ a \in Seq(Ohlc) /\ b \in Seq(Ohlc) /\ n <= Len(a) /\ n <= Len(b)
    /\ \A j \in 1..n : a[j] = b[j]

\* They have the same retests up to the last of those but one,
LEMMA RetestsAgree ==
    ASSUME NEW a, NEW b, NEW n, Alike(a, b, n), NEW j \in 1..(n - 1), NEW g
    PROVE  Retested(a, j, g) <=> Retested(b, j, g)
<1> DEFINE m == j + 1
<1>1. /\ m \in Nat /\ 1..m \subseteq DOMAIN a /\ 1..m \subseteq DOMAIN b /\ \A i \in 1..m : a[i] = b[i]
      /\ a[j] = b[j] /\ a[j + 1] = b[j + 1]
  BY TapeIs DEF Alike
<1> HIDE DEF m
<1>2. \A i \in 1..(m \div 2) : HigherBar(a, i) = HigherBar(b, i)
  BY <1>1, HigherBarAgrees
<1>3. [i \in 1..(m \div 2) |-> HigherBar(a, i)] = [i \in 1..(m \div 2) |-> HigherBar(b, i)]
  BY <1>2
<1>4. HigherOpened(a, m) = HigherOpened(b, m)
  BY <1>3 DEF HigherOpened
<1>5. HtfMomentum(a, j + 1) = HtfMomentum(b, j + 1)
  BY <1>4 DEF HtfMomentum, m
<1>6. QED
  BY <1>1, <1>5 DEF Retested

\* the same gaps,
LEMMA GapsAgree ==
    ASSUME NEW a, NEW b, NEW n, Alike(a, b, n), NEW m \in Int, m <= n
    PROVE  GapsUpTo(a, m) = GapsUpTo(b, m)
<1>1. ASSUME NEW i \in 1..m PROVE Gaps(a, i) = Gaps(b, i)
  <2>1. CASE i < 3
    BY <2>1 DEF Gaps
  <2>2. CASE ~(i < 3)
    <3>1. i \in 1..n /\ i - 2 \in 1..n
      BY <2>2 DEF Alike
    <3>2. a[i] = b[i] /\ a[i - 2] = b[i - 2]
      BY <3>1 DEF Alike
    <3>3. \A side : Gap(a, i, side) = Gap(b, i, side)
      BY <3>2 DEF Gap
    <3>4. QED
      BY <3>3 DEF Gaps
  <2>3. QED
    BY <2>1, <2>2
<1>2. QED
  BY <1>1 DEF GapsUpTo

\* in the same states,
LEMMA StatesAgree ==
    ASSUME NEW a, NEW b, NEW n, Alike(a, b, n), NEW j \in Int, j <= n + 1, NEW g, g.formed \in Nat
    PROVE  /\ FilledBefore(a, g, j) <=> FilledBefore(b, g, j)
           /\ ViolatedBefore(a, g, j) <=> ViolatedBefore(b, g, j)
<1>1. n \in Nat /\ \A i \in 1..n : a[i] = b[i]
  BY DEF Alike
<1>2. \A m \in Int : m <= n + 1 => \A i \in (g.formed + 1)..(m - 1) : i \in 1..n /\ i \in Int /\ i <= n + 1
  BY <1>1
<1>3. ASSUME NEW m \in Int, m <= n + 1 PROVE FilledBefore(a, g, m) <=> FilledBefore(b, g, m)
  <2>1. \A i \in (g.formed + 1)..(m - 1) : a[i] = b[i]
    BY <1>1, <1>2, <1>3
  <2>2. QED
    BY <2>1 DEF FilledBefore
<1>4. \A i \in (g.formed + 1)..(j - 1) : a[i] = b[i] /\ (FilledBefore(a, g, i) <=> FilledBefore(b, g, i))
  BY <1>1, <1>2, <1>3
<1>5. ViolatedBefore(a, g, j) <=> ViolatedBefore(b, g, j)
  BY <1>4 DEF ViolatedBefore
<1>6. QED
  BY <1>3, <1>5

\* that may fire on the same bars.
LEMMA MayFiresAgree ==
    ASSUME NEW a, NEW b, NEW n, Alike(a, b, n), NEW g, g.formed \in Nat, NEW m \in Int, m <= n
    PROVE  /\ \A j \in (g.formed + 1)..(m - 1) : MayFire(a, g, j) <=> MayFire(b, g, j)
           /\ Unfired(a, g, m) <=> Unfired(b, g, m)
<1>1. n \in Nat
  BY DEF Alike
<1>2. ASSUME NEW j \in (g.formed + 1)..(m - 1) PROVE MayFire(a, g, j) <=> MayFire(b, g, j)
  <2>1. j \in 1..(n - 1) /\ j \in Int /\ j <= n + 1
    BY <1>1
  <2>2. Retested(a, j, g) <=> Retested(b, j, g)
    BY <2>1, RetestsAgree
  <2>3. ViolatedBefore(a, g, j) <=> ViolatedBefore(b, g, j)
    BY <2>1, StatesAgree
  <2>4. QED
    BY <2>2, <2>3 DEF MayFire
<1>3. QED
  BY <1>2 DEF Unfired

\* So they watch the same zones, and find the same on a bar.
LEMMA ZonesAgree ==
    ASSUME NEW a, NEW b, NEW n, Alike(a, b, n)
    PROVE  ZonesBefore(a, n) = ZonesBefore(b, n)
<1>1. n \in Nat /\ n \in Int /\ n <= n /\ n <= n + 1 /\ n - 1 \in Int /\ n - 1 <= n
  BY DEF Alike
<1>2. GapsUpTo(a, n - 1) = GapsUpTo(b, n - 1)
  <2> DEFINE m == n - 1
  <2>1. m \in Int /\ m <= n
    BY <1>1
  <2> HIDE DEF m
  <2>2. GapsUpTo(a, m) = GapsUpTo(b, m)
    BY <2>1, GapsAgree
  <2>3. QED
    BY <2>2 DEF m
<1>3. \A g \in GapsUpTo(a, n - 1) : g.formed \in Nat
  <2> SUFFICES ASSUME NEW g \in GapsUpTo(a, n - 1) PROVE g.formed \in Nat
    OBVIOUS
  <2> DEFINE m == n - 1
  <2>0. PICK i \in 1..m : g \in Gaps(a, i)
    BY DEF GapsUpTo
  <2>1. m \in Nat /\ m <= Len(a) /\ a \in Seq(Ohlc) /\ g \in GapsUpTo(a, m)
    BY <1>1, <2>0, TapeIs DEF Alike
  <2> HIDE DEF m
  <2>2. g.formed \in 1..m
    BY <2>1, GapIs
  <2>3. QED
    BY <2>2
<1>4. \A g \in GapsUpTo(a, n - 1) : Unfired(a, g, n) <=> Unfired(b, g, n)
  BY <1>1, <1>3, MayFiresAgree
<1>5. WatchedAt(a, n) = WatchedAt(b, n)
  BY <1>2, <1>4 DEF WatchedAt
<1>6. \A g \in WatchedAt(a, n) : ZoneBefore(a, g, n) = ZoneBefore(b, g, n)
  <2> SUFFICES ASSUME NEW g \in WatchedAt(a, n) PROVE ZoneBefore(a, g, n) = ZoneBefore(b, g, n)
    OBVIOUS
  <2>1. g.formed \in Nat
    BY <1>3 DEF WatchedAt
  <2>2. /\ FilledBefore(a, g, n) <=> FilledBefore(b, g, n)
        /\ ViolatedBefore(a, g, n) <=> ViolatedBefore(b, g, n)
    BY <1>1, <2>1, StatesAgree
  <2>3. QED
    BY <2>2 DEF ZoneBefore, StateBefore
<1>7. QED
  BY <1>5, <1>6 DEF ZonesBefore

\* Then the same gaps fire.
LEMMA FiredAgree ==
    ASSUME NEW a, NEW b, NEW n, Alike(a, b, n), NEW k \in 1..(n - 1)
    PROVE  FiredOn(a, k) = FiredOn(b, k)
<1> DEFINE m == k - 1
           o == k + 1
<1>1. /\ n \in Nat /\ m \in Nat /\ m <= n /\ m <= Len(a) /\ a \in Seq(Ohlc) /\ k \in Int /\ k <= n
      /\ o \in Int /\ o <= n /\ a[o] = b[o] /\ m \in Int
  BY DEF Alike
<1> HIDE DEF m, o
<1>2. GapsUpTo(a, m) = GapsUpTo(b, m)
  BY <1>1, GapsAgree
<1>3. \A g \in GapsUpTo(a, m) : g.formed \in Nat /\ g.formed < k /\ g.formed \in 1..m
  <2>1. \A g \in GapsUpTo(a, m) : g.formed \in 1..m
    BY <1>1, GapIs
  <2>2. QED
    BY <1>1, <2>1 DEF m
<1>4. \A g \in GapsUpTo(a, m) : Unfired(a, g, k) <=> Unfired(b, g, k)
  BY <1>1, <1>3, MayFiresAgree
<1>5. \A g \in GapsUpTo(a, m) : MayFire(a, g, k) <=> MayFire(b, g, k)
  <2> SUFFICES ASSUME NEW g \in GapsUpTo(a, m) PROVE MayFire(a, g, k) <=> MayFire(b, g, k)
    OBVIOUS
  <2>1. g.formed \in Nat /\ k \in (g.formed + 1)..(o - 1)
    BY <1>1, <1>3 DEF o
  <2>2. \A j \in (g.formed + 1)..(o - 1) : MayFire(a, g, j) <=> MayFire(b, g, j)
    BY <1>1, <2>1, MayFiresAgree
  <2>3. QED
    BY <2>1, <2>2
<1>6. Firing(a, k) = Firing(b, k)
  BY <1>2, <1>4, <1>5 DEF Firing, m
<1>7. QED
  BY <1>1, <1>6 DEF FiredOn, o

\* What fires on a bar is finite, and is known by the bar.
LEMMA FiredOnce ==
    ASSUME NEW bars \in Seq(Ohlc), NEW k \in Nat, k >= 1, k <= Len(bars)
    PROVE  IsFiniteSet(FiredOn(bars, k)) /\ \A x \in FiredOn(bars, k) : x.entry = k + 1
<1> DEFINE n == k - 1
           gaps == GapsUpTo(bars, n)
           fire == Firing(bars, k)
           f == [g \in fire |-> GapSignal(g, k + 1, bars[k + 1].o)]
<1>1. IsFiniteSet(gaps)
  <2> DEFINE all == [i \in 1..n |-> Gaps(bars, i)]
  <2>1. IsFiniteSet(1..n)
    BY FS_Interval
  <2>2. gaps = UNION {all[i] : i \in 1..n}
    BY DEF GapsUpTo
  <2>3. \A i \in 1..n : IsFiniteSet(all[i])
    <3> SUFFICES ASSUME NEW i \in 1..n PROVE IsFiniteSet(Gaps(bars, i))
      OBVIOUS
    <3>1. i \in DOMAIN bars
      BY TapeIs
    <3>2. QED
      BY <3>1, GapsAre
  <2> HIDE DEF all, gaps
  <2> DEFINE sets == {all[i] : i \in 1..n}
  <2>4. IsFiniteSet(sets)
    <3> DEFINE S == 1..n
    <3>1. IsFiniteSet(S)
      BY <2>1
    <3> HIDE DEF S
    <3>2. IsFiniteSet({all[i] : i \in S})
      BY <3>1, ImageIsFinite
    <3>3. QED
      BY <3>2 DEF S
  <2>5. \A S \in sets : IsFiniteSet(S)
    BY <2>3
  <2> HIDE DEF sets
  <2>6. IsFiniteSet(UNION sets)
    BY <2>4, <2>5, FS_UNION
  <2>7. QED
    BY <2>2, <2>6 DEF sets
<1>2. fire \in SUBSET gaps
  BY DEF Firing
<1>3. IsFiniteSet(fire)
  <2> HIDE DEF gaps, fire
  <2>1. QED
    BY <1>1, <1>2, FS_Subset
<1>4. FiredOn(bars, k) = {f[g] : g \in fire}
  BY DEF FiredOn
<1>5. \A g : GapSignal(g, k + 1, bars[k + 1].o).entry = k + 1
  BY DEF GapSignal, Signal
<1> HIDE DEF f, fire
<1>6. IsFiniteSet(FiredOn(bars, k))
  BY <1>3, <1>4, ImageIsFinite
<1>7. QED
  BY <1>5, <1>6 DEF FiredOn

\* The zones are the gaps as the loop watches them, and what has been found is what fired.
InverseFound ==
    /\ InverseInv
    /\ {"times", "past"} \subseteq DOMAIN mem
    /\ mem.zones = ZonesBefore(tape, Len(tape))
    /\ Lists(out, FiredUpTo(tape, Len(tape) - 1))

\* The bars on which a gap may fire are those of the abstraction.
LEMMA RetestsAre ==
    ASSUME tape \in Seq(Ohlc), NEW g \in GapsUpTo(tape, Len(tape) - 1)
    PROVE  RetestsOf(g) = {j \in 1..(Len(tape) - 1) : MayFire(tape, g, j)}
<1> DEFINE n == Len(tape) - 1
           Face(j) == Facing(tape[j], g.side)
           bound == Min({g.formed + GapMaxAge, n})
           alive == (g.formed + 1)..bound
           fills == {j \in alive : EntersZone(Face(j), g)}
           violations == {j \in alive : fills # {} /\ j > Min(fills) /\ Face(j).c < g.lo}
           retests == {j \in alive : violations # {} /\ j > Min(violations) /\ Retested(tape, j, g)}
<1>1. RetestsOf(g) = retests
  BY DEF RetestsOf
<1>2. n \in Nat /\ n <= Len(tape) /\ GapMaxAge \in Nat
  <2>1. PICK i \in 1..n : g \in Gaps(tape, i)
    BY DEF GapsUpTo
  <2>2. QED
    BY <2>1, TapeIs, GapBufferIsPrice
<1>3. g.formed \in 1..n /\ g.formed \in Int
  <2>1. g \in GapsUpTo(tape, n)
    OBVIOUS
  <2> HIDE DEF n
  <2>2. g.formed \in 1..n
    BY <1>2, <2>1, GapIs
  <2>3. QED
    BY <2>2
<1> HIDE DEF n
<1>4. bound \in Int /\ bound <= n /\ bound <= g.formed + GapMaxAge /\ bound \in {g.formed + GapMaxAge, n}
  <2> DEFINE x == g.formed + GapMaxAge
  <2>1. x \in Int /\ n \in Int
    BY <1>2, <1>3
  <2> HIDE DEF x
  <2>2. Min({x, n}) \in Int /\ Min({x, n}) \in {x, n} /\ Min({x, n}) <= x /\ Min({x, n}) <= n
    BY <2>1, MinOfTwo
  <2>3. QED
    BY <2>2 DEF x
<1> HIDE DEF bound
<1>5. \A j : j \in alive <=> j \in Int /\ g.formed < j /\ j <= bound
  BY <1>3, <1>4
<1>6. \A j \in Int : j <= bound <=> j <= n /\ j <= g.formed + GapMaxAge
  BY <1>2, <1>3, <1>4
<1>7. IsFiniteSet(alive) /\ alive \subseteq Int
  <2>1. g.formed + 1 \in Int
    BY <1>3
  <2>2. QED
    BY <1>4, <1>5, <2>1, FS_Interval
<1> HIDE DEF alive
<1>8. ASSUME NEW S \in SUBSET alive, NEW j \in alive
      PROVE  (S # {} /\ j > Min(S)) <=> \E i \in S : i < j
  <2>1. IsFiniteSet(S) /\ S \subseteq Int /\ j \in Int
    BY <1>7, FS_Subset
  <2>2. CASE S = {}
    BY <2>2
  <2>3. CASE S # {}
    <3>1. Min(S) \in S /\ \A y \in S : Min(S) <= y
      BY <2>1, <2>3, MinIsOne
    <3>2. Min(S) \in Int
      BY <2>1, <3>1
    <3>3. QED
      BY <2>1, <2>3, <3>1, <3>2
  <2>4. QED
    BY <2>2, <2>3
<1>9. \A j, i \in alive : i < j <=> i \in (g.formed + 1)..(j - 1)
  BY <1>3, <1>5
<1>10. \A j \in alive : \A i \in (g.formed + 1)..(j - 1) : i \in alive
  BY <1>3, <1>4, <1>5
<1>11. ASSUME NEW j \in alive PROVE (fills # {} /\ j > Min(fills)) <=> FilledBefore(tape, g, j)
  <2>1. fills \in SUBSET alive
    OBVIOUS
  <2> HIDE DEF fills
  <2>2. (fills # {} /\ j > Min(fills)) <=> \E i \in fills : i < j
    BY <1>8, <2>1
  <2>3. (\E i \in fills : i < j) <=> FilledBefore(tape, g, j)
    BY <1>9, <1>10 DEF FilledBefore, fills
  <2>4. QED
    BY <2>2, <2>3
<1>12. violations = {j \in alive : FilledBefore(tape, g, j) /\ Face(j).c < g.lo}
  BY <1>11
<1> HIDE DEF fills
<1>13. ASSUME NEW j \in alive PROVE (violations # {} /\ j > Min(violations)) <=> ViolatedBefore(tape, g, j)
  <2>1. violations \in SUBSET alive
    OBVIOUS
  <2> HIDE DEF violations
  <2>2. (violations # {} /\ j > Min(violations)) <=> \E i \in violations : i < j
    BY <1>8, <2>1
  <2>3. (\E i \in violations : i < j) <=> ViolatedBefore(tape, g, j)
    BY <1>9, <1>10, <1>12 DEF ViolatedBefore
  <2>4. QED
    BY <2>2, <2>3
<1> HIDE DEF violations
<1>14. retests = {j \in alive : ViolatedBefore(tape, g, j) /\ Retested(tape, j, g)}
  BY <1>13
<1>15. \A j : j \in alive <=> j \in 1..n /\ g.formed < j /\ j <= g.formed + GapMaxAge
  BY <1>2, <1>3, <1>5, <1>6
<1>16. retests = {j \in 1..n : MayFire(tape, g, j)}
  BY <1>14, <1>15 DEF MayFire
<1>17. QED
  BY <1>1, <1>16 DEF n

\* The first of them is the bar on which the gap fires.
LEMMA InverseSetupsAre == InverseFound => InverseSetups = FiredUpTo(tape, Len(tape) - 1)
<1> SUFFICES ASSUME InverseFound PROVE InverseSetups = FiredUpTo(tape, Len(tape) - 1)
  OBVIOUS
<1> DEFINE n == Len(tape) - 1
           gaps == GapsUpTo(tape, n)
           Sig(g, k) == GapSignal(g, k + 1, tape[k + 1].o)
<1>1. tape \in Seq(Ohlc) /\ Len(tape) \in Nat /\ n \in Int /\ n <= Len(tape)
  BY TapeIs DEF InverseFound, InverseInv
<1>2. \A g \in gaps : RetestsOf(g) = {j \in 1..n : MayFire(tape, g, j)}
  BY <1>1, RetestsAre
<1>3. InverseSetups = {Sig(g, Min(RetestsOf(g))) : g \in {h \in gaps : RetestsOf(h) # {}}}
  BY DEF InverseSetups, GapsUpTo
<1> HIDE DEF n, Sig
<1>4. ASSUME NEW g \in gaps PROVE g.formed \in 1..n /\ g.formed \in Int /\ n \in Nat /\ g \in Gaps(tape, g.formed)
  <2>1. PICK i \in 1..n : g \in Gaps(tape, i)
    BY <1>4 DEF GapsUpTo
  <2>2. n \in Nat
    BY <1>1, <2>1
  <2>3. g.formed \in 1..n /\ g \in Gaps(tape, g.formed)
    BY <1>1, <1>4, <2>2, GapIs
  <2>4. QED
    BY <2>2, <2>3
<1>41. ASSUME NEW S, S \in SUBSET (1..n) PROVE IsFiniteSet(S) /\ S \subseteq Int
  <2> DEFINE all == 1..n
  <2>1. IsFiniteSet(all) /\ S \in SUBSET all /\ all \subseteq Int
    BY <1>1, <1>41, FS_Interval
  <2> HIDE DEF all
  <2>2. IsFiniteSet(S)
    BY <2>1, FS_Subset
  <2>3. QED
    BY <2>1, <2>2
<1>5. ASSUME NEW g \in gaps, NEW k \in 1..n
      PROVE  g \in Firing(tape, k) <=> MayFire(tape, g, k) /\ Unfired(tape, g, k)
  <2>1. MayFire(tape, g, k) => g.formed \in 1..(k - 1)
    BY <1>4 DEF MayFire
  <2>2. MayFire(tape, g, k) => g \in GapsUpTo(tape, k - 1)
    BY <1>4, <2>1 DEF GapsUpTo
  <2>3. QED
    BY <2>2 DEF Firing
<1>6. ASSUME NEW g, NEW k \in 1..n, g \in Firing(tape, k) PROVE g \in gaps
  <2>1. PICK i \in 1..(k - 1) : g \in Gaps(tape, i)
    BY <1>6 DEF Firing, GapsUpTo
  <2>2. i \in 1..n
    BY <1>1
  <2>3. QED
    BY <2>1, <2>2 DEF GapsUpTo
<1>7. ASSUME NEW g \in gaps, NEW k \in 1..n, MayFire(tape, g, k), Unfired(tape, g, k)
      PROVE  RetestsOf(g) # {} /\ Min(RetestsOf(g)) = k
  <2> DEFINE S == RetestsOf(g)
  <2>1. S = {j \in 1..n : MayFire(tape, g, j)} /\ k \in S
    BY <1>2, <1>7
  <2>2. IsFiniteSet(S) /\ S \subseteq Int
    <3>1. S \in SUBSET (1..n)
      BY <2>1
    <3> HIDE DEF S
    <3>2. QED
      BY <1>41, <3>1
  <2> HIDE DEF S
  <2>3. Min(S) \in S /\ \A y \in S : Min(S) <= y
    BY <2>1, <2>2, MinIsOne
  <2> DEFINE m == Min(S)
  <2>4. m \in 1..n /\ MayFire(tape, g, m) /\ m <= k
    BY <2>1, <2>3
  <2> HIDE DEF m
  <2>5. m \notin (g.formed + 1)..(k - 1)
    BY <1>7, <2>4 DEF Unfired
  <2>6. g.formed < m
    BY <2>4 DEF MayFire
  <2>7. m = k
    BY <1>1, <1>4, <2>4, <2>5, <2>6
  <2>8. QED
    BY <2>1, <2>7 DEF m, S
<1>8. ASSUME NEW g \in gaps, RetestsOf(g) # {}
      PROVE  \E k \in 1..n : k = Min(RetestsOf(g)) /\ MayFire(tape, g, k) /\ Unfired(tape, g, k)
  <2> DEFINE S == RetestsOf(g)
  <2>1. S = {j \in 1..n : MayFire(tape, g, j)} /\ S # {}
    BY <1>2, <1>8
  <2>2. IsFiniteSet(S) /\ S \subseteq Int
    <3>1. S \in SUBSET (1..n)
      BY <2>1
    <3> HIDE DEF S
    <3>2. QED
      BY <1>41, <3>1
  <2> HIDE DEF S
  <2>3. Min(S) \in S /\ \A y \in S : Min(S) <= y
    BY <2>1, <2>2, MinIsOne
  <2> DEFINE m == Min(S)
  <2>4. m \in 1..n /\ MayFire(tape, g, m) /\ \A y \in S : m <= y
    BY <2>1, <2>3
  <2> HIDE DEF m
  <2>5. ASSUME NEW j \in (g.formed + 1)..(m - 1), MayFire(tape, g, j) PROVE FALSE
    <3>1. j \in 1..n /\ j < m /\ j \in Int
      BY <1>1, <1>4, <2>4
    <3>2. j \in S
      BY <2>1, <2>5, <3>1
    <3>3. QED
      BY <2>4, <3>1, <3>2
  <2>6. Unfired(tape, g, m)
    BY <2>5 DEF Unfired
  <2>7. QED
    BY <2>4, <2>6 DEF m, S
<1> HIDE DEF gaps
<1>9. ASSUME NEW x \in InverseSetups PROVE x \in FiredUpTo(tape, n)
  <2>1. PICK g \in gaps : RetestsOf(g) # {} /\ x = Sig(g, Min(RetestsOf(g)))
    BY <1>3
  <2>2. PICK k \in 1..n : k = Min(RetestsOf(g)) /\ MayFire(tape, g, k) /\ Unfired(tape, g, k)
    BY <1>8, <2>1
  <2>3. g \in Firing(tape, k) /\ x = Sig(g, k)
    BY <1>5, <2>1, <2>2
  <2>4. x \in FiredOn(tape, k)
    BY <2>3 DEF FiredOn, Sig
  <2>5. QED
    BY <2>4 DEF FiredUpTo
<1>10. ASSUME NEW x \in FiredUpTo(tape, n) PROVE x \in InverseSetups
  <2>1. PICK k \in 1..n : x \in FiredOn(tape, k)
    BY <1>10 DEF FiredUpTo
  <2>2. PICK g \in Firing(tape, k) : x = Sig(g, k)
    BY <2>1 DEF FiredOn, Sig
  <2>3. g \in gaps
    BY <1>6
  <2>4. MayFire(tape, g, k) /\ Unfired(tape, g, k)
    BY <1>5, <2>3
  <2>5. RetestsOf(g) # {} /\ Min(RetestsOf(g)) = k
    BY <1>7, <2>3, <2>4
  <2>6. QED
    BY <1>3, <2>2, <2>3, <2>5
<1>11. QED
  BY <1>9, <1>10 DEF n

\* Nothing has been found at the start.
LEMMA InverseFoundBegins == InitInverse => InverseFound
<1> SUFFICES ASSUME InitInverse PROVE InverseFound
  OBVIOUS
<1> DEFINE memory == [zones |-> {}]
<1>1. StartStudy("inverse", memory) /\ DOMAIN memory = {"zones"} /\ memory.zones = {}
  BY DEF InitInverse
<1> HIDE DEF memory
<1>2. tape = <<>> /\ out = <<>> /\ {"times", "past"} \subseteq DOMAIN mem /\ mem.zones = {}
  BY <1>1, Started
<1>3. Len(tape) = 0 /\ 1..(0 - 1) = {}
  BY <1>2
<1>4. FiredUpTo(tape, Len(tape) - 1) = {} /\ GapsUpTo(tape, Len(tape) - 1) = {}
  BY <1>3 DEF FiredUpTo, GapsUpTo
<1>5. ZonesBefore(tape, Len(tape)) = {}
  BY <1>4 DEF ZonesBefore, WatchedAt
<1>6. Lists(out, FiredUpTo(tape, Len(tape) - 1))
  BY <1>2, <1>4, NoneLists
<1>7. QED
  BY <1>2, <1>5, <1>6, InverseBegins DEF InverseFound

\* A bar adds what fires on the one before it.
LEMMA InverseFoundGoesOn == InverseFound /\ InverseStep => InverseFound'
<1> SUFFICES ASSUME InverseFound, InverseStep PROVE InverseFound'
  OBVIOUS
<1> DEFINE k == Len(tape)
           zones == ZonesBefore(tape', k) \cup Gaps(tape', k)
<1>1. /\ tape' \in Seq(Ohlc) /\ tape \in Seq(Ohlc)
      /\ DOMAIN tape' = 1..(k + 1) /\ DOMAIN tape = 1..k /\ k \in Nat /\ Len(tape') = k + 1
      /\ \A j \in DOMAIN tape : j \in DOMAIN tape' /\ tape'[j] = tape[j]
  BY NextTape DEF InverseFound, InverseInv, InverseStep, PriceStudies
<1>2. Alike(tape', tape, k)
  BY <1>1 DEF Alike
<1>3. mem.zones = ZonesBefore(tape', k)
  BY <1>2, ZonesAgree DEF InverseFound
<1>4. /\ k = 0 => mem' = mem /\ out' = out
      /\ k # 0 => /\ out' = out \o SetToSeq(GapSignals(tape', k, zones))
                  /\ mem' = [mem EXCEPT !.zones =
                        {IF z.formed = k THEN z ELSE Watch(z, tape'[k]) : z \in Kept(tape', k, zones)}]
  <2>1. Len(tape') - 1 = k
    BY <1>1
  <2>2. ZonesAt(tape') = zones
    BY <1>3, <2>1 DEF ZonesAt
  <2>3. InverseFinds(tape') = SetToSeq(GapSignals(tape', k, zones))
    BY <2>1, <2>2 DEF InverseFinds
  <2>4. QED
    BY <2>2, <2>3 DEF InverseStep
<1> HIDE DEF k
<1>5. k # 0 => /\ out' = out \o SetToSeq(FiredOn(tape', k))
               /\ mem' = [mem EXCEPT !.zones = ZonesBefore(tape', k + 1)]
  <2> SUFFICES ASSUME k # 0
               PROVE  /\ out' = out \o SetToSeq(FiredOn(tape', k))
                      /\ mem' = [mem EXCEPT !.zones = ZonesBefore(tape', k + 1)]
    OBVIOUS
  <2>1. k \in Nat /\ k >= 1 /\ k <= Len(tape') /\ tape' \in Seq(Ohlc)
    BY <1>1
  <2>2. GapSignals(tape', k, zones) = FiredOn(tape', k)
    BY <2>1, FiringIs
  <2>3. {IF z.formed = k THEN z ELSE Watch(z, tape'[k]) : z \in Kept(tape', k, zones)} = ZonesBefore(tape', k + 1)
    BY <2>1, ZonesNext
  <2>4. QED
    BY <1>4, <2>2, <2>3
<1>6. {"times", "past", "zones"} \subseteq DOMAIN mem
  BY DEF InverseFound, InverseInv
<1>7. /\ mem'.times = mem.times /\ mem'.past = mem.past /\ {"times", "past"} \subseteq DOMAIN mem'
      /\ mem'.zones = ZonesBefore(tape', k + 1)
  <2>1. CASE k = 0
    <3>1. (k + 1) - 1 = 0 /\ k - 1 = -1 /\ 1..0 = {} /\ 1..(-1) = {}
      BY <2>1
    <3>2. GapsUpTo(tape', (k + 1) - 1) = {} /\ GapsUpTo(tape', k - 1) = {}
      BY <3>1 DEF GapsUpTo
    <3>3. ZonesBefore(tape', k + 1) = {} /\ ZonesBefore(tape', k) = {}
      BY <3>2 DEF ZonesBefore, WatchedAt
    <3>4. QED
      BY <1>3, <1>4, <1>6, <2>1, <3>3
  <2>2. CASE k # 0
    <3> DEFINE after == ZonesBefore(tape', k + 1)
    <3>1. mem' = [mem EXCEPT !.zones = after]
      BY <1>5, <2>2
    <3> HIDE DEF after
    <3>2. mem'.times = mem.times /\ mem'.past = mem.past /\ {"times", "past"} \subseteq DOMAIN mem' /\ mem'.zones = after
      BY <1>6, <3>1
    <3>3. QED
      BY <3>2 DEF after
  <2>3. QED
    BY <2>1, <2>2
<1>8. Lists(out', FiredUpTo(tape', k))
  <2> DEFINE f == [i \in 1..(k - 1) |-> FiredOn(tape, i)]
             g == [i \in 1..k |-> FiredOn(tape', i)]
             e == IF k = 0 THEN <<>> ELSE SetToSeq(FiredOn(tape', k))
  <2>1. 1 \in Int /\ k \in Int /\ k >= 0 /\ \A i \in 1..(k - 1) : i \in 1..k /\ i # k /\ i \in Nat /\ i >= 1 /\ i <= Len(tape')
    BY <1>1
  <2>2. out' = out \o e
    <3>1. CASE k = 0
      <4>1. out \o <<>> = out
        BY DEF InverseFound, Lists, IsList
      <4>2. QED
        BY <1>4, <3>1, <4>1
    <3>2. CASE k # 0
      BY <1>5, <3>2
    <3>3. QED
      BY <3>1, <3>2
  <2>3. \A i \in 1..(k - 1) : g[i] = f[i]
    <3>1. \A i \in 1..(k - 1) : FiredOn(tape', i) = FiredOn(tape, i)
      BY <1>2, FiredAgree
    <3>2. QED
      BY <2>1, <3>1
  <2>4. FiredUpTo(tape, k - 1) = UNION {f[i] : i \in 1..(k - 1)} /\ FiredUpTo(tape', k) = UNION {g[i] : i \in 1..k}
    BY DEF FiredUpTo
  <2>5. Lists(out, UNION {f[i] : i \in 1..(k - 1)})
    BY <2>4 DEF InverseFound, k
  <2>6. 1 <= k => g[k] = FiredOn(tape', k) /\ k \in Nat /\ k >= 1 /\ k <= Len(tape')
    BY <1>1, <2>1
  <2>7. \A i \in 1..(k - 1) : \A x \in f[i] : x \notin g[k]
    <3> SUFFICES ASSUME NEW i \in 1..(k - 1), NEW x \in f[i], x \in g[k] PROVE FALSE
      OBVIOUS
    <3>1. x \in FiredOn(tape', i) /\ x \in FiredOn(tape', k) /\ i + 1 # k + 1
      <4>1. 1 <= k /\ i < k /\ i \in Int
        BY <2>1
      <4>2. x \in g[i]
        BY <2>3
      <4>3. QED
        BY <2>1, <2>6, <4>1, <4>2
    <3>2. x.entry = i + 1
      BY <1>1, <2>1, <3>1, FiredOnce
    <3>3. x.entry = k + 1
      <4>1. 1 <= k
        BY <2>1
      <4>2. QED
        BY <1>1, <2>6, <3>1, <4>1, FiredOnce
    <3>4. QED
      BY <3>1, <3>2, <3>3
  <2>8. 1 <= k => Lists(e, g[k])
    <3> SUFFICES ASSUME 1 <= k PROVE Lists(e, g[k])
      OBVIOUS
    <3>1. IsFiniteSet(FiredOn(tape', k)) /\ k # 0
      BY <1>1, <2>6, FiredOnce
    <3>2. QED
      BY <2>6, <3>1, SetLists
  <2>9. k < 1 => e = <<>>
    BY <2>1
  <2> HIDE DEF f, g, e
  <2>10. Adds(out, e, f, g, 1, k)
    BY <2>1, <2>3, <2>5, <2>7, <2>8, <2>9 DEF Adds
  <2>11. Lists(out \o e, UNION {g[i] : i \in 1..k})
    BY <2>10, FoundNext
  <2>12. QED
    BY <2>2, <2>4, <2>11
<1>9. Len(tape') - 1 = k /\ Len(tape') = k + 1
  BY <1>1
<1>10. /\ \A j : (InSession(j))' <=> InSession(j)
       /\ \A bars, j : (HtfMomentum(bars, j))' = HtfMomentum(bars, j)
  <2>1. \A bars, j : (HigherOpened(bars, j))' = HigherOpened(bars, j)
    BY <1>7 DEF HigherOpened
  <2>2. \A j : (InSession(j))' <=> InSession(j)
    BY <1>7 DEF InSession, Weekday, Hour, DayOf, Slot
  <2>3. QED
    BY <2>1, <2>2 DEF HtfMomentum
<1>11. \A bars, g, j : (MayFire(bars, g, j))' <=> MayFire(bars, g, j)
  <2>1. \A bars, g, j : (Retested(bars, j, g))' <=> Retested(bars, j, g)
    BY <1>10 DEF Retested
  <2>2. QED
    BY <2>1 DEF MayFire
<1>12. \A bars, g, j : (Unfired(bars, g, j))' <=> Unfired(bars, g, j)
  BY <1>11 DEF Unfired
<1>13. (FiredUpTo(tape, Len(tape) - 1))' = FiredUpTo(tape', k)
  <2>1. \A bars, j : (FiredOn(bars, j))' = FiredOn(bars, j)
    <3>1. \A bars, j : (Firing(bars, j))' = Firing(bars, j)
      BY <1>11, <1>12 DEF Firing
    <3>2. QED
      BY <3>1 DEF FiredOn
  <2>2. \A j : (FiredOn(tape, j))' = FiredOn(tape', j)
    BY <2>1 DEF FiredOn, Firing, MayFire, Unfired
  <2>3. QED
    BY <1>9, <2>2 DEF FiredUpTo
<1>14. (ZonesBefore(tape, Len(tape)))' = ZonesBefore(tape', k + 1)
  <2>1. \A g, j : (Unfired(tape, g, j))' <=> Unfired(tape', g, j)
    BY <1>12 DEF Unfired
  <2>2. \A j : (WatchedAt(tape, j))' = WatchedAt(tape', j)
    BY <2>1 DEF WatchedAt
  <2>3. \A j : (ZonesBefore(tape, j))' = ZonesBefore(tape', j)
    BY <2>2 DEF ZonesBefore
  <2>4. QED
    BY <1>9, <2>3
<1>15. InverseInv'
  BY InverseGoesOn DEF InverseFound
<1>16. QED
  BY <1>7, <1>8, <1>13, <1>14, <1>15 DEF InverseFound

-----------------------------------------------------------------------------
(***************************************************************************)
(* The blocks that are broken.                                             *)
(***************************************************************************)
\* The order blocks up to a bar; whether one is unbroken before a bar, and breaks on it.
BlocksUpTo(bars, k) == UNION {Blocks(bars, i) : i \in FirstDecision..k}
UnbrokenBefore(bars, b, j) == \A i \in b.made..(j - 1) : ~Broken(bars[i], b)
BreaksAt(bars, b, j) ==
    /\ b.made <= j /\ j - b.made <= BlockMaxAge
    /\ Broken(bars[j], b) /\ UnbrokenBefore(bars, b, j)

\* The breakers of a bar, and those up to it; the blocks that are unbroken after it.
BrokenOn(bars, j) == {[b EXCEPT !.broke = j] : b \in {c \in BlocksUpTo(bars, j) : BreaksAt(bars, c, j)}}
BreakersUpTo(bars, k) == UNION {BrokenOn(bars, j) : j \in FirstDecision..k}
Unbroken(bars, k) == {b \in BlocksUpTo(bars, k) : UnbrokenBefore(bars, b, k + 1)}

\* Those that are young enough at a bar.
YoungBlocks(S, k) == {b \in S : k - b.made <= BlockMaxAge}
YoungBreakers(S, k) == {b \in S : k - b.broke <= BreakerMaxAge}

\* A block is known by its bar, which has no other.
LEMMA BlockIs ==
    ASSUME NEW bars \in Seq(Ohlc), NEW k \in Int, k <= Len(bars), NEW b \in BlocksUpTo(bars, k)
    PROVE  /\ b \in BlockRecord /\ b.made \in FirstDecision..k /\ b \in Blocks(bars, b.made)
           /\ b.made \in Int /\ b.made >= 2
<1>1. PICK i \in FirstDecision..k : b \in Blocks(bars, i)
  BY DEF BlocksUpTo
<1>2. i \in Int /\ i >= FirstDecision /\ i >= 2 /\ i \in DOMAIN bars
  BY TapeIs, DecisionsLookBack, BreakerLooksBack
<1>3. b \in BlockRecord
  BY <1>1, <1>2, BlocksAre
<1>4. b.made = i
  <2> DEFINE Falls(t) == /\ Facing(bars[i], t).c < Facing(bars[i], t).o
                         /\ \A j \in (i - SwingLookback)..(i - 1) : Facing(bars[i], t).c < Facing(bars[j], t).l
             Candles(t) == {j \in (i - BlockSearch)..(i - 1) : Facing(bars[j], t).c > Facing(bars[j], t).o}
             R(s) == [side |-> s, made |-> i, broke |-> 0, lo |-> Facing(bars[Max(Candles(s))], s).o,
                      hi |-> Facing(bars[Max(Candles(s))], s).c]
  <2>1. \E s \in Sides : b = R(s)
    BY <1>1 DEF Blocks
  <2>2. QED
    BY <2>1
<1>5. QED
  BY <1>1, <1>2, <1>3, <1>4

\* A bar makes one block at most.
LEMMA OneBlock ==
    ASSUME NEW bars \in Seq(Ohlc), NEW i \in DOMAIN bars, NEW b \in Blocks(bars, i), NEW c \in Blocks(bars, i)
    PROVE  b = c
<1> DEFINE Fall(s) == Facing(bars[i], s).c < Facing(bars[i], s).o
           Candles(s) == {j \in (i - BlockSearch)..(i - 1) : Facing(bars[j], s).c > Facing(bars[j], s).o}
           R(s) == [side |-> s, made |-> i, broke |-> 0, lo |-> Facing(bars[Max(Candles(s))], s).o,
                    hi |-> Facing(bars[Max(Candles(s))], s).c]
<1>1. /\ \E s \in Sides : b = R(s) /\ Fall(s)
      /\ \E s \in Sides : c = R(s) /\ Fall(s)
  BY DEF Blocks
<1>2. bars[i] \in Ohlc
  BY TapeIs
<1>3. ~(Fall(1) /\ Fall(-1))
  BY <1>2 DEF Facing, Ohlc
<1> HIDE DEF R, Fall
<1>4. QED
  BY <1>1, <1>3 DEF Sides

\* A breaker is a block and the bar that breaks it.
LEMMA BreakerIs ==
    ASSUME NEW bars \in Seq(Ohlc), NEW k \in Int, k <= Len(bars), NEW b \in BreakersUpTo(bars, k)
    PROVE  /\ b \in BlockRecord /\ b.broke \in FirstDecision..k /\ b \in BrokenOn(bars, b.broke)
           /\ b.made \in FirstDecision..b.broke /\ b.broke \in Int /\ b.made \in Int
           /\ \E c \in Blocks(bars, b.made) : b = [c EXCEPT !.broke = b.broke]
<1>1. PICK j \in FirstDecision..k : b \in BrokenOn(bars, j)
  BY DEF BreakersUpTo
<1>2. PICK c \in BlocksUpTo(bars, j) : b = [c EXCEPT !.broke = j]
  BY <1>1 DEF BrokenOn
<1>3. j \in Int /\ j <= Len(bars) /\ j <= k /\ FirstDecision \in Int
  BY TapeIs, DecisionsLookBack
<1>4. c \in BlockRecord /\ c.made \in FirstDecision..j /\ c \in Blocks(bars, c.made) /\ c.made \in Int
  BY <1>3, BlockIs
<1>5. b \in BlockRecord /\ b.broke = j /\ b.made = c.made
  BY <1>2, <1>3, <1>4 DEF BlockRecord
<1>6. QED
  BY <1>1, <1>2, <1>3, <1>4, <1>5

\* Of some breakers at most one is the oldest.
LEMMA OneOldest ==
    ASSUME NEW bars \in Seq(Ohlc), NEW k \in Int, k <= Len(bars), NEW S \in SUBSET BreakersUpTo(bars, k),
           NEW a \in Oldest(S), NEW b \in Oldest(S)
    PROVE  a = b
<1>1. a \in S /\ b \in S /\ Older(a, b) /\ Older(b, a)
  BY DEF Oldest
<1>2. /\ a.broke \in Int /\ a.made \in Int /\ a.made \in FirstDecision..a.broke /\ a.broke \in FirstDecision..k
      /\ \E c \in Blocks(bars, a.made) : a = [c EXCEPT !.broke = a.broke]
  BY <1>1, BreakerIs
<1>3. /\ b.broke \in Int /\ b.made \in Int
      /\ \E c \in Blocks(bars, b.made) : b = [c EXCEPT !.broke = b.broke]
  BY <1>1, BreakerIs
<1>4. a.broke = b.broke /\ a.made = b.made
  BY <1>1, <1>2, <1>3 DEF Older
<1>5. a.made \in DOMAIN bars
  BY <1>2, TapeIs, DecisionsLookBack, BreakerLooksBack
<1>6. PICK c \in Blocks(bars, a.made) : a = [c EXCEPT !.broke = a.broke]
  BY <1>2
<1>7. PICK d \in Blocks(bars, a.made) : b = [d EXCEPT !.broke = a.broke]
  BY <1>3, <1>4
<1>8. c = d
  BY <1>5, OneBlock
<1>9. QED
  BY <1>6, <1>7, <1>8

\* A bar without a range, after bars without one, does nothing that the one before it did not.
LEMMA FlatIs ==
    ASSUME NEW bars \in Seq(Ohlc), NEW k \in DOMAIN bars, k >= FirstDecision, RangeSum(bars, k) = 0
    PROVE  /\ Blocks(bars, k) = {}
           /\ \A b : b.side \in Sides => ~TurnsAway(bars, k, b)
           /\ \A b : Broken(bars[k], b) <=> Broken(bars[k - 1], b)
           /\ k >= 2
<1>1. /\ k \in Int /\ k >= 2 /\ AtrPeriod \in Nat /\ AtrPeriod >= 1 /\ k - 1 \in DOMAIN bars
      /\ DOMAIN bars = 1..Len(bars)
  BY TapeIs, DecisionsLookBack, BreakerLooksBack
<1> DEFINE first == Max({1, k - AtrPeriod + 1})
           S == first..k
<1>2. first \in Int /\ first >= 1 /\ first <= k
  <2> DEFINE x == k - AtrPeriod + 1
  <2>1. 1 \in Int /\ x \in Int /\ x <= k
    BY <1>1
  <2> HIDE DEF x
  <2>2. Max({1, x}) \in Int /\ Max({1, x}) \in {1, x} /\ 1 <= Max({1, x})
    BY <2>1, MaxOfTwo
  <2>3. QED
    BY <1>1, <2>1, <2>2 DEF x
<1>3. SumOver(S, LAMBDA j : TrueRange(bars, j)) = 0
  BY DEF RangeSum
<1> HIDE DEF first
<1>4. S \in SUBSET (DOMAIN bars) /\ k \in S
  BY <1>1, <1>2
<1>5. 0 >= TrueRange(bars, k)
  <2> HIDE DEF S
  <2>1. \A i \in S : SumOver(S, LAMBDA j : TrueRange(bars, j)) >= TrueRange(bars, i)
    BY <1>4, RangesSum
  <2>2. QED
    BY <1>3, <1>4, <2>1
<1> DEFINE r == TrueRange(bars, k)
           x == bars[k]
           p == bars[k - 1]
<1>6. r \in Int /\ r >= x.h - x.l /\ r >= x.h - p.c /\ r >= p.c - x.l
  BY <1>1, TrueRangeIs
<1>7. x \in Ohlc /\ p \in Ohlc
  BY <1>1, TapeIs
<1>8. 0 >= r
  BY <1>5
<1> HIDE DEF r, x, p
<1>16. /\ x.o \in Int /\ x.h \in Int /\ x.l \in Int /\ x.c \in Int /\ p.c \in Int
       /\ x.l <= x.o /\ x.o <= x.h /\ x.l <= x.c /\ x.c <= x.h
  BY <1>7 DEF Ohlc
<1>9. x.c = x.o /\ x.c = p.c /\ x.c \in Int
  BY <1>6, <1>8, <1>16
<1>10. Blocks(bars, k) = {}
  <2>1. Abs(x.c - x.o) = 0
    BY <1>9 DEF Abs
  <2>2. RangeCount(k) \in Int
    <3>1. Min({k, AtrPeriod}) \in Int
      <4>1. k \in Int /\ AtrPeriod \in Int
        BY <1>1
      <4>2. QED
        BY ONLY <4>1, MinOfTwo
    <3>2. QED
      BY <3>1 DEF RangeCount
  <2>3. 5 * 0 * RangeCount(k) = 0 /\ 6 * 0 = 0
    BY <2>2
  <2>4. ~Displaced(bars, k)
    BY <2>1, <2>3 DEF Displaced, x
  <2>5. QED
    BY <2>4 DEF Blocks
<1>11. \A s : Facing(x, s).c = Facing(p, s).c
  BY <1>9 DEF Facing
<1>12. \A s \in Sides : ~(Facing(x, s).c > Facing(x, s).o)
  <2> SUFFICES ASSUME NEW s \in Sides PROVE ~(Facing(x, s).c > Facing(x, s).o)
    OBVIOUS
  <2>1. Facing(x, s).c = IF s = 1 THEN x.c ELSE -x.c
    BY DEF Facing
  <2>2. Facing(x, s).o = IF s = 1 THEN x.o ELSE -x.o
    BY DEF Facing
  <2> DEFINE c == Facing(x, s).c
             o == Facing(x, s).o
             y == x.c
  <2>3. y \in Int /\ x.o = y
    BY <1>9
  <2>4. c = (IF s = 1 THEN y ELSE -y) /\ o = (IF s = 1 THEN y ELSE -y)
    BY <2>1, <2>2, <2>3
  <2> HIDE DEF c, o, y
  <2>5. c \in Int /\ o = c
    BY <2>3, <2>4
  <2>6. ~(c > o)
    BY <2>5
  <2>7. QED
    BY <2>6 DEF c, o
<1>13. \A b : b.side \in Sides => ~TurnsAway(bars, k, b)
  BY <1>12 DEF TurnsAway, x
<1>14. \A b : Broken(bars[k], b) <=> Broken(bars[k - 1], b)
  BY <1>11 DEF Broken, x, p
<1>15. QED
  BY <1>1, <1>10, <1>13, <1>14

\* One bar more has the blocks and the breakers of its own.
LEMMA BlocksNext ==
    ASSUME NEW bars, NEW k \in Int, k >= FirstDecision
    PROVE  /\ BlocksUpTo(bars, k) = BlocksUpTo(bars, k - 1) \cup Blocks(bars, k)
           /\ BreakersUpTo(bars, k) = BreakersUpTo(bars, k - 1) \cup BrokenOn(bars, k)
<1>1. FirstDecision..k = (FirstDecision..(k - 1)) \cup {k}
  BY DecisionsLookBack
<1>2. QED
  BY <1>1 DEF BlocksUpTo, BreakersUpTo

\* Before the first decision there are none.
LEMMA BlocksNone ==
    ASSUME NEW bars, NEW k \in Int, k < FirstDecision
    PROVE  BlocksUpTo(bars, k) = {} /\ BreakersUpTo(bars, k) = {} /\ Unbroken(bars, k) = {}
<1>1. FirstDecision..k = {}
  BY DecisionsLookBack
<1>2. QED
  BY <1>1 DEF BlocksUpTo, BreakersUpTo, Unbroken

\* A block is unbroken after a bar if it was before, or is new, and the bar does not break it.
LEMMA UnbrokenNext ==
    ASSUME NEW bars \in Seq(Ohlc), NEW k \in Int, k >= FirstDecision, k <= Len(bars), NEW b
    PROVE  /\ b \in BlocksUpTo(bars, k) /\ UnbrokenBefore(bars, b, k) <=>
                b \in Unbroken(bars, k - 1) \cup Blocks(bars, k)
           /\ b \in Unbroken(bars, k) <=>
                b \in Unbroken(bars, k - 1) \cup Blocks(bars, k) /\ ~Broken(bars[k], b)
<1>1. (k - 1) + 1 = k /\ k - 1 \in Int /\ k - 1 <= Len(bars) /\ (k + 1) - 1 = k /\ Len(bars) \in Nat
  BY TapeIs
<1>2. ASSUME b \in Blocks(bars, k) PROVE b \in BlocksUpTo(bars, k) /\ b.made = k /\ b.made \in Int
  <2>1. k \in FirstDecision..k
    BY DecisionsLookBack
  <2>2. b \in BlocksUpTo(bars, k)
    BY <1>2, <2>1 DEF BlocksUpTo
  <2>3. k \in DOMAIN bars
    BY TapeIs, DecisionsLookBack, BreakerLooksBack
  <2> DEFINE Falls(t) == /\ Facing(bars[k], t).c < Facing(bars[k], t).o
                         /\ \A j \in (k - SwingLookback)..(k - 1) : Facing(bars[k], t).c < Facing(bars[j], t).l
             Candles(t) == {j \in (k - BlockSearch)..(k - 1) : Facing(bars[j], t).c > Facing(bars[j], t).o}
             R(s) == [side |-> s, made |-> k, broke |-> 0, lo |-> Facing(bars[Max(Candles(s))], s).o,
                      hi |-> Facing(bars[Max(Candles(s))], s).c]
  <2>4. \E s \in Sides : b = R(s)
    BY <1>2 DEF Blocks
  <2>5. b.made = k
    BY <2>4
  <2>6. QED
    BY <2>2, <2>5
<1>3. ASSUME b \in BlocksUpTo(bars, k - 1) PROVE b.made \in Int /\ b.made <= k - 1
  <2> DEFINE n == k - 1
  <2>1. n \in Int /\ n <= Len(bars) /\ b \in BlocksUpTo(bars, n)
    BY <1>1, <1>3
  <2> HIDE DEF n
  <2>2. b.made \in Int /\ b.made \in FirstDecision..n
    BY <2>1, BlockIs
  <2>3. QED
    BY <2>1, <2>2, DecisionsLookBack DEF n
<1>4. b \in BlocksUpTo(bars, k) <=> b \in BlocksUpTo(bars, k - 1) \/ b \in Blocks(bars, k)
  BY BlocksNext
<1>5. b \in Unbroken(bars, k - 1) <=> b \in BlocksUpTo(bars, k - 1) /\ UnbrokenBefore(bars, b, k)
  BY <1>1 DEF Unbroken
<1>6. b \in Unbroken(bars, k) <=> b \in BlocksUpTo(bars, k) /\ UnbrokenBefore(bars, b, k + 1)
  BY DEF Unbroken
<1>7. ASSUME b.made \in Int, b.made <= k
      PROVE  UnbrokenBefore(bars, b, k + 1) <=> UnbrokenBefore(bars, b, k) /\ ~Broken(bars[k], b)
  <2>1. b.made..k = (b.made..(k - 1)) \cup {k}
    BY <1>7
  <2>2. QED
    BY <1>1, <2>1 DEF UnbrokenBefore
<1>8. ASSUME b.made = k PROVE UnbrokenBefore(bars, b, k)
  <2>1. b.made..(k - 1) = {}
    BY <1>8
  <2>2. QED
    BY <2>1 DEF UnbrokenBefore
<1>9. CASE b \in Blocks(bars, k)
  <2>1. b \in BlocksUpTo(bars, k) /\ b.made = k /\ b.made \in Int /\ b.made <= k
    BY <1>2, <1>9
  <2>2. UnbrokenBefore(bars, b, k)
    BY <1>8, <2>1
  <2>3. UnbrokenBefore(bars, b, k + 1) <=> ~Broken(bars[k], b)
    BY <1>7, <2>1, <2>2
  <2>4. QED
    BY <1>6, <1>9, <2>1, <2>2, <2>3
<1>10. CASE b \notin Blocks(bars, k) /\ b \in BlocksUpTo(bars, k - 1)
  <2>1. b.made \in Int /\ b.made <= k
    BY <1>3, <1>10
  <2>2. UnbrokenBefore(bars, b, k + 1) <=> UnbrokenBefore(bars, b, k) /\ ~Broken(bars[k], b)
    BY <1>7, <2>1
  <2>3. QED
    BY <1>4, <1>5, <1>6, <1>10, <2>2
<1>11. CASE b \notin Blocks(bars, k) /\ b \notin BlocksUpTo(bars, k - 1)
  BY <1>4, <1>5, <1>6, <1>11
<1>12. QED
  BY <1>9, <1>10, <1>11

\* What the loop breaks on a bar, and what it keeps.
LEMMA BrokenIs ==
    ASSUME NEW bars \in Seq(Ohlc), NEW k \in Int, k >= FirstDecision, k <= Len(bars),
           NEW known, known = YoungBlocks(Unbroken(bars, k - 1), k) \cup Blocks(bars, k)
    PROVE  /\ {[b EXCEPT !.broke = k] : b \in {c \in known : Broken(bars[k], c)}} = BrokenOn(bars, k)
           /\ known \ {c \in known : Broken(bars[k], c)} = YoungBlocks(Unbroken(bars, k), k)
<1>1. \A b \in Blocks(bars, k) : k - b.made <= BlockMaxAge /\ b.made \in Int /\ b.made <= k
  <2> SUFFICES ASSUME NEW b \in Blocks(bars, k)
               PROVE  k - b.made <= BlockMaxAge /\ b.made \in Int /\ b.made <= k
    OBVIOUS
  <2> DEFINE Falls(t) == /\ Facing(bars[k], t).c < Facing(bars[k], t).o
                         /\ \A j \in (k - SwingLookback)..(k - 1) : Facing(bars[k], t).c < Facing(bars[j], t).l
             Candles(t) == {j \in (k - BlockSearch)..(k - 1) : Facing(bars[j], t).c > Facing(bars[j], t).o}
             R(s) == [side |-> s, made |-> k, broke |-> 0, lo |-> Facing(bars[Max(Candles(s))], s).o,
                      hi |-> Facing(bars[Max(Candles(s))], s).c]
  <2>1. \E s \in Sides : b = R(s)
    BY DEF Blocks
  <2>2. b.made = k
    BY <2>1
  <2>3. QED
    BY <2>2, BreakerLooksBack
<1>2. \A b : b \in known <=> b \in Unbroken(bars, k - 1) \cup Blocks(bars, k) /\ k - b.made <= BlockMaxAge
  BY <1>1 DEF YoungBlocks
<1>3. \A b : /\ b \in BlocksUpTo(bars, k) /\ UnbrokenBefore(bars, b, k) <=>
                  b \in Unbroken(bars, k - 1) \cup Blocks(bars, k)
             /\ b \in Unbroken(bars, k) <=>
                  b \in Unbroken(bars, k - 1) \cup Blocks(bars, k) /\ ~Broken(bars[k], b)
  BY UnbrokenNext
<1>4. \A b \in BlocksUpTo(bars, k) : b.made <= k
  <2>1. \A b \in BlocksUpTo(bars, k) : b.made \in FirstDecision..k
    BY BlockIs
  <2>2. QED
    BY <2>1, DecisionsLookBack
<1>5. {c \in known : Broken(bars[k], c)} = {c \in BlocksUpTo(bars, k) : BreaksAt(bars, c, k)}
  <2>1. \A c : c \in known /\ Broken(bars[k], c) <=> c \in BlocksUpTo(bars, k) /\ BreaksAt(bars, c, k)
    BY <1>2, <1>3, <1>4 DEF BreaksAt
  <2>2. QED
    BY <2>1
<1>6. known \ {c \in known : Broken(bars[k], c)} = YoungBlocks(Unbroken(bars, k), k)
  <2>1. \A c : c \in known /\ ~Broken(bars[k], c) <=> c \in Unbroken(bars, k) /\ k - c.made <= BlockMaxAge
    BY <1>2, <1>3
  <2>2. QED
    BY <2>1 DEF YoungBlocks
<1>7. QED
  BY <1>5, <1>6 DEF BrokenOn

\* A bar without a range breaks nothing that is unbroken.
LEMMA FlatBreaksNone ==
    ASSUME NEW bars \in Seq(Ohlc), NEW k \in DOMAIN bars, k >= FirstDecision, RangeSum(bars, k) = 0
    PROVE  BrokenOn(bars, k) = {} /\ Unbroken(bars, k) = Unbroken(bars, k - 1)
<1>1. /\ Blocks(bars, k) = {} /\ k >= 2 /\ k \in Int /\ k <= Len(bars)
      /\ \A b : Broken(bars[k], b) <=> Broken(bars[k - 1], b)
  BY FlatIs, TapeIs
<1>2. \A b : /\ b \in BlocksUpTo(bars, k) /\ UnbrokenBefore(bars, b, k) <=> b \in Unbroken(bars, k - 1)
             /\ b \in Unbroken(bars, k) <=> b \in Unbroken(bars, k - 1) /\ ~Broken(bars[k], b)
  BY <1>1, UnbrokenNext
<1>3. ASSUME NEW b \in Unbroken(bars, k - 1) PROVE ~Broken(bars[k], b)
  <2> DEFINE n == k - 1
  <2>1. n \in Int /\ n <= Len(bars) /\ b \in BlocksUpTo(bars, n) /\ UnbrokenBefore(bars, b, n + 1)
    BY <1>1 DEF Unbroken
  <2>2. (n + 1) - 1 = n
    BY <2>1
  <2> HIDE DEF n
  <2>3. b.made \in FirstDecision..n /\ b.made \in Int
    BY <2>1, BlockIs
  <2>4. n \in b.made..n
    BY <2>1, <2>3, DecisionsLookBack
  <2>5. ~Broken(bars[n], b)
    BY <2>1, <2>2, <2>4 DEF UnbrokenBefore
  <2>6. QED
    BY <1>1, <2>5 DEF n
<1>4. Unbroken(bars, k) = Unbroken(bars, k - 1)
  BY <1>2, <1>3
<1>5. {c \in BlocksUpTo(bars, k) : BreaksAt(bars, c, k)} = {}
  BY <1>2, <1>3 DEF BreaksAt
<1>6. QED
  BY <1>4, <1>5 DEF BrokenOn

\* Tapes that agree on their first bars have the same blocks and breakers.
LEMMA BreakersAgree ==
    ASSUME NEW a, NEW b, NEW n, Alike(a, b, n), NEW k \in Int, k <= n
    PROVE  BlocksUpTo(a, k) = BlocksUpTo(b, k) /\ BreakersUpTo(a, k) = BreakersUpTo(b, k)
           /\ Unbroken(a, k) = Unbroken(b, k)
<1>1. n \in Nat /\ n <= Len(a) /\ a \in Seq(Ohlc) /\ \A j \in 1..n : a[j] = b[j]
  BY DEF Alike
<1>2. ASSUME NEW i \in FirstDecision..k PROVE Blocks(a, i) = Blocks(b, i)
  <2>1. i \in Nat /\ i >= FirstDecision /\ \A j \in 1..i : a[j] = b[j]
    BY <1>1, DecisionsLookBack
  <2>2. QED
    BY <2>1, BlocksAgree
<1>3. ASSUME NEW j \in Int, j <= k PROVE BlocksUpTo(a, j) = BlocksUpTo(b, j)
  <2>1. \A i \in FirstDecision..j : Blocks(a, i) = Blocks(b, i)
    BY <1>2, <1>3, DecisionsLookBack
  <2>2. QED
    BY <2>1 DEF BlocksUpTo
<1>4. ASSUME NEW j \in Int, j <= k, NEW c \in BlocksUpTo(a, j)
      PROVE  \A m \in Int : m <= k + 1 => (UnbrokenBefore(a, c, m) <=> UnbrokenBefore(b, c, m))
  <2>1. j <= Len(a)
    BY <1>1, <1>4, TapeIs
  <2>2. c.made \in Int /\ c.made >= 2
    BY <1>1, <1>4, <2>1, BlockIs
  <2>3. \A m \in Int : m <= k + 1 => \A i \in c.made..(m - 1) : a[i] = b[i]
    BY <1>1, <2>2
  <2>4. QED
    BY <2>3 DEF UnbrokenBefore
<1>5. ASSUME NEW j \in FirstDecision..k PROVE BrokenOn(a, j) = BrokenOn(b, j)
  <2>1. j \in Int /\ j <= k /\ j <= k + 1 /\ a[j] = b[j]
    BY <1>1, DecisionsLookBack, BreakerLooksBack
  <2>2. BlocksUpTo(a, j) = BlocksUpTo(b, j)
    BY <1>3, <2>1
  <2>3. \A c \in BlocksUpTo(a, j) : BreaksAt(a, c, j) <=> BreaksAt(b, c, j)
    BY <1>4, <2>1 DEF BreaksAt
  <2>4. {c \in BlocksUpTo(a, j) : BreaksAt(a, c, j)} = {c \in BlocksUpTo(b, j) : BreaksAt(b, c, j)}
    BY <2>2, <2>3
  <2>5. QED
    BY <2>4 DEF BrokenOn
<1>6. BreakersUpTo(a, k) = BreakersUpTo(b, k)
  BY <1>5 DEF BreakersUpTo
<1>7. BlocksUpTo(a, k) = BlocksUpTo(b, k)
  <2>1. k <= k
    OBVIOUS
  <2>2. QED
    BY <1>3, <2>1
<1>8. \A c \in BlocksUpTo(a, k) : UnbrokenBefore(a, c, k + 1) <=> UnbrokenBefore(b, c, k + 1)
  <2>1. k <= k /\ k + 1 \in Int /\ k + 1 <= k + 1
    OBVIOUS
  <2>2. QED
    BY <1>4, <2>1
<1>9. QED
  BY <1>6, <1>7, <1>8 DEF Unbroken

\* The first close beyond a block is the one that breaks it.
LEMMA BreakersAre ==
    ASSUME NEW bars \in Seq(Ohlc)
    PROVE  BreakersOf(bars) = BreakersUpTo(bars, Len(bars) - 1)
<1> DEFINE n == Len(bars) - 1
           blocks == BlocksUpTo(bars, n)
           bound(b) == Min({n, b.made + BlockMaxAge})
           Breaks(b) == {j \in b.made..bound(b) : Broken(bars[j], b)}
<1>1. n \in Int /\ n <= Len(bars) /\ BlockMaxAge \in Nat /\ FirstDecision \in Nat
  BY TapeIs, DecisionsLookBack, BreakerLooksBack
<1>2. BreakersOf(bars) = {[b EXCEPT !.broke = Min(Breaks(b))] : b \in {c \in blocks : Breaks(c) # {}}}
  BY DEF BreakersOf, BlocksUpTo
<1> HIDE DEF n
<1>3. ASSUME NEW b \in blocks PROVE b.made \in Int /\ b.made \in FirstDecision..n /\ b \in Blocks(bars, b.made)
  BY <1>1, BlockIs
<1>4. ASSUME NEW b \in blocks
      PROVE  /\ \A j : j \in Breaks(b) <=>
                    j \in Int /\ b.made <= j /\ j <= n /\ j - b.made <= BlockMaxAge /\ Broken(bars[j], b)
             /\ IsFiniteSet(Breaks(b)) /\ Breaks(b) \subseteq Int
  <2> DEFINE x == b.made + BlockMaxAge
             m == bound(b)
  <2>1. x \in Int /\ b.made \in Int
    BY <1>1, <1>3
  <2>2. m \in Int /\ m \in {x, n} /\ m <= x /\ m <= n
    <3> HIDE DEF x
    <3>1. Min({n, x}) \in Int /\ Min({n, x}) \in {n, x} /\ Min({n, x}) <= n /\ Min({n, x}) <= x
      BY <1>1, <2>1, MinOfTwo
    <3>2. QED
      BY <3>1 DEF x
  <2> HIDE DEF bound, m
  <2>3. \A j \in Int : j <= m <=> j <= n /\ j - b.made <= BlockMaxAge
    BY <1>1, <2>1, <2>2
  <2>4. Breaks(b) = {j \in b.made..m : Broken(bars[j], b)}
    BY DEF m
  <2>5. \A j : j \in Breaks(b) <=>
                    j \in Int /\ b.made <= j /\ j <= n /\ j - b.made <= BlockMaxAge /\ Broken(bars[j], b)
    BY <2>1, <2>2, <2>3, <2>4
  <2>6. IsFiniteSet(Breaks(b))
    <3> DEFINE all == b.made..m
    <3>1. IsFiniteSet(all) /\ Breaks(b) \in SUBSET all
      BY <2>1, <2>2, <2>4, FS_Interval
    <3> HIDE DEF all, Breaks
    <3>2. QED
      BY <3>1, FS_Subset
  <2>7. QED
    BY <2>5, <2>6
<1> HIDE DEF bound, Breaks
<1>5. ASSUME NEW b \in blocks, NEW j \in FirstDecision..n
      PROVE  (Breaks(b) # {} /\ Min(Breaks(b)) = j) <=> BreaksAt(bars, b, j)
  <2> DEFINE S == Breaks(b)
  <2>1. /\ \A i : i \in S <=>
             i \in Int /\ b.made <= i /\ i <= n /\ i - b.made <= BlockMaxAge /\ Broken(bars[i], b)
        /\ IsFiniteSet(S) /\ S \subseteq Int
    BY <1>4
  <2>2. b.made \in Int /\ j \in Int /\ j <= n
    BY <1>1, <1>3
  <2> HIDE DEF S
  <2>3. S # {} => Min(S) \in S /\ \A y \in S : Min(S) <= y
    BY <2>1, MinIsOne
  <2>4. ASSUME S # {}, Min(S) = j PROVE BreaksAt(bars, b, j)
    <3>1. j \in S /\ \A y \in S : j <= y
      BY <2>3, <2>4
    <3>2. \A i \in b.made..(j - 1) : ~Broken(bars[i], b)
      <4> SUFFICES ASSUME NEW i \in b.made..(j - 1), Broken(bars[i], b) PROVE FALSE
        OBVIOUS
      <4>1. i \in S
        BY <1>1, <2>1, <2>2, <3>1
      <4>2. QED
        BY <2>2, <3>1, <4>1
    <3>3. QED
      BY <2>1, <3>1, <3>2 DEF BreaksAt, UnbrokenBefore
  <2>5. ASSUME BreaksAt(bars, b, j) PROVE S # {} /\ Min(S) = j
    <3>1. j \in S
      BY <2>1, <2>2, <2>5 DEF BreaksAt
    <3> DEFINE m == Min(S)
    <3>2. m \in S /\ m <= j
      BY <2>3, <3>1
    <3> HIDE DEF m
    <3>3. m \in Int /\ b.made <= m /\ Broken(bars[m], b)
      BY <2>1, <3>2
    <3>4. m \notin b.made..(j - 1)
      BY <2>5, <3>3 DEF BreaksAt, UnbrokenBefore
    <3>5. m = j
      BY <2>2, <3>2, <3>3, <3>4
    <3>6. QED
      BY <3>1, <3>5 DEF m
  <2>6. QED
    BY <2>4, <2>5 DEF S
<1>6. ASSUME NEW b \in blocks, Breaks(b) # {} PROVE Min(Breaks(b)) \in FirstDecision..n
  <2> DEFINE S == Breaks(b)
  <2>1. /\ \A i \in S : i \in Int /\ b.made <= i /\ i <= n
        /\ IsFiniteSet(S) /\ S \subseteq Int /\ S # {}
    BY <1>4, <1>6
  <2> HIDE DEF S
  <2>2. Min(S) \in S
    BY <2>1, MinIsOne
  <2>3. QED
    BY <1>1, <1>3, <2>1, <2>2 DEF S
<1>7. ASSUME NEW j \in FirstDecision..n, NEW b, BreaksAt(bars, b, j)
      PROVE  b \in BlocksUpTo(bars, j) <=> b \in blocks
  <2>1. b \in BlocksUpTo(bars, j) => b \in blocks
    BY <1>1 DEF BlocksUpTo
  <2>2. ASSUME b \in blocks PROVE b \in BlocksUpTo(bars, j)
    <3>1. b.made \in FirstDecision..j /\ b \in Blocks(bars, b.made)
      BY <1>1, <1>3, <1>7, <2>2 DEF BreaksAt
    <3>2. QED
      BY <3>1 DEF BlocksUpTo
  <2>3. QED
    BY <2>1, <2>2
<1> HIDE DEF blocks
<1>8. ASSUME NEW x \in BreakersOf(bars) PROVE x \in BreakersUpTo(bars, n)
  <2>1. PICK b \in blocks : Breaks(b) # {} /\ x = [b EXCEPT !.broke = Min(Breaks(b))]
    BY <1>2
  <2> DEFINE j == Min(Breaks(b))
  <2>2. j \in FirstDecision..n /\ BreaksAt(bars, b, j) /\ x = [b EXCEPT !.broke = j]
    BY <1>5, <1>6, <2>1
  <2> HIDE DEF j
  <2>3. b \in BlocksUpTo(bars, j)
    BY <1>7, <2>2
  <2>4. x \in BrokenOn(bars, j)
    BY <2>2, <2>3 DEF BrokenOn
  <2>5. QED
    BY <2>2, <2>4 DEF BreakersUpTo
<1>9. ASSUME NEW x \in BreakersUpTo(bars, n) PROVE x \in BreakersOf(bars)
  <2>1. PICK j \in FirstDecision..n : x \in BrokenOn(bars, j)
    BY <1>9 DEF BreakersUpTo
  <2>2. PICK b \in BlocksUpTo(bars, j) : BreaksAt(bars, b, j) /\ x = [b EXCEPT !.broke = j]
    BY <2>1 DEF BrokenOn
  <2>3. b \in blocks
    BY <1>7, <2>2
  <2>4. Breaks(b) # {} /\ Min(Breaks(b)) = j
    BY <1>5, <2>2, <2>3
  <2>5. QED
    BY <1>2, <2>2, <2>3, <2>4
<1>10. QED
  BY <1>8, <1>9 DEF n

-----------------------------------------------------------------------------
(***************************************************************************)
(* The breakers that fire.                                                 *)
(***************************************************************************)
\* What a list has of a bar; whether a breaker has fired in it by a bar; the breakers that
\* it has; and those that are ready on a bar.
FoundOn(q, k) == {q[i] : i \in {j \in DOMAIN q : q[j].entry = k + 1}}
FiredIn(q, b, k) == \E i \in DOMAIN q : q[i].of = b /\ q[i].entry <= k
GivenIn(q) == {q[i].of : i \in DOMAIN q}
ReadyOn(bars, q, k) ==
    {b \in BreakersUpTo(bars, k) :
        k - b.broke <= BreakerMaxAge /\ TurnsAway(bars, k, b) /\ ~FiredIn(q, b, k)}

\* On every bar up to one the oldest breaker that is ready fires, and no two bars enter at one.
FireInTurn(bars, q, n) ==
    \A k \in FirstDecision..n :
        FoundOn(q, k) = {BreakerSignal(bars, k, b) : b \in Oldest(ReadyOn(bars, q, k))}
EnterOnce(q) == \A i, j \in DOMAIN q : i # j => q[i].entry # q[j].entry
EnterAfter(q, n) ==
    \A i \in DOMAIN q : /\ q[i].entry \in Int /\ q[i].entry <= n + 1
                        /\ q[i].of.broke \in Int /\ q[i].of.broke < q[i].entry - 1

\* The breakers that a bar may fire, and those that it does.
LiveAt(bars, q, k) == {b \in YoungBreakers(BreakersUpTo(bars, k - 1), k) : b \notin GivenIn(q)}
FiresOn(bars, q, k) == Oldest({b \in LiveAt(bars, q, k) : TurnsAway(bars, k, b)})
SignalsOn(bars, q, k) == {BreakerSignal(bars, k, b) : b \in FiresOn(bars, q, k)}

\* The young blocks that are kept are unbroken, the young breakers have not fired, and what
\* has been found is what fires in turn.
BreakerFound ==
    /\ BreakerInv
    /\ {"times", "past"} \subseteq DOMAIN mem
    /\ YoungBlocks(mem.blocks, Len(tape) - 1) = YoungBlocks(Unbroken(tape, Len(tape) - 1), Len(tape) - 1)
    /\ YoungBreakers(mem.breakers, Len(tape) - 1)
         = {b \in YoungBreakers(BreakersUpTo(tape, Len(tape) - 1), Len(tape) - 1) : b \notin GivenIn(out)}
    /\ EnterOnce(out) /\ EnterAfter(out, Len(tape) - 1)
    /\ FireInTurn(tape, out, Len(tape) - 1)

\* The elements of two lists, one after the other.
LEMMA JoinIs ==
    ASSUME NEW q, NEW e, IsList(q), IsList(e)
    PROVE  /\ \A i \in DOMAIN (q \o e) :
                \/ i \in DOMAIN q /\ (q \o e)[i] = q[i]
                \/ i \notin DOMAIN q /\ i \in Int /\ i - Len(q) \in DOMAIN e /\ (q \o e)[i] = e[i - Len(q)]
           /\ \A i \in DOMAIN q : i \in DOMAIN (q \o e) /\ (q \o e)[i] = q[i]
           /\ \A i \in DOMAIN e : \E j \in DOMAIN (q \o e) : (q \o e)[j] = e[i]
<1>1. PICK A : q \in Seq(A)
  BY DEF IsList
<1>2. PICK B : e \in Seq(B)
  BY DEF IsList
<1>3. /\ q \o e \in Seq(A \cup B)
      /\ Len(q) \in Nat /\ Len(e) \in Nat /\ DOMAIN q = 1..Len(q) /\ DOMAIN e = 1..Len(e)
      /\ DOMAIN (q \o e) = 1..(Len(q) + Len(e))
      /\ \A i \in 1..(Len(q) + Len(e)) : (q \o e)[i] = IF i <= Len(q) THEN q[i] ELSE e[i - Len(q)]
  BY <1>1, <1>2
<1>4. ASSUME NEW i \in DOMAIN (q \o e)
      PROVE  \/ i \in DOMAIN q /\ (q \o e)[i] = q[i]
             \/ i \notin DOMAIN q /\ i \in Int /\ i - Len(q) \in DOMAIN e /\ (q \o e)[i] = e[i - Len(q)]
  <2>1. CASE i <= Len(q)
    BY <1>3, <2>1
  <2>2. CASE ~(i <= Len(q))
    BY <1>3, <2>2
  <2>3. QED
    BY <2>1, <2>2
<1>5. ASSUME NEW i \in DOMAIN e PROVE \E j \in DOMAIN (q \o e) : (q \o e)[j] = e[i]
  <2> DEFINE j == Len(q) + i
  <2>1. j \in DOMAIN (q \o e) /\ ~(j <= Len(q)) /\ j - Len(q) = i
    BY <1>3
  <2>2. (q \o e)[j] = e[j - Len(q)]
    BY <1>3, <2>1
  <2> HIDE DEF j
  <2>3. QED
    BY <2>1, <2>2
<1>6. QED
  BY <1>3, <1>4, <1>5

\* At most one breaker fires on a bar.
LEMMA FiresOnOne ==
    ASSUME NEW bars \in Seq(Ohlc), NEW k \in Nat, k <= Len(bars), NEW q
    PROVE  /\ \A a, b \in FiresOn(bars, q, k) : a = b
           /\ FiresOn(bars, q, k) \subseteq LiveAt(bars, q, k)
           /\ LiveAt(bars, q, k) \subseteq BreakersUpTo(bars, k - 1)
           /\ IsFiniteSet(SignalsOn(bars, q, k))
           /\ \A x, y \in SignalsOn(bars, q, k) : x = y
<1> DEFINE F == FiresOn(bars, q, k)
           L == LiveAt(bars, q, k)
           n == k - 1
           S == {b \in L : TurnsAway(bars, k, b)}
           f == [b \in F |-> BreakerSignal(bars, k, b)]
<1>1. F \subseteq L /\ F = Oldest(S)
  BY DEF FiresOn, Oldest
<1>2. L \subseteq BreakersUpTo(bars, n)
  BY DEF LiveAt, YoungBreakers
<1>3. n \in Int /\ n <= Len(bars)
  BY TapeIs
<1>4. \A a, b \in F : a = b
  <2> HIDE DEF n
  <2>1. S \in SUBSET BreakersUpTo(bars, n)
    BY <1>2
  <2> HIDE DEF S, F
  <2>2. QED
    BY <1>1, <1>3, <2>1, OneOldest
<1>5. SignalsOn(bars, q, k) = {f[b] : b \in F}
  BY DEF SignalsOn
<1>6. IsFiniteSet(F)
  <2> HIDE DEF F
  <2>1. CASE F = {}
    BY <2>1, FS_EmptySet
  <2>2. CASE F # {}
    <3>1. PICK b \in F : TRUE
      BY <2>2
    <3>2. F = {b}
      BY <1>4, <3>1
    <3>3. QED
      BY <3>2, FS_Singleton
  <2>3. QED
    BY <2>1, <2>2
<1> HIDE DEF F, f
<1>7. IsFiniteSet({f[b] : b \in F})
  BY <1>6, ImageIsFinite
<1>8. \A x, y \in {f[b] : b \in F} : x = y
  BY <1>4
<1>9. QED
  BY <1>1, <1>2, <1>4, <1>5, <1>7, <1>8 DEF F, n

\* A list of what is of one kind has at most one element.
LEMMA ListOfOne ==
    ASSUME NEW e, NEW S, Lists(e, S), \A x, y \in S : x = y
    PROVE  \A i, j \in DOMAIN e : i = j
<1>1. PICK A : e \in Seq(A)
  BY DEF Lists, IsList
<1>2. Len(e) \in Nat /\ DOMAIN e = 1..Len(e) /\ Len(e) = Cardinality(S)
  BY <1>1 DEF Lists
<1>3. CASE S = {}
  <2>1. Cardinality(S) = 0
    BY <1>3, FS_EmptySet
  <2>2. QED
    BY <1>2, <2>1
<1>4. CASE S # {}
  <2>1. PICK x \in S : TRUE
    BY <1>4
  <2>2. S = {x}
    BY <2>1
  <2>3. Cardinality(S) = 1
    BY <2>2, FS_Singleton
  <2>4. QED
    BY <1>2, <2>3
<1>5. QED
  BY <1>3, <1>4

\* What a bar adds to the list: nothing of what the bars before it found is another.
Appends(a, b, q, e, k) ==
    /\ Alike(a, b, k) /\ k + 1 <= Len(b)
    /\ IsList(q) /\ EnterOnce(q) /\ EnterAfter(q, k - 1) /\ FireInTurn(a, q, k - 1)
    /\ Lists(e, SignalsOn(b, q, k))

\* Then the list goes on firing in turn.
LEMMA AppendsOn ==
    ASSUME NEW a, NEW b, NEW q, NEW e, NEW k, Appends(a, b, q, e, k)
    PROVE  /\ EnterOnce(q \o e) /\ EnterAfter(q \o e, k)
           /\ FireInTurn(b, q \o e, k)
           /\ GivenIn(q \o e) = GivenIn(q) \cup FiresOn(b, q, k)
<1> DEFINE r == q \o e
           F == FiresOn(b, q, k)
           S == SignalsOn(b, q, k)
<1>1. /\ k \in Nat /\ a \in Seq(Ohlc) /\ b \in Seq(Ohlc) /\ k <= Len(a) /\ k <= Len(b) /\ k + 1 <= Len(b)
      /\ \A j \in 1..k : a[j] = b[j]
      /\ IsList(q) /\ IsList(e) /\ Lists(e, S)
  BY DEF Appends, Alike, Lists
<1>2. /\ \A x, y \in S : x = y
      /\ F \subseteq LiveAt(b, q, k) /\ LiveAt(b, q, k) \subseteq BreakersUpTo(b, k - 1)
  BY <1>1, FiresOnOne
<1>3. \A x \in LiveAt(b, q, k) : x.broke \in Int /\ x.broke < k
  <2> SUFFICES ASSUME NEW x \in LiveAt(b, q, k) PROVE x.broke \in Int /\ x.broke < k
    OBVIOUS
  <2> DEFINE n == k - 1
  <2>1. n \in Int /\ n <= Len(b) /\ x \in BreakersUpTo(b, n)
    BY <1>1, <1>2
  <2> HIDE DEF n
  <2>2. x.broke \in Int /\ x.broke \in FirstDecision..n
    BY <1>1, <2>1, BreakerIs
  <2>3. QED
    BY <1>1, <2>2, DecisionsLookBack DEF n
<1>4. \A s \in S : s.entry = k + 1 /\ s.of \in F
  <2>1. \A x : BreakerSignal(b, k, x).entry = k + 1 /\ BreakerSignal(b, k, x).of = x
    BY DEF BreakerSignal, Signal
  <2>2. QED
    BY <2>1 DEF SignalsOn
<1>5. \A i \in DOMAIN e : e[i] \in S
  BY <1>1 DEF Lists, Range
<1>6. \A s \in S : \E i \in DOMAIN e : e[i] = s
  BY <1>1 DEF Lists, Range
<1>7. \A i, j \in DOMAIN e : i = j
  BY <1>1, <1>2, ListOfOne
<1> HIDE DEF S, F
<1>8. /\ \A i \in DOMAIN r : \/ i \in DOMAIN q /\ r[i] = q[i]
                             \/ i \notin DOMAIN q /\ i \in Int /\ i - Len(q) \in DOMAIN e /\ r[i] = e[i - Len(q)]
      /\ \A i \in DOMAIN q : i \in DOMAIN r /\ r[i] = q[i]
      /\ \A i \in DOMAIN e : \E j \in DOMAIN r : r[j] = e[i]
  BY <1>1, JoinIs
<1>9. Len(q) \in Int
  BY <1>1 DEF IsList
<1>10. \A i \in DOMAIN q : /\ q[i].entry \in Int /\ q[i].entry <= k /\ q[i].of.broke \in Int
                           /\ q[i].of.broke < q[i].entry - 1
  BY <1>1 DEF Appends, EnterAfter
<1> HIDE DEF r
<1>11. \A i \in DOMAIN r : \/ i \in DOMAIN q /\ r[i] = q[i]
                           \/ i \notin DOMAIN q /\ r[i] \in S /\ r[i].entry = k + 1 /\ r[i].of \in F
  BY <1>4, <1>5, <1>8
<1>12. \A i, j \in DOMAIN r : i \notin DOMAIN q /\ j \notin DOMAIN q => i = j
  <2> SUFFICES ASSUME NEW i \in DOMAIN r, NEW j \in DOMAIN r, i \notin DOMAIN q, j \notin DOMAIN q
               PROVE  i = j
    OBVIOUS
  <2>1. i \in Int /\ j \in Int /\ i - Len(q) \in DOMAIN e /\ j - Len(q) \in DOMAIN e
    BY <1>8
  <2>2. i - Len(q) = j - Len(q)
    BY <1>7, <2>1
  <2>3. QED
    BY <1>9, <2>1, <2>2
<1>13. EnterOnce(r)
  <2> SUFFICES ASSUME NEW i \in DOMAIN r, NEW j \in DOMAIN r, i # j PROVE r[i].entry # r[j].entry
    BY DEF EnterOnce
  <2>1. CASE i \in DOMAIN q /\ j \in DOMAIN q
    <3>1. q[i].entry # q[j].entry
      BY <2>1 DEF Appends, EnterOnce
    <3>2. QED
      BY <1>8, <2>1, <3>1
  <2>2. CASE i \in DOMAIN q /\ j \notin DOMAIN q
    BY <1>1, <1>8, <1>10, <1>11, <2>2
  <2>3. CASE i \notin DOMAIN q /\ j \in DOMAIN q
    BY <1>1, <1>8, <1>10, <1>11, <2>3
  <2>4. CASE i \notin DOMAIN q /\ j \notin DOMAIN q
    BY <1>12, <2>4
  <2>5. QED
    BY <2>1, <2>2, <2>3, <2>4
<1>14. EnterAfter(r, k)
  <2> SUFFICES ASSUME NEW i \in DOMAIN r
               PROVE  /\ r[i].entry \in Int /\ r[i].entry <= k + 1
                      /\ r[i].of.broke \in Int /\ r[i].of.broke < r[i].entry - 1
    BY DEF EnterAfter
  <2>1. CASE i \in DOMAIN q
    BY <1>1, <1>8, <1>10, <2>1
  <2>2. CASE i \notin DOMAIN q
    <3>1. r[i].entry = k + 1 /\ r[i].of \in LiveAt(b, q, k)
      BY <1>2, <1>11, <2>2 DEF F
    <3>2. QED
      BY <1>1, <1>3, <3>1
  <2>3. QED
    BY <2>1, <2>2
<1>15. GivenIn(r) = GivenIn(q) \cup F
  <2>1. \A x \in F : \E i \in DOMAIN r : r[i].of = x
    <3> SUFFICES ASSUME NEW x \in F PROVE \E i \in DOMAIN r : r[i].of = x
      OBVIOUS
    <3>1. BreakerSignal(b, k, x) \in S /\ BreakerSignal(b, k, x).of = x
      BY DEF S, F, SignalsOn, BreakerSignal, Signal
    <3>2. QED
      BY <1>6, <1>8, <3>1
  <2>2. \A x : x \in GivenIn(r) <=> \E i \in DOMAIN r : r[i].of = x
    BY DEF GivenIn
  <2>3. \A x : x \in GivenIn(q) <=> \E i \in DOMAIN q : q[i].of = x
    BY DEF GivenIn
  <2>4. \A x : x \in GivenIn(r) <=> x \in GivenIn(q) \cup F
    BY <1>8, <1>11, <2>1, <2>2, <2>3
  <2>5. QED
    BY <2>4
<1>16. ASSUME NEW j \in FirstDecision..k
       PROVE  FoundOn(r, j) = {BreakerSignal(b, j, x) : x \in Oldest(ReadyOn(b, r, j))}
  <2>1. j \in Int /\ j <= k /\ j >= 2 /\ FirstDecision \in Int
    BY DecisionsLookBack, BreakerLooksBack
  <2>2. \A x : FiredIn(r, x, j) <=> FiredIn(q, x, j)
    BY <1>1, <1>8, <1>10, <1>11, <2>1 DEF FiredIn
  <2>3. CASE j # k
    <3>1. j <= k - 1 /\ j \in FirstDecision..(k - 1) /\ a[j] = b[j] /\ a[j + 1] = b[j + 1]
      BY <1>1, <2>1, <2>3
    <3>2. BreakersUpTo(a, j) = BreakersUpTo(b, j)
      BY <2>1, BreakersAgree DEF Appends
    <3>3. \A x : /\ TurnsAway(a, j, x) <=> TurnsAway(b, j, x)
                 /\ BreakerSignal(a, j, x) = BreakerSignal(b, j, x)
      BY <3>1 DEF TurnsAway, BreakerSignal
    <3>4. ReadyOn(b, r, j) = ReadyOn(a, q, j)
      BY <2>2, <3>2, <3>3 DEF ReadyOn
    <3>5. FoundOn(q, j) = {BreakerSignal(a, j, x) : x \in Oldest(ReadyOn(a, q, j))}
      BY <3>1 DEF Appends, FireInTurn
    <3>6. FoundOn(r, j) = FoundOn(q, j)
      <4>1. \A i \in DOMAIN r : r[i].entry = j + 1 <=> i \in DOMAIN q /\ q[i].entry = j + 1
        BY <1>1, <1>8, <1>11, <3>1, <2>1
      <4>2. {i \in DOMAIN r : r[i].entry = j + 1} = {i \in DOMAIN q : q[i].entry = j + 1}
        BY <1>8, <4>1
      <4>3. \A i \in {m \in DOMAIN q : q[m].entry = j + 1} : r[i] = q[i]
        BY <1>8
      <4>4. QED
        BY <4>2, <4>3 DEF FoundOn
    <3>7. QED
      BY <3>3, <3>4, <3>5, <3>6
  <2>4. CASE j = k
    <3>1. FoundOn(r, k) = S
      <4>1. \A s : s \in FoundOn(r, k) <=> \E i \in DOMAIN r : r[i].entry = k + 1 /\ r[i] = s
        BY DEF FoundOn
      <4>2. \A i \in DOMAIN r : r[i].entry = k + 1 => r[i] \in S
        BY <1>1, <1>10, <1>11
      <4>3. \A s \in S : \E i \in DOMAIN r : r[i].entry = k + 1 /\ r[i] = s
        BY <1>4, <1>6, <1>8
      <4>4. \A s : s \in FoundOn(r, k) <=> s \in S
        BY <4>1, <4>2, <4>3
      <4>5. QED
        BY <4>4
    <3>2. \A x : FiredIn(r, x, k) <=> x \in GivenIn(q)
      <4>1. \A x : FiredIn(q, x, k) <=> x \in GivenIn(q)
        BY <1>10 DEF FiredIn, GivenIn
      <4>2. QED
        BY <2>2, <2>4, <4>1
    <3>3. \A x : x \in BreakersUpTo(b, k) /\ x.broke < k => x \in BreakersUpTo(b, k - 1)
      <4> SUFFICES ASSUME NEW x \in BreakersUpTo(b, k), x.broke < k PROVE x \in BreakersUpTo(b, k - 1)
        OBVIOUS
      <4>1. x.broke \in FirstDecision..k /\ x \in BrokenOn(b, x.broke)
        BY <1>1, BreakerIs
      <4>2. x.broke \in FirstDecision..(k - 1)
        BY <1>1, <2>1, <4>1
      <4>3. QED
        BY <4>1, <4>2 DEF BreakersUpTo
    <3>4. BreakersUpTo(b, k - 1) \subseteq BreakersUpTo(b, k)
      BY <1>1, <2>1 DEF BreakersUpTo
    <3>5. \A x : x \in ReadyOn(b, r, k) <=> x \in LiveAt(b, q, k) /\ TurnsAway(b, k, x)
      BY <3>2, <3>3, <3>4 DEF ReadyOn, LiveAt, YoungBreakers, TurnsAway
    <3>6. ReadyOn(b, r, k) = {x \in LiveAt(b, q, k) : TurnsAway(b, k, x)}
      BY <3>5 DEF ReadyOn
    <3>7. QED
      BY <2>4, <3>1, <3>6 DEF S, SignalsOn, FiresOn
  <2>5. QED
    BY <2>3, <2>4
<1>17. FireInTurn(b, r, k)
  BY <1>16 DEF FireInTurn
<1>18. QED
  BY <1>13, <1>14, <1>15, <1>17 DEF r, F

\* What has been found is what the property asks for.
LEMMA BreakersFound == BreakerFound => BreakersFire
<1> SUFFICES ASSUME BreakerFound PROVE BreakersFire
  OBVIOUS
<1> DEFINE n == Len(tape) - 1
           Ready(k) == {b \in BreakersOf(tape) :
                          /\ k - b.broke <= BreakerMaxAge
                          /\ TurnsAway(tape, k, b)
                          /\ ~FiredIn(out, b, k)}
<1>1. tape \in Seq(Ohlc) /\ n \in Int /\ n <= Len(tape) /\ BreakersOf(tape) = BreakersUpTo(tape, n)
  BY TapeIs, BreakersAre DEF BreakerFound, BreakerInv
<1>2. EnterOnce(out) /\ FireInTurn(tape, out, n)
  BY DEF BreakerFound
<1> HIDE DEF n
<1>3. ASSUME NEW k \in FirstDecision..n PROVE Ready(k) = ReadyOn(tape, out, k)
  <2>1. k \in Int /\ k <= n /\ FirstDecision \in Int
    BY <1>1, DecisionsLookBack
  <2>2. \A x \in BreakersUpTo(tape, n) : x.broke < k => x \in BreakersUpTo(tape, k)
    <3> SUFFICES ASSUME NEW x \in BreakersUpTo(tape, n), x.broke < k PROVE x \in BreakersUpTo(tape, k)
      OBVIOUS
    <3>1. x.broke \in FirstDecision..n /\ x \in BrokenOn(tape, x.broke)
      BY <1>1, BreakerIs
    <3>2. x.broke \in FirstDecision..k
      BY <1>1, <2>1, <3>1
    <3>3. QED
      BY <3>1, <3>2 DEF BreakersUpTo
  <2>3. BreakersUpTo(tape, k) \subseteq BreakersUpTo(tape, n)
    BY <1>1, <2>1 DEF BreakersUpTo
  <2>4. \A x : x \in Ready(k) <=> x \in ReadyOn(tape, out, k)
    BY <1>1, <2>2, <2>3 DEF ReadyOn, TurnsAway
  <2>5. QED
    BY <2>4 DEF ReadyOn
<1>4. \A k \in FirstDecision..n :
        {out[i] : i \in {j \in DOMAIN out : out[j].entry = k + 1}}
            = {BreakerSignal(tape, k, b) : b \in Oldest(Ready(k))}
  BY <1>2, <1>3 DEF FireInTurn, FoundOn
<1>5. \A i, j \in DOMAIN out : i # j => out[i].entry # out[j].entry
  BY <1>2 DEF EnterOnce
<1>6. QED
  BY <1>4, <1>5 DEF BreakersFire, FiredIn, n

\* Nothing has been found at the start.
LEMMA BreakerFoundBegins == InitBreaker => BreakerFound
<1> SUFFICES ASSUME InitBreaker PROVE BreakerFound
  OBVIOUS
<1> DEFINE memory == [blocks |-> {}, breakers |-> {}]
<1>1. /\ DOMAIN memory = {"blocks", "breakers"} /\ memory.blocks = {} /\ memory.breakers = {}
      /\ StartStudy("breaker", memory)
  BY DEF InitBreaker
<1> HIDE DEF memory
<1>2. /\ tape = <<>> /\ out = <<>> /\ {"times", "past"} \subseteq DOMAIN mem
      /\ mem.blocks = {} /\ mem.breakers = {}
  BY <1>1, Started
<1> DEFINE n == Len(tape) - 1
<1>3. n \in Int /\ n < FirstDecision
  BY <1>2, DecisionsLookBack
<1> HIDE DEF n
<1>4. BreakersUpTo(tape, n) = {} /\ Unbroken(tape, n) = {}
  BY <1>3, BlocksNone
<1>5. FirstDecision..n = {} /\ DOMAIN out = {}
  BY <1>2, <1>3, DecisionsLookBack
<1>6. EnterOnce(out) /\ EnterAfter(out, n) /\ FireInTurn(tape, out, n)
  BY <1>5 DEF EnterOnce, EnterAfter, FireInTurn
<1>7. /\ YoungBlocks(mem.blocks, n) = YoungBlocks(Unbroken(tape, n), n)
      /\ YoungBreakers(mem.breakers, n) = {b \in YoungBreakers(BreakersUpTo(tape, n), n) : b \notin GivenIn(out)}
  BY <1>2, <1>4 DEF YoungBlocks, YoungBreakers
<1>8. QED
  BY <1>2, <1>6, <1>7, BreakerBegins DEF BreakerFound, n

\* What the loop does on a bar.
LEMMA BreakerDoes ==
    ASSUME BreakerFound, BreakerStep, NEW k, k = Len(tape)
    PROVE  /\ mem'.times = mem.times /\ mem'.past = mem.past /\ {"times", "past"} \subseteq DOMAIN mem'
           /\ YoungBlocks(mem'.blocks, k) = YoungBlocks(Unbroken(tape', k), k)
           /\ YoungBreakers(mem'.breakers, k)
                = {b \in YoungBreakers(BreakersUpTo(tape', k), k) :
                     b \notin GivenIn(out) \cup FiresOn(tape', out, k)}
           /\ \E e : out' = out \o e /\ Lists(e, SignalsOn(tape', out, k))
<1> DEFINE bars == tape'
           n == k - 1
           known == {b \in mem.blocks : k - b.made <= BlockMaxAge} \cup Blocks(bars, k)
           live == {b \in mem.breakers : k - b.broke <= BreakerMaxAge}
           broken == {b \in known : Broken(bars[k], b)}
           breakers == live \cup {[b EXCEPT !.broke = k] : b \in broken}
           fires == Oldest({b \in breakers : TurnsAway(bars, k, b)})
           finds == SetToSeq({BreakerSignal(bars, k, b) : b \in fires})
<1>1. /\ bars \in Seq(Ohlc) /\ tape \in Seq(Ohlc) /\ k \in Nat /\ Len(bars) = k + 1 /\ k <= Len(bars)
      /\ DOMAIN bars = 1..(k + 1) /\ \A j \in DOMAIN tape : bars[j] = tape[j]
      /\ DOMAIN tape = 1..k /\ Len(bars) - 1 = k /\ n \in Int /\ n <= k
  BY NextTape DEF BreakerFound, BreakerInv, BreakerStep, PriceStudies
<1>2. Alike(tape, bars, k)
  BY <1>1 DEF Alike
<1>3. /\ YoungBlocks(mem.blocks, n) = YoungBlocks(Unbroken(bars, n), n)
      /\ YoungBreakers(mem.breakers, n) = {b \in YoungBreakers(BreakersUpTo(bars, n), n) : b \notin GivenIn(out)}
  <2>1. Unbroken(tape, n) = Unbroken(bars, n) /\ BreakersUpTo(tape, n) = BreakersUpTo(bars, n)
    BY <1>1, <1>2, BreakersAgree
  <2>2. QED
    BY <2>1 DEF BreakerFound
<1>4. /\ mem.blocks \subseteq BlockRecord /\ mem.breakers \subseteq BlockRecord
      /\ {"times", "past", "blocks", "breakers"} \subseteq DOMAIN mem
  BY DEF BreakerFound, BreakerInv
<1>5. \A b \in Unbroken(bars, n) : b.made \in Int
  <2> HIDE DEF n
  <2>1. \A b \in BlocksUpTo(bars, n) : b.made \in Int
    <3>1. n <= Len(bars)
      BY <1>1
    <3>2. QED
      BY <1>1, <3>1, BlockIs
  <2>2. QED
    BY <2>1 DEF Unbroken
<1>6. \A b \in BreakersUpTo(bars, n) : b.broke \in Int /\ b.broke <= n /\ b.side \in Sides
  <2> HIDE DEF n
  <2>1. \A b \in BreakersUpTo(bars, n) : b.broke \in Int /\ b.broke \in FirstDecision..n /\ b \in BlockRecord
    <3>1. n <= Len(bars)
      BY <1>1
    <3>2. QED
      BY <1>1, <3>1, BreakerIs
  <2>2. QED
    BY <1>1, <2>1, DecisionsLookBack DEF BlockRecord
<1>7. YoungBlocks(mem.blocks, k) = YoungBlocks(Unbroken(bars, n), k)
  <2>1. \A b \in mem.blocks : b.made \in Int
    BY <1>4 DEF BlockRecord
  <2>2. \A m \in Int : k - m <= BlockMaxAge => n - m <= BlockMaxAge
    BY <1>1, BreakerLooksBack
  <2>3. \A b : b \in mem.blocks /\ k - b.made <= BlockMaxAge
               <=> b \in Unbroken(bars, n) /\ k - b.made <= BlockMaxAge
    BY <1>3, <1>5, <2>1, <2>2 DEF YoungBlocks
  <2>4. QED
    BY <2>3 DEF YoungBlocks
<1>8. YoungBreakers(mem.breakers, k) = LiveAt(bars, out, k)
  <2>1. \A b \in mem.breakers : b.broke \in Int
    BY <1>4 DEF BlockRecord
  <2>2. \A m \in Int : k - m <= BreakerMaxAge => n - m <= BreakerMaxAge
    BY <1>1, BreakerLooksBack
  <2>3. \A b : b \in mem.breakers /\ k - b.broke <= BreakerMaxAge
               <=> b \in BreakersUpTo(bars, n) /\ k - b.broke <= BreakerMaxAge /\ b \notin GivenIn(out)
    BY <1>3, <1>6, <2>1, <2>2 DEF YoungBreakers
  <2>4. QED
    BY <2>3 DEF YoungBreakers, LiveAt
<1>9. /\ IsFiniteSet(SignalsOn(bars, out, k))
      /\ FiresOn(bars, out, k) \subseteq LiveAt(bars, out, k)
  BY <1>1, FiresOnOne
<1>10. \A b : b \in YoungBreakers(BreakersUpTo(bars, n), k) /\ b \notin GivenIn(out) <=> b \in LiveAt(bars, out, k)
  BY DEF LiveAt
<1>11. BreakerBar(bars) =
        IF k < FirstDecision \/ RangeSum(bars, k) = 0 THEN [mem |-> mem, finds |-> <<>>]
        ELSE [mem |-> [mem EXCEPT !.blocks = known \ broken, !.breakers = breakers \ fires],
              finds |-> finds]
  BY <1>1 DEF BreakerBar
<1>12. out' = out \o BreakerBar(bars).finds /\ mem' = BreakerBar(bars).mem
  BY DEF BreakerStep
<1>13. CASE k < FirstDecision \/ RangeSum(bars, k) = 0
  <2>1. mem' = mem /\ out' = out \o <<>>
    <3> DEFINE r == [mem |-> mem, finds |-> <<>>]
    <3>1. r.mem = mem /\ r.finds = <<>>
      OBVIOUS
    <3>2. BreakerBar(bars) = r
      BY <1>11, <1>13
    <3> HIDE DEF r
    <3>3. QED
      BY <1>12, <3>1, <3>2
  <2> HIDE DEF n, known, live, broken, breakers, fires, finds
  <2>2. BreakersUpTo(bars, k) = BreakersUpTo(bars, n) /\ Unbroken(bars, k) = Unbroken(bars, n)
    <3>1. CASE k < FirstDecision
      <4>1. BreakersUpTo(bars, k) = {} /\ Unbroken(bars, k) = {}
        BY <1>1, <3>1, BlocksNone
      <4>2. n \in Int /\ n < FirstDecision
        BY <1>1, <3>1, DecisionsLookBack
      <4>3. BreakersUpTo(bars, n) = {} /\ Unbroken(bars, n) = {}
        BY <4>2, BlocksNone
      <4>4. QED
        BY <4>1, <4>3
    <3>2. CASE ~(k < FirstDecision)
      <4>1. k \in Int /\ k >= FirstDecision /\ k \in DOMAIN bars /\ RangeSum(bars, k) = 0
        BY <1>1, <1>13, <3>2, DecisionsLookBack, BreakerLooksBack
      <4>2. BrokenOn(bars, k) = {} /\ Unbroken(bars, k) = Unbroken(bars, k - 1)
        BY <1>1, <4>1, FlatBreaksNone
      <4>3. BreakersUpTo(bars, k) = BreakersUpTo(bars, k - 1) \cup BrokenOn(bars, k)
        BY <4>1, BlocksNext
      <4>4. QED
        BY <4>2, <4>3 DEF n
    <3>3. QED
      BY <3>1, <3>2
  <2>3. {b \in LiveAt(bars, out, k) : TurnsAway(bars, k, b)} = {}
    <3>1. CASE k < FirstDecision
      <4>1. BreakersUpTo(bars, k) = {}
        BY <1>1, <3>1, BlocksNone
      <4>2. QED
        BY <1>10, <2>2, <4>1 DEF YoungBreakers
    <3>2. CASE ~(k < FirstDecision)
      <4>1. k \in Int /\ k >= FirstDecision /\ k \in DOMAIN bars /\ RangeSum(bars, k) = 0
        BY <1>1, <1>13, <3>2, DecisionsLookBack, BreakerLooksBack
      <4>2. \A b : b.side \in Sides => ~TurnsAway(bars, k, b)
        BY <1>1, <4>1, FlatIs
      <4>3. \A b \in LiveAt(bars, out, k) : b.side \in Sides
        BY <1>6, <1>10 DEF YoungBreakers
      <4>4. QED
        BY <4>2, <4>3
    <3>3. QED
      BY <3>1, <3>2
  <2>4. FiresOn(bars, out, k) = {} /\ SignalsOn(bars, out, k) = {}
    BY <2>3 DEF FiresOn, Oldest, SignalsOn
  <2>5. YoungBreakers(mem.breakers, k) = {b \in YoungBreakers(BreakersUpTo(bars, k), k) : b \notin GivenIn(out)}
    BY <1>8, <2>2 DEF LiveAt, n
  <2>6. QED
    BY <1>4, <1>7, <2>1, <2>2, <2>4, <2>5, NoneLists
<1>14. CASE ~(k < FirstDecision \/ RangeSum(bars, k) = 0)
  <2>1. k \in Int /\ k >= FirstDecision /\ k \in DOMAIN bars
    BY <1>1, <1>14, DecisionsLookBack, BreakerLooksBack
  <2>2. known = YoungBlocks(Unbroken(bars, n), k) \cup Blocks(bars, k) /\ live = LiveAt(bars, out, k)
    BY <1>7, <1>8 DEF YoungBlocks, YoungBreakers
  <2>3. /\ {[b EXCEPT !.broke = k] : b \in broken} = BrokenOn(bars, k)
        /\ known \ broken = YoungBlocks(Unbroken(bars, k), k)
    <3>1. known = YoungBlocks(Unbroken(bars, k - 1), k) \cup Blocks(bars, k)
      BY <2>2
    <3> HIDE DEF known, n
    <3>2. QED
      BY <1>1, <2>1, <3>1, BrokenIs
  <2> DEFINE blocks2 == known \ broken
             breakers2 == breakers \ fires
  <2>4. out' = out \o finds /\ mem' = [mem EXCEPT !.blocks = blocks2, !.breakers = breakers2]
    <3> DEFINE after == [mem EXCEPT !.blocks = blocks2, !.breakers = breakers2]
               r == [mem |-> after, finds |-> finds]
    <3>1. BreakerBar(bars) = r
      BY <1>11, <1>14
    <3> HIDE DEF known, broken, breakers, fires, finds, after
    <3>2. r.mem = after /\ r.finds = finds
      OBVIOUS
    <3> HIDE DEF r
    <3>3. mem' = after /\ out' = out \o finds
      BY <1>12, <3>1, <3>2
    <3>4. QED
      BY <3>3 DEF after
  <2> HIDE DEF known, live, broken
  <2>5. breakers = LiveAt(bars, out, k) \cup BrokenOn(bars, k)
    BY <2>2, <2>3
  <2>6. \A b \in BrokenOn(bars, k) : b.broke = k
    <3>1. \A c \in BlocksUpTo(bars, k) : [c EXCEPT !.broke = k].broke = k
      <4>1. \A c \in BlocksUpTo(bars, k) : c \in BlockRecord
        BY <1>1, <2>1, BlockIs
      <4>2. QED
        BY <4>1 DEF BlockRecord
    <3>2. QED
      BY <3>1 DEF BrokenOn
  <2> HIDE DEF breakers
  <2>7. fires = FiresOn(bars, out, k)
    <3>1. \A b : b \in breakers /\ TurnsAway(bars, k, b) <=> b \in LiveAt(bars, out, k) /\ TurnsAway(bars, k, b)
      <4>1. \A b \in BrokenOn(bars, k) : ~TurnsAway(bars, k, b)
        BY <1>1, <2>6 DEF TurnsAway
      <4>2. QED
        BY <2>5, <4>1
    <3>2. {b \in breakers : TurnsAway(bars, k, b)} = {b \in LiveAt(bars, out, k) : TurnsAway(bars, k, b)}
      BY <3>1
    <3>3. QED
      BY <3>2 DEF FiresOn
  <2> HIDE DEF fires
  <2>8. Lists(finds, SignalsOn(bars, out, k))
    <3>1. {BreakerSignal(bars, k, b) : b \in fires} = SignalsOn(bars, out, k)
      BY <2>7 DEF SignalsOn
    <3>2. finds = SetToSeq(SignalsOn(bars, out, k))
      BY <3>1
    <3>3. QED
      BY <1>9, <3>2, SetLists
  <2> HIDE DEF finds, blocks2, breakers2
  <2>9. /\ mem'.times = mem.times /\ mem'.past = mem.past /\ {"times", "past"} \subseteq DOMAIN mem'
        /\ mem'.blocks = blocks2 /\ mem'.breakers = breakers2
    BY <1>4, <2>4
  <2>10. YoungBlocks(blocks2, k) = YoungBlocks(Unbroken(bars, k), k)
    <3>1. blocks2 = YoungBlocks(Unbroken(bars, k), k)
      BY <2>3 DEF blocks2
    <3>2. QED
      BY <3>1 DEF YoungBlocks
  <2>11. YoungBreakers(breakers2, k)
           = {b \in YoungBreakers(BreakersUpTo(bars, k), k) : b \notin GivenIn(out) \cup FiresOn(bars, out, k)}
    <3>1. BreakersUpTo(bars, k) = BreakersUpTo(bars, n) \cup BrokenOn(bars, k)
      BY <2>1, BlocksNext
    <3>2. ASSUME NEW b \in BrokenOn(bars, k)
          PROVE  k - b.broke <= BreakerMaxAge /\ b \notin GivenIn(out) /\ b \notin FiresOn(bars, out, k)
      <4>1. b.broke = k /\ k - k <= BreakerMaxAge
        BY <1>1, <2>6, BreakerLooksBack
      <4>2. \A x \in GivenIn(out) : x.broke < k
        <5>1. \A i \in DOMAIN out : out[i].of.broke < k
          <6>1. EnterAfter(out, n)
            BY DEF BreakerFound
          <6>2. QED
            BY <1>1, <6>1 DEF EnterAfter
        <5>2. QED
          BY <5>1 DEF GivenIn
      <4>3. \A x \in FiresOn(bars, out, k) : x.broke < k
        BY <1>1, <1>6, <1>9, <1>10 DEF YoungBreakers
      <4>4. QED
        BY <1>1, <4>1, <4>2, <4>3
    <3>3. \A b : b \in breakers2 /\ k - b.broke <= BreakerMaxAge
                 <=> /\ b \in BreakersUpTo(bars, k) /\ k - b.broke <= BreakerMaxAge
                     /\ b \notin GivenIn(out) \cup FiresOn(bars, out, k)
      <4>1. \A b : b \in breakers2 <=> b \in LiveAt(bars, out, k) \cup BrokenOn(bars, k) /\ b \notin FiresOn(bars, out, k)
        BY <2>5, <2>7 DEF breakers2
      <4>2. \A b : b \in LiveAt(bars, out, k) <=>
                     b \in BreakersUpTo(bars, n) /\ k - b.broke <= BreakerMaxAge /\ b \notin GivenIn(out)
        BY DEF LiveAt, YoungBreakers
      <4>3. QED
        BY <3>1, <3>2, <4>1, <4>2
    <3>4. QED
      BY <3>3 DEF YoungBreakers
  <2>12. QED
    BY <2>4, <2>8, <2>9, <2>10, <2>11
<1>15. QED
  BY <1>13, <1>14

\* A bar adds what it fires.
LEMMA BreakerFoundGoesOn == BreakerFound /\ BreakerStep => BreakerFound'
<1> SUFFICES ASSUME BreakerFound, BreakerStep PROVE BreakerFound'
  OBVIOUS
<1> DEFINE k == Len(tape)
<1>1. /\ tape' \in Seq(Ohlc) /\ tape \in Seq(Ohlc) /\ k \in Nat /\ Len(tape') = k + 1
      /\ DOMAIN tape' = 1..(k + 1) /\ \A j \in DOMAIN tape : tape'[j] = tape[j]
      /\ DOMAIN tape = 1..k /\ Len(tape') - 1 = k
  BY NextTape DEF BreakerFound, BreakerInv, BreakerStep, PriceStudies
<1>2. /\ mem'.times = mem.times /\ mem'.past = mem.past /\ {"times", "past"} \subseteq DOMAIN mem'
      /\ YoungBlocks(mem'.blocks, k) = YoungBlocks(Unbroken(tape', k), k)
      /\ YoungBreakers(mem'.breakers, k)
           = {b \in YoungBreakers(BreakersUpTo(tape', k), k) :
                b \notin GivenIn(out) \cup FiresOn(tape', out, k)}
      /\ \E e : out' = out \o e /\ Lists(e, SignalsOn(tape', out, k))
  BY BreakerDoes
<1>3. PICK e : out' = out \o e /\ Lists(e, SignalsOn(tape', out, k))
  BY <1>2
<1>4. Appends(tape, tape', out, e, k)
  <2>1. Alike(tape, tape', k) /\ k + 1 <= Len(tape')
    BY <1>1 DEF Alike
  <2>2. IsList(out)
    BY DEF BreakerFound, BreakerInv, FairList
  <2>3. QED
    BY <1>3, <2>1, <2>2 DEF BreakerFound, Appends
<1>5. /\ EnterOnce(out') /\ EnterAfter(out', k) /\ FireInTurn(tape', out', k)
      /\ GivenIn(out') = GivenIn(out) \cup FiresOn(tape', out, k)
  BY <1>3, <1>4, AppendsOn
<1> HIDE DEF k
<1>6. Len(tape') - 1 = k
  BY <1>1
<1>7. \A bars, j, b : (TurnsAway(bars, j, b))' <=> TurnsAway(bars, j, b)
  BY <1>2 DEF TurnsAway, InSession, Weekday, Hour, DayOf, Slot
<1>8. \A j : (ReadyOn(tape, out, j))' = ReadyOn(tape', out', j)
  BY <1>7 DEF ReadyOn
<1>9. (FireInTurn(tape, out, Len(tape) - 1))'
  BY <1>5, <1>6, <1>8 DEF FireInTurn
<1>10. (EnterOnce(out) /\ EnterAfter(out, Len(tape) - 1))'
  BY <1>5, <1>6
<1>11. (YoungBlocks(mem.blocks, Len(tape) - 1) = YoungBlocks(Unbroken(tape, Len(tape) - 1), Len(tape) - 1))'
  BY <1>2, <1>6
<1>12. (YoungBreakers(mem.breakers, Len(tape) - 1)
         = {b \in YoungBreakers(BreakersUpTo(tape, Len(tape) - 1), Len(tape) - 1) : b \notin GivenIn(out)})'
  BY <1>2, <1>5, <1>6
<1>13. BreakerInv'
  BY BreakerGoesOn DEF BreakerFound
<1>14. QED
  BY <1>2, <1>9, <1>10, <1>11, <1>12, <1>13 DEF BreakerFound

-----------------------------------------------------------------------------
(***************************************************************************)
(* All of them.                                                            *)
(***************************************************************************)
\* What the invariants read of the clock and of the bars before the tape stays the same
\* with the memory.
LEMMA TimesRest ==
    ASSUME mem' = mem
    PROVE  /\ \A k : (Slot(k))' = Slot(k) /\ (Hour(k))' = Hour(k) /\ (InSession(k))' = InSession(k)
           /\ \A k : (DayOf(k))' = DayOf(k) /\ (Weekday(k))' = Weekday(k) /\ (SessionId(k))' = SessionId(k)
           /\ \A k : (EventsOf(k))' = EventsOf(k) /\ (InLondon(k))' = InLondon(k)
           /\ \A b, k : (HigherOpened(b, k))' = HigherOpened(b, k)
<1>1. \A k : (Slot(k))' = Slot(k)
  BY DEF Slot
<1>2. \A k : (Hour(k))' = Hour(k) /\ (DayOf(k))' = DayOf(k)
  BY <1>1 DEF Hour, DayOf
<1>3. \A k : (Weekday(k))' = Weekday(k)
  BY <1>2 DEF Weekday
<1>4. \A k : (InSession(k))' = InSession(k) /\ (SessionId(k))' = SessionId(k) /\ (InLondon(k))' = InLondon(k)
  BY <1>2, <1>3 DEF InSession, SessionId, InLondon
<1>5. \A k : (EventsOf(k))' = EventsOf(k)
  BY <1>1 DEF EventsOf
<1>6. \A b, k : (HigherOpened(b, k))' = HigherOpened(b, k)
  BY DEF HigherOpened
<1>7. QED
  BY <1>1, <1>2, <1>3, <1>4, <1>5, <1>6

\* With it the fades and the sigma entries,
LEMMA FadesRest ==
    ASSUME mem' = mem, tape' = tape, out' = out
    PROVE  (NewsFound => NewsFound') /\ (SigmaFound => SigmaFound')
<1>1. \A b, s : (FadesOn(b, s))' = FadesOn(b, s)
  BY TimesRest DEF FadesOn
<1>2. \A b, n : (FadesUpTo(b, n))' = FadesUpTo(b, n)
  BY <1>1 DEF FadesUpTo
<1>3. NewsInv' <=> NewsInv
  BY DEF NewsInv
<1>4. NewsFound => NewsFound'
  BY <1>2, <1>3 DEF NewsFound
<1>5. \A b, k, a : (SigmaSignals(b, k, a))' = SigmaSignals(b, k, a)
  BY TimesRest DEF SigmaSignals
<1>6. \A b, k : (SigmaOn(b, k))' = SigmaOn(b, k)
  BY <1>5 DEF SigmaOn
<1>7. \A b, n : (SigmaUpTo(b, n))' = SigmaUpTo(b, n)
  BY <1>6 DEF SigmaUpTo
<1>8. SigmaInv' <=> SigmaInv
  BY DEF SigmaInv
<1>9. SigmaFound => SigmaFound'
  BY <1>7, <1>8 DEF SigmaFound
<1>10. QED
  BY <1>4, <1>9

\* the sweeps,
LEMMA SweepsRest == ASSUME mem' = mem, tape' = tape, out' = out PROVE SweepsFound => SweepsFound'
<1>1. \A k : (BeforeInSession(k))' = BeforeInSession(k) /\ (InSessionUpTo(k))' = InSessionUpTo(k)
  BY TimesRest DEF BeforeInSession, InSessionUpTo
<1>2. \A b, k : (HtfSwingBias(b, k))' = HtfSwingBias(b, k)
  BY TimesRest DEF HtfSwingBias
<1>3. \A b, k, x : (SweepSignals(b, k, x))' = SweepSignals(b, k, x)
  BY <1>2, TimesRest DEF SweepSignals
<1>4. \A b, k : (SweepAt(b, k))' = SweepAt(b, k)
  BY <1>1, <1>3 DEF SweepAt
<1>5. \A b, k : (SweepOn(b, k))' = SweepOn(b, k)
  BY <1>4, TimesRest DEF SweepOn
<1>6. \A b, n : (SweepUpTo(b, n))' = SweepUpTo(b, n)
  BY <1>5 DEF SweepUpTo
<1>7. SweepInv' <=> SweepInv
  BY DEF SweepInv
<1>8. QED
  BY <1>1, <1>6, <1>7, TimesRest DEF SweepsFound

\* the breaks of the Asian range,
LEMMA AsiaRests == ASSUME mem' = mem, tape' = tape, out' = out PROVE AsiaFound => AsiaFound'
<1>1. \A k : (AsiaBars(k))' = AsiaBars(k)
  BY TimesRest DEF AsiaBars
<1>2. \A b, k, s : (AsiaLow(b, k, s))' = AsiaLow(b, k, s) /\ (AsiaHigh(b, k, s))' = AsiaHigh(b, k, s)
  BY <1>1 DEF AsiaLow, AsiaHigh
<1>3. \A b, k, s : (ClosesOut(b, k, s))' = ClosesOut(b, k, s)
  BY <1>2 DEF ClosesOut
<1>4. \A b, k, s : (AsiaRun(b, k, s))' = AsiaRun(b, k, s) /\ (Jumped(b, k, s))' = Jumped(b, k, s)
  BY <1>1, <1>3, TimesRest DEF AsiaRun, Jumped
<1>5. \A b, i, k, s : (BeginsBreak(b, i, k, s))' = BeginsBreak(b, i, k, s)
  BY <1>4 DEF BeginsBreak
<1>6. \A b, k, s, x : (AsiaTrade(b, k, s, x))' = AsiaTrade(b, k, s, x)
  BY <1>2, TimesRest DEF AsiaTrade
<1>7. \A b, i, k, s : (AsiaTradeFrom(b, i, k, s))' = AsiaTradeFrom(b, i, k, s)
  BY <1>6 DEF AsiaTradeFrom
<1>8. \A b, k, s : (EndsBreak(b, k, s))' = EndsBreak(b, k, s)
  BY <1>1, <1>3, <1>4, <1>7, TimesRest DEF EndsBreak
<1>9. \A b, s : (AsiaGood(b, s))' = AsiaGood(b, s)
  BY <1>1, <1>4, <1>5, <1>7, TimesRest DEF AsiaGood
<1>10. \A b, q, k, s : (NotPassed(b, q, k, s))' = NotPassed(b, q, k, s)
  BY <1>4, <1>8, TimesRest DEF NotPassed
<1>11. \A b, q, n : (AsiaSignals(b, q, n))' = AsiaSignals(b, q, n)
  BY <1>9, <1>10 DEF AsiaSignals
<1>12. \A b, k, m : (AsiaReady(b, k, m))' = AsiaReady(b, k, m)
  <2> SUFFICES ASSUME NEW b, NEW k, NEW m PROVE (AsiaReady(b, k, m))' = AsiaReady(b, k, m)
    OBVIOUS
  <2> DEFINE Least(i) == Min({Facing(b[j], m.side).l : j \in i..(k - 1)})
  <2>1. AsiaReady(b, k, m) <=>
          /\ DayMemory(m)
          /\ ~m.fired =>
              /\ m.side # 0 =>
                   /\ k > 1 /\ AsiaBars(k - 1) # {}
                   /\ \E i \in AsiaRun(b, k, m.side) : BeginsBreak(b, i, k, m.side) /\ m.extreme = Least(i)
              /\ m.side = 0 =>
                   \A s \in Sides :
                     (/\ k > 1 /\ AsiaBars(k - 1) # {} /\ InLondon(k - 1) /\ DayOf(k - 1) = DayOf(k)
                      /\ ClosesOut(b, k - 1, s)) => Jumped(b, k - 1, s)
    BY DEF AsiaReady
  <2>2. (AsiaReady(b, k, m))' <=>
          /\ DayMemory(m)
          /\ ~m.fired =>
              /\ m.side # 0 =>
                   /\ k > 1 /\ (AsiaBars(k - 1))' # {}
                   /\ \E i \in (AsiaRun(b, k, m.side))' : (BeginsBreak(b, i, k, m.side))' /\ m.extreme = Least(i)
              /\ m.side = 0 =>
                   \A s \in Sides :
                     (/\ k > 1 /\ (AsiaBars(k - 1))' # {} /\ (InLondon(k - 1))' /\ (DayOf(k - 1))' = (DayOf(k))'
                      /\ (ClosesOut(b, k - 1, s))') => (Jumped(b, k - 1, s))'
    BY DEF AsiaReady
  <2> HIDE DEF Least
  <2>3. (AsiaReady(b, k, m))' <=> AsiaReady(b, k, m)
    BY <1>1, <1>3, <1>4, <1>5, TimesRest, <2>1, <2>2
  <2>4. (AsiaReady(b, k, m))' \in BOOLEAN /\ AsiaReady(b, k, m) \in BOOLEAN
    BY DEF AsiaReady
  <2>5. QED
    BY <2>3, <2>4
<1>13. AsiaInv' <=> AsiaInv
  BY DEF AsiaInv
<1>14. QED
  BY <1>11, <1>12, <1>13, TimesRest DEF AsiaFound

\* the gaps,
LEMMA GapsRest == ASSUME mem' = mem, tape' = tape, out' = out PROVE InverseFound => InverseFound'
<1>1. \A b, k : (HtfMomentum(b, k))' = HtfMomentum(b, k)
  BY TimesRest DEF HtfMomentum
<1>2. \A b, k, g : (Retested(b, k, g))' = Retested(b, k, g)
  BY <1>1, TimesRest DEF Retested
<1>3. \A b, g, k : (MayFire(b, g, k))' = MayFire(b, g, k)
  BY <1>2 DEF MayFire
<1>4. \A b, g, k : (Unfired(b, g, k))' = Unfired(b, g, k)
  BY <1>3 DEF Unfired
<1>5. \A b, k : (WatchedAt(b, k))' = WatchedAt(b, k) /\ (Firing(b, k))' = Firing(b, k)
  BY <1>3, <1>4 DEF WatchedAt, Firing
<1>6. \A b, k : (ZonesBefore(b, k))' = ZonesBefore(b, k) /\ (FiredOn(b, k))' = FiredOn(b, k)
  BY <1>5 DEF ZonesBefore, FiredOn
<1>7. \A b, n : (FiredUpTo(b, n))' = FiredUpTo(b, n)
  BY <1>6 DEF FiredUpTo
<1>8. InverseInv' <=> InverseInv
  BY DEF InverseInv
<1>9. QED
  BY <1>6, <1>7, <1>8 DEF InverseFound

\* and the breakers.
LEMMA BreakersRest == ASSUME mem' = mem, tape' = tape, out' = out PROVE BreakerFound => BreakerFound'
<1>1. \A b, k, x : (TurnsAway(b, k, x))' = TurnsAway(b, k, x)
  BY TimesRest DEF TurnsAway
<1>2. \A b, q, k : (ReadyOn(b, q, k))' = ReadyOn(b, q, k)
  BY <1>1 DEF ReadyOn
<1>3. \A b, q, n : (FireInTurn(b, q, n))' = FireInTurn(b, q, n)
  BY <1>2 DEF FireInTurn
<1>4. BreakerInv' <=> BreakerInv
  BY DEF BreakerInv
<1>5. QED
  BY <1>3, <1>4 DEF BreakerFound

\* What every study has found is what its tape holds.
FoundLab ==
    /\ CausalLab
    /\ study = "inverse" => InverseFound
    /\ study = "sweep" => SweepsFound
    /\ study = "breaker" => BreakerFound
    /\ study = "news" => NewsFound
    /\ study = "asia" => AsiaFound
    /\ study = "sigma" => SigmaFound

\* So it is at the start,
LEMMA FoundLabBegins == InitLab => FoundLab
<1> SUFFICES ASSUME InitLab PROVE FoundLab
  OBVIOUS
<1>1. Begin /\ CausalLab
  BY EachBegins, CausalLabBegins
<1>2. /\ study = "inverse" => InverseFound
      /\ study = "sweep" => SweepsFound
      /\ study = "breaker" => BreakerFound
  BY <1>1, InverseFoundBegins, SweepsFoundBegins, BreakerFoundBegins DEF Begin
<1>3. /\ study = "news" => NewsFound
      /\ study = "asia" => AsiaFound
      /\ study = "sigma" => SigmaFound
  BY <1>1, NewsFoundBegins, AsiaFoundBegins, SigmaFoundBegins DEF Begin
<1>4. QED
  BY <1>1, <1>2, <1>3 DEF FoundLab

\* after every step,
LEMMA FoundLabGoesOn == FoundLab /\ NextLab => FoundLab'
<1> SUFFICES ASSUME FoundLab, NextLab PROVE FoundLab'
  OBVIOUS
<1>1. GoOn /\ CausalLab'
  BY EachGoesOn, CausalLabGoesOn DEF FoundLab
<1>2. study' = study
  BY <1>1 DEF GoOn
<1>3. /\ study = "inverse" => InverseFound'
      /\ study = "sweep" => SweepsFound'
      /\ study = "breaker" => BreakerFound'
  BY <1>1, InverseFoundGoesOn, SweepsFoundGoesOn, BreakerFoundGoesOn DEF GoOn, FoundLab
<1>4. /\ study = "news" => NewsFound'
      /\ study = "asia" => AsiaFound'
      /\ study = "sigma" => SigmaFound'
  BY <1>1, NewsFoundGoesOn, AsiaFoundGoesOn, SigmaFoundGoesOn DEF GoOn, FoundLab
<1>5. QED
  BY <1>1, <1>2, <1>3, <1>4 DEF FoundLab

\* and while nothing happens.
LEMMA FoundLabRests == FoundLab /\ UNCHANGED vars => FoundLab'
<1> SUFFICES ASSUME FoundLab, UNCHANGED vars PROVE FoundLab'
  OBVIOUS
<1>1. study' = study /\ tape' = tape /\ mem' = mem /\ out' = out
  BY DEF vars
<1>2. CausalLab'
  BY CausalLabRests DEF FoundLab
<1>3. QED
  BY <1>1, <1>2, FadesRest, SweepsRest, AsiaRests, GapsRest, BreakersRest DEF FoundLab

\* Then the setups of the tape are what has been found.
LEMMA FoundHappened == FoundLab => SetupsHappened
<1> SUFFICES ASSUME FoundLab PROVE SetupsHappened
  OBVIOUS
<1>1. study = "inverse" => FoundAre(InverseSetups)
  BY InverseSetupsAre DEF FoundLab, InverseFound, Lists, FoundAre
<1>2. study = "sweep" => FoundAre(SweepSetups)
  BY SweepSetupsAre DEF FoundLab, SweepsFound, Lists, FoundAre
<1>3. study = "news" => FoundAre(NewsSetups)
  BY FadesAreSetups DEF FoundLab, NewsFound, Lists, FoundAre
<1>4. study = "sigma" => FoundAre(SigmaSetups)
  BY SigmaSetupsAre DEF FoundLab, SigmaFound, Lists, FoundAre
<1>5. DetectorsFind
  BY <1>1, <1>2, <1>3, <1>4, BreakersFound, AsiaFoundFires DEF FoundLab, DetectorsFind
<1>6. CrossesOnce
  BY CrossingsAreSingle DEF FoundLab, CausalLab, CrossesOnce
<1>7. PortAgrees
  BY PortFollows DEF FoundLab, CausalLab, PortAgrees
<1>8. QED
  BY <1>5, <1>6, <1>7 DEF SetupsHappened

\* Every signal stands for a setup that happened on the tape, and every setup of the tape is
\* found on its bar, once; what asks for a crossing asks once; the port agrees.
THEOREM WhatHappenedIsFound == SpecLab => []SetupsHappened
<1>1. FoundLab /\ [NextLab]_vars => FoundLab'
  BY FoundLabGoesOn, FoundLabRests
<1>2. QED
  BY <1>1, FoundLabBegins, FoundHappened, PTL DEF SpecLab

=============================================================================
