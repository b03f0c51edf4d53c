-------------------------------- MODULE Bars --------------------------------
(***************************************************************************)
(* What the backtests and the signal detectors share: a tape of OHLC bars   *)
(* that they walk bar by bar, from its first to its last (Length).  A run of *)
(* one program over one tape is a study.  The loops keep their lists and     *)
(* flags in mem and append what they find to out.  One step of a study is    *)
(* one iteration of its loop: it appends a bar and handles it.               *)
(* Prices are small integers.  The two directions of a trade are mirror      *)
(* images, and the code writes each of them out: Facing turns a bar round so *)
(* that a rule for buying is the rule for selling as well.                   *)
(*                                                                         *)
(* Bar i of a detector's tape opens in the half hour mem.times[i], counted  *)
(* from Monday 00:00 UTC; bars may be missing.  Where a higher time frame is *)
(* used none is, two bars make one of it, and mem.past are its bars before   *)
(* the tape.  A detector decides on bar k, for an entry at the open of bar   *)
(* k + 1: its step for k is taken when that bar is on the tape, and on the   *)
(* last bar of the data it only clears up.                                   *)
(***************************************************************************)
EXTENDS Integers, Sequences, FiniteSetsExt, SequencesExt

CONSTANTS
    Shapes,     \* for every study, the bars that its tape is made of
    Length,     \* for every study, the number of bars of its tape
    Times,      \* for every study, the sequences of half hours its bars may open in
    Pasts       \* for every study, the earlier bars of the higher time frame

ASSUME TapesAreFinite == \A s \in DOMAIN Length : Length[s] \in Nat

\* The open and the close of a bar lie between its low and its high.
Ohlc == {b \in [o : Int, h : Int, l : Int, c : Int] :
            b.l <= b.o /\ b.o <= b.h /\ b.l <= b.c /\ b.c <= b.h}

\* The studies of prices, and those with earlier bars of one longer time frame.
PriceStudies == {"inverse", "sweep", "ote", "breaker", "news", "asia", "sigma", "book",
                 "var1", "var2", "micro", "ict", "crypto", "breakout"}
HigherStudies == {"inverse", "sweep", "ote", "breakout"}

ASSUME DataAreBars ==
    /\ \A s \in PriceStudies : Shapes[s] \subseteq Ohlc
    /\ \A s \in HigherStudies : Pasts[s] \subseteq Seq(Ohlc)

\* The studies that go by the time of their bars: the rows of their data are sorted.
TimedStudies == {"news", "asia", "crypto"}

ASSUME FrameIsSorted ==
    \A s \in TimedStudies :
        /\ Length[s] \in Nat
        /\ \A times \in Times[s] :
             /\ \A i \in 1..Length[s] : i \in DOMAIN times /\ times[i] \in Nat
             /\ \A i, j \in 1..Length[s] : i < j => times[i] < times[j]

VARIABLES
    study,  \* the program that is run
    tape,   \* the bars handled so far
    mem,    \* the local variables of its loop
    out     \* its results: signals, or trades

vars == <<study, tape, mem, out>>

Sides == {1, -1}

\* A bar as the side sees it: -1 turns prices round.
Facing(bar, side) ==
    IF side = 1 THEN bar
    ELSE [o |-> -bar.o, h |-> -bar.l, l |-> -bar.h, c |-> -bar.c]

Highs(bars) == {bars[i].h : i \in DOMAIN bars}
Lows(bars) == {bars[i].l : i \in DOMAIN bars}
Abs(x) == IF x < 0 THEN -x ELSE x

\* A record with the fields of another one that it lacks.
With(record, more) ==
    [field \in DOMAIN record \cup DOMAIN more |->
        IF field \in DOMAIN record THEN record[field] ELSE more[field]]

\* a to the n-th.
Power(a, n) == LET p[i \in 0..n] == IF i = 0 THEN 1 ELSE a * p[i - 1] IN p[n]

SumOver(indices, Value(_)) == SumFunction([i \in indices |-> Value(i)])

\* The tape moves on by one bar.
NextBar(s) ==
    /\ study = s
    /\ Len(tape) < Length[s]
    /\ \E bar \in Shapes[s] : tape' = Append(tape, bar)
    /\ UNCHANGED study

Finished(s) == study = s /\ Len(tape) = Length[s]

\* A mutant of Touch: the target first.
TouchHopeful(side, sl, tp, bar) ==
    IF Facing(bar, side).h >= side * tp THEN "TP"
    ELSE IF Facing(bar, side).l <= side * sl THEN "SL"
    ELSE "none"

\* What ends a trade in a bar: of a stop and a target in one bar, the stop.
Touch(side, sl, tp, bar) ==
    IF Facing(bar, side).l <= side * sl THEN "SL"
    ELSE IF Facing(bar, side).h >= side * tp THEN "TP"
    ELSE "none"

-----------------------------------------------------------------------------
SlotsOfDay == 48
Slot(i) == mem.times[i]
Hour(i) == (Slot(i) \div 2) % 24
DayOf(i) == Slot(i) \div SlotsOfDay
Weekday(i) == DayOf(i) % 7 < 5

\* Distance from a price to a zone.
DistanceTo(price, lo, hi) ==
    IF lo <= price /\ price <= hi THEN 0 ELSE Min({Abs(price - lo), Abs(price - hi)})

\* London and New York, by the hour that the bar opens in.
SessionHours == 7..10 \cup 12..15
InSession(i) == Weekday(i) /\ Hour(i) \in SessionHours

TrueRange(bars, i) ==
    IF i = 1 THEN bars[1].h - bars[1].l
    ELSE Max({bars[i].h - bars[i].l, Abs(bars[i].h - bars[i - 1].c), Abs(bars[i].l - bars[i - 1].c)})

\* A signal: the entry is at the open of bar entry.  What the setup is known by
\* (of) is not in the code.
Signal(side, entry, sl, tp, of) ==
    [side |-> side, entry |-> entry, sl |-> sl, tp |-> tp, of |-> of]

\* Bar j of the higher time frame, within the tape.
HigherBar(bars, j) ==
    LET both == {2 * j - 1, 2 * j} \cap DOMAIN bars
    IN  [o |-> bars[2 * j - 1].o, h |-> Max({bars[i].h : i \in both}),
         l |-> Min({bars[i].l : i \in both}), c |-> bars[Max(both)].c]

\* The higher time frame: the bars that have opened before bar i, and those
\* that have closed when it opens.
HigherOpened(bars, i) == mem.past \o [j \in 1..(i \div 2) |-> HigherBar(bars, j)]
HigherClosed(bars, i) == mem.past \o [j \in 1..((i - 1) \div 2) |-> HigherBar(bars, j)]

\* Bars as the side sees them.
FacingAll(bars, side) == [i \in DOMAIN bars |-> Facing(bars[i], side)]

\* The last n elements of a sequence, or all of them.
LastOf(seq, n) == SubSeq(seq, Max({1, Len(seq) - n + 1}), Len(seq))

\* A tape of minutes: two of them make a bar of five minutes, four a quarter.
FiveMinutes == 2
Quarter == 4

\* Bar j of so many minutes, as far as the tape has it.
BarOf(bars, j, width) ==
    LET minutes == (((j - 1) * width + 1)..(j * width)) \cap DOMAIN bars
    IN  [o |-> bars[Min(minutes)].o, h |-> Max({bars[i].h : i \in minutes}),
         l |-> Min({bars[i].l : i \in minutes}), c |-> bars[Max(minutes)].c,
         t |-> Slot(Min(minutes))]

\* The history before the tape and so many bars of it.
Series(past, bars, width, count) ==
    [i \in DOMAIN past |-> With([t |-> Slot(1) - width * (Len(past) + 1 - i)], past[i])]
        \o [j \in 1..count |-> BarOf(bars, j, width)]

\* The bars of so many minutes that have begun by minute k, with all the minutes
\* that the tape has of them.
BegunBy(past, bars, width, k) == Series(past, bars, width, (k + width - 1) \div width)

StartStudy(s, memory) ==
    /\ study = s
    /\ tape = <<>>
    /\ out = <<>>
    /\ \E times \in Times[s], past \in Pasts[s] :
         mem = With([times |-> times, past |-> past], memory)

=============================================================================
