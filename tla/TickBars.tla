------------------------------ MODULE TickBars ------------------------------
(***************************************************************************)
(* From cached ticks to the bars of the research: build_bars() and resample, *)
(* the split into data in sample and held out, and the audit of the ticks.   *)
(* An element of the tape of this study is a tick: the time since the one    *)
(* before it (before the first, since hour Slot(1)) and its price.  Times    *)
(* count hours from Monday 00:00 UTC; ticks of one time come in every order. *)
(***************************************************************************)
EXTENDS Bars

CONSTANTS
    Frames,     \* the lengths of the bars that are built, each a part of the next
    Span,       \* the days in sample and the days held out: first and last of each
    Files       \* the first and the last file that are read for each

Day == 24
AllSplits == {"is", "oos"}

ASSUME HeldOutIsLater ==
    /\ \A f \in Frames : f > 0 /\ Day % f = 0
    /\ Span["is"].last + 1 = Span["oos"].first

\* A file of a day begins in the evening before it.
FileOf(tick) == (tick.t + 6) \div Day

TicksOf(steps) ==
    [i \in DOMAIN steps |->
        [t |-> Slot(1) + FoldLeft(LAMBDA sum, s : sum + s.gap, 0, SubSeq(steps, 1, i)),
         p |-> steps[i].p]]

LoadTicks(ticks, files) == SelectSeq(ticks, LAMBDA tick : FileOf(tick) \in files.first..files.last)

\* Of equal ticks the first one stays.
Deduplicated(ticks) ==
    FoldLeft(LAMBDA kept, tick : IF tick \in Range(kept) THEN kept ELSE Append(kept, tick), <<>>, ticks)

\* The bars of one length that have ticks.
Resample(ticks, frame) ==
    LET Start(tick) == tick.t - (tick.t % frame)
        starts == SetToSortSeq({Start(tick) : tick \in Range(ticks)}, <)
        Bar(start) ==
            LET own == SelectSeq(ticks, LAMBDA tick : Start(tick) = start)
                prices == {tick.p : tick \in Range(own)}
            IN  [t |-> start, o |-> Head(own).p, h |-> Max(prices), l |-> Min(prices),
                 c |-> own[Len(own)].p, v |-> Len(own)]
    IN  [i \in DOMAIN starts |-> Bar(starts[i])]

BuildBars(ticks, frame) == Resample(Deduplicated(ticks), frame)

\* The bars of a split, by the time at which they open: the last second of its
\* last day is still in it.
Slice(bars, split) ==
    SelectSeq(bars, LAMBDA bar : Day * Span[split].first <= bar.t /\ bar.t < Day * (Span[split].last + 1))

BuildSplit(ticks, split) ==
    [frame \in Frames |-> Slice(BuildBars(LoadTicks(ticks, Files[split]), frame), split)]

\* The session block of a time, if it is in one.
SessionBlock(t) ==
    IF t % Day \in 7..10 THEN "london" ELSE IF t % Day \in 12..15 THEN "newyork" ELSE "none"

\* The gaps longer than an hour within one session of a weekday.
AuditTicks(ticks, lo, hi) ==
    LET window == SelectSeq(ticks, LAMBDA tick : lo <= tick.t /\ tick.t <= hi)
        IsGap(i) == LET a == window[i - 1].t b == window[i].t
                    IN  /\ b - a > 1 /\ a \div Day = b \div Day /\ (a \div Day) % 7 < 5
                        /\ SessionBlock(a) # "none" /\ SessionBlock(a) = SessionBlock(b)
        gaps == {i \in 2..Len(window) : IsGap(i)}
    IN  [rows |-> Len(window),
         duplicates |-> Len(window) - Cardinality({tick.t : tick \in Range(window)}),
         gaps |-> {<<window[i - 1].t, window[i].t>> : i \in gaps},
         missing |-> FoldSet(LAMBDA i, sum : sum + (window[i].t - window[i - 1].t), 0, gaps)]

InitData == StartStudy("data", <<>>)

Load ==
    /\ NextBar("data")
    /\ \E ticks \in {TicksOf(tape')} :
         out' = <<[splits |-> [split \in AllSplits |-> BuildSplit(ticks, split)],
                   cached |-> [frame \in Frames |-> Resample(ticks, frame)],
                   audit |-> AuditTicks(ticks, Day, 7 * Day)]>>
    /\ UNCHANGED mem

-----------------------------------------------------------------------------
\* What is in sample and what is held out do not meet, whatever the files are
\* labelled: the bars of a split are made of all its ticks, each counted once, and
\* of no others; and a longer bar is its shorter ones put together.
SplitsAreClean == (study = "data" /\ out # <<>>) =>
    \A split \in AllSplits, frame \in Frames :
      LET own == {tick \in Range(TicksOf(tape)) : tick.t \div Day \in Span[split].first..Span[split].last}
          Holds(bar, length, t) == bar.t <= t /\ t < bar.t + length
          bars == out[1].splits[split][frame]
          short == out[1].splits[split][Min(Frames)]
      IN  /\ \A bar \in Range(bars) :
               LET inside == SelectSeq(short, LAMBDA b : Holds(bar, frame, b.t))
                   mine == {tick \in own : Holds(bar, frame, tick.t)}
               IN  /\ bar.o = Head(inside).o /\ bar.c = inside[Len(inside)].c
                   /\ bar.h = Max(Highs(inside)) /\ bar.l = Min(Lows(inside))
                   /\ {bar.h, bar.l, bar.o, bar.c} \subseteq {tick.p : tick \in mine}
                   /\ bar.v = Cardinality(mine)
          /\ \A tick \in own : \E bar \in Range(bars) : Holds(bar, frame, tick.t)

\* The bars of the research are those of the cache, but for the repeated ticks
\* that they count once; a repeated tick can hide the close.
BarsAgree == (study = "data" /\ out # <<>>) =>
    \A split \in AllSplits, frame \in Frames :
      LET all == out[1].cached[frame] IN
      \A bar \in Range(out[1].splits[split][frame]) : \E other \in Range(all) :
        /\ other.t = bar.t /\ other.o = bar.o /\ other.h = bar.h /\ other.l = bar.l
        /\ other.v >= bar.v
        /\ (\A a, b \in Range(TicksOf(tape)) : a.t # b.t \/ a = b) => other.c = bar.c

\* The audit sums hours without a tick: its gaps do not overlap, and they are the
\* hours without one that lie between two ticks of one session of a weekday.
AuditIsTrue == (study = "data" /\ out # <<>>) =>
    LET audit == out[1].audit
        times == {tick.t : tick \in {x \in Range(TicksOf(tape)) : Day <= x.t /\ x.t <= 7 * Day}}
        covered == UNION {(g[1] + 1)..(g[2] - 1) : g \in audit.gaps}
        OneSession(a, b) == /\ a \div Day = b \div Day /\ (a \div Day) % 7 < 5
                            /\ SessionBlock(a) = SessionBlock(b) /\ SessionBlock(a) # "none"
    IN  /\ covered = UNION {(p[1]..p[2]) \ times : p \in {x \in times \X times : OneSession(x[1], x[2])}}
        /\ audit.missing = Cardinality(covered) + Cardinality(audit.gaps)
        /\ audit.rows - audit.duplicates = Cardinality(times)

DataIsSplit == SplitsAreClean /\ BarsAgree /\ AuditIsTrue

=============================================================================
