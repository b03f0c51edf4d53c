------------------------------ MODULE InverseFvg ------------------------------
(***************************************************************************)
(* xauusd_strategies/s90_inverse_fvg.py: a gap between three bars is filled, *)
(* then violated by a close beyond it, and then rejects the price that      *)
(* comes back: the trade goes away from the gap.  A zone keeps its bounds as *)
(* its side sees them, so that a bearish gap reads like a bullish one.      *)
(***************************************************************************)
EXTENDS Bars

CONSTANTS
    GapMaxAge,      \* fvg_max_age
    GapMinWidth,    \* fvg_min_width
    GapBuffer       \* sl_buffer

ASSUME GapBufferIsPrice == GapBuffer \in Int /\ GapMaxAge \in Nat

\* The gap that bar i completes, if its side has one.
Gap(bars, i, side) ==
    [side |-> side, lo |-> Facing(bars[i - 2], side).h, hi |-> Facing(bars[i], side).l,
     formed |-> i, state |-> "fill"]

Gaps(bars, i) ==
    IF i < 3 THEN {}
    ELSE {g \in {Gap(bars, i, side) : side \in Sides} :
            g.lo < g.hi /\ g.hi - g.lo >= GapMinWidth}

EntersZone(bar, zone) == bar.l < zone.hi /\ bar.h > zone.lo

\* A zone waits for its fill, then for its violation, then for a retest.
Watch(zone, bar) ==
    LET b == Facing(bar, zone.side)
    IN  IF zone.state = "fill" /\ EntersZone(b, zone) THEN [zone EXCEPT !.state = "violation"]
        ELSE IF zone.state = "violation" /\ b.c < zone.lo THEN [zone EXCEPT !.state = "retest"]
        ELSE zone

\* 1: three rising closes, -1: three falling ones.  The hour that is still
\* forming counts as the last of them.
HtfMomentum(bars, entry) ==
    LET hours == LastOf(HigherOpened(bars, entry), 3)
        Rising(s) == /\ Len(hours) = 3
                     /\ s * hours[1].c < s * hours[2].c /\ s * hours[2].c < s * hours[3].c
    IN  IF Rising(1) THEN 1 ELSE IF Rising(-1) THEN -1 ELSE 0

Rejects(bar, zone) == bar.h > zone.lo /\ bar.c < zone.lo

\* The signal of a zone: the stop beyond its far side, the target at twice the risk.
GapSignal(zone, entry, open) ==
    LET sl == zone.hi + GapBuffer
        risk == sl - zone.side * open
    IN  Signal(-zone.side, entry, zone.side * sl, open - zone.side * 2 * risk,
              <<zone.formed, zone.side>>)

\* A retest that no filter refuses; a refused one may come again.
Retested(bars, k, zone) ==
    LET open == Facing(bars[k + 1], zone.side).o
    IN  /\ Rejects(Facing(bars[k], zone.side), zone)
        /\ InSession(k + 1)
        /\ HtfMomentum(bars, k + 1) = -zone.side
        /\ zone.hi + GapBuffer > open

\* The zones that fire on bar k, and those that are watched on after it.
Fires(bars, k, zone) ==
    /\ zone.formed # k
    /\ k - zone.formed <= GapMaxAge
    /\ zone.state = "retest"
    /\ Retested(bars, k, zone)
Kept(bars, k, zones) ==
    {z \in zones : z.formed = k \/ (k - z.formed <= GapMaxAge /\ ~Fires(bars, k, z))}

GapSignals(bars, k, zones) ==
    {GapSignal(z, k + 1, bars[k + 1].o) : z \in {x \in zones : Fires(bars, k, x)}}

\* The zones that the last bar but one is checked against, and what they give;
\* the order of signals on one bar is left open.
ZonesAt(bars) == mem.zones \cup Gaps(bars, Len(bars) - 1)
InverseFinds(bars) == SetToSeq(GapSignals(bars, Len(bars) - 1, ZonesAt(bars)))

InitInverse == StartStudy("inverse", [zones |-> {}])

InverseStep ==
    /\ NextBar("inverse")
    /\ LET k == Len(tape)
           zones == ZonesAt(tape')
       IN  IF k = 0 THEN UNCHANGED <<mem, out>>
           ELSE /\ out' = out \o InverseFinds(tape')
                /\ mem' = [mem EXCEPT !.zones =
                      {IF z.formed = k THEN z ELSE Watch(z, tape'[k]) : z \in Kept(tape', k, zones)}]

-----------------------------------------------------------------------------
\* The bars on which a gap may fire, from the whole tape.
RetestsOf(gap) ==
    LET Face(j) == Facing(tape[j], gap.side)
        alive == (gap.formed + 1)..Min({gap.formed + GapMaxAge, Len(tape) - 1})
        fills == {j \in alive : EntersZone(Face(j), gap)}
        violations == {j \in alive : fills # {} /\ j > Min(fills) /\ Face(j).c < gap.lo}
    IN  {j \in alive : violations # {} /\ j > Min(violations) /\ Retested(tape, j, gap)}

InverseSetups ==
    {GapSignal(g, Min(RetestsOf(g)) + 1, tape[Min(RetestsOf(g)) + 1].o) :
        g \in {h \in UNION {Gaps(tape, i) : i \in 1..(Len(tape) - 1)} : RetestsOf(h) # {}}}

=============================================================================
