----------------------------- MODULE KillzoneOte -----------------------------
(***************************************************************************)
(* xauusd_strategies/s90_killzone_ote.py: in a killzone, with a break of    *)
(* structure on the closed bars of the higher time frame, a bar that comes  *)
(* back into 62 to 79 percent of the last leg is traded towards its end.    *)
(* The detector keeps nothing between two bars.                             *)
(***************************************************************************)
EXTENDS Bars

CONSTANTS OteLookback, OteBuffer, OteMinLeg

ASSUME OteIsWhole == {OteLookback, OteBuffer, OteMinLeg} \subseteq Int

\* 08:00 to 10:00 and 13:30 to 15:30, in half hours.
Killzone == 16..19 \cup 27..30
IsKillzone(i) == Weekday(i) /\ Slot(i) % SlotsOfDay \in Killzone

\* A mutant of VisibleHours that sees the hour that is still forming.
VisibleHoursForming(bars, k) == HigherOpened(bars, k + 1)

VisibleHours(bars, k) == HigherClosed(bars, k)

\* The last closed bar closes beyond everything before it.
BreakOfStructure(hours) ==
    LET recent == LastOf(hours, OteLookback)
        Breaks(s) == LET f == FacingAll(recent, s)
                     IN  f[Len(f)].c > Max(Highs(Front(f)))
    IN  IF Len(recent) < 2 THEN 0 ELSE IF Breaks(1) THEN 1 ELSE IF Breaks(-1) THEN -1 ELSE 0

\* From the lowest low on to the highest high after it.
SwingLeg(hours, side) ==
    LET f == FacingAll(LastOf(hours, OteLookback), side)
        origin == Min({i \in DOMAIN f : f[i].l = Min(Lows(f))})
    IN  IF Len(f) < 3 \/ origin = Len(f) THEN {}
        ELSE {[lo |-> f[origin].l, hi |-> Max({f[i].h : i \in (origin + 1)..Len(f)})]}

\* In hundredths of a price.
OteZone(leg) == [lo |-> 100 * leg.hi - 79 * (leg.hi - leg.lo),
                 hi |-> 100 * leg.hi - 62 * (leg.hi - leg.lo)]

Overlap(lo, hi, zone) == 100 * lo <= zone.hi /\ zone.lo <= 100 * hi

\* A gap, or the body of the last bar against the trade, lies in the zone.
Confluent(hours, side, zone) ==
    LET f == FacingAll(hours, side)
        against == {j \in DOMAIN f : f[j].c < f[j].o}
    IN  \/ \E i \in 3..Len(f) : f[i - 2].h < f[i].l /\ Overlap(f[i - 2].h, f[i].l, zone)
        \/ against # {} /\ Overlap(f[Max(against)].c, f[Max(against)].o, zone)

\* The reward is at least one and a half times the risk.
WorthIt(sl, open, tp) == sl < open /\ open < tp /\ 2 * (tp - open) >= 3 * (open - sl)

OteFinds(bars) ==
    LET k == Len(bars) - 1
        hours == VisibleHours(bars, k)
        side == BreakOfStructure(hours)
        open == side * bars[k + 1].o
        b == Facing(bars[k], side)
        Tagged(leg) == Overlap(b.l, b.h, OteZone(leg))
    IN  IF k = 0 THEN <<>>
        ELSE IF ~IsKillzone(k) \/ side = 0 THEN <<>>
        ELSE SetToSeq({Signal(side, k + 1, side * (leg.lo - OteBuffer), side * leg.hi, k) :
                leg \in {g \in SwingLeg(hours, side) :
                    /\ g.hi - g.lo >= OteMinLeg
                    /\ Tagged(g)
                    /\ Confluent(hours, side, OteZone(g))
                    /\ WorthIt(g.lo - OteBuffer, open, g.hi)}})

InitOte == StartStudy("ote", [none |-> TRUE])

Ote ==
    /\ NextBar("ote")
    /\ UNCHANGED mem
    /\ out' = out \o OteFinds(tape')

=============================================================================
