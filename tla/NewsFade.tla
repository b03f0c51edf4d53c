------------------------------- MODULE NewsFade -------------------------------
(***************************************************************************)
(* xauusd_strategies/s90_news_fade.py: the first bar at or after a scheduled *)
(* event that sweeps the highs (or lows) before it by a large move is faded *)
(* two bars later, back to the price before the event.  The code goes       *)
(* through the events; here a bar meets its events two bars later, when the *)
(* entry bar is there.                                                      *)
(***************************************************************************)
EXTENDS Bars

CONSTANTS
    Events,         \* the sets of half hours with an event that are tried
    NewsLookback, NewsBuffer, NewsMinSpike

ASSUME NewsIsScheduled ==
    /\ NewsLookback \in Nat /\ NewsBuffer \in Int
    /\ \A events \in Events : events \subseteq Int /\ IsFiniteSet(events)

\* The events that bar s is the first bar for; those of a weekend are left out.
EventsOf(s) ==
    {e \in mem.events : e <= Slot(s) /\ (s > 1 => Slot(s - 1) < e)
                        /\ (e \div SlotsOfDay) % 7 < 5}

\* As the side of the trade sees it, the spike went down: below the lows before
\* it, and far enough from the close before it.
Spiked(bars, s, side) ==
    LET before == FacingAll(SubSeq(bars, Max({1, s - NewsLookback}), s - 1), side)
        spike == Facing(bars[s], side)
    IN  /\ spike.l < Min(Lows(before))
        /\ side * bars[s - 1].c - spike.l >= NewsMinSpike

\* The reward is at least the risk.
FadeFair(bars, s, side) ==
    LET sl == Facing(bars[s], side).l - NewsBuffer
        open == side * bars[s + 2].o
        tp == side * bars[s - 1].c
    IN  sl < open /\ open < tp /\ tp - open >= open - sl

Fade(bars, s, side, event) ==
    Signal(side, s + 2, side * (Facing(bars[s], side).l - NewsBuffer), bars[s - 1].c, event)

\* A spike up is looked at first; only when it gives no trade, one down.
FadeSides(bars, s) ==
    LET fair == {side \in Sides : Spiked(bars, s, side) /\ FadeFair(bars, s, side)}
    IN  IF -1 \in fair THEN {-1} ELSE fair

NewsFinds(bars) ==
    LET s == Len(bars) - 2
    IN  IF s < 2 THEN <<>>
        ELSE SetToSeq({Fade(bars, s, side, event) : side \in FadeSides(bars, s), event \in EventsOf(s)})

InitNews == \E events \in Events : StartStudy("news", [events |-> events])

News ==
    /\ NextBar("news")
    /\ UNCHANGED mem
    /\ out' = out \o NewsFinds(tape')

-----------------------------------------------------------------------------
\* Event by event: its first bar is the first that does not open before it.
NewsSetups ==
    LET First(e) == {i \in DOMAIN tape : Slot(i) >= e
                                         /\ \A j \in 1..(i - 1) : Slot(j) < e}
        Begun == {p \in mem.events \X (2..(Len(tape) - 2)) :
                    p[2] \in First(p[1]) /\ (p[1] \div SlotsOfDay) % 7 < 5}
    IN  UNION {{Fade(tape, p[2], side, p[1]) : side \in FadeSides(tape, p[2])} : p \in Begun}

=============================================================================
