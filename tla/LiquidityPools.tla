---------------------------- MODULE LiquidityPools ----------------------------
(***************************************************************************)
(* What the replays look for in a window of bars.                          *)
(*   strategy/ict_engine.py: swing points, gaps, order blocks and the       *)
(* market structure, and the entry that is built from them.  The type of a  *)
(* zone is the side that it is traded from: a bullish gap is a bearish one   *)
(* with prices turned round.                                               *)
(*   strategy/liquidity_engine.py and strategy/scalper_engine.py: the swing *)
(* points as pools of resting orders, the bar that sweeps one and closes    *)
(* back inside, and the stop and target of the trade against it.  A pool    *)
(* above the price (BSL) has side 1; it is swept for a sale.                *)
(***************************************************************************)
EXTENDS Bars

CONSTANTS
    Ict,    \* [lookback, gap, displacement (in halves), recent, buffer, minRR (in halves)]
    Scalp   \* for every replay: [lookback, count, equal, wick (in tenths), buffer, fixed, range,
            \* cooldown, equalOnly, window]

ASSUME IctIsPositive ==
    /\ {"lookback", "buffer"} \subseteq DOMAIN Ict
    /\ \A p \in DOMAIN Ict : Ict[p] \in Nat \ {0}

ASSUME ScalpsLookBack ==
    /\ {"var1", "micro"} \subseteq DOMAIN Scalp
    /\ \A s \in DOMAIN Scalp :
         {Scalp[s].lookback, Scalp[s].window, Scalp[s].buffer, Scalp[s].fixed} \subseteq Nat \ {0}

\* The bars that are extremes of their neighbourhood: highs for side 1.
Swings(w, lookback, side) ==
    {i \in (lookback + 1)..(Len(w) - lookback) :
        \A j \in (i - lookback)..(i + lookback) : Facing(w[j], side).h <= Facing(w[i], side).h}

\* The trend by the last two swings on both sides, 0 without one.
MarketStructure(w, lookback) ==
    LET Points(side) == Swings(w, lookback, side)
        Rises(side, dir) ==
            LET last == Max(Points(side))
                before == Max(Points(side) \ {last})
            IN  IF side = 1 THEN dir * (w[last].h - w[before].h) > 0
                ELSE dir * (w[last].l - w[before].l) > 0
        Both(dir) == Rises(1, dir) /\ Rises(-1, dir)
    IN  IF \/ Len(w) < 2 * lookback + 3
           \/ \E side \in Sides : Cardinality(Points(side)) < 2
        THEN 0
        ELSE IF Both(1) THEN 1 ELSE IF Both(-1) THEN -1 ELSE 0

\* The gaps of three bars: at most one side has one.
FvgSides(w, i, gap) ==
    {side \in Sides : LET At(j) == Facing(w[j], side)
                      IN  At(i).l - At(i - 2).h >= gap /\ At(i - 1).c > At(i - 1).o}

Zone(a, b, side, at, reason) ==
    [lo |-> Min({a, b}), hi |-> Max({a, b}), side |-> side, at |-> at, reason |-> reason]

Fvgs(w, gap) ==
    UNION {{Zone(side * Facing(w[i - 2], side).h, side * Facing(w[i], side).l, side, i, "FVG") :
                side \in FvgSides(w, i, gap)} : i \in 3..Len(w)}

\* The last bar against a displacement, which is large for the whole window.
Body(bar) == Abs(bar.c - bar.o)
OrderBlocks(w) ==
    LET bodies == SumOver(DOMAIN w, LAMBDA i : Body(w[i]))
        Large(i) == 2 * Len(w) * Body(w[i]) > Ict.displacement * bodies
        Turns(i, side) == /\ Facing(w[i - 1], side).c < Facing(w[i - 1], side).o
                          /\ Facing(w[i], side).c > Facing(w[i], side).o
    IN  UNION {{Zone(w[i - 1].l, w[i - 1].h, side, i - 1, "OB") : side \in {s \in Sides : Turns(i, s)}} :
                i \in {n \in 2..Len(w) : bodies # 0 /\ Large(n)}}

\* Four hours lead; one hour must agree or have no trend.
StructureBias(fours, ones) ==
    LET four == MarketStructure(fours, Ict.lookback)
        one == MarketStructure(ones, Ict.lookback)
    IN  IF four # 0 /\ one \in {four, 0} THEN four ELSE 0

\* The recent zones of the side.  The latest one leads, of two from one bar the gap.
ZonesFor(w, side) ==
    {z \in Fvgs(w, Ict.gap) \cup OrderBlocks(w) :
        z.side = side /\ z.at >= Max({1, Len(w) - Ict.recent + 1})}
Leads(a, b) == a.at > b.at \/ (a.at = b.at /\ (a.reason = "FVG" \/ b.reason = "OB"))

\* The entry at the price, in the latest zone around it that pays.
CheckEntry(w, price, side) ==
    LET targets == Swings(w, Ict.lookback, side)
        tp == side * Facing(w[Max(targets)], side).h
        Stop(z) == IF side = 1 THEN z.lo - Ict.buffer ELSE z.hi + Ict.buffer
        Pays(z) == /\ z.lo <= price /\ price <= z.hi
                   /\ side * tp > side * price
                   /\ 2 * side * (tp - price) >= Ict.minRR * side * (price - Stop(z))
        good == {z \in ZonesFor(w, side) : Pays(z)}
        zone == CHOOSE z \in good : \A other \in good : Leads(z, other)
    IN  IF side = 0 \/ targets = {} \/ good = {} THEN <<>>
        ELSE <<[side |-> side, fill |-> price, sl |-> Stop(zone), tp |-> tp]>>

---------------------------------------------------------------------------
\* The last pools of a side; equal ones have another one near.
PoolsOf(w, rules, side) ==
    LET swings == Swings(w, rules.lookback, side)
        last == {i \in swings : Cardinality({j \in swings : j > i}) < rules.count}
        Level(i) == side * Facing(w[i], side).h
    IN  {[side |-> side, level |-> Level(i), at |-> i,
          equal |-> \E j \in last \ {i} : Abs(Level(i) - Level(j)) <= rules.equal] : i \in last}

Pools(w, rules) ==
    {p \in PoolsOf(w, rules, 1) \cup PoolsOf(w, rules, -1) : rules.equalOnly => p.equal}

\* The pools that the bar pokes through and closes inside of; those above come
\* first, and the older ones.
SweptBy(bar, pools) ==
    {p \in pools : Facing(bar, p.side).h > p.side * p.level /\ Facing(bar, p.side).c < p.side * p.level}
FirstPool(pools) ==
    CHOOSE p \in pools : \A q \in pools : p.side > q.side \/ (p.side = q.side /\ p.at <= q.at)

RejectionWick(bar, tenths) ==
    LET upper == bar.h - Max({bar.o, bar.c})
        lower == Min({bar.o, bar.c}) - bar.l
    IN  Body(bar) # 0 /\ 10 * Max({upper, lower}) >= tenths * Body(bar)

\* The pools that a trade runs into, within a range of its entry.
Opposing(pools, side, entry, range) ==
    {p.level : p \in {q \in pools : /\ q.side = side
                                    /\ side * q.level > side * entry
                                    /\ Abs(q.level - entry) <= range}}
Nearest(levels, side) == side * Min({side * x : x \in levels})

\* The target: the middle of the latest gap on the way to the opposing pool,
\* that pool, or a fixed distance.  The type of a gap is not looked at.
TpSl(bar, side, entry, pools, fvgs, rules) ==
    LET opposing == Opposing(pools, side, entry, rules.range)
        \* both sides doubled
        OnTheWay(f) == /\ side * (f.lo + f.hi) > 2 * side * entry
                       /\ opposing # {} => side * (f.lo + f.hi) <= 2 * side * Nearest(opposing, side)
        gaps == {f \in fvgs : OnTheWay(f)}
        latest == CHOOSE f \in gaps : \A g \in gaps : f.at >= g.at
        sl == side * (Facing(bar, side).l - rules.buffer)
    IN  IF gaps # {} THEN [sl |-> sl, tp |-> (latest.lo + latest.hi) \div 2, mode |-> "FVG"]
        ELSE IF opposing # {} THEN [sl |-> sl, tp |-> Nearest(opposing, side), mode |-> "POOL"]
        ELSE [sl |-> sl, tp |-> entry + side * rules.fixed, mode |-> "FIXED"]

\* A sweep by the last bar of the window that leaves a wick, as a trade at its close.
SweepTrade(w, pools, fvgs, rules) ==
    LET bar == Last(w)
        swept == SweptBy(bar, pools)
        side == -FirstPool(swept).side
    IN  IF swept = {} \/ ~RejectionWick(bar, rules.wick) THEN <<>>
        ELSE <<With([side |-> side, fill |-> bar.c], TpSl(bar, side, bar.c, pools, fvgs, rules))>>

-----------------------------------------------------------------------------
\* scalper_engine.py

CONSTANT Micro  \* [range, volatility, mean, far]: see MicroSignal

\* As the side sees it, the distance of the close from the mean of the last bars,
\* times their number; 0 while there are not enough of them.
AboveMean(w, side) ==
    LET n == Micro.mean
        sum == SumOver((Len(w) - n + 1)..Len(w), LAMBDA i : w[i].c)
    IN  IF Len(w) < n THEN 0 ELSE side * (n * Last(w).c - sum)

\* The bars must move, and not away from the mean on the other side.  The target
\* is an opposing pool that is neither too near (1.2 stops) nor too far.
MicroSignal(w, fives, rules) ==
    LET last == LastOf(w, Micro.volatility)
        moves == SumOver(DOMAIN last, LAMBDA i : last[i].h - last[i].l)
        pools == Pools(w, rules)
        swept == SweptBy(Last(w), pools)
        side == -FirstPool(swept).side
        entry == Last(w).c
        far == {p.level : p \in {q \in pools :
                   q.side = side /\ 10 * side * (q.level - entry) > 12 * rules.buffer}}
        tp == IF far # {} /\ Abs(Nearest(far, side) - entry) <= rules.range
              THEN Nearest(far, side) ELSE entry + side * rules.fixed
    IN  IF \/ moves < Micro.range * Len(last)
           \/ swept = {}
           \/ ~RejectionWick(Last(w), rules.wick)
           \/ AboveMean(fives, side) < -Micro.far * Micro.mean
        THEN <<>>
        ELSE <<[side |-> side, fill |-> entry, sl |-> entry - side * rules.buffer, tp |-> tp]>>

=============================================================================
