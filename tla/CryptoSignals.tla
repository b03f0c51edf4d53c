---------------------------- MODULE CryptoSignals ----------------------------
(***************************************************************************)
(* btc_research/strategies.py: the generators compute columns over a whole   *)
(* frame of bars and select the rows that enter.  Each step of the study     *)
(* lengthens the frame by a bar and runs the generator over all of it again, *)
(* as every backtest and dashboard does on newer data.  An average over n    *)
(* bars is kept as their sum, and levels are counted in units of a price.    *)
(***************************************************************************)
EXTENDS KronosIndicators

CONSTANTS
    Coin,           \* [z, channel, atr, fast, slow, er, weeks]: bars of the averages;  [strength]: tenths
    Guard           \* the trend that ends fading, in average ranges

ASSUME CoinOK ==
    /\ DOMAIN Coin = {"z", "channel", "atr", "fast", "slow", "er", "weeks", "strength"}
    /\ \A p \in DOMAIN Coin : Coin[p] \in Nat \ {0}

Generators == {"orb", "vbo", "drop", "sweep", "zrev", "both", "zmr"}
WeeklyGates == {"align", "range_only"}
Regimes == [g \in Generators |->
    CASE g = "zrev" -> {"none", "trend", "efficiency"} \cup WeeklyGates
      [] g \in {"sweep", "both"} -> {"none", "trend"}
      [] OTHER -> {"none"}]

InNewYork(i) == Hour(i) \in 12..19
Close(bars, i, side) == side * bars[i].c

\* The average true range at bar i, times its period.
RangeTotal(bars, i) == SumOver(Trailing(i, Coin.atr), LAMBDA j : TrueRange(bars, j))
HasRange(bars, i) == i >= Coin.atr /\ RangeTotal(bars, i) > 0
CloseSum(bars, i) == SumOver(Trailing(i, Coin.z), LAMBDA j : bars[j].c)

\* An entry that stops stop and aims aim tenths of the average range away.
Bracket(bars, i, side, stop, aim) ==
    LET unit == 10 * Coin.atr
        close == unit * bars[i].c
    IN  Signal(side, i + 1, close - side * stop * RangeTotal(bars, i),
               close + side * aim * RangeTotal(bars, i), [unit |-> unit])

--------------------------------------------------------------------------
\* The breakout of the range of the hour before New York opens.

TradingHours == 13..19
Opening(bars, i) == {j \in DOMAIN bars : DayOf(j) = DayOf(i) /\ Hour(j) = 12}

OpeningTop(bars, i, side) == Max({Facing(bars[j], side).h : j \in Opening(bars, i)})
OpeningWidth(bars, i, side) ==
    OpeningTop(bars, i, side) - Min({Facing(bars[j], side).l : j \in Opening(bars, i)})

\* A close beyond the range stops at its other end and aims twice as far.
OrbSignal(bars, i, side) ==
    LET width == OpeningWidth(bars, i, side)
    IN  Signal(side, i + 1, side * (OpeningTop(bars, i, side) - width), bars[i].c + side * 2 * width, [unit |-> 1])

OrbEntries(bars) ==
    {OrbSignal(bars, p[1], p[2]) : p \in
        {e \in (2..Len(bars)) \X Sides :
            LET i == e[1] side == e[2]
                top == OpeningTop(bars, i, side)
            IN  /\ Hour(i) \in TradingHours /\ Opening(bars, i) # {} /\ OpeningWidth(bars, i, side) > 0
                /\ Close(bars, i, side) > top
                /\ Close(bars, i - 1, side) <= top}}

--------------------------------------------------------------------------
\* The breakout of the channel of the bars before, on a wide bar.

ChannelTop(bars, i, side) == Max({Facing(bars[j], side).h : j \in (i - Coin.channel)..(i - 1)})

VboEntries(bars) ==
    {Bracket(bars, p[1], p[2], 12, 25) : p \in
        {e \in ((Coin.channel + 1)..Len(bars)) \X Sides :
            LET i == e[1] side == e[2]
                top == ChannelTop(bars, i, side)
            IN  /\ InNewYork(i) /\ HasRange(bars, i)
                /\ 2 * Coin.atr * (bars[i].h - bars[i].l) > 3 * RangeTotal(bars, i)
                /\ Close(bars, i, side) > top
                /\ Close(bars, i - 1, side) <= top}}

--------------------------------------------------------------------------
\* The distance of the close from its mean, in deviations of the sample.

Variance(bars, i) ==
    Coin.z * SumOver(Trailing(i, Coin.z), LAMBDA j : bars[j].c * bars[j].c)
        - CloseSum(bars, i) * CloseSum(bars, i)
HasZ(bars, i) == i >= Coin.z /\ Variance(bars, i) > 0

\* More than one deviation.
IsExtreme(bars, i, side) ==
    LET above == side * (Coin.z * bars[i].c - CloseSum(bars, i))
    IN  above > 0 /\ (Coin.z - 1) * above * above > Coin.z * Variance(bars, i)

Crosses(bars, i, side) ==
    /\ HasZ(bars, i) /\ HasZ(bars, i - 1)
    /\ IsExtreme(bars, i, side)
    /\ ~IsExtreme(bars, i - 1, side)

\* The bars that have just crossed on that side, and have an average range.
Crossings(bars, side) == {i \in 2..Len(bars) : Crosses(bars, i, side) /\ HasRange(bars, i)}

DropEntries(bars) ==
    {Bracket(bars, i, -1, 15, 20) : i \in {n \in Crossings(bars, -1) : InNewYork(n)}}

FadeEntries(bars) ==
    UNION {{Bracket(bars, i, -side, 20, 15) : i \in Crossings(bars, side)} : side \in Sides}

--------------------------------------------------------------------------
\* The regimes in which nothing is faded.

TrendStrong(bars, i) ==
    LET fast == EmaScale(Coin.fast, i)
        slow == EmaScale(Coin.slow, i)
        gap == Abs(EmaTimes(bars, Coin.fast, i) * slow - EmaTimes(bars, Coin.slow, i) * fast)
    IN  gap * Coin.atr > Guard * RangeTotal(bars, i) * fast * slow

\* Kaufman's ratio is unknown, or above a half.
Efficient(bars, i) ==
    LET path == SumOver(Trailing(i, Coin.er), LAMBDA j : Abs(bars[j].c - bars[j - 1].c))
    IN  i <= Coin.er \/ path = 0 \/ 2 * Abs(bars[i].c - bars[i - Coin.er].c) > path

\* A week is named by its Sunday, 00:00, and holds all of that Sunday.
SlotsOfWeek == 7 * SlotsOfDay
Week(i) == Slot(i) \div SlotsOfWeek
WeekName(week) == (week + 1) * SlotsOfWeek - SlotsOfDay
Weeks(bars) == SetToSortSeq({Week(i) : i \in DOMAIN bars}, <)

\* The weekly bar that a bar looks up lies well above its average (1), below it
\* (-1), or neither; its average move is the measure.
WeeklyState(bars, i) ==
    LET weeks == Weeks(bars)
        ends == [w \in DOMAIN weeks |->
                    [c |-> bars[Max({j \in DOMAIN bars : Week(j) = weeks[w]})].c]]
        at == Max({0} \cup {w \in DOMAIN weeks : WeekName(weeks[w]) <= Slot(i)})
        scale == EmaScale(Coin.weeks, at)
        above == scale * ends[at].c - EmaTimes(ends, Coin.weeks, at)
        moves == SumOver(Trailing(at, Coin.weeks), LAMBDA w : Abs(ends[w].c - ends[w - 1].c))
    IN  IF Len(weeks) < Coin.weeks + 2 \/ at <= Coin.weeks THEN 0
        ELSE IF moves = 0 \/ 10 * Abs(above) * Coin.weeks <= Coin.strength * moves * scale THEN 0
        ELSE IF above > 0 THEN 1 ELSE -1

Blocked(bars, i, side) ==
    CASE mem.regime = "trend" -> TrendStrong(bars, i)
      [] mem.regime = "efficiency" -> Efficient(bars, i)
      [] mem.regime = "align" -> side = -WeeklyState(bars, i)
      [] mem.regime = "range_only" -> WeeklyState(bars, i) # 0
      [] OTHER -> FALSE

--------------------------------------------------------------------------
\* Swings back to the mean.

RevertSignal(bars, i, side) ==
    LET unit == Coin.z * Coin.atr
    IN  Signal(-side, i + 1, unit * bars[i].c + 2 * side * Coin.z * RangeTotal(bars, i),
               Coin.atr * CloseSum(bars, i), [unit |-> unit])

RevertEntries(bars) ==
    UNION {{RevertSignal(bars, i, side) : i \in {n \in Crossings(bars, side) : ~Blocked(bars, n, -side)}} :
        side \in Sides}

\* The poke beyond the channel that closes back inside, far enough from the mean
\* of the channel's length, is faded.
MeanTotal(bars, i) == SumOver(Trailing(i, Coin.channel), LAMBDA j : bars[j].c)
PokeSignal(bars, i, side) ==
    LET n == Coin.channel
        unit == 2 * n * Coin.atr
    IN  Signal(-side, i + 1, unit * side * Facing(bars[i], side).h + side * n * RangeTotal(bars, i),
               2 * Coin.atr * MeanTotal(bars, i), [unit |-> unit])

SweepReversals(bars) ==
    {PokeSignal(bars, p[1], p[2]) : p \in
        {e \in ((Coin.channel + 1)..Len(bars)) \X Sides :
            LET i == e[1] side == e[2]
                top == ChannelTop(bars, i, side)
                n == Coin.channel
            IN  /\ HasRange(bars, i)
                /\ Facing(bars[i], side).h > top
                /\ Close(bars, i, side) < top
                /\ ~(mem.regime = "trend" /\ TrendStrong(bars, i))
                /\ 2 * Coin.atr * side * (n * bars[i].c - MeanTotal(bars, i)) >= n * RangeTotal(bars, i)}}

CoinEntries(bars) ==
    CASE mem.generator = "orb" -> OrbEntries(bars)
      [] mem.generator = "vbo" -> VboEntries(bars)
      [] mem.generator = "drop" -> DropEntries(bars)
      [] mem.generator = "sweep" -> SweepReversals(bars)
      [] mem.generator = "zrev" -> RevertEntries(bars)
      [] mem.generator = "both" -> SweepReversals(bars) \cup RevertEntries(bars)
      [] mem.generator = "zmr" -> FadeEntries(bars)

InitCoin ==
    \E g \in Generators : \E regime \in Regimes[g] :
        StartStudy("crypto", [generator |-> g, regime |-> regime])

Generate ==
    /\ NextBar("crypto")
    /\ \E entries \in {CoinEntries(tape')} : out' = SetToSeq(entries)
    /\ UNCHANGED mem

-----------------------------------------------------------------------------
\* "Causal info": a longer frame gives the same entries for the bars that the
\* shorter one had.  The weekly gates, which say so too, see the rest of a Sunday
\* and count the weeks of the whole frame.
FrameIsCausal ==
    (study = "crypto" /\ mem.regime \notin WeeklyGates) =>
        {s \in Range(out') : s.entry <= Len(tape) + 1} = Range(out)

\* "The bar whose close first crosses the trigger": after an entry the side has
\* to come back before it enters again.  The generators that poke beyond the
\* channel ask for no crossing, and vbo() for one that always holds.
CrossesOnce ==
    (study = "crypto" /\ mem.generator \in {"orb", "drop", "zrev", "zmr"}) =>
        \A s, t \in Range(out) : s.side = t.side => s.entry # t.entry + 1

\* The entry's close lies between its stop and its target.
CoinIsFair ==
    study = "crypto" => \A s \in Range(out) :
        LET close == s.side * s.of.unit * tape[s.entry - 1].c
        IN  s.side * s.sl < close /\ close < s.side * s.tp

=============================================================================
