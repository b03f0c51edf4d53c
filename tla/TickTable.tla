----------------------------- MODULE TickTable -----------------------------
(***************************************************************************)
(* The candles of one instrument and the ltp table of ticks made of them.  *)
(* A candle is its place on the tape; the exchange shows complete candles  *)
(* and, after the last of them, the one that is still forming, whose       *)
(* prices may yet change.                                                  *)
(*                                                                         *)
(* Days have PerDay candles.  The cache file named after a date holds the  *)
(* day that ended at its midnight (India time, oanda_tick_lib/_client.py), *)
(* so the file of date d + 1 holds day d.  The table keeps for a candle    *)
(* the four ticks it was split into: every writer inserts those together.  *)
(***************************************************************************)
EXTENDS Integers, Sequences, FiniteSets

CONSTANTS
    Shapes,     \* what a candle may look like: open, high, low, close
    PerDay,     \* candles of a day
    MaxCandles, \* bound: the candles that ever complete
    Faults      \* what may go wrong in this instance

ASSUME TableOK ==
    /\ \A s \in Shapes : /\ s \in [o : Int, h : Int, l : Int, c : Int]
                         /\ s.l <= s.o /\ s.l <= s.c /\ s.o <= s.h /\ s.c <= s.h
    /\ PerDay \in Nat \ {0} /\ MaxCandles \in Nat
    /\ Faults \subseteq {"api",     \* a request to the exchange fails
                         "db",      \* an insert fails and is rolled back
                         "late",    \* an insert fails after it was committed
                         "crash"}   \* a process dies

VARIABLES
    tape,       \* the complete candles
    ltp         \* candle -> its ticks in the table, empty if it has none

Places == 1..MaxCandles
Day(d) == ((d - 1) * PerDay + 1)..(d * PerDay)
DayOf(c) == ((c - 1) \div PerDay) + 1
Complete(s) == {c \in s : c <= Len(tape)}

\* Mutant: the path of a falling candle visits its low first, too.
SplitOneWay(s) == IF s.o = s.c THEN <<s.o, s.o, s.o, s.c>> ELSE <<s.o, s.l, s.o, s.c>>

\* split_candles(): open, the far side, the near side, close; a candle that
\* ends where it began keeps neither high nor low.
Split(s) ==
    CASE s.c > s.o -> <<s.o, s.l, s.h, s.c>>
      [] s.c < s.o -> <<s.o, s.h, s.l, s.c>>
      [] OTHER     -> <<s.o, s.o, s.o, s.c>>

Highest(ts) == CHOOSE p \in {ts[i] : i \in DOMAIN ts} : \A i \in DOMAIN ts : ts[i] <= p
Lowest(ts) == CHOOSE p \in {ts[i] : i \in DOMAIN ts} : \A i \in DOMAIN ts : ts[i] >= p

\* build_candles(): first, max, min and last of the ticks.
Rebuilt(ts) == [o |-> ts[1], h |-> Highest(ts), l |-> Lowest(ts), c |-> ts[Len(ts)]]

\* INSERT ... ON CONFLICT DO NOTHING of candles with the shapes in f.
Inserted(f) ==
    [c \in Places |-> IF c \in DOMAIN f /\ ltp[c] = <<>> THEN Split(f[c]) ELSE ltp[c]]
Stored(s) == \A c \in s : ltp[c] # <<>>
Taped(s) == [c \in s |-> tape[c]]

CandleCloses ==
    /\ Len(tape) < MaxCandles
    /\ \E s \in Shapes : tape' = Append(tape, s)
=============================================================================
