----------------------------- MODULE MarketData -----------------------------
(***************************************************************************)
(* The programs that write the ltp table, and the reader of candles, over  *)
(* one tape.  Which of them run is chosen at the start.                    *)
(***************************************************************************)
EXTENDS TickWriters, CandleReader

CONSTANTS
    Past,       \* the candles that are complete when it begins
    Casts       \* bound: the programs that run together

ASSUME CastsOK ==
    /\ Past \in 0..MaxCandles
    /\ \A d \in Files : Held[d] \subseteq 1..Past
    /\ Casts \subseteq SUBSET {"live", "fill", "hist", "reader"}

VARIABLES cast

vars == <<tape, ltp, live, cache, fill, hist, reader, cast>>

\* A fetch asks for its next page sooner than two candles complete.
TimePasses ==
    /\ CandleCloses
    /\ ~(reader.at = "page" /\ reader.moved)
    /\ reader' = [reader EXCEPT !.moved = TRUE]
    /\ UNCHANGED <<ltp, cast, writers>>

Init ==
    /\ cast \in Casts
    /\ tape \in [1..Past -> Shapes]
    /\ ltp = [c \in Places |-> <<>>]
    /\ live = [at |-> "idle", last |-> 0, got |-> NoCandle]
    /\ cache = [d \in 1..FillDays |-> {}]
    /\ fill = FillIdle
    /\ hist = HistIdle
    /\ reader = ReaderIdle

Live == PollLive \/ InsertLive \/ InsertLiveFails \/ RestartLive
Fill == StartFill \/ FetchDay \/ AskPage \/ AskLastPage \/ PageFails \/ InsertDay \/ FillDies
Hist == StartHist \/ OpenFile \/ LoadBatch \/ HistDies

Next ==
    \/ TimePasses
    \/ "live" \in cast /\ Live /\ UNCHANGED <<reader, cast>>
    \/ "fill" \in cast /\ Fill /\ UNCHANGED <<reader, cast>>
    \/ "hist" \in cast /\ Hist /\ UNCHANGED <<reader, cast>>
    \/ "reader" \in cast /\ Read /\ UNCHANGED <<writers, cast>>

\* The market goes on, the loop polls for ever and its container is restarted;
\* inserts do not fail for ever.
Fairness ==
    /\ WF_vars(TimePasses)
    /\ WF_vars("live" \in cast /\ PollLive /\ UNCHANGED <<reader, cast>>)
    /\ SF_vars("live" \in cast /\ InsertLive /\ UNCHANGED <<reader, cast>>)
    /\ WF_vars("live" \in cast /\ live.at = "down" /\ RestartLive /\ UNCHANGED <<reader, cast>>)

Spec == Init /\ [][Next]_vars
FairSpec == Spec /\ Fairness
-----------------------------------------------------------------------------
TypeOK ==
    /\ tape \in Seq(Shapes) /\ Len(tape) \in Past..MaxCandles
    /\ DOMAIN ltp = Places /\ \A c \in Places : Len(ltp[c]) \in {0, 4}
    /\ live.at \in {"idle", "insert", "down"} /\ live.last \in 0..Len(tape)
    /\ \A d \in 1..FillDays : cache[d] \subseteq Day(d) \cup {Ends(d)}
    /\ fill.at \in {"off", "fetch", "page", "insert", "done"} /\ fill.day \in 1..(FillDays + 1)
    /\ hist.at \in {"off", "load", "done"} /\ hist.files \subseteq Files
    /\ reader.at \in {"idle", "page"}

\* The ticks of a candle, whichever program wrote them and whenever, give the
\* complete candle back, unless it ended where it began.
TicksRebuildCandles ==
    \A c \in Places :
        ltp[c] # <<>> =>
            /\ c <= Len(tape)
            /\ ltp[c] = Split(tape[c])
            /\ tape[c].o # tape[c].c => Rebuilt(ltp[c]) = tape[c]

\* last_candle_time is the time of a candle that is in the table: a failed insert
\* leaves it to the next poll.
LastIsStored == live.last # 0 => ltp[live.last] # <<>>

\* A backfill that counted no error has left every candle it asks for in the table,
\* over pages, failed days, a cache that a crash leaves ahead of the table, and
\* restarts.  What it does not ask for is the candle each page begins with, the
\* first of the day among them, against _client.py:72: "The window is
\* [midnight_IST(date) - 24 h, midnight_IST(date))".
PageStarts(d) == {Opens(d) + k * MaxBatch : k \in 0..PerDay}
Asked(d) == Day(d) \ PageStarts(d)
FillIsWhole ==
    fill.at = "done" /\ fill.errors = 0 => \A d \in 1..FillDays : Stored(Asked(d))

\* backfill_ltp_from_history.py:10: "After running this, the live DB has the same
\* coverage backtests do": every candle of the history files is in the table.
SameCoverage == hist.at = "done" => \A d \in Files : Stored(Held[d])

\* What a fetch shows are complete candles without a gap, although candles go
\* on to complete from page to page; it reaches at least the newest there was
\* when it began, unless the cap on pages cut it short.
FetchIsWhole ==
    reader.shown # {} =>
        /\ reader.shown \subseteq 1..Len(tape)
        /\ \A a, b \in reader.shown : a..b \subseteq reader.shown
        /\ reader.upto # 0 => {FirstOf(reader.upto), reader.upto} \subseteq reader.shown

\* The newest candle gets into the table, whatever fails on the way, once no
\* newer one takes its place.
NewestIsStored ==
    "live" \in cast /\ Len(tape) = MaxCandles ~> ltp[MaxCandles] # <<>>
=============================================================================
