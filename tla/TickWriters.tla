---------------------------- MODULE TickWriters ----------------------------
(***************************************************************************)
(* The three programs that write the ltp table, which know nothing of each *)
(* other:                                                                  *)
(*   - the live collector (tick_data_collector/main.py) polls for the      *)
(*     newest complete candle and inserts it;                              *)
(*   - the backfill (backfill_ltp.py) fetches whole days through a cache   *)
(*     of files, and inserts each in one transaction;                      *)
(*   - the history load (db/backfill_ltp_from_history.py) inserts the      *)
(*     files of days long past, a batch per transaction.                   *)
(* Left out: the hours in which the market is closed (no candle completes) *)
(* and the retries of one request.                                         *)
(***************************************************************************)
EXTENDS TickTable

CONSTANTS
    FillDays,   \* the days of a backfill, from the first
    MaxBatch,   \* candles between the times a page is asked from and to
    Files,      \* the days there is a history file of
    Held,       \* day -> the candles in its history file
    AutoDate,   \* the history load looks for its last date itself
    Before      \* or is given it

ASSUME WritersOK ==
    /\ FillDays \in Nat \ {0} /\ FillDays * PerDay <= MaxCandles
    /\ MaxBatch \in Nat \ {0}
    /\ Files \subseteq Nat
    \* A file without candles is never written.
    /\ Held \in [Files -> (SUBSET Places) \ {{}}]
    /\ AutoDate \in BOOLEAN /\ Before \in Nat

VARIABLES
    live,       \* the collector: last is last_candle_time
    cache,      \* day -> the candles in its cache file, empty if there is none
    fill,       \* the backfill
    hist        \* the history load

writers == <<live, cache, fill, hist>>

NoCandle == [n |-> 0, shape |-> CHOOSE s \in Shapes : TRUE]
-----------------------------------------------------------------------------
\* fetch_latest(): the newest complete candle, and one that forms.
Answer(forming) ==
    {[n |-> c, shape |-> tape[c], complete |-> TRUE] : c \in {Len(tape)} \ {0}}
    \cup {[n |-> Len(tape) + 1, shape |-> forming, complete |-> FALSE]}

\* Mutant: the last candle of the answer, complete or not.
LatestAny(forming) == {[n |-> a.n, shape |-> a.shape] : a \in
    {b \in Answer(forming) : b.n <= MaxCandles /\ \A x \in Answer(forming) : x.n <= b.n}}

Latest(forming) == {[n |-> a.n, shape |-> a.shape] : a \in
    {b \in Answer(forming) : b.complete}}

\* Mutant: the next candle counts as the one that was written last.
PollLiveSkips ==
    /\ live.at = "idle"
    /\ \E forming \in Shapes : \E a \in Latest(forming) :
          /\ a.n > live.last + 1
          /\ live' = [live EXCEPT !.at = "insert", !.got = a]
    /\ UNCHANGED <<tape, ltp, cache, fill, hist>>

\* A poll that finds a candle other than the last; one that fails or finds
\* none does nothing.
PollLive ==
    /\ live.at = "idle"
    /\ \E forming \in Shapes : \E a \in Latest(forming) :
          /\ a.n # live.last
          /\ live' = [live EXCEPT !.at = "insert", !.got = a]
    /\ UNCHANGED <<tape, ltp, cache, fill, hist>>

\* Mutant: the candle counts as written whatever becomes of the insert.
InsertLiveFailsSilently ==
    /\ live.at = "insert" /\ Faults \cap {"db", "late"} # {}
    /\ live' = [live EXCEPT !.at = "idle", !.last = live.got.n, !.got = NoCandle]
    /\ UNCHANGED <<tape, ltp, cache, fill, hist>>

\* The insert fails.  If the connection is lost with it and cannot be made
\* again, connect_db() ends the process.
InsertLiveFails ==
    /\ live.at = "insert"
    /\ \/ "db" \in Faults /\ UNCHANGED ltp
       \/ "late" \in Faults /\ ltp' = Inserted([c \in {live.got.n} |-> live.got.shape])
    /\ \E at \in {"idle", "down"} : live' = [live EXCEPT !.at = at, !.got = NoCandle]
    /\ UNCHANGED <<tape, cache, fill, hist>>

InsertLive ==
    /\ live.at = "insert"
    /\ ltp' = Inserted([c \in {live.got.n} |-> live.got.shape])
    /\ live' = [live EXCEPT !.at = "idle", !.last = live.got.n, !.got = NoCandle]
    /\ UNCHANGED <<tape, cache, fill, hist>>

\* The container is started again, and remembers nothing.
RestartLive ==
    /\ live.at = "down" \/ "crash" \in Faults
    /\ live' = [at |-> "idle", last |-> 0, got |-> NoCandle]
    /\ UNCHANGED <<tape, ltp, cache, fill, hist>>
-----------------------------------------------------------------------------
FillIdle == [at |-> "off", day |-> 1, cursor |-> 0, errors |-> 0, groups |-> {}]

\* The days asked for are over.
StartFill ==
    /\ fill.at \in {"off", "done"} /\ Len(tape) >= FillDays * PerDay
    /\ fill' = [FillIdle EXCEPT !.at = "fetch"]
    /\ UNCHANGED <<tape, ltp, live, cache, hist>>

NextDay(failed) ==
    [fill EXCEPT !.day = @ + 1, !.groups = {}, !.errors = IF failed THEN @ + 1 ELSE @,
                 !.at = IF fill.day = FillDays THEN "done" ELSE "fetch"]

\* The window of a day: its first candle, and the first of the next.
Opens(d) == (d - 1) * PerDay + 1
Ends(d) == d * PerDay + 1

\* Mutant: what is in the cache is taken to be in the table.
FetchDaySkips ==
    /\ fill.at = "fetch"
    /\ fill' = IF cache[fill.day] # {} THEN NextDay(FALSE)
               ELSE [fill EXCEPT !.at = "page", !.cursor = Opens(fill.day), !.groups = {}]
    /\ UNCHANGED <<tape, ltp, live, cache, hist>>

\* fetch_day(): the cached day, or the pages of its window.
FetchDay ==
    /\ fill.at = "fetch"
    /\ fill' = IF cache[fill.day] # {} THEN [fill EXCEPT !.at = "insert", !.groups = cache[fill.day]]
               ELSE [fill EXCEPT !.at = "page", !.cursor = Opens(fill.day), !.groups = {}]
    /\ UNCHANGED <<tape, ltp, live, cache, hist>>

\* _paginate(): a page is asked for without the candle that it begins with
\* (includeFirst=False).  Whether the exchange counts the one at its end is not
\* for this code to say.
PageTo == IF fill.cursor + MaxBatch < Ends(fill.day) THEN fill.cursor + MaxBatch ELSE Ends(fill.day)
Gathered(last) == fill.groups \cup Complete((fill.cursor + 1)..last)

AskPage ==
    /\ fill.at = "page" /\ PageTo < Ends(fill.day)
    /\ \E last \in {PageTo - 1, PageTo} :
          fill' = [fill EXCEPT !.cursor = PageTo, !.groups = Gathered(last)]
    /\ UNCHANGED <<tape, ltp, live, cache, hist>>

\* The last page: what was fetched is written to the cache, unless it is nothing.
AskLastPage ==
    /\ fill.at = "page" /\ PageTo = Ends(fill.day)
    /\ \E last \in {PageTo - 1, PageTo} :
          IF Gathered(last) = {} THEN fill' = NextDay(FALSE) /\ UNCHANGED cache
          ELSE /\ fill' = [fill EXCEPT !.at = "insert", !.groups = Gathered(last)]
               /\ cache' = [cache EXCEPT ![fill.day] = Gathered(last)]
    /\ UNCHANGED <<tape, ltp, live, hist>>

\* A page that fails fails the day.
PageFails ==
    /\ fill.at = "page" /\ "api" \in Faults
    /\ fill' = NextDay(TRUE)
    /\ UNCHANGED <<tape, ltp, live, cache, hist>>

InsertDay ==
    /\ fill.at = "insert"
    /\ \/ ltp' = Inserted(Taped(fill.groups)) /\ fill' = NextDay(FALSE)
       \/ "db" \in Faults /\ fill' = NextDay(TRUE) /\ UNCHANGED ltp
       \/ "late" \in Faults /\ fill' = NextDay(TRUE) /\ ltp' = Inserted(Taped(fill.groups))
    /\ UNCHANGED <<tape, live, cache, hist>>

\* The operator stops the program, or a connection cannot be made again.
FillDies ==
    /\ "crash" \in Faults /\ fill.at \in {"fetch", "page", "insert"}
    /\ fill' = FillIdle
    /\ UNCHANGED <<tape, ltp, live, cache, hist>>
-----------------------------------------------------------------------------
HistIdle == [at |-> "off", files |-> {}, rest |-> {}]

\* Files are dated a day after the day they hold.  The date found in the table
\* is that of its oldest tick; with an empty table every file is taken.
Oldest == {DayOf(c) : c \in {p \in Places : ltp[p] # <<>>
                                /\ \A q \in Places : ltp[q] # <<>> => p <= q}}
Selected ==
    {d \in Files : IF AutoDate THEN \A b \in Oldest : d + 1 < b ELSE d + 1 < Before}

StartHist ==
    /\ hist.at \in {"off", "done"}
    /\ hist' = [at |-> IF Selected = {} THEN "done" ELSE "load", files |-> Selected, rest |-> {}]
    /\ UNCHANGED <<tape, ltp, live, cache, fill>>

NextFile == CHOOSE d \in hist.files : \A e \in hist.files : d <= e

OpenFile ==
    /\ hist.at = "load" /\ hist.rest = {} /\ hist.files # {}
    /\ hist' = [hist EXCEPT !.files = @ \ {NextFile}, !.rest = Held[NextFile]]
    /\ UNCHANGED <<tape, ltp, live, cache, fill>>

\* Mutant: the rows that are left after the last full batch are not inserted.
LoadBatchDropsRest ==
    /\ hist.at = "load" /\ hist.rest # {}
    /\ LET c == CHOOSE x \in hist.rest : \A y \in hist.rest : x <= y
       IN /\ ltp' = IF hist.rest = {c} THEN ltp ELSE Inserted(Taped({c}))
          /\ hist' = [hist EXCEPT !.rest = @ \ {c},
                         !.at = IF hist.rest = {c} /\ hist.files = {} THEN "done" ELSE @]
    /\ UNCHANGED <<tape, live, cache, fill>>

\* One batch of a file (here one candle), committed by itself.
LoadBatch ==
    /\ hist.at = "load" /\ hist.rest # {}
    /\ LET c == CHOOSE x \in hist.rest : \A y \in hist.rest : x <= y
       IN /\ ltp' = Inserted(Taped({c}))
          /\ hist' = [hist EXCEPT !.rest = @ \ {c},
                         !.at = IF hist.rest = {c} /\ hist.files = {} THEN "done" ELSE @]
    /\ UNCHANGED <<tape, live, cache, fill>>

\* Nothing catches a database error here.
HistDies ==
    /\ Faults \cap {"crash", "db"} # {} /\ hist.at = "load"
    /\ hist' = HistIdle
    /\ UNCHANGED <<tape, ltp, live, cache, fill>>
=============================================================================
