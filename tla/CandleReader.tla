---------------------------- MODULE CandleReader ----------------------------
(***************************************************************************)
(* fetch_candles() of shared/tsdb_reader.py, from which the runners and    *)
(* the position monitor's programs take their candles: the pages of a      *)
(* fetch, while candles go on to complete, and the copy of the last result *)
(* that is served for a while, or when a fetch fails.                      *)
(* Each program reads for itself, so there is one reader here.             *)
(***************************************************************************)
EXTENDS TickTable

CONSTANTS
    Span,       \* the candles that the days asked for hold
    PageSize,   \* candles in a full page
    MaxPages    \* the cap on the pages of a fetch

ASSUME ReaderOK == Span \in Nat \ {0} /\ PageSize \in Nat \ {0} /\ MaxPages \in Nat \ {0}

VARIABLES reader

FirstOf(n) == IF n > Span THEN n - Span + 1 ELSE 1

\* began: the complete candles when the fetch began; moved: a candle has
\* completed since the last page; kept: the copy of the last result, and upto
\* what its fetch set out for (zero if the cap cut it short).
ReaderIdle == [at |-> "idle", began |-> 0, cur |-> 0, pages |-> 0, rows |-> {},
               moved |-> FALSE, kept |-> {}, shown |-> {}, upto |-> 0]

\* The copy is still good.
ServeKept ==
    /\ reader.at = "idle" /\ reader.kept # {}
    /\ reader' = [reader EXCEPT !.shown = reader.kept]
    /\ UNCHANGED <<tape, ltp>>

BeginFetch ==
    /\ reader.at = "idle" /\ Len(tape) > 0
    /\ reader' = [reader EXCEPT !.at = "page", !.began = Len(tape), !.pages = 0, !.rows = {},
                                !.cur = FirstOf(Len(tape)), !.moved = FALSE]
    /\ UNCHANGED <<tape, ltp>>

\* The candles from cur on, the last of which may be the one that forms.
Page == {n \in reader.cur..(reader.cur + PageSize - 1) : n <= Len(tape) + 1}
Newest(s) == CHOOSE n \in s : \A m \in s : m <= n

Fetched(rows, upto) ==
    [reader EXCEPT !.at = "idle", !.rows = {}, !.shown = rows,
                   !.kept = IF rows = {} THEN @ ELSE rows,
                   !.upto = IF rows = {} THEN @ ELSE upto]

Capped == Cardinality(Page) = PageSize /\ reader.pages + 1 = MaxPages

\* Mutant: the next page begins a candle too late.
FetchPageSkips ==
    /\ reader.at = "page" /\ Page # {}
    /\ LET rows == reader.rows \cup Complete(Page)
       IN reader' = IF Cardinality(Page) < PageSize \/ reader.pages + 1 = MaxPages
                    THEN Fetched(rows, IF Capped THEN 0 ELSE reader.began)
                    ELSE [reader EXCEPT !.rows = rows, !.cur = Newest(Page) + 2,
                                        !.pages = @ + 1, !.moved = FALSE]
    /\ UNCHANGED <<tape, ltp>>

\* A page that is not full, or the cap, ends the fetch.
FetchPage ==
    /\ reader.at = "page" /\ Page # {}
    /\ LET rows == reader.rows \cup Complete(Page)
       IN reader' = IF Cardinality(Page) < PageSize \/ reader.pages + 1 = MaxPages
                    THEN Fetched(rows, IF Capped THEN 0 ELSE reader.began)
                    ELSE [reader EXCEPT !.rows = rows, !.cur = Newest(Page) + 1,
                                        !.pages = @ + 1, !.moved = FALSE]
    /\ UNCHANGED <<tape, ltp>>

\* The page would begin after the candle that forms: it is empty.
FetchNothing ==
    /\ reader.at = "page" /\ Page = {}
    /\ reader' = Fetched(reader.rows, reader.began)
    /\ UNCHANGED <<tape, ltp>>

\* A request fails: the last result is served, if there is one.
FetchFails ==
    /\ reader.at = "page" /\ (Page = {} \/ "api" \in Faults)
    /\ reader' = [reader EXCEPT !.at = "idle", !.rows = {}, !.shown = reader.kept]
    /\ UNCHANGED <<tape, ltp>>

Read == ServeKept \/ BeginFetch \/ FetchPage \/ FetchNothing \/ FetchFails
=============================================================================
