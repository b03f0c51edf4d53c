---------------------------- MODULE MarketGates ----------------------------
(***************************************************************************)
(* The filters that keep strategies out of the market.                      *)
(*                                                                         *)
(* shared/event_gate.py builds a calendar of the major events of 2025 and   *)
(* 2026 from lists and from rules, and keeps the strategies from trading    *)
(* near one; research/news_filter.py does the same with a list of events    *)
(* from a file.  Times are quarters of an hour from 2025-01-01 00:00 UTC.   *)
(* The study builds the table month by month and then asks the gate.        *)
(*                                                                         *)
(* shared/macro_gate.py: a day is traded when yesterday's yield is half a    *)
(* deviation or more away from the mean of the days before it.  The yields  *)
(* are kept in a file, and in memory from the first question on; when they   *)
(* are stale, a fetch is tried, once a day.  A step of the tape is a day;    *)
(* mem.local and mem.fallback are the files, mem.cache is the memory.       *)
(***************************************************************************)
EXTENDS Bars

CONSTANTS
    EventWindow,    \* quarters of an hour on either side of an event
    Probes,         \* how far from an event the gate is asked
    ZWindow,        \* days of the mean
    Staleness,      \* days that the yields may be old without a fetch
    DaysOff,        \* the days of the tape without a yield
    MaxAsks         \* bound: questions per day

ASSUME WindowIsTime == EventWindow \in Nat /\ Probes \subseteq Int

ASSUME MacroOK ==
    /\ {ZWindow, Staleness, MaxAsks} \subseteq Nat /\ ZWindow > 1
    /\ DaysOff \subseteq Nat \ {0}

ASSUME YieldsAreNumbers ==
    /\ \A past \in Pasts["macro"] : past \in Seq(Int)
    /\ \A bar \in Shapes["macro"] : bar.c \in Int

MonthDays == <<31, 28, 31, 30, 31, 30, 31, 31, 30, 31, 30, 31>>

\* Neither year is a leap year, and 2025 begins on a Wednesday.
Ordinal(y, m, d) == 365 * (y - 2025) + FoldSet(LAMBDA n, sum : sum + MonthDays[n], 0, 1..(m - 1)) + d - 1
WeekdayOf(y, m, d) == (2 + Ordinal(y, m, d)) % 7
At(y, m, d, hour, minute) == 4 * (24 * Ordinal(y, m, d) + hour) + minute \div 15

FOMC_DATES == {<<2025, 1, 29>>, <<2025, 3, 19>>, <<2025, 5, 7>>, <<2025, 6, 18>>, <<2025, 7, 30>>,
               <<2025, 9, 17>>, <<2025, 10, 29>>, <<2025, 12, 10>>,
               <<2026, 1, 28>>, <<2026, 3, 18>>, <<2026, 5, 6>>}
ECB_DATES == {<<2025, 1, 30>>, <<2025, 3, 6>>, <<2025, 4, 17>>, <<2025, 6, 5>>, <<2025, 7, 24>>,
              <<2025, 9, 11>>, <<2025, 10, 30>>, <<2025, 12, 18>>,
              <<2026, 1, 22>>, <<2026, 3, 12>>, <<2026, 4, 30>>}
SPEECH_DATES == {<<2025, 2, 11, 15>>, <<2025, 2, 12, 15>>, <<2025, 7, 22, 14>>, <<2025, 8, 22, 14>>,
                 <<2026, 2, 11, 15>>, <<2026, 2, 12, 15>>}
OVERRIDES_CPI == {<<2025, 1, 15>>, <<2025, 2, 12>>, <<2025, 3, 12>>,
                  <<2026, 1, 14>>, <<2026, 2, 11>>, <<2026, 3, 11>>, <<2026, 4, 14>>, <<2026, 5, 13>>}
OVERRIDES_NFP == {<<2025, 1, 10>>, <<2025, 2, 7>>, <<2025, 3, 7>>,
                  <<2026, 1, 9>>, <<2026, 2, 6>>, <<2026, 3, 6>>, <<2026, 4, 3>>, <<2026, 5, 1>>}

\* The n-th such day of the week, from the first one on.
NthWeekday(y, m, weekday, n) ==
    7 * (n - 1) + CHOOSE d \in 1..7 : WeekdayOf(y, m, d) = weekday

LastBusinessDay(y, m) == Max({d \in 1..MonthDays[m] : WeekdayOf(y, m, d) < 5})

\* The dates are those of 2025.
IsSummer(m, d) == m \in 4..10 \/ (m = 3 /\ d >= 9) \/ (m = 11 /\ d < 2)

\* Half past eight and two o'clock in New York, as hours UTC.
UtcHourFor830(m, d) == IF IsSummer(m, d) THEN 12 ELSE 13
UtcHourFor1400(m, d) == IF IsSummer(m, d) THEN 18 ELSE 19

Event(y, m, d, hour, minute, type, importance) ==
    [time |-> At(y, m, d, hour, minute), type |-> type, importance |-> importance]
MorningEvent(y, m, d, type, importance) == Event(y, m, d, UtcHourFor830(m, d), 30, type, importance)

\* The date that overrides the rule, or the rule's.
Overridden(overrides, y, m, day) ==
    LET fixed == {d \in 1..MonthDays[m] : <<y, m, d>> \in overrides}
    IN  IF fixed # {} THEN Min(fixed) ELSE day

\* The events of the lists.
Listed ==
    {Event(e[1], e[2], e[3], UtcHourFor1400(e[2], e[3]), 0, "FOMC", 3) : e \in FOMC_DATES}
        \cup {Event(e[1], e[2], e[3], 12, minute, "ECB", 2) : e \in ECB_DATES, minute \in {15, 45}}
        \cup {Event(e[1], e[2], e[3], e[4], 0, "SPEECH", 2) : e \in SPEECH_DATES}

\* The events of one month that go by rules.
Monthly(y, m) ==
    {MorningEvent(y, m, Overridden(OVERRIDES_CPI, y, m, NthWeekday(y, m, 2, 2)), "CPI", 3),
     MorningEvent(y, m, Overridden(OVERRIDES_NFP, y, m, NthWeekday(y, m, 4, 1)), "NFP", 3),
     MorningEvent(y, m, LastBusinessDay(y, m), "PCE", 3)}
        \cup IF m % 3 = 0 THEN {} ELSE {MorningEvent(y, m, NthWeekday(y, m, 3, 4), "GDP", 2)}

\* The calendar ends in May 2026.
LastMonth == 17
YearOf(n) == 2025 + (n - 1) \div 12
MonthOf(n) == ((n - 1) % 12) + 1

InitEvents == StartStudy("events", [table |-> Listed, month |-> 0])

BuildMonth ==
    /\ study = "events" /\ mem.month < LastMonth
    /\ LET n == mem.month + 1
       IN  mem' = [mem EXCEPT !.month = n, !.table = @ \cup Monthly(YearOf(n), MonthOf(n))]
    /\ UNCHANGED <<study, tape, out>>

\* The nearest event decides.
EventWindowOpen(now, table) ==
    table = {} \/ Min({Abs(e.time - now) : e \in table}) > EventWindow

\* s90_news_fade.py takes those of the first class.
HighImpactUsd(table) ==
    {e.time : e \in {f \in table : f.importance >= 3 /\ f.type \in {"FOMC", "CPI", "NFP", "PCE"}}}

AskEvents ==
    /\ study = "events" /\ mem.month = LastMonth /\ out = <<>>
    /\ \E e \in mem.table, distance \in Probes :
         out' = <<[now |-> e.time + distance, open |-> EventWindowOpen(e.time + distance, mem.table)]>>
    /\ UNCHANGED <<study, tape, mem>>

NextEvents == BuildMonth \/ AskEvents

\* news_filter.py: a window before and one after each event of the file that
\* has the right currency and impact.
LoadEvents(rows, currencies, impacts) ==
    {r.time : r \in {x \in rows : x.currency \in currencies /\ x.impact \in impacts}}
IsNewsWindow(now, events, lookback, lookahead) ==
    \E e \in events : e - lookback <= now /\ now <= e + lookahead

-----------------------------------------------------------------------------
\* Summer time in the United States lasts from the second Sunday of March to the
\* first of November.
SummerTime(y, m, d) ==
    /\ Ordinal(y, m, d) >= Ordinal(y, 3, NthWeekday(y, 3, 6, 2))
    /\ Ordinal(y, m, d) < Ordinal(y, 11, NthWeekday(y, 11, 6, 1))

NewYork(y, m, d, hour, minute) == At(y, m, d, hour + IF SummerTime(y, m, d) THEN 4 ELSE 5, minute)

\* The events that America publishes in the morning are at half past eight in New
\* York, and the decisions of its bank at two, on working days, although the code
\* has the dates of the change of 2025 only; every month has one of each kind that
\* the strategies wait for.
EventsAreOnTime ==
    LET Days(n) == 1..MonthDays[MonthOf(n)]
        Mornings(n) == {NewYork(YearOf(n), MonthOf(n), d, 8, 30) :
                          d \in {x \in Days(n) : WeekdayOf(YearOf(n), MonthOf(n), x) < 5}}
        Of(n, type) == {e.time : e \in {x \in mem.table : x.type = type}} \cap Mornings(n)
    IN  /\ \A n \in 1..mem.month, type \in {"CPI", "NFP", "PCE"} : Cardinality(Of(n, type)) = 1
        /\ \A e \in mem.table :
             /\ e.type \in {"CPI", "NFP", "PCE", "GDP"} => \E n \in 1..mem.month : e.time \in Mornings(n)
             /\ e.type = "FOMC" =>
                  \E x \in FOMC_DATES : e.time = NewYork(x[1], x[2], x[3], 14, 0) /\ WeekdayOf(x[1], x[2], x[3]) < 5

\* The two filters agree where they are given the same events and windows; an hour
\* that the gate lets through is far from every event that the news study fades.
FiltersAgree == \A i \in DOMAIN out :
    LET now == out[i].now
        rows == {[time |-> e.time, currency |-> "USD", impact |-> e.importance] : e \in mem.table}
    IN  /\ out[i].open <=> ~IsNewsWindow(now, LoadEvents(rows, {"USD"}, {2, 3}), EventWindow, EventWindow)
        /\ out[i].open => ~IsNewsWindow(now, HighImpactUsd(mem.table), EventWindow, EventWindow)

EventGateHolds == study = "events" => FiltersAgree /\ (out = <<>> => EventsAreOnTime)

-----------------------------------------------------------------------------
\* A series of yields maps days to closes; day 1 is the first of the tape.
Nothing == [day \in {} |-> 0]
Today == Len(tape)
Newest(yields) == Max(DOMAIN yields)

\* The yields before the tape, and those of all days so far until yesterday.
Earlier(past) == [day \in (1 - Len(past))..0 |-> past[day + Len(past)]]
FinalDays == ((1 - Len(mem.past))..(Today - 1)) \ DaysOff
FinalYields == [day \in FinalDays |-> IF day < 1 THEN Earlier(mem.past)[day] ELSE tape[day].c]

\* What the provider may answer: nothing, or all days, today's not at all or with
\* the value that it has on the way.
Fetched ==
    {Nothing, FinalYields}
        \cup IF Today \in DaysOff THEN {}
             ELSE {[day \in FinalDays \cup {Today} |->
                       IF day = Today THEN bar.c ELSE FinalYields[day]] : bar \in Shapes["macro"]}

\* The image ships a file, or one of another repository is found, or none.
InitMacro ==
    /\ study = "macro" /\ tape = <<>> /\ out = <<>>
    /\ \E past \in Pasts["macro"] : \E local, fallback \in {Nothing, Earlier(past)} :
         /\ local # Nothing => fallback = Nothing
         /\ mem = [past |-> past, local |-> local, fallback |-> fallback, cache |-> Nothing, attempt |-> 0]

NextDay ==
    /\ NextBar("macro") /\ out' = <<>> /\ UNCHANGED mem
    /\ Today + 1 \in DaysOff => tape' = Append(tape, CHOOSE bar \in Shapes["macro"] : TRUE)

\* The first file that can be read.
ReadAny == IF mem.local # Nothing THEN mem.local ELSE mem.fallback
Loaded == IF mem.cache = Nothing THEN ReadAny ELSE mem.cache

IsStale(yields) ==
    /\ mem.attempt # Today
    /\ yields = Nothing \/ Newest(yields) < Today - Staleness

\* A mutant of Before: today's yield is among them.
BeforeOrOn(yields, today) == [day \in {d \in DOMAIN yields : d <= today} |-> yields[day]]

Before(yields, today) == [day \in {d \in DOMAIN yields : d < today} |-> yields[day]]

\* |z| >= 1/2 with the sample deviation of the days before the last, in whole numbers.
FarFromMean(past) ==
    LET window == {day \in DOMAIN past : Cardinality({d \in DOMAIN past : d > day}) \in 1..ZWindow}
        sum == MapThenSumSet(LAMBDA day : past[day], window)
        squares == MapThenSumSet(LAMBDA day : past[day] * past[day], window)
        spread == ZWindow * squares - sum * sum
        off == ZWindow * past[Newest(past)] - sum
    IN  spread <= 0 \/ 4 * (ZWindow - 1) * off * off >= ZWindow * spread

\* Whatever is missing opens the gate.
GateOpen(yields, today) ==
    LET past == Before(yields, today)
    IN  \/ Cardinality(DOMAIN yields) < ZWindow + 2
        \/ Cardinality(DOMAIN past) < ZWindow + 1
        \/ FarFromMean(past)

\* tnx_gate_open(): the cached yields, refreshed if they are stale.
AskMacro ==
    /\ study = "macro" /\ Today > 0 /\ Len(out) < MaxAsks
    /\ \E got \in IF IsStale(Loaded) THEN Fetched ELSE {Nothing}, saved \in BOOLEAN :
         LET yields == IF got = Nothing THEN Loaded ELSE got
         IN  /\ mem' = [mem EXCEPT !.cache = yields,
                                   !.attempt = IF IsStale(Loaded) THEN Today ELSE @,
                                   !.local = IF saved THEN (IF got = Nothing THEN @ ELSE got) ELSE @]
             /\ out' = Append(out, [yields |-> yields, open |-> GateOpen(yields, Today), fetched |-> IsStale(Loaded)])
    /\ UNCHANGED <<study, tape>>

\* The program of the operator is a process of its own.
Refresh ==
    /\ study = "macro" /\ Today > 0
    /\ \E got \in Fetched \ {Nothing} : mem' = [mem EXCEPT !.local = got]
    /\ UNCHANGED <<study, tape, out>>

RestartStrategies ==
    /\ study = "macro" /\ mem.cache # Nothing
    /\ mem' = [mem EXCEPT !.cache = Nothing, !.attempt = 0]
    /\ out' = <<>>
    /\ UNCHANGED <<study, tape>>

NextMacro == NextDay \/ AskMacro \/ Refresh \/ RestartStrategies

-----------------------------------------------------------------------------
\* out holds what the process has answered today.
\* A day is traded or not: once there are yields, a process gives one answer all
\* day and asks the provider once at most, although files and fetches change in
\* between.
OneAnswerPerDay ==
    /\ \A i, j \in DOMAIN out : i < j /\ out[i].yields # Nothing => out[i].open = out[j].open
    /\ Cardinality({i \in DOMAIN out : out[i].fetched}) <= 1

\* "Causal": what today's yield is on the way does not change the answer.
AnswersAreCausal == \A i \in DOMAIN out, bar \in Shapes["macro"] :
    LET yields == out[i].yields
    IN  GateOpen([day \in DOMAIN yields |-> IF day = Today THEN bar.c ELSE yields[day]], Today)
            = out[i].open

\* The yields that an answer is taken from are final but for the last, and no older
\* than the code allows unless the fetch of the day has failed.
YieldsAreKnown == \A i \in DOMAIN out :
    LET yields == out[i].yields
    IN  /\ \A day \in DOMAIN yields :
              day # Newest(yields) => day \in FinalDays /\ yields[day] = FinalYields[day]
        /\ yields = Nothing \/ Newest(yields) < Today - Staleness => mem.attempt = Today

MacroGateHolds == study = "macro" => OneAnswerPerDay /\ AnswersAreCausal /\ YieldsAreKnown

=============================================================================
