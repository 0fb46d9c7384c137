------------------------------- MODULE Trends -------------------------------
(***************************************************************************)
(* The trends aggregator: TrendsService of the analytics service           *)
(* (trends.service.ts) counts each verdict of the topic once, in one       *)
(* transaction with its dedupe row, and the analytics page of the          *)
(* dashboard draws what the gateway fetches of the counts.                 *)
(***************************************************************************)
EXTENDS KafkaConsumer, FiniteSetsExt

CONSTANTS
    Fact,       \* Fact[i]: day, verdict and categories of event i
    Categories, \* categories the classifier gives
    MaxDay,     \* bound: the last day
    MaxDays,    \* MAX_DAYS of trends.controller.ts
    DefaultDays \* DEFAULT_DAYS, and the 14 days the page asks for

VARIABLES
    processed, \* message ids with a dedupe row (ProcessedMessage)
    counts,    \* ModerationTrend: the count of each day, category and verdict
    today,
    page,      \* AnalyticsPage: status and the rows last fetched
    basis      \* events counted, and cutoff, when the rows were read

trendVars == <<processed, counts, today, page, basis>>

Verdicts == {"approved", "rejected"}
UNCATEGORIZED == "none"

\* The table takes any string for a verdict; validation keeps "other" out.
Rows == [date: 0..MaxDay, category: Categories \cup {UNCATEGORIZED},
         verdict: Verdicts \cup {"other"}]

ASSUME DaysAssumption == {MaxDay, MaxDays, DefaultDays} \subseteq Nat

\* The sentinel is no category of the classifier, whose categories are codes, and
\* what passes validation has one of the two verdicts.
ASSUME FactAssumption ==
    /\ Fact \in [Events -> [day: 0..MaxDay, verdict: Verdicts \cup {"other"},
                           categories: Seq(Categories)]]
    /\ UNCATEGORIZED \notin Categories
    /\ \A i \in Events :
         Kind[i] \in {"sound", "anonymous"} => Fact[i].verdict \in Verdicts

Sum(f(_), S) == MapThenSumSet(f, S)

InitTrends ==
    /\ processed = {} /\ counts = [r \in Rows |-> 0] /\ today = 0
    /\ page = [status |-> "pending", rows |-> {}]
    /\ basis = [events |-> {}, cutoff |-> 0]

\* The categories an event counts under, with repetitions.
Buckets(i) ==
    IF Fact[i].categories = <<>> THEN <<UNCATEGORIZED>> ELSE Fact[i].categories

\* How often event i counts in row r.
Weight(i, r) ==
    IF r.date = Fact[i].day /\ r.verdict = Fact[i].verdict
    THEN Cardinality({n \in 1..Len(Buckets(i)) : Buckets(i)[n] = r.category})
    ELSE 0

\* Faulty variant of Aggregate: the dedupe row outlives a failed upsert.
AggregateDedupeOnly(i) ==
    /\ processed' = processed \cup {i}
    /\ \/ counts' = [r \in Rows |-> counts[r] + Weight(i, r)]
       \/ UNCHANGED counts

\* The transaction: the dedupe row and one upsert for each category.
Aggregate(i) ==
    /\ processed' = processed \cup {i}
    /\ counts' = [r \in Rows |-> counts[r] + Weight(i, r)]

Aggregating == group = "trends" /\ Ready

\* Faulty variant of Skip: a version from the future is rethrown.
SkipGarbled ==
    /\ Aggregating /\ Kind[Current] = "garbled"
    /\ Pass
    /\ UNCHANGED <<faults, trendVars>>

\* A record that no retry would make readable is logged and passed.
Skip ==
    /\ Aggregating /\ Unreadable(Current)
    /\ Pass
    /\ UNCHANGED <<faults, trendVars>>

\* The payload fails validation, on every delivery.
Refuse ==
    /\ Aggregating /\ Kind[Current] = "invalid"
    /\ Throw
    /\ UNCHANGED <<faults, trendVars>>

Countable(i) == Kind[i] \in {"sound", "anonymous"}

Count ==
    /\ Aggregating /\ Countable(Current) /\ Current \notin processed
    /\ Aggregate(Current)
    /\ Pass
    /\ UNCHANGED <<faults, today, page, basis>>

\* P2002 on the dedupe row: a duplicate.
SkipDuplicate ==
    /\ Aggregating /\ Countable(Current) /\ Current \in processed
    /\ Pass
    /\ UNCHANGED <<faults, trendVars>>

\* Faulty variant of CountFails: the error is logged and dropped.
CountFailsSilently ==
    /\ Aggregating /\ Countable(Current) /\ Current \notin processed
    /\ Fault
    /\ Pass
    /\ UNCHANGED trendVars

\* A statement fails and all is rolled back, or the reply of the commit is lost.
CountFails ==
    /\ Aggregating /\ Countable(Current) /\ Current \notin processed
    /\ Fault
    /\ Throw
    /\ \/ UNCHANGED <<processed, counts>>
       \/ Aggregate(Current)
    /\ UNCHANGED <<today, page, basis>>

----------------------------------------------------------------------------
NextDay ==
    /\ group = "trends" /\ today < MaxDay
    /\ today' = today + 1
    /\ UNCHANGED <<kafkaVars, processed, counts, page, basis>>

\* The days a request asks for, clamped; 0 stands for none or nonsense.
Clamped(days) == IF days > 0 THEN Min2(days, MaxDays) ELSE DefaultDays

\* trendsSince(): the rows of the last days.
TrendsSince(days) ==
    {[row |-> r, count |-> counts[r]] :
        r \in {x \in Rows : counts[x] > 0 /\ x.date >= today - Clamped(days)}}

\* The page's query is answered; it keeps the rows until it asks again.
LoadTrends ==
    /\ group = "trends" /\ state # "down"
    /\ page' = [status |-> "success", rows |-> TrendsSince(DefaultDays)]
    /\ basis' = [events |-> processed, cutoff |-> today - Clamped(DefaultDays)]
    /\ UNCHANGED <<kafkaVars, processed, counts, today>>

\* analytics-service is unreachable or answers no 200: a 502 for the page, whose
\* error screen covers the rows it has.
LoadFails ==
    /\ group = "trends" /\ Fault
    /\ page' = [page EXCEPT !.status = "error"]
    /\ UNCHANGED <<topicVars, consumerVars, processed, counts, today, basis>>

----------------------------------------------------------------------------
\* What the page computes of its rows (shape-data.ts).
Total(rows) == Sum(LAMBDA x : x.count, rows)

VerdictsByDay(rows) ==
    LET day(d) == {x \in rows : x.row.date = d}
    IN  [d \in {x.row.date : x \in rows} |->
           [approved |-> Total({x \in day(d) : x.row.verdict = "approved"}),
            rejected |-> Total({x \in day(d) : x.row.verdict = "rejected"}),
            pending |-> Total({x \in day(d) : x.row.verdict \notin Verdicts})]]

CategoryTotals(rows) ==
    [c \in {x.row.category : x \in rows} \ {UNCATEGORIZED} |->
        Total({x \in rows : x.row.category = c})]

ModerationTotals(rows) ==
    [total |-> Total(rows),
     approved |-> Total({x \in rows : x.row.verdict = "approved"})]

\* The tiles, the bars of each day and the bars of each category.
Charts(rows) ==
    [screen |-> "charts", totals |-> ModerationTotals(rows),
     byDay |-> VerdictsByDay(rows), categories |-> CategoryTotals(rows)]

\* What AnalyticsPage shows: a skeleton, an error, no data, or tiles and charts.
View ==
    IF page.status # "success" THEN [screen |-> page.status]
    ELSE IF page.rows = {} THEN [screen |-> "empty"]
    ELSE Charts(page.rows)
=============================================================================
