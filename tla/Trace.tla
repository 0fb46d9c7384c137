------------------------------- MODULE Trace -------------------------------
(***************************************************************************)
(* The Trace page: one post fired from the Trigger page, followed by the   *)
(* log lines that end in its correlationId (derive-trace.ts,               *)
(* trace-page.tsx).  Every stage of the pipeline logs its marker after its *)
(* effect; the page polls the gateway's log query and derives the stages   *)
(* from what comes back.  A consumer whose handler fails logs an error     *)
(* with the id, and again when it gives a message up, while the retry may  *)
(* still go through.  A stage may never come (a row is quarantined, a      *)
(* message dead-lettered or skipped), and no line with the id may tell of  *)
(* it: of a row the relay cannot send and of a message it cannot parse the *)
(* log names neither.  Nor may its marker come (the service dies first: the *)
(* redelivery logs a duplicate by its messageId).  What happens twice (a   *)
(* row sent again, a second verdict) is taken once: a stage begins at its  *)
(* first line.                                                             *)
(***************************************************************************)
EXTENDS LogStream

CONSTANTS
    MaxExtra, \* bound: lines that are no marker of a stage
    MaxLoose  \* bound: these and the markers outstanding together

ASSUME TraceAssumption == MaxExtra \in Nat /\ MaxLoose \in Nat

VARIABLES
    happened, \* stages whose effect took place
    unlogged, \* of these, the ones whose marker is still to be logged
    trigger,  \* the Trigger page: "idle", "sending", "fired" or "failed"
    known,    \* the page has the correlationId
    data      \* the entries of the last poll

pageVars == <<trigger, known, data>>
chainVars == <<happened, unlogged, pageVars>>
traceVars == <<logVars, chainVars>>

Chain ==
    <<"gateway", "post-created", "job-published", "ai-verdict", "verdict-applied",
      "result-published", "analytics", "notification">>
Stages == ToSet(Chain)

ServiceOf(stage) ==
    CASE stage = "gateway" -> "api-gateway"
      [] stage = "ai-verdict" -> "ai-processing-service"
      [] stage = "analytics" -> "analytics-service"
      [] stage = "notification" -> "notification-service"
      [] OTHER -> "content-service"

ASSUME ServicesAssumption == \A stage \in Stages : ServiceOf(stage) \in Services

\* The stage that sets a stage off: the two consumers of the topic race.
Before(stage) ==
    CASE stage = "post-created" -> {}
      [] stage \in {"gateway", "job-published"} -> {"post-created"}
      [] stage = "ai-verdict" -> {"job-published"}
      [] stage = "verdict-applied" -> {"ai-verdict"}
      [] stage = "result-published" -> {"verdict-applied"}
      [] stage \in {"analytics", "notification"} -> {"result-published"}

\* The stages that a message sets off, by way of RabbitMqConsumer or KafkaConsumer.
Consumed == {"ai-verdict", "verdict-applied", "analytics", "notification"}

\* The stage under which the page lists what such a consumer logs: the service
\* alone tells it, but in content-service, where its context is no stage's.
ListedAs(stage) == IF stage = "verdict-applied" THEN "unlisted" ELSE stage

ChainInit ==
    /\ happened = {} /\ unlogged = {}
    /\ trigger = "idle" /\ known = FALSE /\ data = {}
TraceInit ==
    /\ sink = [s \in Services |-> "ready"]
    /\ InitStream /\ InitTail /\ ChainInit

-----------------------------------------------------------------------------
\* The form of the Trigger page is submitted.
FirePost ==
    /\ trigger = "idle" /\ trigger' = "sending"
    /\ UNCHANGED <<logVars, happened, unlogged, known, data>>

\* The lines that are no marker of a stage, and with them the markers outstanding.
Extra == Len(added) - Cardinality(happened \ unlogged)
Loose == Extra + Cardinality(unlogged)

Happen(stage) ==
    /\ trigger # "idle" /\ stage \notin happened
    /\ Before(stage) \subseteq happened
    /\ stage = "gateway" => "post-created" \notin unlogged /\ trigger = "sending"
    /\ Loose < MaxLoose
    /\ happened' = happened \cup {stage} /\ unlogged' = unlogged \cup {stage}
    /\ UNCHANGED <<logVars, pageVars>>

Line(service, stage, level) ==
    [service |-> service, n |-> logged[service] + 1, stage |-> stage, level |-> level]

\* The marker of a stage.
Mark(stage) ==
    /\ stage \in unlogged /\ unlogged' = unlogged \ {stage}
    /\ Log(ServiceOf(stage), Line(ServiceOf(stage), stage, "log"))
    /\ UNCHANGED <<happened, pageVars>>

\* The gateway answers behind its marker.  The Trigger page lists the answer's
\* x-correlation-id with a link to the trace.
Fired ==
    /\ trigger = "sending" /\ "gateway" \in happened \ unlogged
    /\ trigger' = "fired" /\ known' = TRUE
    /\ UNCHANGED <<logVars, happened, unlogged, data>>

\* A delivery fails, whether its effect took place before or not, or is the last:
\* the consumer logs an error with the id.
FailDelivery(stage) ==
    /\ stage \in Consumed /\ Before(stage) \subseteq happened
    /\ Extra < MaxExtra /\ Loose < MaxLoose
    /\ Log(ServiceOf(stage), Line(ServiceOf(stage), ListedAs(stage), "error"))
    /\ UNCHANGED chainVars

\* The gateway gets no answer, whether the post was created or not.  The client
\* gets a 500 without the id.
Unreachable ==
    /\ trigger = "sending" /\ "gateway" \notin happened
    /\ trigger' = "failed"
    /\ Log("api-gateway", Line("api-gateway", "gateway", "error"))
    /\ UNCHANGED <<happened, unlogged, known, data>>

\* Entries of other requests.
Noise ==
    /\ Extra < MaxExtra /\ Loose < MaxLoose
    /\ Log("api-gateway", Line("api-gateway", "other", "log"))
    /\ UNCHANGED chainVars

-----------------------------------------------------------------------------
(* deriveTrace() and isTraceSettled().                                     *)

\* The stages with an entry, the ones in error, and the ones that are done.
Listed(entries) == {e.stage : e \in entries} \cap Stages
Failed(entries) == Listed({e \in entries : e.level = "error"})
Done(entries) == Listed(entries) \ Failed(entries)

\* When each stage reached began, by its place in the list.  Entries are stamped
\* as they are logged: the place in the stream is the time.
StartedAt(entries) ==
    LET at(stage) == {i \in 1..Len(added) : added[i].stage = stage /\ added[i] \in entries}
    IN  [k \in {k \in 1..Len(Chain) : Chain[k] \in Listed(entries)} |-> Min(at(Chain[k]))]

\* Time since the stage before it in the list that was reached, never negative.
\* The first stage reached has none.
Latencies(startedAt) ==
    LET earlier(k) == {j \in DOMAIN startedAt : j < k}
    IN  [k \in {k \in DOMAIN startedAt : earlier(k) # {}} |->
            Max({0, startedAt[k] - startedAt[Max(earlier(k))]})]

TotalDuration(startedAt) ==
    IF startedAt = <<>> THEN 0 ELSE Max(Range(startedAt)) - Min(Range(startedAt))

\* Faulty variant of IsTraceSettled: the last stage alone decides.
SettledByTheLast(entries) == Failed(entries) # {} \/ "notification" \in Done(entries)

IsTraceSettled(entries) == Failed(entries) # {} \/ Done(entries) = Stages

Ours(entry) == entry.stage # "other"

\* The entries of the id in the window of the query.  Its limit of 1000 is
\* beyond what one post logs.
Fetch == {added[i] : i \in Matching({e \in ToSet(added) : Ours(e)}, Len(added))}

\* The id read off the Logs page.
Paste ==
    /\ ~known /\ Fetch # {} /\ known' = TRUE
    /\ UNCHANGED <<logVars, happened, unlogged, trigger, data>>

\* refetchInterval: every POLL_MS until the trace is settled.  A poll that fails
\* leaves the entries of the last one.
Poll ==
    /\ known /\ ~IsTraceSettled(data)
    /\ data' = Fetch
    /\ UNCHANGED <<logVars, happened, unlogged, trigger, known>>

\* What the page shows of the entries it has.
TraceScreen(entries) ==
    LET startedAt == StartedAt(entries)
    IN  [settled |-> IsTraceSettled(entries),
         done |-> Done(entries), failed |-> Failed(entries),
         duration |-> TotalDuration(startedAt),
         latencies |-> Range(Latencies(startedAt))]

TraceNext ==
    \/ \E stage \in Stages : Happen(stage) \/ Mark(stage) \/ FailDelivery(stage)
    \/ FirePost \/ Fired \/ Unreachable \/ Noise \/ Paste \/ Poll

TraceSpec == TraceInit /\ [][TraceNext]_traceVars

-----------------------------------------------------------------------------
TraceTypeOK ==
    /\ unlogged \subseteq happened /\ happened \subseteq Stages
    /\ trigger \in {"idle", "sending", "fired", "failed"} /\ known \in BOOLEAN
    /\ data \subseteq {e \in ToSet(added) : Ours(e)}

\* What sets the stage off took place; the gateway failed if it told the form so.
Reached(stage) ==
    IF stage = "gateway" THEN trigger = "failed" ELSE Before(stage) \subseteq happened

InWindow(stage) == \E i \in Scanned : added[i].stage = stage

\* derive-trace.ts:114-120, trace-page.tsx:37-41: what the page shows at a poll
\* is what took place.  A stage it shows as done is done, one it showed before
\* goes back to pending only when its lines have left the window of the query,
\* and a failure is put to a stage that was reached, although the line comes from
\* the consumer and has no stage in it.  It stops polling without a failure only
\* when all eight stages, the two racing ones included, are over.  No stage takes
\* longer than the chain, although markers of stages that overlap are logged in
\* any order.
PollStep ==
    data' # data =>
        /\ \A stage \in Listed(data) \ Listed(data') : ~InWindow(stage)
        /\ \A screen \in {TraceScreen(data')} :
              /\ screen.done \subseteq happened
              /\ \A stage \in screen.failed : Reached(stage)
              /\ screen.settled /\ screen.failed = {} => happened = Stages
              /\ \A latency \in screen.latencies : latency <= screen.duration
PageFollowsChain == [][PollStep]_traceVars
=============================================================================
