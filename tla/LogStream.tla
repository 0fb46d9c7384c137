----------------------------- MODULE LogStream -----------------------------
(***************************************************************************)
(* The log sink of the dashboard: the RedisStreamLogger of each service    *)
(* (libs/shared-logging/src/lib/redis-stream-logger.ts), the capped stream *)
(* logs:stream, the gateway's query and tail (dev-logs.service.ts), and    *)
(* the live list of the Logs page (use-sse.ts, logs-page.tsx).  An entry   *)
(* is its service, its number there and what it says; its stream id is its *)
(* place in added.                                                         *)
(***************************************************************************)
EXTENDS Integers, Sequences, FiniteSetsExt, SequencesExt

CONSTANTS
    Services,   \* services that log
    MaxLogs,    \* bound: entries a service logs
    MaxBuffer,  \* MAX_BUFFER
    MaxLength,  \* MAX_STREAM_LENGTH
    ScanDepth,  \* SCAN_DEPTH
    LiveBuffer, \* LIVE_BUFFER
    MaxLost,    \* bound: writes that fail
    MaxRedials  \* bound: subscriptions of the tail

ASSUME StreamAssumption ==
    {MaxLogs, MaxBuffer, MaxLength, ScanDepth, LiveBuffer, MaxLost, MaxRedials} \subseteq Nat

VARIABLES
    sink,    \* each logger: "connecting", "ready" or "disabled"
    buffer,  \* entries held until it is connected
    logged,  \* entries the service logged so far
    lost,    \* writes that failed
    added,   \* the stream and what was trimmed off it, oldest first
    trimmed, \* entries trimmed off
    live,    \* the page's Live toggle
    source,  \* the EventSource: "idle", "connecting", "open" or "closed"
    banner,  \* it reported an error and has not opened since
    lastId,  \* id the tail reads after, Dollar: "$"
    parked,  \* end of the stream when XREAD was sent, NotParked: between two
    seen,    \* ids this subscription was sent
    shown,   \* ids of the live list, newest first
    redials  \* subscriptions so far

sinkVars == <<sink, buffer, logged, lost>>
streamVars == <<added, trimmed>>
tailVars == <<live, source, banner, lastId, parked, seen, shown, redials>>
logVars == <<sinkVars, streamVars, tailVars>>

Dollar == 0
NotParked == -1

Entry == [service : Services, n : 1..MaxLogs]

InitTail ==
    /\ live = FALSE /\ source = "idle" /\ banner = FALSE
    /\ lastId = Dollar /\ parked = NotParked /\ seen = {} /\ shown = <<>> /\ redials = 0
InitStream ==
    /\ buffer = [s \in Services |-> <<>>]
    /\ logged = [s \in Services |-> 0]
    /\ lost = 0 /\ added = <<>> /\ trimmed = 0
LogInit ==
    /\ sink = [s \in Services |-> "connecting"]
    /\ InitStream /\ InitTail

-----------------------------------------------------------------------------
(* The loggers.                                                            *)

\* XADD with MAXLEN ~: Redis trims down to the cap when it pleases.
Write(entries) ==
    /\ added' = added \o entries
    /\ trimmed' \in trimmed..Max({trimmed, Len(added') - MaxLength})

\* sink(): dropped, held, or written; a write that fails is swallowed.
Log(s, entry) ==
    /\ logged[s] < MaxLogs
    /\ logged' = [logged EXCEPT ![s] = @ + 1]
    /\ CASE sink[s] = "disabled" -> UNCHANGED <<buffer, lost, streamVars>>
         [] sink[s] = "connecting" ->
              /\ buffer' = [buffer EXCEPT
                    ![s] = IF Len(@) < MaxBuffer THEN Append(@, entry) ELSE @]
              /\ UNCHANGED <<lost, streamVars>>
         [] sink[s] = "ready" ->
              /\ \/ Write(<<entry>>) /\ UNCHANGED lost
                 \/ lost < MaxLost /\ lost' = lost + 1 /\ UNCHANGED streamVars
              /\ UNCHANGED buffer
    /\ UNCHANGED <<sink, tailVars>>

LogSome(s) == Log(s, [service |-> s, n |-> logged[s] + 1])

\* connect() resolved: what was held goes first.
Connected(s) ==
    /\ sink[s] = "connecting" /\ sink' = [sink EXCEPT ![s] = "ready"]
    /\ Write(buffer[s])
    /\ buffer' = [buffer EXCEPT ![s] = <<>>]
    /\ UNCHANGED <<logged, lost, tailVars>>

ConnectFails(s) ==
    /\ sink[s] = "connecting" /\ sink' = [sink EXCEPT ![s] = "disabled"]
    /\ buffer' = [buffer EXCEPT ![s] = <<>>]
    /\ UNCHANGED <<logged, lost, streamVars, tailVars>>

-----------------------------------------------------------------------------
(* The gateway's query: the newest ScanDepth entries, filtered, newest     *)
(* first, up to the limit.                                                 *)

Scanned == (Max({trimmed, Len(added) - ScanDepth}) + 1)..Len(added)

Matching(entries, limit) ==
    LET ids == {i \in Scanned : added[i] \in entries}
    IN {i \in ids : Cardinality({j \in ids : j > i}) < limit}

-----------------------------------------------------------------------------
(* The tail and the page.                                                  *)

\* toggleLive() clears the list and opens or closes the EventSource.
GoLive ==
    /\ ~live /\ redials < MaxRedials
    /\ live' = TRUE /\ source' = "connecting" /\ banner' = FALSE
    /\ shown' = <<>> /\ redials' = redials + 1
    /\ UNCHANGED <<lastId, parked, seen, sinkVars, streamVars>>
GoQuiet ==
    /\ live /\ live' = FALSE
    /\ source' = "idle" /\ banner' = FALSE /\ shown' = <<>>
    /\ lastId' = Dollar /\ parked' = NotParked /\ seen' = {}
    /\ UNCHANGED <<redials, sinkVars, streamVars>>

\* stream(): the dedicated client is connected and the loop begins at "$".
Subscribe ==
    /\ source = "connecting" /\ source' = "open" /\ banner' = FALSE
    /\ lastId' = Dollar /\ parked' = NotParked /\ seen' = {}
    /\ UNCHANGED <<live, shown, redials, sinkVars, streamVars>>

\* XREAD BLOCK reaches Redis: "$" becomes the end of the stream of this moment.
Park ==
    /\ source = "open" /\ parked = NotParked
    /\ parked' = IF lastId = Dollar THEN Len(added) ELSE lastId
    /\ UNCHANGED <<live, source, banner, lastId, seen, shown, redials, sinkVars, streamVars>>
\* STREAM_BLOCK_MS without an entry.
BlockElapses ==
    /\ parked # NotParked /\ Len(added) = parked
    /\ parked' = NotParked
    /\ UNCHANGED <<live, source, banner, lastId, seen, shown, redials, sinkVars, streamVars>>

\* Faulty variant of Newest: the list grows.
NewestUncapped(list) == list

\* The list keeps LIVE_BUFFER entries.
Newest(list) == SubSeq(list, 1, IF Len(list) < LiveBuffer THEN Len(list) ELSE LiveBuffer)

\* Faulty variant of Read: lastId stays "$".
ReadForgetsId ==
    /\ parked # NotParked /\ Len(added) > parked
    /\ LET from == Max({parked, trimmed}) + 1
       IN \E to \in from..Len(added) :
            /\ seen' = seen \cup from..to
            /\ shown' = Newest(Reverse([i \in 1..(to - from + 1) |-> from + i - 1]) \o shown)
    /\ parked' = NotParked
    /\ UNCHANGED <<live, source, banner, lastId, redials, sinkVars, streamVars>>

\* The first entries after the one read last that are still there go out, one
\* frame each, and the page puts each in front.
Read ==
    /\ parked # NotParked /\ Len(added) > parked
    /\ LET from == Max({parked, trimmed}) + 1
       IN \E to \in from..Len(added) :
            /\ lastId' = to /\ seen' = seen \cup from..to
            /\ shown' = Newest(Reverse([i \in 1..(to - from + 1) |-> from + i - 1]) \o shown)
    /\ parked' = NotParked
    /\ UNCHANGED <<live, source, banner, redials, sinkVars, streamVars>>

\* The connection breaks or Redis fails the read: the EventSource reports it
\* and dials again by itself.
Break ==
    /\ source = "open" /\ redials < MaxRedials
    /\ source' = "connecting" /\ banner' = TRUE /\ redials' = redials + 1
    /\ lastId' = Dollar /\ parked' = NotParked /\ seen' = {}
    /\ UNCHANGED <<live, shown, sinkVars, streamVars>>
\* An answer that is no stream (401, 404, 429) ends the EventSource.
Refused ==
    /\ source = "connecting" /\ source' = "closed" /\ banner' = TRUE
    /\ UNCHANGED <<live, lastId, parked, seen, shown, redials, sinkVars, streamVars>>

TailNext ==
    \/ GoLive \/ GoQuiet \/ Subscribe \/ Park \/ BlockElapses \/ Read \/ Break \/ Refused
LogNext ==
    \/ \E s \in Services : LogSome(s) \/ Connected(s) \/ ConnectFails(s)
    \/ TailNext

LogSpec == LogInit /\ [][LogNext]_logVars

-----------------------------------------------------------------------------
LogTypeOK ==
    /\ sink \in [Services -> {"connecting", "ready", "disabled"}]
    /\ \A s \in Services : Len(buffer[s]) <= MaxBuffer
    /\ logged \in [Services -> 0..MaxLogs] /\ lost \in 0..MaxLost
    /\ trimmed \in 0..Len(added)
    /\ source \in {"idle", "connecting", "open", "closed"}
    /\ live = (source # "idle") /\ banner \in BOOLEAN
    /\ lastId \in 0..Len(added) /\ parked \in {NotParked} \cup 0..Len(added)
    /\ Len(shown) <= LiveBuffer /\ redials \in 0..MaxRedials

\* What a service logged before it was connected and after is in the stream in
\* the order it was logged.
ServiceOrderKept ==
    \A i, j \in 1..Len(added) :
        i < j /\ added[i].service = added[j].service => added[i].n < added[j].n

\* Nothing between two entries of one subscription is passed over unless Redis
\* had trimmed it: only before the first entry does the tail depend on "$".
NoGap ==
    seen # {} => \A i \in Min(seen)..Max(seen) : i \in seen \/ i <= trimmed

\* The live list has each entry once, newest first, across redials.
NewestFirst == \A i \in 1..(Len(shown) - 1) : shown[i] > shown[i + 1]

\* dev-logs.service.ts:65-77, logs-page.tsx:47-49: the live list is the stream
\* as the services wrote it, from the first entry after a subscription on.
TailIsFaithful == ServiceOrderKept /\ NoGap /\ NewestFirst
=============================================================================
