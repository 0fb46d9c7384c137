----------------------------- MODULE StatusPage -----------------------------
(***************************************************************************)
(* The Status page: every refresh is one snapshot of the gateway           *)
(* (dev-status.service.ts), gathered from probes that fail one by one.  The*)
(* outbox section is four queries of DevStatsService                       *)
(* (content-service/src/app/dev/dev-stats.service.ts) with no transaction  *)
(* around them, while the relay moves the rows.                            *)
(***************************************************************************)
EXTENDS Integers, FiniteSets

CONSTANTS
    OutboxRows,  \* rows the outbox may come to hold
    MaxAttempts, \* OUTBOX_MAX_ATTEMPTS
    Probed,      \* services the gateway probes, itself not among them
    MaxMoves     \* bound: row changes during one snapshot

ASSUME StatusAssumption ==
    MaxAttempts \in Nat \ {0} /\ MaxMoves \in Nat /\ IsFiniteSet(OutboxRows)

VARIABLES
    rows,      \* rows of the outbox
    attempts,  \* attempts of each row
    published, \* rows with a publishedAt
    refresh,   \* "idle", "running" or "failed": the page's request
    stats,     \* the outbox queries answered so far
    moves,     \* row changes since the snapshot began
    screen     \* what the page shows

statusVars == <<rows, attempts, published, refresh, stats, moves, screen>>

Queries == {"pending", "quarantined", "published", "oldest"}
Unanswered == -1
NoStats == [q \in Queries |-> Unanswered]
Loading == [kind |-> "loading"]

StatusInit ==
    /\ rows = {} /\ attempts = [r \in OutboxRows |-> 0] /\ published = {}
    /\ refresh = "idle" /\ stats = NoStats /\ moves = 0 /\ screen = Loading

\* The posts, the relay and the operator, while a snapshot is taken or not.
Moved == /\ IF refresh = "running" THEN moves < MaxMoves /\ moves' = moves + 1
                                   ELSE UNCHANGED moves
         /\ UNCHANGED <<refresh, stats, screen>>
InsertRow(r) ==
    /\ r \notin rows /\ rows' = rows \cup {r}
    /\ attempts' = [attempts EXCEPT ![r] = 0] /\ UNCHANGED published /\ Moved
RelayPublishes(r) ==
    /\ r \in rows \ published /\ attempts[r] < MaxAttempts
    /\ published' = published \cup {r} /\ UNCHANGED <<rows, attempts>> /\ Moved
RelayFails(r) ==
    /\ r \in rows \ published /\ attempts[r] < MaxAttempts
    /\ attempts' = [attempts EXCEPT ![r] = @ + 1] /\ UNCHANGED <<rows, published>> /\ Moved
Replay(r) ==
    /\ r \in rows \ published /\ attempts[r] >= MaxAttempts
    /\ attempts' = [attempts EXCEPT ![r] = 0] /\ UNCHANGED <<rows, published>> /\ Moved

-----------------------------------------------------------------------------
\* useDevStatus(): the page asks when it opens, every REFRESH_MS and on Retry.
Refresh ==
    /\ refresh \in {"idle", "failed"} /\ refresh' = "running"
    /\ stats' = NoStats /\ moves' = 0
    /\ UNCHANGED <<rows, attempts, published, screen>>

\* Faulty variant of Waiting: quarantined rows are counted too.
WaitingOrSpent == {r \in rows \ published : attempts[r] <= MaxAttempts}

Waiting == {r \in rows \ published : attempts[r] < MaxAttempts}
Quarantined == {r \in rows \ published : attempts[r] >= MaxAttempts}

\* outboxStats(): Promise.all of three counts and the oldest unpublished row,
\* quarantined or not.
Query(q) ==
    /\ refresh = "running" /\ stats[q] = Unanswered
    /\ stats' = [stats EXCEPT ![q] =
          CASE q = "pending" -> Cardinality(Waiting)
            [] q = "quarantined" -> Cardinality(Quarantined)
            [] q = "published" -> Cardinality(published)
            [] q = "oldest" -> IF published = rows THEN 0 ELSE 1]
    /\ UNCHANGED <<rows, attempts, published, refresh, moves, screen>>

\* The probes: a service that gave another status or no answer in
\* PROBE_TIMEOUT_MS is down, and a section that could not be had is data too.
ProbeServices == SUBSET Probed
OutboxSection == IF \A q \in Queries : stats[q] # Unanswered THEN stats ELSE NoStats
ProbeOutbox == {OutboxSection, NoStats}
ProbeQueues == {"depths", "unavailable"}

\* snapshot(): no probe that failed fails the whole.  Beside what the page shows,
\* screen has the moves and the rows of the outbox by then.
Snapshot ==
    /\ refresh = "running" /\ refresh' = "idle"
    /\ \E up \in ProbeServices, outbox \in ProbeOutbox, queues \in ProbeQueues :
          screen' = [kind |-> "snapshot", up |-> up, outbox |-> outbox,
                     queues |-> queues, moves |-> moves, rows |-> Cardinality(rows)]
    /\ UNCHANGED <<rows, attempts, published, stats, moves>>

\* The gateway did not answer: React Query keeps the data of an earlier
\* snapshot, but the page puts the error in its place.
RefreshFails ==
    /\ refresh = "running" /\ refresh' = "failed" /\ screen' = [kind |-> "error"]
    /\ UNCHANGED <<rows, attempts, published, stats, moves>>

StatusNext ==
    \/ \E r \in OutboxRows : InsertRow(r) \/ RelayPublishes(r) \/ RelayFails(r) \/ Replay(r)
    \/ Refresh \/ (\E q \in Queries : Query(q))
    \/ Snapshot \/ RefreshFails

StatusSpec == StatusInit /\ [][StatusNext]_statusVars

-----------------------------------------------------------------------------
StatusTypeOK ==
    /\ rows \subseteq OutboxRows /\ published \subseteq rows
    /\ attempts \in [OutboxRows -> 0..MaxAttempts]
    /\ refresh \in {"idle", "running", "failed"}
    /\ stats \in [Queries -> {Unanswered} \cup 0..Cardinality(OutboxRows)]
    /\ moves \in 0..MaxMoves
    /\ screen.kind \in {"loading", "snapshot", "error"}

Distance(a, b) == IF a < b THEN b - a ELSE a - b

\* dev-stats.service.ts:16-39: the tiles split the rows as the relay does.  The
\* three counts are of different moments, so a row that comes or moves between
\* them is missed or counted twice, and they are off by no more than these rows.
StatsCountOnce ==
    screen.kind = "snapshot" /\ screen.outbox # NoStats =>
        Distance(screen.outbox["pending"] + screen.outbox["quarantined"]
                    + screen.outbox["published"], screen.rows) <= screen.moves
=============================================================================
