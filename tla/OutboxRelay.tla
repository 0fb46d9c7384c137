---------------------------- MODULE OutboxRelay ----------------------------
(***************************************************************************)
(* The polling outbox relay of content-service                             *)
(* (apps/content-service/src/app/outbox/outbox-relay.service.ts).          *)
(*                                                                         *)
(* A relay slot is one execution of poll(): several exist because several  *)
(* instances of the service run and because @Interval starts a poll while  *)
(* an earlier one of the same instance is still publishing.  A poll is one *)
(* Postgres transaction: its writes (publishedAt marks, attempts) are      *)
(* buffered in marked and failed until Commit, and the rows it claimed     *)
(* stay locked until the transaction ends.  The rows are numbered in       *)
(* occurredAt order; a row may commit after a younger one of another post.  *)
(***************************************************************************)
EXTENDS Integers, FiniteSets

CONSTANTS
    Rows,        \* outbox rows, numbered in occurredAt order
    Route,       \* Route[m]: the broker RELAY_ROUTING gives m, or "none"
    PostOf,      \* PostOf[m]: the post the row's payload is about
    Relays,      \* executions of poll() that may overlap
    MaxAttempts, \* OUTBOX_MAX_ATTEMPTS
    BatchSize,   \* BATCH_SIZE
    TxBudget,    \* slow broker calls that fit in CLAIM_TX_TIMEOUT_MS
    MaxFaults,   \* bound: crashes and failed statements
    MaxReplays   \* bound: manual replays

Brokers == {"rabbitmq", "kafka"}

ASSUME RowsAssumption == Rows \subseteq Nat
ASSUME RouteAssumption == Route \in [Rows -> Brokers \cup {"none"}]
ASSUME AttemptsAssumption == MaxAttempts \in Nat \ {0}
ASSUME BudgetAssumption == TxBudget \in Nat
ASSUME FaultsAssumption == MaxFaults \in Nat /\ MaxReplays \in Nat

VARIABLES
    stored,     \* committed rows of OutboxMessage
    published,  \* rows whose committed publishedAt is set
    attempts,   \* committed attempts of each row
    tx,         \* tx[r]: "none", "open", or "closed" once its timeout fired
    todo,       \* todo[r]: claimed rows the loop has not finished
    marked,     \* marked[r]: rows whose publishedAt the open tx has set
    failed,     \* failed[r]: rows whose attempts the open tx has written
    read,       \* read[r][m]: attempts of m as the claim query returned it
    spent,      \* spent[r]: slow broker calls made inside the tx
    received,   \* 0, 1 or 2 (more than one): times the broker took the row
    dropped,    \* rows that left in a RabbitMQ buffer that was never flushed
    disturbed,  \* rows that met a rejected publish, a rollback or a replay
    faults, replays

table == <<stored, published, attempts>>
poll  == <<tx, todo, marked, failed, read, spent>>
wire  == <<received, dropped, disturbed>>
vars  == <<table, poll, wire, faults, replays>>

----------------------------------------------------------------------------
(* What an open transaction holds FOR UPDATE, and what SKIP LOCKED leaves. *)

\* Faulty variant of Locked: a row is unlocked as soon as it is settled.
LockedTodo(r) == IF tx[r] = "open" THEN todo[r] ELSE {}

Locked(r) == IF tx[r] = "open" THEN todo[r] \cup marked[r] \cup failed[r] ELSE {}

AllLocked == UNION {Locked(r) : r \in Relays}

Pending == {m \in stored \ published : attempts[m] < MaxAttempts}

\* Faulty variant of Claimable: FOR UPDATE SKIP LOCKED is left out.
ClaimableLocked == Pending

Claimable == Pending \ AllLocked

\* ORDER BY occurredAt LIMIT BATCH_SIZE over the rows left.
IsBatch(B, S) ==
    /\ B \subseteq S
    /\ \A m \in B, n \in S \ B : m < n
    /\ \/ Cardinality(B) = BatchSize
       \/ B = S /\ Cardinality(S) < BatchSize

\* The row the for loop is at: claimed rows are taken oldest first.
AtRow(r, m) == m \in todo[r] /\ \A n \in todo[r] : m <= n

EndPoll(r) ==
    /\ tx' = [tx EXCEPT ![r] = "none"]
    /\ todo' = [todo EXCEPT ![r] = {}]
    /\ marked' = [marked EXCEPT ![r] = {}]
    /\ failed' = [failed EXCEPT ![r] = {}]
    /\ spent' = [spent EXCEPT ![r] = 0]
    /\ UNCHANGED read

----------------------------------------------------------------------------
Init ==
    /\ stored = {} /\ published = {}
    /\ attempts = [m \in Rows |-> 0]
    /\ tx = [r \in Relays |-> "none"]
    /\ todo = [r \in Relays |-> {}]
    /\ marked = [r \in Relays |-> {}]
    /\ failed = [r \in Relays |-> {}]
    /\ read = [r \in Relays |-> [m \in Rows |-> 0]]
    /\ spent = [r \in Relays |-> 0]
    /\ received = [m \in Rows |-> 0]
    /\ dropped = {} /\ disturbed = {}
    /\ faults = 0 /\ replays = 0

\* A business transaction of content-service commits with its outbox row.  It
\* holds the row of its post from the update to the commit, and occurredAt is
\* set in between: the rows of one post commit in their order.
Insert(m) ==
    /\ m \notin stored
    /\ \A n \in stored : PostOf[n] = PostOf[m] => n < m
    /\ stored' = stored \cup {m}
    /\ UNCHANGED <<published, attempts, poll, wire, faults, replays>>

\* poll(): open the transaction and lock a batch.  A poll that finds no row
\* commits at once and changes nothing.
Claim(r) ==
    /\ tx[r] = "none"
    /\ \E B \in SUBSET Claimable :
         /\ B # {} /\ IsBatch(B, Claimable)
         /\ todo' = [todo EXCEPT ![r] = B]
         /\ read' = [read EXCEPT ![r] = attempts]
    /\ tx' = [tx EXCEPT ![r] = "open"]
    /\ UNCHANGED <<table, marked, failed, spent, wire, faults, replays>>

\* A broker call that takes cost slow periods ends before the tx timeout.
InTime(r, cost) == spent[r] + cost <= TxBudget

\* Inside the open transaction the row's update succeeds; on a closed one it
\* throws, and so does recordFailure in the catch block: the poll ends.
MarkPublished(r, m, cost) ==
    \/ /\ tx[r] = "open" /\ InTime(r, cost)
       /\ todo' = [todo EXCEPT ![r] = @ \ {m}]
       /\ marked' = [marked EXCEPT ![r] = @ \cup {m}]
       /\ spent' = [spent EXCEPT ![r] = @ + cost]
       /\ UNCHANGED <<tx, failed, read>>
    \/ tx[r] = "closed" /\ EndPoll(r)

recordFailure(r, m, cost) ==
    \/ /\ tx[r] = "open" /\ InTime(r, cost)
       /\ todo' = [todo EXCEPT ![r] = @ \ {m}]
       /\ failed' = [failed EXCEPT ![r] = @ \cup {m}]
       /\ spent' = [spent EXCEPT ![r] = @ + cost]
       /\ UNCHANGED <<tx, marked, read>>
    \/ tx[r] = "closed" /\ EndPoll(r)

OnceMore(k) == IF k = 0 THEN 1 ELSE 2

\* No route for the row's eventType: a failure without a publish.
NoRoute(r, m) ==
    /\ AtRow(r, m) /\ Route[m] = "none"
    /\ recordFailure(r, m, 0)
    /\ UNCHANGED <<table, wire, faults, replays>>

\* publish() resolves and the broker holds the message.
PublishOk(r, m) ==
    /\ AtRow(r, m) /\ Route[m] \in Brokers
    /\ received' = [received EXCEPT ![m] = OnceMore(@)]
    /\ \E cost \in {0, 1} : MarkPublished(r, m, cost)
    /\ UNCHANGED <<table, dropped, disturbed, faults, replays>>

\* RabbitMqPublisher.publish() resolves once sendToQueue has buffered the
\* message: no confirm is awaited, and the connection may die first.
PublishUnflushed(r, m) ==
    /\ AtRow(r, m) /\ Route[m] = "rabbitmq"
    /\ faults < MaxFaults /\ faults' = faults + 1
    /\ dropped' = dropped \cup {m}
    /\ MarkPublished(r, m, 0)
    /\ UNCHANGED <<table, received, disturbed, replays>>

\* Faulty variant of PublishRejected: the error is swallowed, the row is marked.
PublishRejectedMarked(r, m) ==
    /\ AtRow(r, m) /\ Route[m] \in Brokers
    /\ MarkPublished(r, m, 0)
    /\ disturbed' = disturbed \cup {m}
    /\ UNCHANGED <<table, received, dropped, faults, replays>>

\* publish() rejects.  A Kafka send gives up only after its own retries, so
\* it is slow, and the broker may have appended the record all the same.
PublishRejected(r, m) ==
    /\ AtRow(r, m)
    /\ \/ Route[m] = "rabbitmq" /\ recordFailure(r, m, 0) /\ UNCHANGED received
       \/ /\ Route[m] = "kafka" /\ recordFailure(r, m, 1)
          /\ \/ UNCHANGED received
             \/ received' = [received EXCEPT ![m] = OnceMore(@)]
    /\ disturbed' = disturbed \cup {m}
    /\ UNCHANGED <<table, dropped, faults, replays>>

\* Faulty variant of Commit: attempts are not persisted (BUG-0006).
CommitNoAttempts(r) ==
    /\ tx[r] = "open" /\ todo[r] = {}
    /\ published' = published \cup marked[r]
    /\ EndPoll(r)
    /\ UNCHANGED <<stored, attempts, wire, faults, replays>>

\* Faulty variant of Commit: publishedAt is not persisted.
CommitNoMarks(r) ==
    /\ tx[r] = "open" /\ todo[r] = {}
    /\ EndPoll(r)
    /\ UNCHANGED <<table, wire, faults, replays>>

Commit(r) ==
    /\ tx[r] = "open" /\ todo[r] = {}
    /\ published' = published \cup marked[r]
    /\ attempts' = [m \in Rows |-> IF m \in failed[r] THEN read[r][m] + 1
                                                      ELSE attempts[m]]
    /\ EndPoll(r)
    /\ UNCHANGED <<stored, wire, faults, replays>>

\* CLAIM_TX_TIMEOUT_MS fires during a slow broker call: Postgres rolls back
\* and releases the locks while the loop still awaits the call.
Timeout(r) ==
    /\ tx[r] = "open" /\ spent[r] = TxBudget
    /\ \E m \in todo[r] : AtRow(r, m) /\ Route[m] \in Brokers
    /\ tx' = [tx EXCEPT ![r] = "closed"]
    /\ marked' = [marked EXCEPT ![r] = {}]
    /\ failed' = [failed EXCEPT ![r] = {}]
    /\ disturbed' = disturbed \cup Locked(r)
    /\ UNCHANGED <<table, todo, read, spent, received, dropped, faults, replays>>

\* A statement fails or the process dies: everything the poll wrote is undone.
Rollback(r) ==
    /\ tx[r] # "none"
    /\ faults < MaxFaults /\ faults' = faults + 1
    /\ disturbed' = disturbed \cup Locked(r)
    /\ EndPoll(r)
    /\ UNCHANGED <<table, received, dropped, replays>>

\* The operator's manual replay of a quarantined row: attempts back to 0.
Replay(m) ==
    /\ m \in stored \ published /\ attempts[m] >= MaxAttempts
    /\ replays < MaxReplays /\ replays' = replays + 1
    /\ attempts' = [attempts EXCEPT ![m] = 0]
    /\ UNCHANGED <<stored, published, poll, wire, faults>>

\* The loop body of one poll, its timer and its commit.
PollStep(r) ==
    \/ Claim(r) \/ Commit(r) \/ Timeout(r)
    \/ \E m \in Rows : NoRoute(r, m) \/ PublishOk(r, m) \/ PublishRejected(r, m)

Next ==
    \/ \E m \in Rows : Insert(m) \/ Replay(m)
    \/ \E r \in Relays : \/ PollStep(r) \/ Rollback(r)
                         \/ \E m \in Rows : PublishUnflushed(r, m)

Spec == Init /\ [][Next]_vars

\* The interval timer keeps starting polls and every await of a poll settles
\* (kafkajs and Prisma have timeouts of their own), so each relay keeps moving.
FairSpec == Spec /\ \A r \in Relays : WF_vars(PollStep(r))

----------------------------------------------------------------------------
TypeOK ==
    /\ stored \subseteq Rows /\ published \subseteq stored
    /\ attempts \in [Rows -> 0..MaxAttempts]
    /\ tx \in [Relays -> {"none", "open", "closed"}]
    /\ todo \in [Relays -> SUBSET Rows]
    /\ marked \in [Relays -> SUBSET Rows]
    /\ failed \in [Relays -> SUBSET Rows]
    /\ read \in [Relays -> [Rows -> 0..MaxAttempts]]
    /\ spent \in [Relays -> 0..TxBudget]
    /\ received \in [Rows -> 0..2]
    /\ dropped \subseteq Rows /\ disturbed \subseteq Rows
    /\ faults \in 0..MaxFaults /\ replays \in 0..MaxReplays

\* "each relay claims its batch exclusively" (outbox-relay.service.ts:55): no
\* row is held by two open claim transactions, whatever overlaps.
ClaimsExclusive ==
    \A r, s \in Relays : r # s => Locked(r) \cap Locked(s) = {}

\* recordFailure writes the attempts it read at claim time plus one.  That
\* read must still be current when it is written: a claimed row is unpublished,
\* not quarantined, and its committed attempts are what the poll read.
ClaimReadsCurrent ==
    \A r \in Relays : \A m \in Locked(r) :
        /\ m \in Pending
        /\ read[r][m] = attempts[m]

\* A committed publishedAt is never a lie except for a RabbitMQ message lost
\* in an unflushed buffer: the broker received every other published row.
PublishedWasReceived ==
    \A m \in published : received[m] > 0 \/ m \in dropped

\* Overlapping polls and competing instances alone never send a row twice: a
\* second delivery needs a rejected publish, a rollback or a timeout first.
OnceUnlessDisturbed ==
    \A m \in Rows : received[m] > 1 => m \in disturbed

\* The committed table only moves forward: publishedAt is never unset, attempts
\* grow one at a time and are reset only on a quarantined row, and a published
\* row is never touched again.
RowsMoveForward ==
    [][/\ published \subseteq published'
       /\ \A m \in Rows : attempts'[m] # attempts[m] =>
            /\ m \notin published'
            /\ \/ attempts'[m] = attempts[m] + 1
               \/ attempts'[m] = 0 /\ attempts[m] = MaxAttempts]_vars

\* BUG-0006: a row cannot occupy a batch slot forever; it is published or it
\* runs out of attempts.
StuckRowsLeave ==
    \A m \in Rows : m \in stored ~> m \in published \/ attempts[m] = MaxAttempts

\* "this degrades to duplicate delivery, never loss" (outbox-relay.service.ts:49).
NeverLoss == \A m \in published : received[m] > 0

\* "partition key = postId, so per-post ordering is preserved"
\* (kafka-publisher.service.ts:11): no row reaches the topic ahead of an older
\* stored row of the same post.
PerPostOrder ==
    [][\A m, n \in Rows :
          /\ m < n /\ PostOf[m] = PostOf[n]
          /\ Route[m] = "kafka" /\ Route[n] = "kafka"
          /\ m \in stored /\ received[n] = 0 /\ received'[n] > 0
          => received[m] > 0]_vars
=============================================================================
