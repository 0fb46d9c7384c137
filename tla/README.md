# IntellectStream in TLA+

IntellectStream is a set of services that publish users' posts only after an
AI classifier has approved them. This directory holds TLA+ models of the parts
whose correctness depends on interleavings and failures, the TLC runs that
check them, and TLAPS proofs about them.

## The system

| part | source | state it keeps | operations |
|---|---|---|---|
| Posts | `apps/content-service/src/app/posts` | `Post` rows: content, `status` | create (with an outbox row, one transaction), update, remove, public reads |
| Outbox relay | `apps/content-service/src/app/outbox` | `OutboxMessage`: `publishedAt`, `attempts` | a poll every 5 s: claim a batch `FOR UPDATE SKIP LOCKED`, publish, mark or count a failure, commit |
| Verdict consumer | `apps/content-service/src/app/moderation` | `ProcessedMessage`, `Post.status`, outbox rows | apply one verdict in one transaction |
| Moderation worker | `apps/ai-processing-service/src/app/moderation` | Redis `moderation:processed:<id>` | claim, classify, publish the verdict, mark done, release on failure |
| RabbitMQ consumer and topology | `libs/shared-messaging` | queue, `.retry`, `.dlq`, `x-death`, connection and channel, subscriptions | deliver, ack, nack, dead-letter, reconnect, replay the subscriptions, shut down |
| RabbitMQ publisher | `libs/shared-messaging` | connection and channel | publish, reconnect, shut down |
| Kafka publisher and consumer | `libs/shared-messaging` | topic, position, committed offset | send; run a handler for each record, commit behind it, crash and rejoin |
| Trends | `apps/analytics-service` | `ModerationTrend`, `ProcessedMessage` | count a verdict once, read trends |
| Moderation push | `apps/notification-service` | sockets of each user | check a ticket, register a socket, push a verdict to the author's sockets |
| Gateway | `apps/api-gateway` | sessions and rolling cookie, rate-limit counters | register, login, logout, proxying, log query and tail, status snapshot |
| Log stream | `libs/shared-logging` | a buffer in each service, a capped Redis stream | hold until connected, append without waiting, drop |
| Dashboard | `apps/dashboard` | query cache and `me`, notification socket, EventSource, last poll of each page | session gate, trace and trend derivations, toasts |

A post travels: `POST /posts` -> `Post` + `OutboxMessage` -> relay -> queue
`moderation.job` -> worker -> queue `moderation.completed` -> verdict consumer
-> `Post.status` + `OutboxMessage` -> relay -> Kafka topic
`moderation.completed` -> trends and push. Every hop is at-least-once and each
consumer recognises duplicates by `messageId`.

What makes each part correct:

* relay: rows are claimed by one poll at a time; a published mark is true; a
  row that cannot be published is set aside; a row is sent again only after
  something went wrong with it;
* queue: nothing disappears; a failed message is retried a bounded number of
  times and then kept for a human;
* worker: each job is answered, once unless a failure forces a second answer;
* verdict consumer: each verdict applies once, in step with the event stream;
* posts: only cleared content is public;
* connection: one connect at a time, no connection left behind, every queue
  consumed again after a loss;
* downstream: each event is counted once, or passed over for a known reason;
  every open tab of an author gets the push;
* gateway and dashboard: one user's answers are never shown to the next; a
  session is dropped for a cause; a client gets no more than twice its limit;
  what the Logs, Trace, Status and Analytics pages show is what happened.

What is hard here: polls that overlap, a transaction held open across broker
calls, handlers that outlive their channel, a Redis claim that outlives its
handler, messages without confirmation, redelivery at every hop, deletes and edits that
race with moderation, events of connections that have been replaced, offsets
that are committed late or not at all, requests of a tab that overlap a login,
and pages that read a moving system in several queries. `PROJECT.json` lists these hazards at
their lines, with the properties that cover them.

## Modules

**OutboxRelay** models `OutboxRelayService.poll()`. A relay slot `r` is one
execution of a poll: several exist because the service is replicated and
because `@Interval` starts a poll while the last one is still awaiting a
broker. The committed table is `stored`, `published`, `attempts`. Writes of an
open transaction are in `marked[r]` (`publishedAt`) and `failed[r]`
(`attempts`) until `Commit`; together with the rows still to be handled
(`todo[r]`) they are what the transaction has locked. `Claim` is the raw query;
`NoRoute`, `PublishOk`, `PublishUnflushed` and `PublishRejected` are the ways
one turn of the loop ends; `Timeout` is Prisma's `timeout`, which closes the
transaction while the loop still awaits a publish; `Rollback` is a failed
statement or a crash. Rows are numbered in `occurredAt` order; those of
different posts may commit out of order, those of one post, whose transactions
lock it, may not (`Insert`). `received`, `dropped` and `disturbed` record history.
Time is abstracted to `spent[r]`, the slow broker calls made so far: only a
failing Kafka send is always slow (kafkajs retries for about ten seconds), a
successful one may be.

**WorkQueue** is a RabbitMQ queue with its `.retry` and `.dlq` queues and the
processes that consume it (`queue-topology.ts`, `rabbitmq-consumer.service.ts`).
`place[m]` is where the queue's copy of `m` is: `ready`, `retry`, `gone`, or
unacked on a channel. A channel is one incarnation; a reconnect opens the next.
`running` holds the `handleMessage` calls in flight: losing a channel puts its
unacked messages back in the queue but does not stop its handlers
(`LoseChannel`), and such a handler, when it ends, finds the channel closed,
throws out of the callback and ends the process (`SettleTooLate`; no service
installs an `unhandledRejection` handler). `deaths` is the `x-death` count,
`dlq` the copies in the DLQ. The module says nothing of what a handler does;
both consumers are built on its actions, through **ServiceQueue**.

**BoundedRetry** is what the queue promises: a task is pending until it
succeeds or has failed `MAX_DELIVERIES` times, then it waits for a human.
WorkQueue implements it (`ImplementsRetry`): a message is a pending task
wherever its copy is under way, and lost channels, crashes and redeliveries are
stutters.

**ModerationWorker** is `ModerationConsumerService` on a WorkQueue: its steps are
built of the queue's actions, so what holds of the queue holds of it.
`step[c][m]` is the await a handler is at, `key[j]` the Redis value of job `j`,
`verdicts[j]` how many verdict messages were published for it. Each action ends
at an await whose effect others can see: `Claim`, `SkipDuplicate`,
`ProcessingFails`, `PublishVerdict`, `Finish`, `Release`, and the failures of
each call (`ClaimReplyLost`, `PublishUnflushed`, `MarkDoneFails`,
`ReleaseFails`). `ExpireKey` is a TTL. `orphaned` and `reopened` record why a
job may be lost or answered twice.

**ContentModeration** puts `PostsService` and
`ModerationCompletedConsumerService` on another WorkQueue. `Commit` is the whole transaction
(dedupe row, status, outbox row), `Acknowledge` the ack that follows it,
`SkipDuplicate` the `P2002` path, `TransactionFails` every other error (the
post is gone, the database fails, the envelope is refused). What happens to a
job between the outbox and the verdict queue is one step, `Classify`, which
may occur once per message in `Messages`: two messages of one post are two
verdicts with different `messageId`s, which ModerationWorker shows possible.

**AmqpConnection** is the connection of `RabbitMqConsumer`, and with `Subs` empty
that of `RabbitMqPublisher`, one action per await. Calls of `connect()` are
numbered; call `k` dials connection `k`. `pc[k]` is where the call stands,
`victim[k]` the connection its teardown is closing, `connection`, `channel`,
`timer`, `closing`, `subscriptions` are the fields of the service, and
`openConns`, `openChans`, `serving` the broker's side. `OnClose` is both close
listeners with their identity check. `Lose` may take a connection or a channel
between any two awaits, and `StartsOn` says when that ends the process instead
(the boot awaits `connect()` and `consume()`). `raced`, `overlapped` and `deaf`
record the three cases in which a promise fails: a shutdown during a connect, a
`consume()` during a replay, and a consumer the broker cancelled.

**KafkaConsumer** is one consumer group on the one partition that matters:
`pos`, `committed`, and `jumped`, the offsets a join without a committed offset
went past. A handler passes or throws; kafkajs commits later, crashes, rejoins
or stops; the process may die at any step. **Trends** is `TrendsService` on it
(`Count`, `CountFails` with a rollback or a lost commit reply, `SkipDuplicate`,
`Skip`, `Refuse`), `trendsSince`, and the Analytics page with its derivations.
**ModerationPush** is the other group: the registry of sockets, tickets, two
tabs that dial, lose connections and redial, and their toasts.
**VerdictStream** composes the two; a behaviour follows one group, since they
share only the topic.

**GatewaySession** is one tab against the session store: each request is sent,
answered and delivered in steps of its own, so answers arrive after logins and
logouts. `store` is Redis, `cookie` the browser, `me` and `cached` the query
cache, `entered` the session that `me` was set under. `strayed` records that a
late `Set-Cookie` (the cookie is rolling) put an earlier session id back, the
one way the cookie and `me` part. **RateLimit** is the guard's counter with INCR
and PEXPIRE as two steps. **LogStream** is the loggers, the capped stream, the
gateway's query and SSE tail, and the live list of the Logs page. **Trace**
extends it with the Trigger and Trace pages: `Happen` is the effect of a stage,
`Mark` its log line, `FailDelivery` the error line of a consumer whose handler
fails or gives a message up (the retry may still complete the chain, but the
page has settled on the failure), `Poll` the page's query and the derivations
over it. What happens twice is taken once, since a stage begins at its first
line.
**StatusPage** is a status snapshot gathered while posts add rows and the relay
moves them.
**Dashboard** composes these five. A behaviour follows one part, named in
`part`: they interact only through whether a request is let through, which the
other parts take as an answer that may fail.

**MC\*** modules give constants their values for TLC. Operators commented
"Faulty variant" are wrong versions of the definition that follows: replacing
the definition by its variant must break the property `PROJECT.json` names.

## Runs

| run | checks | result |
|---|---|---|
| `relay_safety` | claims are exclusive, reads current, marks true, resends only after a disturbance | holds |
| `relay_progress` | every row is published or quarantined; the table only moves forward | holds |
| `relay_timeout` | the same progress when slow sends outlast the transaction | violated |
| `relay_order` | per-post order on the topic | violated |
| `queue` | nothing vanishes, nothing is stranded, the DLQ accounting, refinement of BoundedRetry, every message settles | holds |
| `worker` | exclusive claim, job loss and second verdicts only in named circumstances, no key without a cause, every other job is answered | holds |
| `worker_crash` | a crash only delays a job | violated |
| `content` | status and events agree, one effect per verdict, ack after commit, removed posts stay silent, every verdict settles | holds |
| `content_edit` | visible content has been classified | violated |
| `connection` | one connect at a time, no connection left, the channel in the field is open, one consumer per queue, every queue served again | holds |
| `verdict_stream` | an event is missed only by a late join, charts agree with what was counted, open tabs are registered, every verdict is counted | holds |
| `dashboard` | no answers of another user, evictions have a cause, the rate limit, a faithful live tail, counts of a snapshot, a trace page that follows the chain | holds |

The four violated runs are findings about the code:

1. `relay_timeout` - `attempts` is written in the claim transaction, so when
   the failing sends of a batch outlast `CLAIM_TX_TIMEOUT_MS` the failures are
   rolled back with everything else, no row is ever quarantined, and the
   batch's RabbitMQ rows are sent again by every poll. The progress shown by
   `relay_progress` holds only while the batch's slow calls fit (`TxBudget`).
2. `relay_order` - a failed row does not stop the loop, so a younger event of
   the same post is appended first. The run has two rows of one post, which are
   inserted in order: their transactions lock the post. One poll claims both,
   the send of the first is rejected, and the second reaches the topic.
3. `worker_crash` - after a worker dies with the claim set, the redelivery is
   acked as a duplicate; the job is lost, not delayed.
4. `content_edit` - an edit keeps the status and writes no job, whether it comes
   after the approval or before the verdict on the first text is applied.

Besides these, `worker` shows by `SecondVerdictOnlyByFault` exactly when a job
gets a second verdict: its done mark failed or its key expired under a
handler. The second message has a `messageId` of its own (`randomUUID()`,
`moderation-consumer.service.ts:73`), so no consumer can recognise it,
although `docs/interview-questions.md:73` says that it carries the original one.
Several invariants of the later runs name an exception in the same way, and
without it TLC shows the case: `NoConnectionLeft` a shutdown during a connect,
`OneConsumerPerQueue` a `consume()` during a replay (the class allows it, though
each service of this repository subscribes once, at its start),
`EveryQueueServed` a cancelled consumer, `MissedOnlyByLateJoin` the events before a group's first
commit, `VerdictsAreCounted` an invalid record that blocks its partition,
`CacheBelongsToMe` and `EvictionHasCause` a late cookie.

Disagreements with comments met while modelling that have no run of their own:

* `lib/query.tsx:17-22` says that a 401 after login means the session expired;
  a 401 of a post sent before the login, or of the other login form, evicts a
  live session too (the last disjuncts of `EvictionHasCause`).
* `lib/socket.ts:25-27` expects socket.io to retry after a refused handshake; it
  does not after the server's `disconnect(true)` (`tab` = "refused").
* `lib/use-sse.ts:5` says that the EventSource reconnects by itself; after an
  answer that is no stream (401, 404, 429) it does not (`Refused`).
* `trace-page.tsx:37-38` takes a failed chain for one with nothing more to watch.
  One failed delivery logs an error with the id (`rabbitmq-consumer.service.ts:203-208`,
  `kafka-consumer.service.ts:85-90`), which settles the page, and the retry that
  completes the chain is never shown (`FailDelivery`, then a `Poll`, then `Mark`).
  A chain that ends without a line of its id, such as a quarantined row, is the
  reverse: the page polls for ever.
* `derive-trace.ts:19` calls a latency the cost of one hop, but the gateway logs
  behind the content service, so the hop "Post created" shows 0, and the time
  of stages that overlap is counted twice. `PageFollowsChain` claims only that
  no hop exceeds the whole.

### Bounds

* relay: three rows and two polls are enough for a poll to skip what another
  holds and still get a batch, and for a row to be retried, quarantined and
  overtaken. `BatchSize` 2 lets one batch hold rows that fail and rows that do
  not; `MaxAttempts` 2 has one retry. One fault: `Rollback` or an unflushed
  publish. `relay_progress` has two rows (one with no route), two polls, one
  fault and one replay.
* queue: two messages and `Prefetch` 1 make the limit bite; channels c1 and c2
  are two incarnations of one process, c3 of another. `MaxDeliveries` 2 has
  a retry before the DLQ. A message replayed out of the DLQ keeps its count (its
  headers are copied) or starts anew (the operator publishes its content).
* worker: two messages that are copies of one job, c1 and c3 in different
  processes; two faults, one crash, one expired key, one DLQ replay.
  `MaxDeliveries` 1 keeps the run small; the retry cycle itself is `queue`'s.
* content: two verdict messages for one post, one edit, one crash, one replay.
* connection: two subscriptions, so that a replay is interrupted between them,
  and four `connect()` calls: the boot, two that may meet any fault, and the
  last, which meets none, so that a reconnect can succeed in the end.
* verdict_stream: two records out of four events (two countable with no and
  with two categories, one of a future version, one invalid) are enough for a
  duplicate, a blocked partition and a mixed chart; two faults; days 0 to 2 with
  a window of one; two tabs and two sockets.
* dashboard, session: two users, two session ids, two requests in flight. One
  request that outlives a login is the shortest way to every late answer.
* dashboard, limit: a window of 2 ticks, a limit of 2, time to 5: two windows and
  the boundary between them; one failed PEXPIRE.
* dashboard, logs: two services of three entries each, a buffer of 2, a stream
  capped at 2 (so that entries are trimmed unread), one lost write, two
  subscriptions, a live list of 2.
* dashboard, trace: all five services, five entries each, a stream capped at 9
  and a query of 8, so that a full trace and one line more, of another request
  or of a failed delivery (`MaxExtra`), overflow the window; markers outstanding
  and that line are two together (`MaxLoose`), so that a delivery fails while its
  stage, or the one it races with, is still unlogged.
* dashboard, status: two rows, one attempt before quarantine, two rows that come
  or move in a snapshot, one probed service.
* `Lasting` names channel incarnations that are not lost. Without one a
  liveness property would fail for the sole reason that the incarnations, which
  are finite here, run out.

Deadlock is not checked: with inputs and faults bounded, every model may stop.

### Fairness

* relay: weak fairness of each slot's `PollStep`. The interval timer starts
  polls for ever, and every await of a poll settles because kafkajs and Prisma
  have time limits. `Insert`, `Replay`, `Rollback` and lost buffers are not
  fair. A publish that is always rejected is allowed; progress is then
  quarantine.
* queue and the consumers on it: strong fairness of delivery of each message (the
  queue is FIFO and a message returns to `ready` after every lost channel),
  weak fairness of TTL expiry, of reopening channels (a reconnect is
  rescheduled until it works), and of each running handler (its awaits end).
  Nothing makes a handler succeed.
* connection: weak fairness of the boot, of each call's steps (timers fire, and
  the broker answers or the connection is lost), of the shutdown's teardown and
  of a pending `consume()`. Losses, cancellations and the shutdown are not fair.
* verdict_stream: weak fairness of joining and recovering and of handling the
  current record: kafkajs does both without end. `Recover` may also stop for
  good, and `VerdictsAreCounted` allows for that. Faults are not fair.
* dashboard: no fairness; its properties are safety properties.

## Proofs

**OutboxRelayProofs** proves, for every set of rows, any number of polls and
all bounds, the safety properties `relay_safety` checks, and `RowsMoveForward`.
The properties are not inductive as they stand. `RelayInv` adds:

* `PollShape` - the rows a poll has left, marked and failed are disjoint; a poll
  without an open transaction has no buffered writes; one whose transaction
  timed out holds only rows known to be disturbed;
* `MarkedWasReceived` - what `PublishedWasReceived` says, of the uncommitted
  marks;
* `SentOnceAndMarked` - an undisturbed row that reached the broker was sent
  once, and is published or marked by the open transaction that sent it. This
  links `ClaimsExclusive` to `OnceUnlessDisturbed`: such a row is locked or
  published, so no other poll can claim it.

One lemma per action shows that `RelayInv` is preserved; the lemmas
`EndPollLocks`, `SameLocks`, `EndPollClaims` and `SameLocksClaims` carry the
part about locks. The proofs use the named assumptions of OutboxRelay:
rows are numbers, `Route` is a function to brokers or "none", and the bounds
are naturals with `MaxAttempts` positive.

**WorkQueueProofs** proves, for every set of messages, processes and channels,
the safety properties of `queue` and that WorkQueue implements BoundedRetry.
`QueueInv` is the conjunction of the checked invariants with `Bookkeeping`: a
handled message is gone and not in the DLQ, and handlers run on channels that
were opened. The invariants need each other: that an unacked message has a
handler on its channel says what a settled delivery was, and that only
exhausted messages are in the DLQ keeps acked ones out of it. In the refinement
`DropRefines` covers every step that loses channels, and `HandlerRefines` maps
the ends of a delivery to `Succeed`, `Fail`, `GiveUp` or a stutter. The
assumptions are that channels differ from the names of places, `ProcessOf` is a
function to processes, and the bounds are naturals with `MaxDeliveries`
positive.

**ServiceQueueProofs** holds the facts both services need of the queue below
them: what each step of WorkQueue leaves in the queue, and `QueueInv` - handlers
run on channels that were opened, and a message a live channel's handler works
on is unacked on that channel. `ServiceQueue` is WorkQueue without cancelled
consumers, shared by both. It assumes what WorkQueue does.

**ModerationWorkerProofs** proves the six invariants of `worker`. The worker's
steps leave the queue as one of its own steps does (`StepRefines`), so `QueueInv`
needs no further proof. `WorkerInv` adds to the six:

* `ClaimHasKey` - until a key is freed under a handler, who holds the claim
  finds it set. So `Claim`, which needs a free key, makes the only holder;
* `VerdictIsFinal` - once a job has a verdict its key stays set and a holder is
  past its publish, so nobody publishes again and `Release` cannot free it;
* `ClaimsSettle` - a claim on a live channel is on a message that is not
  exhausted. No other live channel works on the message, so no other nack can
  exhaust it, and dead-lettering never ends a handler that holds a claim;
* `GoneHasCause` - a job with no copy under way has a holder, a verdict, a copy
  in the DLQ, or a named reason. With `KeyHasCause`, which says the same of a key
  that is set, this is why an acked duplicate is safe: the key it met belongs to
  somebody who will answer.

`LossInv` covers every step that ends handlers without writing a key. The
assumption added is that each job has at least one message.

**ContentModerationProofs** proves the four invariants of `content` and
`RemovedStaysSilent`. `ContentInv` adds
`CommittedApplied` (a handler past its commit has a ProcessedMessage row), which
makes the ack after the commit safe, and `SilentUntilVerdict` (a pending post
has no outbox row), which `Create` needs. `ApplyDatabase` is the transaction.

**AmqpConnectionProofs** proves, for any number of `connect()` calls and
subscriptions, `OneConnectAtATime`, `NoConnectionLeft`, `FieldIsUsable` and `OneConsumerPerQueue`.
`ConnInv` is types and `Order`: at most one call is in flight, and what
connection, channel, timer and broker hold is a function of where it stands.
The timer is off while a call runs (`TimerIsQuiet`), a call dials from nothing
and opens its channel on its own connection (`DialsFromNothing`,
`OpensOwnConnection`, `ChannelOnConnection`), an open connection is in the field
or being closed (`OpenIsHeld`, `VictimsAreClosing`), and a shutdown that met no
call leaves the fields empty and the timer off (`QuietShutdown`,
`ClosingIsTeardown`).

In `Consumers` the broker's side follows: every subscription is listed once
(`SubscribedOnce`), what is served or asked for is subscribed
(`ServedIsSubscribed`, `AskingIsOpen`), a channel that is closed serves nobody,
and on a channel that replays only the subscriptions before the cursor are
served (`ReplayedInOrder`, `AsksFirst`). So `OneConsumerPerQueue`: the replay
asks for a queue that has no consumer yet, unless `consume()` ran meanwhile.

**DashboardProofs** proves every property of `dashboard`. Each part has an
invariant of its own, shown for the part's own specification or, where the log
stream is shared, for whatever drives it:

* `SessionInv` follows one user name through its stages, for any number of
  users, sessions and requests in flight: the form names the user whom the
  answer names (`FormNamesUser`, `AnswerNamesUser`), a session is granted to that
  user and to nobody after him (`GrantNamesItsUser`), a refused session is gone
  (`RefusedIsGone`), `me` was set under a session of that user (`EnteredIsMine`),
  and a query still awaited was sent under it (`QueriesAreMine`). Without the
  last a late answer could fill the next user's cache: `removeQueries()` at login
  and logout drops exactly those.
* `LimitInv` cuts the past at the ticks where counters began: a stretch of one
  window meets at most two counters, and each lets the limit through. `passed`
  is cumulative, so that a stretch is a difference and needs no sum.
* `StatusInv` says how far each tile of a snapshot in progress can be from the
  rows: by one for each row that came or moved since it was counted. That `OutboxRows`
  is finite is assumed.
* `StreamInv` says that a service's numbers grow along the stream and then its
  buffer (`NumberedInOrder`, `HeldOrWritten`), which gives `ServiceOrderKept`
  through flushes, trims and lost writes. `TailInv` says that the gateway reads
  on from the greatest id it has sent (`ReadsOn`), that what is shown was read
  (`ShownIsRead`), and that between two entries read nothing is missing but
  what was trimmed (`NoHole`). Both are proved with `LogStream` as it is used
  twice, by the Logs page (`LogsPage`) and under Trace.
* `TraceInv` adds `LinesTell`: a line of the traced request is in the stream only
  if it tells the truth (`Truth`): a marker, that its stage took place; an error
  listed under a stage, that what sets the stage off took place, or, for the
  gateway, that the form was told so. What a poll shows follows from it, and a
  query misses a line only outside its window, so a stage goes back to pending
  only when no line of it is left there.

`DashboardInv` joins them: exactly one part moves in a step (`OnePartMoves`), and
`PartsCorrect` carries the parts' theorems over to the composition. Assumed, besides the bounds being naturals: the tail's
bounds (`TailAssumption`) and that every stage logs at a service
(`ServicesAssumption`).

**VerdictStreamProofs** proves every safety property of `verdict_stream`.
`StreamInv` serves `MissedOnlyByLateJoin` and `OpenSocketIsRegistered`: the
committed offset never passes the position (`CommitFollows`), so a rejoin goes
back and never forward, and the registry is the server's set of open sockets
(`RegistryFollows`). `TrendsInv` serves `ChartsAgree`. An event of several
categories is as many *units*, each of one row; `CountsFollow` says that the
table counts the units of the events that have a dedupe row, and `PageFollows`
that the page's rows are those of the events in `basis`. Every total the charts
show is then a number of units: `SubsetInduction`, from the well-foundedness of
strict inclusion, shows that a sum of fibres is the size of what they cover, in
whatever order the library's fold takes the elements (`FoldCounts`), and the
conjuncts of `ChartsAgree` say that the same units are cut by day, by category
and by event. `FactAssumption` is what validation and the classifier guarantee:
a countable event has one of the two verdicts, and categories are codes, never
the sentinel `none`.

Only model-checked: the liveness properties (fairness and ENABLED are outside
TLAPS's reach; `ImplementsRetry` is a safety property and proved). The four refuted properties have a counterexample and no proof.

## Not modelled

* Configuration and bootstrap: environment validation, module wiring, health
  endpoints, provisioning of topics. They run once at start and keep no state.
* Rendering: the UI primitives, the layout, the kitchen-sink page, texts, and
  the filters of the Logs page, which select among the entries it holds.
* `stageLatencyAverages`, a mean over a sample of chains.
* The producer connection of the Kafka publisher: kafkajs keeps it.
* A second browser tab. It shares the cookie and not the cache, so a login there
  changes the session under `me` here; `CacheBelongsToMe` is about one tab.
* The author check of update and delete, message bodies and log texts. A failed
  poll of the Trace page keeps the last answer and is a stutter here.

## Plan

1. done: OutboxRelay and WorkQueue (over BoundedRetry), ModerationWorker and
   ContentModeration on WorkQueue, with their proofs.
2. done: KafkaConsumer, Trends, ModerationPush and VerdictStream.
3. done: AmqpConnection and its proofs.
4. done: GatewaySession, RateLimit, LogStream, Trace, StatusPage and Dashboard.
5. done: the derivations of the Trace and Analytics pages.
6. done: proofs about Dashboard and its parts, of `OneConsumerPerQueue` and of
   `ChartsAgree`; every safety property a passing run checks has a theorem.
7. left: `stageLatencyAverages` against a reference definition, the filters of
   the Logs page, and a specification of "counted once" that VerdictStream
   implements.
