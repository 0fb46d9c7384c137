------------------------- MODULE ContentModeration -------------------------
(***************************************************************************)
(* content-service's posts (apps/content-service/src/app/posts) and the    *)
(* consumer that applies moderation verdicts to them                       *)
(* (moderation-completed-consumer.service.ts) on the moderation.completed  *)
(* queue.  A verdict is applied in one database transaction: the           *)
(* ProcessedMessage row, the post's status and an outbox row for Kafka.    *)
(* Concurrent transactions for one message are serialised by the unique    *)
(* key of ProcessedMessage, for one post by the lock of its row.           *)
(*                                                                         *)
(* What lies between a created post and its verdict messages - the outbox  *)
(* relay, the moderation.job queue and ai-processing-service - is one      *)
(* step here: a post's job may bring any number of verdict messages, each  *)
(* about the content the post had when it was created.                     *)
(***************************************************************************)
EXTENDS ServiceQueue, Sequences

CONSTANTS
    Posts,
    PostOf,  \* PostOf[v]: the post verdict message v is about
    MaxEdits \* bound: edits of a post

ASSUME PostAssumption == PostOf \in [Messages -> Posts] /\ MaxEdits \in Nat

VARIABLES
    status,    \* status[p]: "none" before create, "removed" after delete
    revision,  \* revision[p]: how often the content was edited
    verdict,   \* verdict[v]: what message v says, once published
    cleared,   \* pairs of post and revision the classifier approved
    processed, \* committed ProcessedMessage rows
    stream,    \* committed outbox rows for Kafka, in occurredAt order
    committed  \* running handlers whose transaction has committed

database == <<status, revision, processed, stream>>
classifier == <<verdict, cleared>>
vars == <<queueVars, database, classifier, committed>>

Verdicts == {"approved", "rejected"}

Present(p) == status[p] \in {"pending"} \cup Verdicts

Init ==
    /\ Queue!Init
    /\ status = [p \in Posts |-> "none"]
    /\ revision = [p \in Posts |-> 0]
    /\ verdict = [v \in Messages |-> "approved"]
    /\ cleared = {} /\ processed = {} /\ stream = <<>> /\ committed = {}

----------------------------------------------------------------------------
(* PostsService.  update and remove match the author as well; an update or *)
(* delete that matches no row changes nothing.                             *)

\* The post and the outbox row of its moderation job commit together.
Create(p) ==
    /\ status[p] = "none"
    /\ status' = [status EXCEPT ![p] = "pending"]
    /\ UNCHANGED <<queueVars, revision, processed, stream, classifier, committed>>

\* New content; the status is left as it is and no job is written.
Update(p) ==
    /\ Present(p) /\ revision[p] < MaxEdits
    /\ revision' = [revision EXCEPT ![p] = @ + 1]
    /\ UNCHANGED <<queueVars, status, processed, stream, classifier, committed>>

Remove(p) ==
    /\ Present(p)
    /\ status' = [status EXCEPT ![p] = "removed"]
    /\ UNCHANGED <<queueVars, revision, processed, stream, classifier, committed>>

\* findAll and findOne: approved posts, with the content they have now.
Visible == {p \in Posts : status[p] = "approved"}

----------------------------------------------------------------------------
(* The queue of verdict messages.                                          *)

\* A verdict on the content the job was created with reaches the queue.
Classify(v) ==
    /\ status[PostOf[v]] # "none"
    /\ Queue!Publish(v)
    /\ \E s \in Verdicts :
         /\ verdict' = [verdict EXCEPT ![v] = s]
         /\ cleared' = IF s = "approved" THEN cleared \cup {<<PostOf[v], 0>>} ELSE cleared
    /\ UNCHANGED <<database, committed>>

OpenChannel ==
    /\ \E c \in Channels : Queue!OpenChannel(c)
    /\ UNCHANGED <<database, classifier, committed>>

\* Faulty variant of Forget: a transaction outlives its handler.
ForgetNothing == UNCHANGED <<committed, database, classifier>>

\* A handler that is over has no transaction any more.
Forget == committed' = committed \cap running' /\ UNCHANGED <<database, classifier>>

ExpireRetry(v) == Queue!ExpireRetry(v) /\ Forget

Deliver(c, v) == Queue!Deliver(c, v) /\ Forget

\* The connection drops, or the process dies, under whatever was running.
Interrupt ==
    /\ \/ \E c \in Channels : Queue!LoseChannel(c)
       \/ \E p \in Processes : Queue!Crash(p)
    /\ Forget

\* The operator's replay of a verdict out of the DLQ.
Replay(v) == Queue!ReplayDeadLetter(v) /\ Forget

DeadLetter(c, v) ==
    /\ Queue!DeadLetter(c, v) \/ Queue!DeadLetterCut(c, v)
    /\ Forget

----------------------------------------------------------------------------
(* ModerationCompletedConsumerService.handle().                            *)

Handling(c, v) ==
    <<c, v>> \in running \ committed /\ ~Queue!Exhausted(v)

Resolve(c, v) == (Queue!Ack(c, v) \/ Queue!SettleTooLate(c, v)) /\ Forget

Reject(c, v) == (Queue!Nack(c, v) \/ Queue!SettleTooLate(c, v)) /\ Forget

OutboxRow(v) == [id |-> v, post |-> PostOf[v], verdict |-> verdict[v]]

\* Faulty variants of ApplyVerdict: no outbox row (BUG-0005), no dedupe check,
\* and an upsert that brings a removed post back.
ApplyNoRow(v) ==
    /\ v \notin processed /\ Present(PostOf[v])
    /\ processed' = processed \cup {v}
    /\ status' = [status EXCEPT ![PostOf[v]] = verdict[v]]
    /\ UNCHANGED <<stream, revision, classifier>>

ApplyUpsert(v) ==
    /\ v \notin processed
    /\ processed' = processed \cup {v}
    /\ status' = [status EXCEPT ![PostOf[v]] = verdict[v]]
    /\ stream' = Append(stream, OutboxRow(v))
    /\ UNCHANGED <<revision, classifier>>

ApplyAgain(v) ==
    /\ Present(PostOf[v])
    /\ Len(stream) < 3
    /\ processed' = processed \cup {v}
    /\ status' = [status EXCEPT ![PostOf[v]] = verdict[v]]
    /\ stream' = Append(stream, OutboxRow(v))
    /\ UNCHANGED <<revision, classifier>>

\* The whole transaction: dedupe row, post status, outbox row.
ApplyVerdict(v) ==
    /\ v \notin processed /\ Present(PostOf[v])
    /\ processed' = processed \cup {v}
    /\ status' = [status EXCEPT ![PostOf[v]] = verdict[v]]
    /\ stream' = Append(stream, OutboxRow(v))
    /\ UNCHANGED <<revision, classifier>>

Commit(c, v) ==
    /\ Handling(c, v)
    /\ ApplyVerdict(v)
    /\ committed' = committed \cup {<<c, v>>}
    /\ UNCHANGED queueVars

\* The commit is durable but its reply is lost: the handler throws.
CommitReplyLost(c, v) ==
    /\ Handling(c, v)
    /\ ApplyVerdict(v)
    /\ Queue!Nack(c, v)
    /\ UNCHANGED committed

Acknowledge(c, v) ==
    /\ <<c, v>> \in committed
    /\ Resolve(c, v)

\* P2002 on the dedupe row: the transaction rolls back and handle() returns.
SkipDuplicate(c, v) ==
    /\ Handling(c, v) /\ v \in processed
    /\ Resolve(c, v)

\* Faulty variant of TransactionFails: the error is swallowed, the message acked.
FailureSwallowed(c, v) ==
    /\ Handling(c, v)
    /\ Resolve(c, v)

\* The post is gone (P2025), the database fails, or the envelope is refused:
\* nothing is written and the message retries.
TransactionFails(c, v) ==
    /\ Handling(c, v)
    /\ Reject(c, v)

HandlerStep(c, v) ==
    \/ Commit(c, v) \/ Acknowledge(c, v) \/ SkipDuplicate(c, v)
    \/ TransactionFails(c, v) \/ DeadLetter(c, v)

Next ==
    \/ \E p \in Posts : Create(p) \/ Update(p) \/ Remove(p)
    \/ OpenChannel \/ Interrupt
    \/ \E v \in Messages : Classify(v) \/ ExpireRetry(v) \/ Replay(v)
    \/ \E c \in Channels, v \in Messages :
          Deliver(c, v) \/ HandlerStep(c, v) \/ CommitReplyLost(c, v)

Spec == Init /\ [][Next]_vars

\* As in WorkQueue; a Prisma transaction settles within its timeout.
FairSpec ==
    /\ Spec
    /\ WF_vars(OpenChannel)
    /\ \A v \in Messages :
         /\ WF_vars(ExpireRetry(v))
         /\ SF_vars(\E c \in Channels : Deliver(c, v))
         /\ \A c \in Channels : WF_vars(HandlerStep(c, v))

----------------------------------------------------------------------------
TypeOK ==
    /\ Queue!TypeOK
    /\ status \in [Posts -> {"none", "pending", "removed"} \cup Verdicts]
    /\ revision \in [Posts -> 0..MaxEdits]
    /\ verdict \in [Messages -> Verdicts]
    /\ cleared \subseteq Posts \X (0..MaxEdits)
    /\ processed \subseteq Messages
    /\ stream \in Seq([id : Messages, post : Posts, verdict : Verdicts])
    /\ committed \subseteq running

LastRowOf(i) ==
    \A k \in i + 1..Len(stream) : stream[k].post # stream[i].post

\* The posts table and the events Kafka will carry never disagree (BUG-0005): a
\* post has the verdict of its last outbox row, and is pending only without one.
StatusMatchesStream ==
    /\ \A i \in 1..Len(stream) :
         LastRowOf(i) => status[stream[i].post] \in {stream[i].verdict, "removed"}
    /\ \A p \in Posts : status[p] \in Verdicts =>
         \E i \in 1..Len(stream) : stream[i].post = p

\* A verdict message has effect once, however often it is delivered: one outbox
\* row for each ProcessedMessage row and none without.
OneRowPerVerdict ==
    /\ \A i, k \in 1..Len(stream) : stream[i].id = stream[k].id => i = k
    /\ {stream[i].id : i \in 1..Len(stream)} = processed

\* The queue lets go of a verdict only when its transaction has committed or a
\* copy waits in the DLQ: ack after commit, never before.
AckedVerdictsApplied ==
    \A v \in Messages : place[v] = "gone" => v \in processed \/ dlq[v] > 0

\* A removed post stays removed, and no event about it enters the outbox.
RemovedStaysSilent ==
    [][\A p \in Posts : status[p] = "removed" =>
          /\ status'[p] = "removed"
          /\ \A i \in 1..Len(stream') : stream'[i].post = p => i <= Len(stream)]_vars

\* Every verdict message takes effect or ends in the DLQ.
EveryVerdictSettles ==
    \A v \in Messages : place[v] # "absent" ~> v \in processed \/ dlq[v] > 0

\* "pending/rejected content hasn't cleared moderation and shouldn't be visible
\* through the public read API" (posts.service.ts:44): the content of a visible
\* post is content the classifier approved.
VisibleContentCleared == \A p \in Visible : <<p, revision[p]>> \in cleared
=============================================================================
