-------------------------- MODULE ModerationWorker --------------------------
(***************************************************************************)
(* The moderation job consumer of ai-processing-service                    *)
(* (apps/ai-processing-service/src/app/moderation/                         *)
(* moderation-consumer.service.ts) on the moderation.job queue: the Redis  *)
(* claim, the classification, the verdict it publishes and the done mark,  *)
(* one action per await whose result other parties can see.  The queue is  *)
(* WorkQueue: a handler is one delivery there, and ends with its ack or    *)
(* nack, or with its process when the channel is gone by then.             *)
(***************************************************************************)
EXTENDS ServiceQueue

CONSTANTS
    Jobs,       \* outbox row ids, carried as envelope.messageId
    JobOf,      \* JobOf[m]: the job message m is a copy of
    MaxFaults,  \* bound: failed Redis calls and unflushed publishes
    MaxExpiries \* bound: Redis keys that reach their TTL

\* A job is one that the relay has put on the queue, once or more.
ASSUME JobAssumption ==
    /\ JobOf \in [Messages -> Jobs]
    /\ \A j \in Jobs : \E m \in Messages : JobOf[m] = j
    /\ {MaxFaults, MaxExpiries} \subseteq Nat

VARIABLES
    step,     \* step[c][m]: the await a running handler is at
    key,      \* key[j]: value of moderation:processed:<j> in Redis
    verdicts, \* verdict messages published for a job: 0, 1 or 2 (more),
              \* each under a messageId of its own
    dropped,  \* jobs with a verdict lost in an unflushed RabbitMQ buffer
    orphaned, \* jobs whose claim outlived its handler's chance to settle
    reopened, \* jobs whose key was freed after a verdict or under a handler
    faults, expiries

history == <<dropped, orphaned, reopened>>
bounds == <<faults, expiries>>
workerVars == <<step, key, verdicts, history, bounds>>
vars == <<queueVars, workerVars>>

\* "claimed": between the SET NX and the publish; "sent": between the publish
\* and the done mark; "failing": in the catch block, before the DEL.
Steps == {"start", "claimed", "sent", "failing"}

At(c, m, s) == <<c, m>> \in running /\ step[c][m] = s

HoldsClaim(c, m) == <<c, m>> \in running /\ step[c][m] # "start"

\* The jobs a handler of these channels has claimed.
ClaimsOn(C) == {JobOf[h[2]] : h \in {g \in running : g[1] \in C /\ HoldsClaim(g[1], g[2])}}

GoTo(c, m, s) == step' = [step EXCEPT ![c][m] = s]

Fault == faults < MaxFaults /\ faults' = faults + 1 /\ UNCHANGED expiries

\* The bookkeeping of a step that ends handlers or loses channels: claims on a
\* channel that is lost are orphaned, and a handler that is over has no step.
Unclaim ==
    /\ orphaned' = orphaned \cup ClaimsOn(live \ live')
                            \cup {JobOf[h[2]] : h \in {g \in running \ running' :
                                    g[1] \notin live /\ HoldsClaim(g[1], g[2])}}
    /\ step' = [c \in Channels |-> [m \in Messages |->
                  IF <<c, m>> \in running' THEN step[c][m] ELSE "start"]]

----------------------------------------------------------------------------
Init ==
    /\ Queue!Init
    /\ step = [c \in Channels |-> [m \in Messages |-> "start"]]
    /\ key = [j \in Jobs |-> "free"]
    /\ verdicts = [j \in Jobs |-> 0]
    /\ dropped = {} /\ orphaned = {} /\ reopened = {}
    /\ faults = 0 /\ expiries = 0

\* What the outbox relay and the operator put on the queue.
Enqueue(m) ==
    /\ Queue!Publish(m) \/ Queue!ReplayDeadLetter(m)
    /\ UNCHANGED workerVars

ExpireRetry(m) == Queue!ExpireRetry(m) /\ UNCHANGED workerVars

Deliver(c, m) == Queue!Deliver(c, m) /\ UNCHANGED workerVars

OpenChannel == \E c \in Channels : Queue!OpenChannel(c) /\ UNCHANGED workerVars

\* The connection drops, or the process dies, under whatever was running.
Interrupt ==
    /\ \/ \E c \in Channels : Queue!LoseChannel(c)
       \/ \E p \in Processes : Queue!Crash(p)
    /\ Unclaim
    /\ UNCHANGED <<key, verdicts, dropped, reopened, bounds>>

\* handleMessage() sends an exhausted delivery to the DLQ, handler not called.
DeadLetter(c, m) ==
    /\ Queue!DeadLetter(c, m) \/ Queue!DeadLetterCut(c, m)
    /\ Unclaim
    /\ UNCHANGED <<key, verdicts, dropped, reopened, bounds>>

\* handle() is called only for a delivery that is not exhausted.
Starts(c, m) == At(c, m, "start") /\ ~Queue!Exhausted(m)

Resolve(c, m) == (Queue!Ack(c, m) \/ Queue!SettleTooLate(c, m)) /\ Unclaim

Reject(c, m) == (Queue!Nack(c, m) \/ Queue!SettleTooLate(c, m)) /\ Unclaim

\* Faulty variant of RejectBeforeClaim: the version is checked under the claim,
\* still outside the try block.
RejectUnderClaim(c, m) ==
    /\ Starts(c, m) /\ key[JobOf[m]] = "free"
    /\ key' = [key EXCEPT ![JobOf[m]] = "processing"]
    /\ Reject(c, m)
    /\ UNCHANGED <<verdicts, dropped, reopened, bounds>>

\* Unsupported version, or the SET fails: the error leaves handle() outside
\* the try block, so no DEL follows.
RejectBeforeClaim(c, m) ==
    /\ Starts(c, m)
    /\ Reject(c, m)
    /\ UNCHANGED <<key, verdicts, dropped, reopened, bounds>>

\* The SET fails after Redis has executed it: the claim stays behind.
ClaimReplyLost(c, m) ==
    /\ Starts(c, m) /\ key[JobOf[m]] = "free"
    /\ Fault
    /\ key' = [key EXCEPT ![JobOf[m]] = "processing"]
    /\ Queue!Nack(c, m)
    /\ orphaned' = orphaned \cup {JobOf[m]}
    /\ UNCHANGED <<step, verdicts, dropped, reopened>>

\* Faulty variants of Claim: SET without NX, a claim that ignores the done mark,
\* and a claim that writes the done mark at once.
ClaimOverwrites(c, m) ==
    /\ Starts(c, m)
    /\ key' = [key EXCEPT ![JobOf[m]] = "processing"]
    /\ GoTo(c, m, "claimed")
    /\ UNCHANGED <<queueVars, verdicts, history, bounds>>

ClaimAfterDone(c, m) == key[JobOf[m]] # "processing" /\ ClaimOverwrites(c, m)

ClaimDone(c, m) ==
    /\ Starts(c, m) /\ key[JobOf[m]] = "free"
    /\ key' = [key EXCEPT ![JobOf[m]] = "done"]
    /\ GoTo(c, m, "claimed")
    /\ UNCHANGED <<queueVars, verdicts, history, bounds>>

\* SET NX succeeds.
Claim(c, m) ==
    /\ Starts(c, m) /\ key[JobOf[m]] = "free"
    /\ key' = [key EXCEPT ![JobOf[m]] = "processing"]
    /\ GoTo(c, m, "claimed")
    /\ UNCHANGED <<queueVars, verdicts, history, bounds>>

\* SET NX finds a key, whatever its value: handle() returns, the job is acked.
SkipDuplicate(c, m) ==
    /\ Starts(c, m) /\ key[JobOf[m]] # "free"
    /\ Resolve(c, m)
    /\ UNCHANGED <<key, verdicts, dropped, reopened, bounds>>

\* The payload is invalid, the classification fails, or the publish throws.
ProcessingFails(c, m) ==
    /\ At(c, m, "claimed")
    /\ GoTo(c, m, "failing")
    /\ UNCHANGED <<queueVars, key, verdicts, history, bounds>>

\* A verdict is published under a fresh messageId.
PublishVerdict(c, m) ==
    /\ At(c, m, "claimed")
    /\ verdicts' = [verdicts EXCEPT ![JobOf[m]] = IF @ = 0 THEN 1 ELSE 2]
    /\ GoTo(c, m, "sent")
    /\ UNCHANGED <<queueVars, key, history, bounds>>

\* sendToQueue returned and the connection died before the buffer left.
PublishUnflushed(c, m) ==
    /\ At(c, m, "claimed")
    /\ Fault
    /\ dropped' = dropped \cup {JobOf[m]}
    /\ GoTo(c, m, "sent")
    /\ UNCHANGED <<queueVars, key, verdicts, orphaned, reopened>>

\* Faulty variant of Finish: the key gets a value nobody knows.
FinishUnknown(c, m) ==
    /\ At(c, m, "sent")
    /\ key' = [key EXCEPT ![JobOf[m]] = "sent"]
    /\ Resolve(c, m)
    /\ UNCHANGED <<verdicts, dropped, reopened, bounds>>

\* SET done, then the ack.
Finish(c, m) ==
    /\ At(c, m, "sent")
    /\ key' = [key EXCEPT ![JobOf[m]] = "done"]
    /\ Resolve(c, m)
    /\ UNCHANGED <<verdicts, dropped, reopened, bounds>>

MarkDoneFails(c, m) ==
    /\ At(c, m, "sent")
    /\ Fault
    /\ GoTo(c, m, "failing")
    /\ reopened' = reopened \cup {JobOf[m]}
    /\ UNCHANGED <<queueVars, key, verdicts, dropped, orphaned>>

\* Faulty variant of Release: the claim is not released.
ReleaseKeepsKey(c, m) ==
    /\ At(c, m, "failing")
    /\ Reject(c, m)
    /\ UNCHANGED <<key, verdicts, dropped, reopened, bounds>>

\* The catch block: DEL whatever the key holds, then the nack.
Release(c, m) ==
    /\ At(c, m, "failing")
    /\ key' = [key EXCEPT ![JobOf[m]] = "free"]
    /\ Reject(c, m)
    /\ UNCHANGED <<verdicts, dropped, reopened, bounds>>

\* The DEL fails: its error replaces the first one, and the key stays.
ReleaseFails(c, m) ==
    /\ At(c, m, "failing")
    /\ Fault
    /\ Queue!Nack(c, m)
    /\ GoTo(c, m, "start")
    /\ orphaned' = orphaned \cup {JobOf[m]}
    /\ UNCHANGED <<key, verdicts, dropped, reopened>>

\* CLAIM_TTL_SECONDS or DONE_TTL_SECONDS has passed.
ExpireKey(j) ==
    /\ key[j] # "free"
    /\ expiries < MaxExpiries /\ expiries' = expiries + 1
    /\ key' = [key EXCEPT ![j] = "free"]
    /\ reopened' = reopened \cup {j}
    /\ UNCHANGED <<queueVars, step, verdicts, dropped, orphaned, faults>>

----------------------------------------------------------------------------
\* The steps a running handler takes by itself.
HandlerStep(c, m) ==
    \/ RejectBeforeClaim(c, m) \/ Claim(c, m) \/ SkipDuplicate(c, m)
    \/ ProcessingFails(c, m) \/ PublishVerdict(c, m) \/ Finish(c, m)
    \/ Release(c, m) \/ DeadLetter(c, m)

HandlerFault(c, m) ==
    \/ ClaimReplyLost(c, m) \/ PublishUnflushed(c, m)
    \/ MarkDoneFails(c, m) \/ ReleaseFails(c, m)

Next ==
    \/ OpenChannel \/ Interrupt
    \/ \E j \in Jobs : ExpireKey(j)
    \/ \E m \in Messages : Enqueue(m) \/ ExpireRetry(m)
    \/ \E c \in Channels, m \in Messages :
          Deliver(c, m) \/ HandlerStep(c, m) \/ HandlerFault(c, m)

Spec == Init /\ [][Next]_vars

\* As in WorkQueue; every await of a handler settles (fetch and the Redis
\* client give up by themselves).
FairSpec ==
    /\ Spec
    /\ WF_vars(OpenChannel)
    /\ \A m \in Messages :
         /\ WF_vars(ExpireRetry(m))
         /\ SF_vars(\E c \in Channels : Deliver(c, m))
         /\ \A c \in Channels : WF_vars(HandlerStep(c, m))

----------------------------------------------------------------------------
TypeOK ==
    /\ Queue!TypeOK
    /\ step \in [Channels -> [Messages -> Steps]]
    /\ key \in [Jobs -> {"free", "processing", "done"}]
    /\ verdicts \in [Jobs -> 0..2]
    /\ dropped \subseteq Jobs /\ orphaned \subseteq Jobs /\ reopened \subseteq Jobs
    /\ faults \in 0..MaxFaults /\ expiries \in 0..MaxExpiries

\* The queue has let go of every copy of the job and no handler works on it.
JobClosed(j) ==
    \A m \in Messages : JobOf[m] = j =>
        place[m] = "gone" /\ \A c \in Channels : <<c, m>> \notin running

JobDeadLettered(j) == \E m \in Messages : JobOf[m] = j /\ dlq[m] > 0

\* A closed job produced a verdict or is in the DLQ for a human, unless its
\* verdict was never flushed or its claim outlived the handler that set it.
LostOnlyByFault ==
    \A j \in Jobs : JobClosed(j) =>
        \/ verdicts[j] > 0 \/ JobDeadLettered(j)
        \/ j \in dropped \cup orphaned

\* The key says done only of a job whose verdict was handed to the publisher.
DoneMeansPublished ==
    \A j \in Jobs : key[j] = "done" => verdicts[j] > 0 \/ j \in dropped

\* Redelivery, competing processes and duplicate copies alone never classify a
\* job twice at once: two handlers hold the claim only if a key was freed
\* under one of them.
ClaimIsExclusive ==
    \A c, d \in Channels, m, n \in Messages :
        /\ <<c, m>> # <<d, n>> /\ JobOf[m] = JobOf[n]
        /\ HoldsClaim(c, m) /\ HoldsClaim(d, n)
        => JobOf[m] \in reopened

\* A second verdict for a job needs a failed done mark or an expired key.
SecondVerdictOnlyByFault ==
    \A j \in Jobs : verdicts[j] > 1 => j \in reopened

Claimed(j) == \E c \in Channels, m \in Messages : HoldsClaim(c, m) /\ JobOf[m] = j

\* What a job may end with other than a copy in the DLQ.
Answered(j) == verdicts[j] > 0 \/ j \in dropped \cup orphaned

\* The claim is "released on failure so a manual DLQ replay isn't blocked forever
\* by a message that never actually completed" (moderation-consumer.service.ts:53):
\* through retries, dead-lettering and competing processes, a key that no running
\* handler holds is of a job that was answered, or whose claim a named fault left.
KeyHasCause == \A j \in Jobs : key[j] # "free" => Claimed(j) \/ Answered(j)

\* Every job put on the queue gets a verdict or ends in the DLQ, unless its
\* verdict was never flushed or its claim outlived the handler that set it.
EveryJobAnswered ==
    \A m \in Messages : place[m] # "absent" ~>
        \/ verdicts[JobOf[m]] > 0 \/ JobDeadLettered(JobOf[m])
        \/ JobOf[m] \in dropped \cup orphaned

\* "Claim TTL bounds how long a crashed/slow worker blocks redelivery of the
\* same message" (moderation-consumer.service.ts:23): the redelivery is held
\* back for a while, the job is not lost.
CrashOnlyDelaysJob ==
    \A j \in Jobs : JobClosed(j) =>
        verdicts[j] > 0 \/ JobDeadLettered(j) \/ j \in dropped

\* "The moderation result message carries the original message ID"
\* (docs/interview-questions.md:73): all verdict messages of a job share one
\* id, so there is only one as far as a consumer that dedupes can tell.
OneVerdictIdPerJob == \A j \in Jobs : verdicts[j] <= 1
=============================================================================
