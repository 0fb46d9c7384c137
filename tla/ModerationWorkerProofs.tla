----------------------- MODULE ModerationWorkerProofs -----------------------
(***************************************************************************)
(* Proofs about ModerationWorker, for every set of jobs, copies, processes *)
(* and channels and every bound: its safety invariants.  The inductive     *)
(* invariant is WorkerInv.                                                 *)
(***************************************************************************)
EXTENDS ModerationWorker, ServiceQueueProofs

USE QueueAssumption, JobAssumption

\* A handler that is over has no step.
StepsOfRunning ==
    \A c \in Channels, m \in Messages : <<c, m>> \notin running => step[c][m] = "start"

\* A claim on a live channel is on a message that may still be settled.
ClaimsSettle ==
    \A c \in live, m \in Messages : HoldsClaim(c, m) => ~Queue!Exhausted(m)

\* Until a key is freed under a handler, who holds the claim finds its key set.
ClaimHasKey ==
    \A c \in Channels, m \in Messages : HoldsClaim(c, m) =>
        JobOf[m] \in reopened \/ key[JobOf[m]] = "processing"

\* A handler past its publish has handed a verdict to the publisher.
SentHasVerdict ==
    \A c \in Channels, m \in Messages : At(c, m, "sent") =>
        verdicts[JobOf[m]] > 0 \/ JobOf[m] \in dropped

\* Once a job has a verdict, nobody can claim it or publish again, unless its
\* key was freed.
VerdictIsFinal ==
    \A j \in Jobs : verdicts[j] > 0 => \/ j \in reopened
        \/ /\ key[j] # "free"
           /\ \A c \in Channels, m \in Messages :
                 HoldsClaim(c, m) /\ JobOf[m] = j => At(c, m, "sent")

\* A job without a copy under way is in the DLQ, held by a handler, or answered.
GoneHasCause ==
    \A j \in Jobs : (\A m \in Messages : JobOf[m] = j => place[m] = "gone") =>
        Claimed(j) \/ Answered(j) \/ JobDeadLettered(j)

WorkerInv ==
    /\ QueueInv /\ TypeOK
    /\ StepsOfRunning /\ ClaimsSettle
    /\ ClaimHasKey /\ ClaimIsExclusive
    /\ SentHasVerdict /\ DoneMeansPublished
    /\ VerdictIsFinal /\ SecondVerdictOnlyByFault
    /\ KeyHasCause /\ GoneHasCause

-----------------------------------------------------------------------------
(* The queue below the worker.                                             *)

\* Every step of the worker is one of the queue or leaves the queue alone.
LEMMA StepRefines == Next => [Queue!Next]_Queue!queueVars
<1> SUFFICES ASSUME Next PROVE Queue!Next \/ UNCHANGED Queue!queueVars
  OBVIOUS
<1> USE DEF Queue!Next, Queue!BrokerNext, Queue!ProcessNext, Queue!HandleMessage
<1>0. UNCHANGED queueVars => UNCHANGED Queue!queueVars
  BY DEF queueVars, Queue!queueVars, Queue!channelVars, Queue!boundVars
<1>1. CASE OpenChannel \/ Interrupt
  BY <1>1 DEF OpenChannel, Interrupt
<1>2. ASSUME NEW j \in Jobs, ExpireKey(j) PROVE UNCHANGED Queue!queueVars
  BY <1>0, <1>2 DEF ExpireKey
<1>3. ASSUME NEW m \in Messages, Enqueue(m) \/ ExpireRetry(m) PROVE Queue!Next
  BY <1>3 DEF Enqueue, ExpireRetry
<1>4. ASSUME NEW c \in Channels, NEW m \in Messages,
             Deliver(c, m) \/ HandlerStep(c, m) \/ HandlerFault(c, m)
      PROVE  Queue!Next \/ UNCHANGED queueVars
  <2>1. Queue!Deliver(c, m) => Queue!Next
    OBVIOUS
  <2>2. Queue!HandleMessage(c, m) \/ Queue!DeadLetterCut(c, m) => Queue!Next
    OBVIOUS
  <2>3. CASE Deliver(c, m)
    BY <2>1, <2>3 DEF Deliver
  <2>4. CASE HandlerStep(c, m) \/ HandlerFault(c, m)
    BY <2>2, <2>4 DEF HandlerStep, HandlerFault, RejectBeforeClaim, Claim, SkipDuplicate,
       ProcessingFails, PublishVerdict, Finish, Release, DeadLetter, ClaimReplyLost,
       PublishUnflushed, MarkDoneFails, ReleaseFails, Resolve, Reject
  <2> QED
    BY <1>4, <2>3, <2>4
<1> QED
  BY <1>0, <1>1, <1>2, <1>3, <1>4 DEF Next

\* The queue below the worker keeps its invariant.
LEMMA QueueKept == WorkerInv /\ [Next]_vars => QueueInv'
BY StepRefines, QueueStep DEF WorkerInv, vars, queueVars, Queue!queueVars,
   Queue!channelVars, Queue!boundVars

\* The initial state satisfies the invariant: no handler, no key, no verdict.
LEMMA InitInv == Init => WorkerInv
<1> SUFFICES ASSUME Init PROVE WorkerInv
  OBVIOUS
<1>1. QueueInv
  BY QueueInit DEF Init
<1>2. /\ running = {} /\ live = {} /\ \A m \in Messages : place[m] = "absent"
  BY DEF Init, Queue!Init
<1>3. TypeOK
  BY <1>1 DEF Init, TypeOK, QueueInv, Steps
<1>4. StepsOfRunning /\ ClaimsSettle /\ ClaimHasKey /\ ClaimIsExclusive /\ SentHasVerdict
  BY <1>2 DEF Init, StepsOfRunning, ClaimsSettle, ClaimHasKey, ClaimIsExclusive,
     SentHasVerdict, HoldsClaim, At
<1>5. DoneMeansPublished /\ VerdictIsFinal /\ SecondVerdictOnlyByFault /\ KeyHasCause
  BY DEF Init, DoneMeansPublished, VerdictIsFinal, SecondVerdictOnlyByFault, KeyHasCause
<1>6. GoneHasCause
  BY <1>2 DEF GoneHasCause
<1> QED
  BY <1>1, <1>3, <1>4, <1>5, <1>6 DEF WorkerInv

-----------------------------------------------------------------------------
(* The invariant in the parts a step can disturb.                          *)

\* Who holds which claim, and what became of the job.
Verdicts ==
    /\ ClaimHasKey /\ ClaimIsExclusive
    /\ SentHasVerdict /\ DoneMeansPublished
    /\ VerdictIsFinal /\ SecondVerdictOnlyByFault

Excused(j) == Claimed(j) \/ Answered(j)

\* No handler takes a claim or changes its step.
ClaimsShrink ==
    \A d \in Channels, n \in Messages :
        HoldsClaim(d, n)' => HoldsClaim(d, n) /\ step'[d][n] = step[d][n]

\* A handler that goes on runs on a live channel only if it did before, and then
\* no delivery of its message has been rejected meanwhile.
LEMMA LiveHandlers ==
    ASSUME QueueInv, [Queue!Next]_Queue!queueVars
    PROVE  \A d \in live', n \in Messages : <<d, n>> \in running /\ <<d, n>> \in running' =>
               d \in live /\ deaths'[n] = deaths[n]
<1> SUFFICES ASSUME NEW d \in live', NEW n \in Messages, <<d, n>> \in running,
                    <<d, n>> \in running'
             PROVE  d \in live /\ deaths'[n] = deaths[n]
  OBVIOUS
<1> USE DEF QueueInv, Queue!TypeOK, Queue!Places, Queue!channelVars, Queue!boundVars
<1>1. CASE UNCHANGED Queue!queueVars
  BY <1>1 DEF Queue!queueVars
<1>2. ASSUME NEW m \in Messages, Queue!Publish(m) \/ Queue!ExpireRetry(m) \/ Queue!ReplayDeadLetter(m)
      PROVE  d \in live /\ deaths'[n] = deaths[n]
  BY <1>2 DEF Queue!Publish, Queue!ExpireRetry, Queue!ReplayDeadLetter
<1>3. ASSUME NEW c \in Channels, Queue!OpenChannel(c) \/ Queue!LoseChannel(c)
      PROVE  d \in live /\ deaths'[n] = deaths[n]
  BY <1>3 DEF Queue!OpenChannel, Queue!LoseChannel, Queue!Drop
<1>4. ASSUME NEW c \in Channels, NEW m \in Messages, Queue!Deliver(c, m)
      PROVE  d \in live /\ deaths'[n] = deaths[n]
  BY <1>4 DEF Queue!Deliver
<1>5. ASSUME NEW p \in Processes, Queue!Crash(p)
      PROVE  d \in live /\ deaths'[n] = deaths[n]
  BY <1>5 DEF Queue!Crash, Queue!Die, Queue!Drop
<1>6. ASSUME NEW c \in Channels, NEW m \in Messages, Queue!Nack(c, m)
      PROVE  d \in live /\ deaths'[n] = deaths[n]
  <2>1. /\ place[m] = c /\ running' = running \ {<<c, m>>} /\ UNCHANGED live
        /\ deaths' = [deaths EXCEPT ![m] = @ + 1]
    BY <1>6 DEF Queue!Nack, Queue!Settle
  <2>2. n # m
    BY <2>1
  <2> QED
    BY <2>1, <2>2
<1>7. ASSUME NEW c \in Channels, NEW m \in Messages,
             \/ Queue!Ack(c, m) \/ Queue!DeadLetter(c, m)
             \/ Queue!SettleTooLate(c, m) \/ Queue!DeadLetterCut(c, m)
      PROVE  d \in live /\ deaths'[n] = deaths[n]
  BY <1>7 DEF Queue!Ack, Queue!DeadLetter, Queue!SettleTooLate, Queue!DeadLetterCut,
     Queue!Settle, Queue!Die, Queue!Drop
<1>8. \A c \in Channels : ~Queue!CancelConsumer(c)
  BY DEF Queue!CancelConsumer
<1> QED
  BY <1>1, <1>2, <1>3, <1>4, <1>5, <1>6, <1>7, <1>8
     DEF Queue!Next, Queue!BrokerNext, Queue!ProcessNext, Queue!HandleMessage

\* A step that takes no claim keeps ClaimsSettle.
LEMMA SettleKept ==
    ASSUME WorkerInv, [Next]_vars,
           \A d \in Channels, n \in Messages : HoldsClaim(d, n)' => HoldsClaim(d, n)
    PROVE  ClaimsSettle'
<1>1. [Queue!Next]_Queue!queueVars
  BY StepRefines DEF vars, queueVars, Queue!queueVars, Queue!channelVars, Queue!boundVars
<1>2. live' \subseteq Channels
  BY QueueKept DEF QueueInv, Queue!TypeOK
<1> QED
  BY <1>1, <1>2, LiveHandlers DEF WorkerInv, ClaimsSettle, HoldsClaim, Queue!Exhausted

\* With the keys and the verdicts unchanged, fewer claims keep what is said of them.
LEMMA VerdictsKept ==
    ASSUME WorkerInv, ClaimsShrink, UNCHANGED <<key, verdicts, dropped, reopened>>
    PROVE  Verdicts'
<1>1. \A d \in Channels, n \in Messages : At(d, n, "sent") => HoldsClaim(d, n)
  BY DEF At, HoldsClaim
<1>2. \A d \in Channels, n \in Messages : At(d, n, "sent")' => HoldsClaim(d, n)' /\ At(d, n, "sent")
  BY DEF At, HoldsClaim, ClaimsShrink
<1>3. \A d \in Channels, n \in Messages :
         HoldsClaim(d, n)' /\ At(d, n, "sent") => At(d, n, "sent")'
  BY DEF At, HoldsClaim, ClaimsShrink
<1>4. ClaimHasKey' /\ ClaimIsExclusive'
  BY DEF WorkerInv, ClaimHasKey, ClaimIsExclusive, ClaimsShrink
<1>5. SentHasVerdict' /\ DoneMeansPublished' /\ SecondVerdictOnlyByFault'
  BY <1>2 DEF WorkerInv, SentHasVerdict, DoneMeansPublished, SecondVerdictOnlyByFault
<1>6. VerdictIsFinal'
  BY <1>3 DEF WorkerInv, VerdictIsFinal, ClaimsShrink
<1> QED
  BY <1>4, <1>5, <1>6 DEF Verdicts

\* A job whose copies are all gone keeps its cause.
LEMMA GoneKept ==
    ASSUME WorkerInv,
           \A j \in Jobs : Excused(j) =>
               Excused(j)' \/ \E w \in Messages : JobOf[w] = j /\ place'[w] # "gone",
           \A w \in Messages : place'[w] = "gone" =>
               \/ Excused(JobOf[w])'
               \/ dlq'[w] > 0
               \/ place[w] = "gone" /\ dlq'[w] = dlq[w]
    PROVE  GoneHasCause'
<1> SUFFICES ASSUME NEW j \in Jobs, \A m \in Messages : JobOf[m] = j => place'[m] = "gone",
                    ~Excused(j)', ~JobDeadLettered(j)'
             PROVE  FALSE
  BY DEF GoneHasCause, Excused
<1>1. \A m \in Messages : JobOf[m] = j => place[m] = "gone" /\ dlq'[m] = dlq[m]
  BY DEF JobDeadLettered
<1>2. Excused(j) \/ JobDeadLettered(j)
  BY <1>1 DEF WorkerInv, GoneHasCause, Excused
<1>3. ~JobDeadLettered(j)
  BY <1>1 DEF JobDeadLettered
<1> QED
  BY <1>2, <1>3

-----------------------------------------------------------------------------
(* Steps that end handlers.                                                *)

\* Unclaim keeps the steps of handlers that go on and orphans the claims of
\* handlers that end on a channel that is, or was, lost.
LEMMA UnclaimShrinks ==
    ASSUME WorkerInv, Unclaim, running' \subseteq running
    PROVE  /\ step' \in [Channels -> [Messages -> Steps]] /\ StepsOfRunning' /\ ClaimsShrink
           /\ orphaned' \subseteq Jobs /\ orphaned \subseteq orphaned'
           /\ \A d \in Channels, n \in Messages : HoldsClaim(d, n) =>
                 \/ HoldsClaim(d, n)'
                 \/ JobOf[n] \in orphaned'
                 \/ <<d, n>> \notin running' /\ d \in live /\ d \in live'
<1>1. /\ step \in [Channels -> [Messages -> Steps]] /\ orphaned \subseteq Jobs
      /\ running \subseteq Channels \X Messages
  BY DEF WorkerInv, TypeOK, Queue!TypeOK
<1>2. /\ step' \in [Channels -> [Messages -> Steps]]
      /\ \A d \in Channels, n \in Messages :
            step'[d][n] = IF <<d, n>> \in running' THEN step[d][n] ELSE "start"
  BY <1>1 DEF Unclaim, Steps
<1>3. StepsOfRunning' /\ ClaimsShrink
  BY <1>2 DEF StepsOfRunning, ClaimsShrink, HoldsClaim
<1>4. orphaned' \subseteq Jobs /\ orphaned \subseteq orphaned'
  BY <1>1 DEF Unclaim, ClaimsOn
<1>5. ASSUME NEW d \in Channels, NEW n \in Messages, HoldsClaim(d, n)
      PROVE  \/ HoldsClaim(d, n)'
             \/ JobOf[n] \in orphaned'
             \/ <<d, n>> \notin running' /\ d \in live /\ d \in live'
  <2>1. <<d, n>> \in running
    BY <1>5 DEF HoldsClaim
  <2>2. CASE <<d, n>> \in running'
    BY <1>2, <1>5, <2>2 DEF HoldsClaim
  <2>3. CASE <<d, n>> \notin running' /\ d \in live /\ d \notin live'
    <3>1. JobOf[n] \in ClaimsOn(live \ live')
      <4>1. <<d, n>> \in {g \in running : g[1] \in live \ live' /\ HoldsClaim(g[1], g[2])}
        BY <1>5, <2>1, <2>3
      <4> QED
        BY <4>1 DEF ClaimsOn
    <3> QED
      BY <3>1 DEF Unclaim
  <2>4. CASE <<d, n>> \notin running' /\ d \notin live
    <3>1. <<d, n>> \in {g \in running \ running' : g[1] \notin live /\ HoldsClaim(g[1], g[2])}
      BY <1>5, <2>1, <2>4
    <3> QED
      BY <3>1 DEF Unclaim
  <2> QED
    BY <2>2, <2>3, <2>4
<1> QED
  BY <1>2, <1>3, <1>4, <1>5

\* A handler that is over without its channel being lost is the one that settles.
LEMMA EndedHandlers ==
    ASSUME WorkerInv
    PROVE  /\ Interrupt => /\ running' \subseteq running
                           /\ \A h \in running \ running' : h[1] \notin live'
           /\ \A c \in Channels, m \in Messages :
                 Queue!SettleTooLate(c, m) =>
                     /\ running' \subseteq running /\ c \notin live
                     /\ \A h \in running \ running' : h[1] \notin live'
           /\ \A c \in Channels, m \in Messages :
                 Queue!Ack(c, m) \/ Queue!Nack(c, m) \/ Queue!DeadLetter(c, m)
                 \/ Queue!DeadLetterCut(c, m) => running' = running \ {<<c, m>>}
           /\ \A c \in Channels, m \in Messages :
                 Queue!DeadLetter(c, m) \/ Queue!DeadLetterCut(c, m) => ~HoldsClaim(c, m)
<1>1. running \subseteq Channels \X Messages
  BY DEF WorkerInv, TypeOK, Queue!TypeOK
<1>2. ASSUME NEW p \in Processes, Queue!Die(p)
      PROVE  running' \subseteq running /\ \A h \in running \ running' : h[1] \notin live'
  BY <1>1, <1>2 DEF Queue!Die, Queue!Drop, Queue!ChannelsOf
<1>3. Interrupt => /\ running' \subseteq running
                   /\ \A h \in running \ running' : h[1] \notin live'
  BY <1>2 DEF Interrupt, Queue!LoseChannel, Queue!Crash
<1>4. ASSUME NEW c \in Channels, NEW m \in Messages, Queue!SettleTooLate(c, m)
      PROVE  /\ running' \subseteq running /\ c \notin live
             /\ \A h \in running \ running' : h[1] \notin live'
  BY <1>2, <1>4 DEF Queue!SettleTooLate
<1>5. ASSUME NEW c \in Channels, NEW m \in Messages,
             Queue!DeadLetter(c, m) \/ Queue!DeadLetterCut(c, m)
      PROVE  ~HoldsClaim(c, m)
  BY <1>5 DEF Queue!DeadLetter, Queue!DeadLetterCut, Queue!Settle, WorkerInv, ClaimsSettle
<1> QED
  BY <1>3, <1>4, <1>5 DEF Queue!Ack, Queue!Nack, Queue!DeadLetter, Queue!DeadLetterCut,
     Queue!Settle

\* A step that loses no claim without orphaning it, and lets go of no job without
\* a cause, keeps the invariant.
LEMMA LossInv ==
    ASSUME WorkerInv, [Next]_vars, Unclaim, running' \subseteq running,
           UNCHANGED <<key, verdicts, dropped, reopened, bounds>>,
           \A d \in Channels, n \in Messages :
               HoldsClaim(d, n) /\ <<d, n>> \notin running' => d \notin live \/ d \notin live',
           \A w \in Messages : place'[w] = "gone" =>
               \/ Excused(JobOf[w])
               \/ dlq'[w] > 0
               \/ place[w] = "gone" /\ dlq'[w] = dlq[w]
    PROVE  WorkerInv'
<1>1. QueueInv'
  BY QueueKept
<1>2. /\ step' \in [Channels -> [Messages -> Steps]] /\ StepsOfRunning' /\ ClaimsShrink
      /\ orphaned' \subseteq Jobs /\ orphaned \subseteq orphaned'
      /\ \A d \in Channels, n \in Messages :
            HoldsClaim(d, n) => HoldsClaim(d, n)' \/ JobOf[n] \in orphaned'
  BY UnclaimShrinks
<1>3. TypeOK'
  BY <1>1, <1>2 DEF QueueInv, WorkerInv, TypeOK, bounds
<1>4. ClaimsSettle' /\ Verdicts'
  BY <1>2, SettleKept, VerdictsKept DEF ClaimsShrink
<1>5. \A j \in Jobs : Excused(j) => Excused(j)'
  BY <1>2 DEF Excused, Claimed, Answered
<1>6. KeyHasCause'
  BY <1>5 DEF WorkerInv, KeyHasCause, Excused
<1>7. GoneHasCause'
  BY <1>5, GoneKept
<1> QED
  BY <1>1, <1>2, <1>3, <1>4, <1>6, <1>7 DEF WorkerInv, Verdicts

\* Lost channels and crashed processes keep the invariant.
LEMMA InterruptInv == ASSUME WorkerInv, Next, Interrupt PROVE WorkerInv'
<1>1. Keeps
  BY LossesTyped DEF Interrupt, WorkerInv, QueueInv
<1>2. /\ Unclaim /\ running' \subseteq running
      /\ \A h \in running \ running' : h[1] \notin live'
      /\ UNCHANGED <<key, verdicts, dropped, reopened, bounds>>
  BY EndedHandlers DEF Interrupt
<1>3. \A d \in Channels, n \in Messages :
         HoldsClaim(d, n) /\ <<d, n>> \notin running' => d \notin live \/ d \notin live'
  BY <1>2 DEF HoldsClaim
<1> QED
  BY <1>1, <1>2, <1>3, LossInv DEF Keeps

\* Dead-lettering keeps the invariant: its handler holds no claim.
LEMMA DeadLetterInv ==
    ASSUME WorkerInv, Next, NEW c \in Channels, NEW m \in Messages, DeadLetter(c, m)
    PROVE  WorkerInv'
<1>1. \A w \in Messages : place'[w] = "gone" =>
         dlq'[w] > 0 \/ (place[w] = "gone" /\ dlq'[w] = dlq[w])
  BY DlqTyped DEF DeadLetter, WorkerInv, QueueInv
<1>2. /\ Unclaim /\ running' = running \ {<<c, m>>} /\ ~HoldsClaim(c, m)
      /\ UNCHANGED <<key, verdicts, dropped, reopened, bounds>>
  BY EndedHandlers DEF DeadLetter
<1>3. \A d \in Channels, n \in Messages :
         HoldsClaim(d, n) /\ <<d, n>> \notin running' => d \notin live \/ d \notin live'
  BY <1>2 DEF HoldsClaim
<1> QED
  BY <1>1, <1>2, <1>3, LossInv

\* A handler that ends before it has claimed keeps the invariant: a duplicate
\* is acked only while its job is excused.
LEMMA UnclaimedInv ==
    ASSUME WorkerInv, Next, NEW c \in Channels, NEW m \in Messages,
           RejectBeforeClaim(c, m) \/ SkipDuplicate(c, m)
    PROVE  WorkerInv'
<1>1. /\ Unclaim /\ ~HoldsClaim(c, m)
      /\ UNCHANGED <<key, verdicts, dropped, reopened, bounds>>
  BY DEF RejectBeforeClaim, SkipDuplicate, Resolve, Reject, Starts, At, HoldsClaim
<1>2. CASE Queue!SettleTooLate(c, m)
  <2>1. Keeps
    BY <1>2, LossesTyped DEF WorkerInv, QueueInv
  <2>2. running' \subseteq running /\ \A h \in running \ running' : h[1] \notin live'
    BY <1>2, EndedHandlers
  <2>3. \A d \in Channels, n \in Messages :
           HoldsClaim(d, n) /\ <<d, n>> \notin running' => d \notin live \/ d \notin live'
    BY <2>2 DEF HoldsClaim
  <2> QED
    BY <1>1, <2>1, <2>2, <2>3, LossInv DEF Keeps
<1>3. CASE Queue!Ack(c, m) /\ SkipDuplicate(c, m)
  <2>1. running' = running \ {<<c, m>>}
    BY <1>3, EndedHandlers
  <2>2. Excused(JobOf[m])
    BY <1>3 DEF SkipDuplicate, WorkerInv, KeyHasCause, Excused
  <2>3. Accounts(m)
    BY <1>3, SettledTyped DEF WorkerInv, QueueInv
  <2>4. \A d \in Channels, n \in Messages :
           HoldsClaim(d, n) /\ <<d, n>> \notin running' => d \notin live \/ d \notin live'
    BY <1>1, <2>1 DEF HoldsClaim
  <2> QED
    BY <1>1, <2>1, <2>2, <2>3, <2>4, LossInv DEF Accounts
<1>4. CASE Queue!Nack(c, m)
  <2>1. running' = running \ {<<c, m>>}
    BY <1>4, EndedHandlers
  <2>2. Keeps
    BY <1>4, RejectedTyped DEF WorkerInv, QueueInv
  <2>3. \A d \in Channels, n \in Messages :
           HoldsClaim(d, n) /\ <<d, n>> \notin running' => d \notin live \/ d \notin live'
    BY <1>1, <2>1 DEF HoldsClaim
  <2> QED
    BY <1>1, <2>1, <2>2, <2>3, LossInv DEF Keeps
<1> QED
  BY <1>2, <1>3, <1>4 DEF RejectBeforeClaim, SkipDuplicate, Resolve, Reject

-----------------------------------------------------------------------------
(* Steps that write keys or verdicts.                                      *)

\* A handler that writes its key as it ends, done behind its publish or free in
\* the catch block, keeps what is said of claims and verdicts.
LEMMA KeyWritten ==
    ASSUME WorkerInv, NEW c \in Channels, NEW m \in Messages, NEW k \in {"done", "free"},
           key' = [key EXCEPT ![JobOf[m]] = k], ClaimsShrink, <<c, m>> \notin running',
           k = "done" => At(c, m, "sent"), k = "free" => At(c, m, "failing"),
           UNCHANGED <<verdicts, dropped, reopened>>
    PROVE  Verdicts'
<1>1. JobOf[m] \in Jobs /\ key \in [Jobs -> {"free", "processing", "done"}]
  BY DEF WorkerInv, TypeOK
<1>2. HoldsClaim(c, m) /\ ~HoldsClaim(c, m)'
  BY DEF At, HoldsClaim
<1>3. JobOf[m] \notin reopened =>
         \A d \in Channels, n \in Messages : HoldsClaim(d, n)' => JobOf[n] # JobOf[m]
  <2> SUFFICES ASSUME JobOf[m] \notin reopened, NEW d \in Channels, NEW n \in Messages,
                      HoldsClaim(d, n)', JobOf[n] = JobOf[m]
               PROVE  FALSE
    OBVIOUS
  <2>1. <<d, n>> # <<c, m>> /\ HoldsClaim(d, n)
    BY <1>2 DEF ClaimsShrink
  <2> QED
    BY <1>2, <2>1 DEF WorkerInv, ClaimIsExclusive
<1>4. \A d \in Channels, n \in Messages : At(d, n, "sent")' => At(d, n, "sent")
  BY DEF At, HoldsClaim, ClaimsShrink
<1>5. \A d \in Channels, n \in Messages :
         HoldsClaim(d, n)' /\ At(d, n, "sent") => At(d, n, "sent")'
  BY DEF At, HoldsClaim, ClaimsShrink
<1>6. ClaimHasKey' /\ ClaimIsExclusive'
  BY <1>1, <1>3 DEF WorkerInv, ClaimHasKey, ClaimIsExclusive, ClaimsShrink
<1>7. SentHasVerdict' /\ DoneMeansPublished' /\ SecondVerdictOnlyByFault'
  BY <1>1, <1>4 DEF WorkerInv, SentHasVerdict, DoneMeansPublished, SecondVerdictOnlyByFault
<1>8. VerdictIsFinal'
  <2> SUFFICES ASSUME NEW j \in Jobs, verdicts[j] > 0, j \notin reopened
               PROVE  /\ key'[j] # "free"
                      /\ \A d \in Channels, n \in Messages :
                            HoldsClaim(d, n)' /\ JobOf[n] = j => At(d, n, "sent")'
    BY DEF VerdictIsFinal
  <2>1. /\ key[j] # "free"
        /\ \A d \in Channels, n \in Messages : HoldsClaim(d, n) /\ JobOf[n] = j => At(d, n, "sent")
    BY DEF WorkerInv, VerdictIsFinal
  <2>2. k = "free" => JobOf[m] # j
    BY <1>2, <2>1 DEF At
  <2> QED
    BY <1>1, <1>5, <2>1, <2>2 DEF ClaimsShrink
<1> QED
  BY <1>6, <1>7, <1>8 DEF Verdicts

\* The ends of a handler that settles: which claims are kept, what is let go.
LEMMA SettledHandler ==
    ASSUME WorkerInv, Next, NEW c \in Channels, NEW m \in Messages, HoldsClaim(c, m),
           Resolve(c, m) \/ Reject(c, m)
    PROVE  /\ step' \in [Channels -> [Messages -> Steps]] /\ StepsOfRunning' /\ ClaimsShrink
           /\ orphaned' \subseteq Jobs /\ orphaned \subseteq orphaned' /\ <<c, m>> \notin running'
           /\ \A d \in Channels, n \in Messages : HoldsClaim(d, n) /\ <<d, n>> # <<c, m>> =>
                 HoldsClaim(d, n)' \/ JobOf[n] \in orphaned'
           /\ Resolve(c, m) => Accounts(m)
           /\ Reject(c, m) => Keeps /\ (JobOf[m] \in orphaned' \/ place'[m] = "retry")
<1>1. Unclaim /\ running \subseteq Channels \X Messages
  BY DEF Resolve, Reject, WorkerInv, TypeOK, Queue!TypeOK
<1>2. CASE Queue!SettleTooLate(c, m)
  <2>1. /\ running' \subseteq running /\ c \notin live
        /\ \A h \in running \ running' : h[1] \notin live'
    BY <1>2, EndedHandlers
  <2>2. Keeps /\ <<c, m>> \notin running'
    BY <1>2, LossesTyped DEF Queue!SettleTooLate, Queue!Die, WorkerInv, QueueInv
  <2>3. Accounts(m)
    BY <2>2 DEF Keeps, Accounts
  <2>4. \A d \in Channels, n \in Messages :
           HoldsClaim(d, n) => HoldsClaim(d, n)' \/ JobOf[n] \in orphaned'
    BY <1>1, <2>1, UnclaimShrinks DEF HoldsClaim
  <2>5. ~HoldsClaim(c, m)'
    BY <2>2 DEF HoldsClaim
  <2> QED
    BY <1>1, <2>1, <2>2, <2>3, <2>4, <2>5, UnclaimShrinks
<1>3. CASE Queue!Ack(c, m) /\ ~Queue!SettleTooLate(c, m)
  <2>1. running' = running \ {<<c, m>>} /\ Accounts(m)
    BY <1>3, EndedHandlers, SettledTyped DEF WorkerInv, QueueInv
  <2>2. \A d \in Channels, n \in Messages : HoldsClaim(d, n) /\ <<d, n>> # <<c, m>> =>
           HoldsClaim(d, n)' \/ JobOf[n] \in orphaned'
    BY <1>1, <2>1, UnclaimShrinks DEF HoldsClaim
  <2>3. ~Queue!Nack(c, m)
    BY <1>3 DEF Queue!Ack, Queue!Nack, Queue!Settle, WorkerInv, QueueInv, Queue!TypeOK
  <2> QED
    BY <1>1, <1>3, <2>1, <2>2, <2>3, UnclaimShrinks DEF Reject
<1>4. CASE Queue!Nack(c, m) /\ ~Queue!SettleTooLate(c, m)
  <2>1. running' = running \ {<<c, m>>} /\ Keeps
    BY <1>4, EndedHandlers, RejectedTyped DEF WorkerInv, QueueInv
  <2>2. \A d \in Channels, n \in Messages : HoldsClaim(d, n) /\ <<d, n>> # <<c, m>> =>
           HoldsClaim(d, n)' \/ JobOf[n] \in orphaned'
    BY <1>1, <2>1, UnclaimShrinks DEF HoldsClaim
  <2>3. place'[m] = "retry"
    BY <1>4 DEF Queue!Nack, Queue!Settle, WorkerInv, QueueInv, Queue!TypeOK
  <2>4. Accounts(m)
    BY <2>1 DEF Keeps, Accounts
  <2> QED
    BY <1>1, <2>1, <2>2, <2>3, <2>4, UnclaimShrinks
<1> QED
  BY <1>2, <1>3, <1>4 DEF Resolve, Reject

\* SET done and the ack keep the invariant: the job has a verdict.
LEMMA FinishInv ==
    ASSUME WorkerInv, Next, NEW c \in Channels, NEW m \in Messages, Finish(c, m)
    PROVE  WorkerInv'
<1>1. /\ At(c, m, "sent") /\ HoldsClaim(c, m) /\ Resolve(c, m)
      /\ key' = [key EXCEPT ![JobOf[m]] = "done"]
      /\ UNCHANGED <<verdicts, dropped, reopened, bounds>>
  BY DEF Finish, At, HoldsClaim
<1>2. QueueInv'
  BY QueueKept
<1>3. TypeOK'
  BY <1>1, <1>2, SettledHandler DEF QueueInv, WorkerInv, TypeOK, bounds
<1>4. ClaimsSettle' /\ Verdicts'
  BY <1>1, SettledHandler, SettleKept, KeyWritten DEF ClaimsShrink
<1>5. Answered(JobOf[m])'
  BY <1>1 DEF WorkerInv, SentHasVerdict, Answered
<1>6. \A j \in Jobs : Excused(j) => Excused(j)'
  <2>1. \A d \in Channels, n \in Messages : HoldsClaim(d, n) /\ JobOf[n] # JobOf[m] =>
           HoldsClaim(d, n)' \/ JobOf[n] \in orphaned'
    BY <1>1, SettledHandler
  <2>2. orphaned \subseteq orphaned'
    BY <1>1, SettledHandler
  <2> QED
    BY <1>1, <1>5, <2>1, <2>2 DEF Excused, Claimed, Answered
<1>7. KeyHasCause'
  BY <1>1, <1>5, <1>6 DEF WorkerInv, KeyHasCause, Excused, TypeOK
<1>8. GoneHasCause'
  BY <1>1, <1>5, <1>6, SettledHandler, GoneKept DEF Accounts, Excused
<1> QED
  BY <1>1, <1>2, <1>3, <1>4, <1>7, <1>8, SettledHandler DEF WorkerInv, Verdicts

\* The DEL and the nack keep the invariant: the message is under way again, or
\* its process died holding the claim.
LEMMA ReleaseInv ==
    ASSUME WorkerInv, Next, NEW c \in Channels, NEW m \in Messages, Release(c, m)
    PROVE  WorkerInv'
<1>1. /\ At(c, m, "failing") /\ HoldsClaim(c, m) /\ Reject(c, m)
      /\ key' = [key EXCEPT ![JobOf[m]] = "free"]
      /\ UNCHANGED <<verdicts, dropped, reopened, bounds>>
  BY DEF Release, At, HoldsClaim
<1>2. QueueInv'
  BY QueueKept
<1>3. TypeOK'
  BY <1>1, <1>2, SettledHandler DEF QueueInv, WorkerInv, TypeOK, bounds
<1>4. ClaimsSettle' /\ Verdicts'
  BY <1>1, SettledHandler, SettleKept, KeyWritten DEF ClaimsShrink
<1>5. \A j \in Jobs \ {JobOf[m]} : Excused(j) => Excused(j)'
  <2>1. \A d \in Channels, n \in Messages : HoldsClaim(d, n) /\ JobOf[n] # JobOf[m] =>
           HoldsClaim(d, n)' \/ JobOf[n] \in orphaned'
    BY <1>1, SettledHandler
  <2>2. orphaned \subseteq orphaned'
    BY <1>1, SettledHandler
  <2> QED
    BY <1>1, <2>1, <2>2 DEF Excused, Claimed, Answered
<1>6. Excused(JobOf[m])' \/ place'[m] # "gone"
  BY <1>1, SettledHandler DEF Excused, Answered
<1>7. KeyHasCause'
  BY <1>1, <1>5 DEF WorkerInv, KeyHasCause, Excused, TypeOK
<1>8. GoneHasCause'
  <2>1. Keeps
    BY <1>1, SettledHandler
  <2>2. \A j \in Jobs : Excused(j) =>
           Excused(j)' \/ \E w \in Messages : JobOf[w] = j /\ place'[w] # "gone"
    BY <1>5, <1>6
  <2> QED
    BY <2>1, <2>2, GoneKept DEF Keeps
<1> QED
  BY <1>1, <1>2, <1>3, <1>4, <1>7, <1>8, SettledHandler DEF WorkerInv, Verdicts

\* A failed SET that Redis has executed, and a failed DEL, orphan the job.
LEMMA OrphanInv ==
    ASSUME WorkerInv, Next, NEW c \in Channels, NEW m \in Messages,
           ClaimReplyLost(c, m) \/ ReleaseFails(c, m)
    PROVE  WorkerInv'
<1> DEFINE j == JobOf[m]
<1>1. /\ step \in [Channels -> [Messages -> Steps]] /\ j \in Jobs
      /\ key \in [Jobs -> {"free", "processing", "done"}] /\ orphaned \subseteq Jobs
      /\ faults \in 0..MaxFaults
  BY DEF WorkerInv, TypeOK
<1>2. /\ orphaned' = orphaned \cup {j} /\ UNCHANGED <<verdicts, dropped, reopened, expiries>>
      /\ Queue!Nack(c, m) /\ faults' \in 0..MaxFaults
      /\ key' = key \/ (key[j] = "free" /\ key' = [key EXCEPT ![j] = "processing"])
      /\ step' = [step EXCEPT ![c][m] = "start"]
  BY <1>1 DEF ClaimReplyLost, ReleaseFails, Fault, GoTo, Starts, At
<1>3. running' = running \ {<<c, m>>} /\ Keeps /\ QueueInv'
  BY <1>2, EndedHandlers, RejectedTyped, QueueKept DEF WorkerInv, QueueInv
<1>4. TypeOK'
  BY <1>1, <1>2, <1>3 DEF QueueInv, WorkerInv, TypeOK, Steps
<1>5. StepsOfRunning' /\ ClaimsShrink
  BY <1>1, <1>2, <1>3 DEF WorkerInv, StepsOfRunning, ClaimsShrink, HoldsClaim
<1>6. ClaimsSettle'
  BY <1>5, SettleKept DEF ClaimsShrink
<1>7. Verdicts'
  <2>1. CASE key' = key
    BY <1>2, <1>5, <2>1, VerdictsKept
  <2>2. CASE key[j] = "free" /\ key' = [key EXCEPT ![j] = "processing"]
    <3>1. \A d \in Channels, n \in Messages :
             /\ At(d, n, "sent")' => At(d, n, "sent")
             /\ HoldsClaim(d, n)' /\ At(d, n, "sent") => At(d, n, "sent")'
      BY <1>5 DEF At, HoldsClaim, ClaimsShrink
    <3>2. ClaimHasKey' /\ ClaimIsExclusive'
      BY <1>1, <1>2, <1>5, <2>2 DEF WorkerInv, ClaimHasKey, ClaimIsExclusive, ClaimsShrink
    <3>3. SentHasVerdict' /\ DoneMeansPublished' /\ SecondVerdictOnlyByFault'
      BY <1>1, <1>2, <2>2, <3>1
         DEF WorkerInv, SentHasVerdict, DoneMeansPublished, SecondVerdictOnlyByFault
    <3>4. VerdictIsFinal'
      BY <1>1, <1>2, <1>5, <2>2, <3>1 DEF WorkerInv, VerdictIsFinal, ClaimsShrink
    <3> QED
      BY <3>2, <3>3, <3>4 DEF Verdicts
  <2> QED
    BY <1>2, <2>1, <2>2
<1>8. Answered(j)'
  BY <1>2 DEF Answered
<1>9. \A i \in Jobs : Excused(i) => Excused(i)'
  <2> SUFFICES ASSUME NEW i \in Jobs, Excused(i), i # j PROVE Excused(i)'
    BY <1>8 DEF Excused
  <2>1. Claimed(i) => Claimed(i)'
    BY <1>1, <1>2, <1>3 DEF Claimed, HoldsClaim
  <2> QED
    BY <1>2, <2>1 DEF Excused, Answered
<1>10. KeyHasCause'
  BY <1>1, <1>2, <1>8, <1>9 DEF WorkerInv, KeyHasCause, Excused
<1>11. GoneHasCause'
  BY <1>3, <1>9, GoneKept DEF Keeps
<1> QED
  BY <1>3, <1>4, <1>5, <1>6, <1>7, <1>10, <1>11 DEF WorkerInv, Verdicts

-----------------------------------------------------------------------------
(* Steps that end no handler.                                              *)

\* A handler that goes from one await to the next, with the key, the verdicts and
\* the faults it writes: the claims of the others stay.
LEMMA GoToShape ==
    ASSUME WorkerInv, NEW c \in Channels, NEW m \in Messages, NEW s \in Steps,
           <<c, m>> \in running, GoTo(c, m, s), UNCHANGED queueVars
    PROVE  /\ step' \in [Channels -> [Messages -> Steps]] /\ StepsOfRunning'
           /\ \A d \in Channels, n \in Messages :
                 step'[d][n] = IF d = c /\ n = m THEN s ELSE step[d][n]
           /\ UNCHANGED <<place, dlq, running, live, deaths>>
<1>1. step \in [Channels -> [Messages -> Steps]]
  BY DEF WorkerInv, TypeOK
<1>2. step' = [step EXCEPT ![c] = [step[c] EXCEPT ![m] = s]]
  BY DEF GoTo
<1>3. step' \in [Channels -> [Messages -> Steps]]
  BY <1>1, <1>2
<1>4. \A d \in Channels, n \in Messages :
         step'[d][n] = IF d = c /\ n = m THEN s ELSE step[d][n]
  BY <1>1, <1>2
<1>5. UNCHANGED <<place, dlq, running, live, deaths>>
  BY DEF queueVars
<1>6. StepsOfRunning'
  BY <1>4, <1>5 DEF WorkerInv, StepsOfRunning
<1> QED
  BY <1>3, <1>4, <1>5, <1>6

\* SET NX keeps the invariant: the key was free, so nobody else holds the claim
\* unless it was freed under him, and the job has no verdict.
LEMMA ClaimInv ==
    ASSUME WorkerInv, Next, NEW c \in Channels, NEW m \in Messages, Claim(c, m)
    PROVE  WorkerInv'
<1> DEFINE j == JobOf[m]
<1>1. /\ At(c, m, "start") /\ ~Queue!Exhausted(m) /\ key[j] = "free" /\ j \in Jobs
      /\ key' = [key EXCEPT ![j] = "processing"] /\ GoTo(c, m, "claimed")
      /\ UNCHANGED <<queueVars, verdicts, dropped, orphaned, reopened, bounds>>
  BY DEF Claim, Starts, history, WorkerInv, TypeOK
<1>2. /\ step' \in [Channels -> [Messages -> Steps]] /\ StepsOfRunning'
      /\ \A d \in Channels, n \in Messages :
            step'[d][n] = IF d = c /\ n = m THEN "claimed" ELSE step[d][n]
      /\ UNCHANGED <<place, dlq, running, live, deaths>>
  BY <1>1, GoToShape DEF At, Steps
<1>3. QueueInv' /\ key \in [Jobs -> {"free", "processing", "done"}]
  BY QueueKept DEF WorkerInv, TypeOK
<1>4. TypeOK'
  BY <1>1, <1>2, <1>3 DEF QueueInv, WorkerInv, TypeOK, bounds
<1>5. \A d \in Channels, n \in Messages :
         /\ HoldsClaim(d, n)' <=> HoldsClaim(d, n) \/ (d = c /\ n = m)
         /\ At(d, n, "sent")' <=> At(d, n, "sent")
  BY <1>1, <1>2 DEF HoldsClaim, At
<1>6. ClaimsSettle'
  BY <1>1, <1>2, <1>5, <1>3 DEF WorkerInv, ClaimsSettle, Queue!Exhausted, QueueInv, Queue!TypeOK
<1>7. ClaimHasKey' /\ ClaimIsExclusive'
  BY <1>1, <1>3, <1>5 DEF WorkerInv, ClaimHasKey, ClaimIsExclusive
<1>8. SentHasVerdict' /\ DoneMeansPublished' /\ SecondVerdictOnlyByFault'
  BY <1>1, <1>3, <1>5 DEF WorkerInv, SentHasVerdict, DoneMeansPublished, SecondVerdictOnlyByFault
<1>9. VerdictIsFinal'
  BY <1>1, <1>3, <1>5 DEF WorkerInv, VerdictIsFinal
<1>10. Claimed(j)' /\ \A i \in Jobs : Excused(i) => Excused(i)'
  BY <1>1, <1>5 DEF Claimed, Excused, Answered
<1>11. KeyHasCause'
  BY <1>1, <1>3, <1>10 DEF WorkerInv, KeyHasCause, Excused
<1>12. GoneHasCause'
  BY <1>2, <1>10, GoneKept
<1> QED
  BY <1>2, <1>3, <1>4, <1>6, <1>7, <1>8, <1>9, <1>11, <1>12 DEF WorkerInv

\* The steps between the claim and the settlement keep the invariant: only the
\* holder of the claim publishes, and once.
LEMMA ClaimedInv ==
    ASSUME WorkerInv, Next, NEW c \in Channels, NEW m \in Messages,
           \/ ProcessingFails(c, m) \/ PublishVerdict(c, m)
           \/ PublishUnflushed(c, m) \/ MarkDoneFails(c, m)
    PROVE  WorkerInv'
<1> DEFINE j == JobOf[m]
<1>1. /\ j \in Jobs /\ verdicts \in [Jobs -> 0..2] /\ {dropped, orphaned, reopened} \subseteq SUBSET Jobs
      /\ faults \in 0..MaxFaults
  BY DEF WorkerInv, TypeOK
<1>2. PICK s \in {"sent", "failing"} : GoTo(c, m, s)
  BY DEF ProcessingFails, PublishVerdict, PublishUnflushed, MarkDoneFails
<1>3. /\ HoldsClaim(c, m) /\ <<c, m>> \in running
      /\ UNCHANGED <<queueVars, key, orphaned, expiries>> /\ faults' \in 0..MaxFaults
  BY <1>1 DEF ProcessingFails, PublishVerdict, PublishUnflushed, MarkDoneFails, At, HoldsClaim,
     history, bounds, Fault
<1>4. /\ step' \in [Channels -> [Messages -> Steps]] /\ StepsOfRunning'
      /\ \A d \in Channels, n \in Messages :
            step'[d][n] = IF d = c /\ n = m THEN s ELSE step[d][n]
      /\ UNCHANGED <<place, dlq, running, live, deaths>>
  BY <1>2, <1>3, GoToShape DEF Steps
<1>5. \A d \in Channels, n \in Messages :
         /\ HoldsClaim(d, n)' <=> HoldsClaim(d, n)
         /\ At(d, n, "sent")' <=> IF d = c /\ n = m THEN s = "sent" ELSE At(d, n, "sent")
  BY <1>3, <1>4, ZenonT(40) DEF HoldsClaim, At
<1>6. step'[c][m] = s /\ step[c][m] \in {"claimed", "sent"}
  BY <1>4 DEF ProcessingFails, PublishVerdict, PublishUnflushed, MarkDoneFails, At
<1>7. \/ /\ UNCHANGED <<verdicts, dropped, reopened>> /\ At(c, m, "claimed") /\ s = "failing"
      \/ /\ verdicts' = [verdicts EXCEPT ![j] = IF @ = 0 THEN 1 ELSE 2]
         /\ UNCHANGED <<dropped, reopened>> /\ At(c, m, "claimed") /\ s = "sent"
      \/ /\ dropped' = dropped \cup {j} /\ UNCHANGED <<verdicts, reopened>> /\ s = "sent"
      \/ /\ reopened' = reopened \cup {j} /\ UNCHANGED <<verdicts, dropped>> /\ s = "failing"
  <2>1. ASSUME NEW t \in {"sent", "failing"}, GoTo(c, m, t) PROVE t = s
    BY <2>1, <1>6 DEF GoTo, WorkerInv, TypeOK
  <2> QED
    BY <2>1 DEF ProcessingFails, PublishVerdict, PublishUnflushed, MarkDoneFails, history
<1>8. QueueInv'
  BY QueueKept
<1>9. TypeOK'
  <2>1. verdicts' \in [Jobs -> 0..2] /\ dropped' \subseteq Jobs /\ reopened' \subseteq Jobs
    BY <1>1, <1>7
  <2> QED
    BY <1>1, <1>3, <1>4, <1>8, <2>1 DEF QueueInv, WorkerInv, TypeOK
<1>10. ClaimsSettle'
  BY <1>5, SettleKept
<1>11. reopened \subseteq reopened'
  BY <1>7
<1>12. ClaimHasKey' /\ ClaimIsExclusive'
  BY <1>3, <1>5, <1>11 DEF WorkerInv, ClaimHasKey, ClaimIsExclusive
<1>13. j \notin reopened => \A d \in Channels, n \in Messages :
          HoldsClaim(d, n) /\ JobOf[n] = j => d = c /\ n = m
  BY <1>3 DEF WorkerInv, ClaimIsExclusive
<1>14. SentHasVerdict'
  BY <1>1, <1>5, <1>7 DEF WorkerInv, SentHasVerdict
<1>15. DoneMeansPublished'
  BY <1>1, <1>3, <1>7 DEF WorkerInv, DoneMeansPublished
<1>16. j \notin reopened /\ At(c, m, "claimed") => verdicts[j] = 0
  BY <1>1, <1>3 DEF WorkerInv, VerdictIsFinal, At
<1>17. SecondVerdictOnlyByFault'
  BY <1>1, <1>7, <1>16 DEF WorkerInv, SecondVerdictOnlyByFault
<1>18. VerdictIsFinal'
  <2> SUFFICES ASSUME NEW i \in Jobs, verdicts'[i] > 0, i \notin reopened'
               PROVE  /\ key'[i] # "free"
                      /\ \A d \in Channels, n \in Messages :
                            HoldsClaim(d, n)' /\ JobOf[n] = i => At(d, n, "sent")'
    BY DEF VerdictIsFinal
  <2>1. CASE i # j
    <3>1. verdicts[i] > 0 /\ i \notin reopened
      BY <1>1, <1>7, <2>1
    <3> QED
      BY <1>3, <1>5, <2>1, <3>1 DEF WorkerInv, VerdictIsFinal
  <2>2. CASE i = j
    <3>1. j \notin reopened /\ key[j] = "processing"
      BY <1>3, <1>11, <2>2 DEF WorkerInv, ClaimHasKey
    <3>2. s = "sent"
      BY <1>7, <1>16, <2>2, <3>1
    <3> QED
      BY <1>3, <1>5, <1>13, <2>2, <3>1, <3>2
  <2> QED
    BY <2>1, <2>2
<1>19. \A i \in Jobs : Excused(i) => Excused(i)'
  <2>1. \A i \in Jobs : Answered(i) => Answered(i)'
    BY <1>1, <1>3, <1>7 DEF Answered
  <2> QED
    BY <1>5, <2>1 DEF Excused, Claimed
<1>20. KeyHasCause'
  BY <1>3, <1>19 DEF WorkerInv, KeyHasCause, Excused
<1>21. GoneHasCause'
  BY <1>4, <1>19, GoneKept
<1> QED
  BY <1>4, <1>8, <1>9, <1>10, <1>12, <1>14, <1>15, <1>17, <1>18, <1>20, <1>21 DEF WorkerInv

\* A key at its TTL keeps the invariant: its job is reopened.
LEMMA ExpireInv ==
    ASSUME WorkerInv, Next, NEW j \in Jobs, ExpireKey(j)
    PROVE  WorkerInv'
<1>1. /\ key' = [key EXCEPT ![j] = "free"] /\ reopened' = reopened \cup {j}
      /\ expiries' = expiries + 1 /\ expiries < MaxExpiries
      /\ UNCHANGED <<place, dlq, running, live, deaths, step, verdicts, dropped, orphaned, faults>>
  BY DEF ExpireKey, queueVars
<1>2. QueueInv'
  BY QueueKept
<1>3. TypeOK'
  BY <1>1, <1>2 DEF QueueInv, WorkerInv, TypeOK
<1>4. StepsOfRunning' /\ ClaimsSettle'
  BY <1>1 DEF WorkerInv, StepsOfRunning, ClaimsSettle, HoldsClaim, Queue!Exhausted
<1>5. ClaimHasKey' /\ ClaimIsExclusive'
  BY <1>1 DEF WorkerInv, TypeOK, ClaimHasKey, ClaimIsExclusive, HoldsClaim
<1>6. SentHasVerdict' /\ DoneMeansPublished' /\ SecondVerdictOnlyByFault'
  BY <1>1 DEF WorkerInv, TypeOK, SentHasVerdict, DoneMeansPublished, SecondVerdictOnlyByFault, At
<1>7. VerdictIsFinal'
  BY <1>1 DEF WorkerInv, TypeOK, VerdictIsFinal, HoldsClaim, At
<1>8. \A i \in Jobs : Excused(i) => Excused(i)'
  BY <1>1 DEF Excused, Claimed, Answered, HoldsClaim
<1>9. KeyHasCause'
  BY <1>1, <1>8 DEF WorkerInv, TypeOK, KeyHasCause, Excused
<1>10. GoneHasCause'
  BY <1>1, <1>8, GoneKept
<1> QED
  BY <1>2, <1>3, <1>4, <1>5, <1>6, <1>7, <1>9, <1>10 DEF WorkerInv

\* Steps of the queue before a handler starts keep the invariant, and so does a
\* stuttering step: the new handler of a delivery holds no claim.
LEMMA QuietInv ==
    ASSUME WorkerInv, [Next]_vars, UNCHANGED workerVars,
           \A d \in Channels, n \in Messages : <<d, n>> \in running => <<d, n>> \in running',
           \A w \in Messages : place'[w] = "gone" =>
               dlq'[w] > 0 \/ (place[w] = "gone" /\ dlq'[w] = dlq[w])
    PROVE  WorkerInv'
<1>1. UNCHANGED <<step, key, verdicts, dropped, orphaned, reopened, faults, expiries>>
  BY DEF workerVars, history, bounds
<1>2. QueueInv'
  BY QueueKept
<1>3. TypeOK'
  BY <1>1, <1>2 DEF QueueInv, WorkerInv, TypeOK
<1>4. \A d \in Channels, n \in Messages :
         step[d][n] # "start" => (<<d, n>> \in running <=> <<d, n>> \in running')
  BY DEF WorkerInv, StepsOfRunning
<1>5. \A d \in Channels, n \in Messages : HoldsClaim(d, n)' <=> HoldsClaim(d, n)
  BY <1>1, <1>4 DEF HoldsClaim
<1>6. StepsOfRunning'
  BY <1>1 DEF WorkerInv, StepsOfRunning
<1>7. ClaimsSettle' /\ Verdicts'
  BY <1>1, <1>5, SettleKept, VerdictsKept DEF ClaimsShrink
<1>8. \A j \in Jobs : Excused(j)' <=> Excused(j)
  BY <1>1, <1>5 DEF Excused, Claimed, Answered
<1>9. KeyHasCause'
  BY <1>1, <1>8 DEF WorkerInv, KeyHasCause, Excused
<1>10. GoneHasCause'
  BY <1>8, GoneKept
<1> QED
  BY <1>2, <1>3, <1>6, <1>7, <1>9, <1>10 DEF WorkerInv, Verdicts

\* Publishing, replay, redelivery and delivery keep the invariant.
LEMMA InputsInv ==
    ASSUME WorkerInv, Next, NEW m \in Messages,
           Enqueue(m) \/ ExpireRetry(m) \/ \E c \in Channels : Deliver(c, m)
    PROVE  WorkerInv'
<1>1. UNCHANGED workerVars
  BY DEF Enqueue, ExpireRetry, Deliver
<1>2. running \subseteq running'
  BY DEF Enqueue, ExpireRetry, Deliver, Queue!Publish, Queue!ReplayDeadLetter,
     Queue!ExpireRetry, Queue!Deliver
<1>3. \A w \in Messages : place'[w] = "gone" =>
         dlq'[w] > 0 \/ (place[w] = "gone" /\ dlq'[w] = dlq[w])
  BY InputsTyped, DlqTyped DEF Enqueue, ExpireRetry, Deliver, WorkerInv, QueueInv, Keeps
<1> QED
  BY <1>1, <1>2, <1>3, QuietInv

\* A new channel, and a step that changes nothing, keep the invariant.
LEMMA OpenInv ==
    ASSUME WorkerInv, [Next]_vars, OpenChannel \/ UNCHANGED vars
    PROVE  WorkerInv'
<1>1. UNCHANGED <<workerVars, running, place, dlq>>
  BY DEF OpenChannel, Queue!OpenChannel, Queue!boundVars, vars, queueVars
<1> QED
  BY <1>1, QuietInv

-----------------------------------------------------------------------------
\* Every step keeps the invariant.
LEMMA NextInv == WorkerInv /\ [Next]_vars => WorkerInv'
<1>1. ASSUME WorkerInv, Next, NEW c \in Channels, NEW m \in Messages,
             HandlerStep(c, m) \/ HandlerFault(c, m)
      PROVE  WorkerInv'
  BY <1>1, UnclaimedInv, ClaimInv, ClaimedInv, FinishInv, ReleaseInv, DeadLetterInv, OrphanInv
     DEF HandlerStep, HandlerFault
<1> QED
  BY <1>1, OpenInv, InterruptInv, ExpireInv, InputsInv DEF Next

\* Claims, keys, verdicts and the queue stay in step in every reachable state.
THEOREM InvCorrect == Spec => []WorkerInv
<1> QED
  BY InitInv, NextInv, PTL DEF Spec

\* The worker, its Redis keys and its queue are always well typed.
THEOREM TypeCorrect == Spec => []TypeOK
<1>1. WorkerInv => TypeOK
  BY DEF WorkerInv
<1> QED
  BY <1>1, InvCorrect, PTL

\* Two handlers hold the claim on a job only if its key was freed under one.
THEOREM ExclusiveCorrect == Spec => []ClaimIsExclusive
<1>1. WorkerInv => ClaimIsExclusive
  BY DEF WorkerInv
<1> QED
  BY <1>1, InvCorrect, PTL

\* The done mark is there only for a job whose verdict went to the publisher.
THEOREM DoneCorrect == Spec => []DoneMeansPublished
<1>1. WorkerInv => DoneMeansPublished
  BY DEF WorkerInv
<1> QED
  BY <1>1, InvCorrect, PTL

\* A replay out of the DLQ finds no claim that its own failed deliveries left: a
\* key without a handler has a verdict behind it, or a fault.
THEOREM KeyCorrect == Spec => []KeyHasCause
<1>1. WorkerInv => KeyHasCause
  BY DEF WorkerInv
<1> QED
  BY <1>1, InvCorrect, PTL

\* A second verdict needs a failed done mark or an expired key.
THEOREM SecondVerdictCorrect == Spec => []SecondVerdictOnlyByFault
<1>1. WorkerInv => SecondVerdictOnlyByFault
  BY DEF WorkerInv
<1> QED
  BY <1>1, InvCorrect, PTL

\* A closed job has a verdict or a copy in the DLQ, unless its verdict was never
\* flushed or its claim outlived its handler.
THEOREM LostCorrect == Spec => []LostOnlyByFault
<1>1. WorkerInv => LostOnlyByFault
  BY DEF WorkerInv, GoneHasCause, LostOnlyByFault, JobClosed, Claimed, Answered, HoldsClaim
<1> QED
  BY <1>1, InvCorrect, PTL
=============================================================================
