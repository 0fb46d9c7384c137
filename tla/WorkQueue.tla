----------------------------- MODULE WorkQueue -----------------------------
(***************************************************************************)
(* One RabbitMQ work queue with its retry queue and its dead-letter queue  *)
(* (libs/shared-messaging: queue-topology.ts), and the processes that      *)
(* consume it (rabbitmq-consumer.service.ts).                              *)
(*                                                                         *)
(* A channel is one incarnation: a reconnect opens a new one, and a        *)
(* delivery can only be settled on the channel it was made on.  A handler  *)
(* outlives its channel: it goes on, and only its final ack or nack finds  *)
(* the channel closed.  What a handler does is left open here;             *)
(* ModerationWorker and ContentModeration fill it in.                      *)
(***************************************************************************)
EXTENDS Integers, FiniteSets

CONSTANTS
    Messages,      \* copies published to the queue
    Processes,     \* processes of the consuming service
    Channels,      \* channel incarnations of all the processes
    ProcessOf,     \* ProcessOf[c]: the process that opens channel c
    Lasting,       \* bound: incarnations that are not lost and keep their consumer
    MaxDeliveries, \* MAX_DELIVERIES
    Prefetch,      \* options.prefetch ?? 10
    MaxCrashes,    \* bound: crashes of processes
    MaxCancels,    \* bound: consumers the broker cancels
    MaxReplays     \* bound: messages an operator moves out of the DLQ

Places == {"absent", "ready", "retry", "gone"}

ASSUME DeliveriesAssumption == MaxDeliveries \in Nat \ {0}
ASSUME PrefetchAssumption == Prefetch \in Nat \ {0}
ASSUME BoundsAssumption == {MaxCrashes, MaxCancels, MaxReplays} \subseteq Nat
ASSUME ChannelsAssumption ==
    Channels \cap Places = {} /\ ProcessOf \in [Channels -> Processes]

VARIABLES
    place,    \* where the queue's copy of each message is; a channel: unacked
    deaths,   \* x-death count of (queue, rejected)
    dlq,      \* copies of each message in <queue>.dlq: 0, 1 or 2 (more)
    handled,  \* messages acked because their handler resolved
    running,  \* handleMessage calls in flight: pairs of channel and message
    opened,   \* channels opened so far
    live,     \* channels that are open
    consumed, \* live channels whose consumer the broker has not cancelled
    crashes, cancels, replays

channelVars == <<opened, live, consumed>>
boundVars == <<crashes, cancels, replays>>
queueVars == <<place, deaths, dlq, handled, running, channelVars, boundVars>>

Unacked(c) == {m \in Messages : place[m] = c}

\* Faulty variant of Exhausted: one delivery too few.
ExhaustedEarly(m) == deaths[m] + 1 >= MaxDeliveries

Exhausted(m) == deaths[m] >= MaxDeliveries

ChannelsOf(p) == {c \in Channels : ProcessOf[c] = p}

Init ==
    /\ place = [m \in Messages |-> "absent"]
    /\ deaths = [m \in Messages |-> 0]
    /\ dlq = [m \in Messages |-> 0]
    /\ handled = {} /\ running = {}
    /\ opened = {} /\ live = {} /\ consumed = {}
    /\ crashes = 0 /\ cancels = 0 /\ replays = 0

Publish(m) ==
    /\ place[m] = "absent"
    /\ place' = [place EXCEPT ![m] = "ready"]
    /\ UNCHANGED <<deaths, dlq, handled, running, channelVars, boundVars>>

\* connect() has run to its end: channel open, consumer registered.
OpenChannel(c) ==
    /\ c \notin opened /\ ChannelsOf(ProcessOf[c]) \cap live = {}
    /\ opened' = opened \cup {c}
    /\ live' = live \cup {c}
    /\ consumed' = consumed \cup {c}
    /\ UNCHANGED <<place, deaths, dlq, handled, running, boundVars>>

Deliver(c, m) ==
    /\ c \in consumed /\ place[m] = "ready"
    /\ Cardinality(Unacked(c)) < Prefetch
    /\ place' = [place EXCEPT ![m] = c]
    /\ running' = running \cup {<<c, m>>}
    /\ UNCHANGED <<deaths, dlq, handled, channelVars, boundVars>>

\* Faulty variant of Drop: the messages stay with the lost channel.
DropKeepsUnacked(C) ==
    /\ live' = live \ C
    /\ consumed' = consumed \ C
    /\ UNCHANGED <<place, opened>>

\* The unacked messages of lost channels go back to the queue; their x-death
\* count does not change.
Drop(C) ==
    /\ place' = [m \in Messages |-> IF place[m] \in C THEN "ready" ELSE place[m]]
    /\ live' = live \ C
    /\ consumed' = consumed \ C
    /\ UNCHANGED opened

\* The process ends: its handlers stop where they are, its connection closes.
Die(p) ==
    /\ Drop(ChannelsOf(p))
    /\ running' = {h \in running : ProcessOf[h[1]] # p}
    /\ UNCHANGED <<deaths, dlq, handled>>

\* The handler is over but its channel is closed: ack throws, the nack in the
\* catch block throws too, and the unhandled rejection ends the process.
SettleTooLate(c, m) ==
    /\ <<c, m>> \in running /\ c \notin live
    /\ Die(ProcessOf[c])
    /\ UNCHANGED boundVars

Settle(c, m, where) ==
    /\ <<c, m>> \in running /\ c \in live
    /\ place' = [place EXCEPT ![m] = where]
    /\ running' = running \ {<<c, m>>}
    /\ UNCHANGED <<channelVars, boundVars>>

\* The handler resolved: channel.ack.
Ack(c, m) ==
    /\ ~Exhausted(m)
    /\ Settle(c, m, "gone")
    /\ handled' = handled \cup {m}
    /\ UNCHANGED <<deaths, dlq>>

\* Faulty variant of Nack: the queue has no dead-letter exchange.
NackDiscards(c, m) ==
    /\ ~Exhausted(m)
    /\ Settle(c, m, "gone")
    /\ UNCHANGED <<deaths, dlq, handled>>

\* Faulty variant of Nack: the message is requeued at once.
NackRequeues(c, m) ==
    /\ ~Exhausted(m)
    /\ Settle(c, m, "ready")
    /\ UNCHANGED <<deaths, dlq, handled>>

\* The body is malformed or the handler threw: nack without requeue, and the
\* queue's dead-letter exchange moves the message to <queue>.retry.
Nack(c, m) ==
    /\ ~Exhausted(m)
    /\ Settle(c, m, "retry")
    /\ deaths' = [deaths EXCEPT ![m] = @ + 1]
    /\ UNCHANGED <<dlq, handled>>

Copied(k) == IF k = 0 THEN 1 ELSE 2

\* An exhausted message: sendToQueue(dlq), then ack, on the same channel.
DeadLetter(c, m) ==
    /\ Exhausted(m)
    /\ Settle(c, m, "gone")
    /\ dlq' = [dlq EXCEPT ![m] = Copied(@)]
    /\ UNCHANGED <<deaths, handled>>

\* The channel dies after the copy reached the DLQ and before the ack did.
DeadLetterCut(c, m) ==
    /\ Exhausted(m)
    /\ <<c, m>> \in running /\ c \in live \ Lasting
    /\ dlq' = [dlq EXCEPT ![m] = Copied(@)]
    /\ running' = running \ {<<c, m>>}
    /\ Drop({c})
    /\ UNCHANGED <<deaths, handled, boundVars>>

\* Faulty variant of ExpireRetry: the message is published anew, x-death lost.
ExpireRetryForgets(m) ==
    /\ place[m] = "retry"
    /\ place' = [place EXCEPT ![m] = "ready"]
    /\ deaths' = [deaths EXCEPT ![m] = 0]
    /\ UNCHANGED <<dlq, handled, running, channelVars, boundVars>>

\* The retry queue's TTL sends the message back to the main queue.
ExpireRetry(m) ==
    /\ place[m] = "retry"
    /\ place' = [place EXCEPT ![m] = "ready"]
    /\ UNCHANGED <<deaths, dlq, handled, running, channelVars, boundVars>>

\* The connection drops; the handlers of the channel keep running.
LoseChannel(c) ==
    /\ c \in live \ Lasting
    /\ Drop({c})
    /\ UNCHANGED <<deaths, dlq, handled, running, boundVars>>

Crash(p) ==
    /\ ChannelsOf(p) \cap Lasting = {}
    /\ crashes < MaxCrashes /\ crashes' = crashes + 1
    /\ Die(p)
    /\ UNCHANGED <<cancels, replays>>

\* The broker cancels the consumer (its queue was deleted): the callback gets
\* null, returns, and nothing registers the consumer again.
CancelConsumer(c) ==
    /\ c \in consumed \ Lasting
    /\ cancels < MaxCancels /\ cancels' = cancels + 1
    /\ consumed' = consumed \ {c}
    /\ UNCHANGED <<place, deaths, dlq, handled, running, opened, live, crashes, replays>>

\* An operator puts the copy in the DLQ back on the queue: its body as a new
\* message, or the copy itself, which kept its headers and their count.
ReplayDeadLetter(m) ==
    /\ dlq[m] = 1 /\ place[m] = "gone"
    /\ replays < MaxReplays /\ replays' = replays + 1
    /\ dlq' = [dlq EXCEPT ![m] = 0]
    /\ UNCHANGED deaths \/ deaths' = [deaths EXCEPT ![m] = 0]
    /\ place' = [place EXCEPT ![m] = "ready"]
    /\ UNCHANGED <<handled, running, channelVars, crashes, cancels>>

\* handleMessage(): every way its last statement ends.
HandleMessage(c, m) ==
    \/ Ack(c, m) \/ Nack(c, m) \/ DeadLetter(c, m)
    \/ SettleTooLate(c, m)

BrokerNext ==
    \/ \E m \in Messages : Publish(m) \/ ExpireRetry(m) \/ ReplayDeadLetter(m)
    \/ \E c \in Channels : CancelConsumer(c)

ProcessNext ==
    \/ \E p \in Processes : Crash(p)
    \/ \E c \in Channels : OpenChannel(c) \/ LoseChannel(c)
    \/ \E c \in Channels, m \in Messages :
          Deliver(c, m) \/ HandleMessage(c, m) \/ DeadLetterCut(c, m)

Next == BrokerNext \/ ProcessNext

Spec == Init /\ [][Next]_queueVars

\* The queue is FIFO, so a ready message is not passed over for ever; TTLs
\* expire; a lost channel is reopened after RECONNECT_DELAY_MS; a handler ends.
FairSpec ==
    /\ Spec
    /\ WF_queueVars(\E c \in Channels : OpenChannel(c))
    /\ \A m \in Messages :
         /\ WF_queueVars(ExpireRetry(m))
         /\ SF_queueVars(\E c \in Channels : Deliver(c, m))
         /\ \A c \in Channels : WF_queueVars(HandleMessage(c, m))

----------------------------------------------------------------------------
TypeOK ==
    /\ place \in [Messages -> Places \cup Channels]
    /\ deaths \in [Messages -> 0..MaxDeliveries]
    /\ dlq \in [Messages -> 0..2]
    /\ handled \subseteq Messages
    /\ running \subseteq Channels \X Messages
    /\ opened \subseteq Channels /\ live \subseteq opened /\ consumed \subseteq live
    /\ crashes \in 0..MaxCrashes /\ cancels \in 0..MaxCancels
    /\ replays \in 0..MaxReplays

\* "transient failures retry, poison terminates" (rabbitmq-consumer.service.ts:169):
\* a message leaves the queue only because its handler resolved or because a
\* copy of it is in the DLQ.
NothingVanishes ==
    \A m \in Messages : place[m] = "gone" => m \in handled \/ dlq[m] > 0

\* An unacked delivery is on an open channel and its handler is still running:
\* none is stranded where nobody will settle it, holding a prefetch slot, and
\* no message is in two handlers unless a channel was lost under one of them.
UnackedIsBeingHandled ==
    \A m \in Messages, c \in Channels :
        place[m] = c <=> c \in live /\ <<c, m>> \in running

\* "Only a message that has exhausted MAX_DELIVERIES is routed to the DLQ"
\* (rabbitmq-consumer.service.ts:168): a copy in the DLQ was rejected that often
\* since it was published, however its deliveries were interrupted.
DlqOnlyWhenExhausted ==
    \A m \in Messages : dlq[m] > 0 => deaths[m] = MaxDeliveries

\* The task a message stands for: pending wherever its copy is under way.
TaskState == [m \in Messages |->
    CASE place[m] = "absent" -> "absent"
      [] place[m] = "gone"   -> IF m \in handled THEN "done" ELSE "dead"
      [] OTHER               -> "pending"]

Retry == INSTANCE BoundedRetry WITH Tasks <- Messages, state <- TaskState,
                                    failures <- deaths

\* "bounded retry before the DLQ" (queue-topology.ts:3): through lost channels,
\* crashes and redeliveries a message is one task that fails once for each
\* rejected delivery, is given up after MAX_DELIVERIES and never otherwise lost.
ImplementsRetry == Retry!Spec

\* Every published message ends handled or in the DLQ.
EverySettles ==
    \A m \in Messages : place[m] # "absent" ~> place[m] = "gone"
=============================================================================
