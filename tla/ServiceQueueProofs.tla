----------------------- MODULE ServiceQueueProofs ----------------------
(***************************************************************************)
(* What the steps of a ServiceQueue do, for every set of messages and      *)
(* channels and every bound: the facts the proofs about both services need *)
(* of the queue below them.                                                *)
(***************************************************************************)
EXTENDS ServiceQueue, TLAPS

USE QueueAssumption

\* Nothing leaves the queue.
Keeps ==
    /\ UNCHANGED dlq
    /\ \A v \in Messages : place'[v] = "gone" => place[v] = "gone"

\* Losing channels puts their messages back; nothing leaves the queue.
LEMMA DropTyped ==
    ASSUME Queue!TypeOK, NEW C \in SUBSET Channels, Queue!Drop(C)
    PROVE  /\ place' \in [Messages -> Queue!Places \cup Channels]
           /\ opened' \subseteq Channels /\ live' \subseteq opened'
           /\ \A v \in Messages : place'[v] = "gone" => place[v] = "gone"
BY DEF Queue!TypeOK, Queue!Drop, Queue!Places

\* A dying process loses its channels and handlers, no message.
LEMMA DieTyped ==
    ASSUME Queue!TypeOK, NEW p \in Processes, Queue!Die(p), UNCHANGED replays,
           crashes' \in 0..MaxCrashes
    PROVE  Queue!TypeOK' /\ Keeps
<1>1. Queue!ChannelsOf(p) \in SUBSET Channels /\ Queue!Drop(Queue!ChannelsOf(p))
  BY DEF Queue!ChannelsOf, Queue!Die
<1>2. running' \subseteq running /\ UNCHANGED <<deaths, dlq, handled>>
  BY DEF Queue!Die
<1> QED
  BY <1>1, <1>2, DropTyped DEF Queue!TypeOK, Keeps

\* Publishing, redelivery and delivery remove nothing from the queue.
LEMMA InputsTyped ==
    ASSUME Queue!TypeOK, NEW v \in Messages,
           \/ Queue!Publish(v) \/ Queue!ExpireRetry(v)
           \/ \E c \in Channels : Queue!OpenChannel(c) \/ Queue!Deliver(c, v)
    PROVE  Queue!TypeOK' /\ Keeps
<1> USE DEF Queue!TypeOK, Queue!Places, Queue!channelVars, Queue!boundVars, Keeps
<1>1. CASE Queue!Publish(v)
  BY <1>1 DEF Queue!Publish
<1>2. CASE Queue!ExpireRetry(v)
  BY <1>2 DEF Queue!ExpireRetry
<1>3. ASSUME NEW c \in Channels, Queue!OpenChannel(c) PROVE Queue!TypeOK' /\ Keeps
  BY <1>3 DEF Queue!OpenChannel
<1>4. ASSUME NEW c \in Channels, Queue!Deliver(c, v) PROVE Queue!TypeOK' /\ Keeps
  BY <1>4 DEF Queue!Deliver
<1> QED
  BY <1>1, <1>2, <1>3, <1>4

\* No lost channel, crash or late settlement removes anything from the queue.
LEMMA LossesTyped ==
    ASSUME Queue!TypeOK,
           \/ \E c \in Channels : Queue!LoseChannel(c)
           \/ \E p \in Processes : Queue!Crash(p)
           \/ \E c \in Channels, v \in Messages : Queue!SettleTooLate(c, v)
    PROVE  Queue!TypeOK' /\ Keeps
<1>1. ASSUME NEW c \in Channels, Queue!LoseChannel(c) PROVE Queue!TypeOK' /\ Keeps
  <2>1. {c} \in SUBSET Channels /\ Queue!Drop({c})
        /\ UNCHANGED <<deaths, dlq, handled, running, crashes, replays>>
    BY <1>1 DEF Queue!LoseChannel, Queue!boundVars
  <2> QED
    BY <2>1, DropTyped DEF Queue!TypeOK, Keeps
<1>2. ASSUME NEW p \in Processes, Queue!Crash(p) PROVE Queue!TypeOK' /\ Keeps
  <2>1. crashes' \in 0..MaxCrashes /\ Queue!Die(p) /\ UNCHANGED replays
    BY <1>2 DEF Queue!Crash, Queue!TypeOK
  <2> QED
    BY <2>1, DieTyped
<1>3. ASSUME NEW c \in Channels, NEW v \in Messages, Queue!SettleTooLate(c, v)
      PROVE  Queue!TypeOK' /\ Keeps
  <2>1. ProcessOf[c] \in Processes /\ Queue!Die(ProcessOf[c])
        /\ UNCHANGED replays /\ crashes' \in 0..MaxCrashes
    BY <1>3 DEF Queue!SettleTooLate, Queue!boundVars, Queue!TypeOK
  <2> QED
    BY <2>1, DieTyped
<1> QED
  BY <1>1, <1>2, <1>3

\* What is gone was gone before, is in the DLQ, or is v, which a handler settled.
Accounts(v) ==
    \A w \in Messages : place'[w] = "gone" =>
        \/ w = v
        \/ dlq'[w] > 0
        \/ place[w] = "gone" /\ dlq'[w] = dlq[w]

\* An ack lets go of one message.
LEMMA SettledTyped ==
    ASSUME Queue!TypeOK, NEW c \in Channels, NEW v \in Messages, Queue!Ack(c, v)
    PROVE  Queue!TypeOK' /\ Accounts(v)
BY DEF Queue!Ack, Queue!Settle, Queue!TypeOK, Queue!Places, Queue!channelVars,
       Queue!boundVars, Accounts

\* A nack keeps its message and ends its handler.
LEMMA RejectedTyped ==
    ASSUME Queue!TypeOK, NEW c \in Channels, NEW v \in Messages, Queue!Nack(c, v)
    PROVE  /\ Queue!TypeOK' /\ Keeps
           /\ running' = running \ {<<c, v>>}
<1>1. deaths[v] + 1 \in 0..MaxDeliveries
  BY DEF Queue!Nack, Queue!Exhausted, Queue!TypeOK
<1> QED
  BY <1>1 DEF Queue!Nack, Queue!Settle, Queue!TypeOK, Queue!Places,
     Queue!channelVars, Queue!boundVars, Keeps

\* Dead-lettering leaves a copy behind; a replay takes it back.
LEMMA DlqTyped ==
    ASSUME Queue!TypeOK, NEW v \in Messages,
           \/ Queue!ReplayDeadLetter(v)
           \/ \E c \in Channels : Queue!DeadLetter(c, v) \/ Queue!DeadLetterCut(c, v)
    PROVE  /\ Queue!TypeOK'
           /\ \A w \in Messages : place'[w] = "gone" =>
                 dlq'[w] > 0 \/ (place[w] = "gone" /\ dlq'[w] = dlq[w])
<1> DEFINE Goal ==
      /\ Queue!TypeOK'
      /\ \A w \in Messages : place'[w] = "gone" =>
            dlq'[w] > 0 \/ (place[w] = "gone" /\ dlq'[w] = dlq[w])
<1>1. Queue!Copied(dlq[v]) \in 1..2
  BY DEF Queue!Copied, Queue!TypeOK
<1>2. CASE Queue!ReplayDeadLetter(v)
  BY <1>2 DEF Queue!ReplayDeadLetter, Queue!TypeOK, Queue!Places, Queue!channelVars
<1>3. ASSUME NEW c \in Channels, Queue!DeadLetter(c, v) PROVE Goal
  BY <1>1, <1>3 DEF Queue!DeadLetter, Queue!Settle, Queue!TypeOK, Queue!Places,
     Queue!channelVars, Queue!boundVars
<1>4. ASSUME NEW c \in Channels, Queue!DeadLetterCut(c, v) PROVE Goal
  <2>1. {c} \in SUBSET Channels /\ Queue!Drop({c})
        /\ dlq' = [dlq EXCEPT ![v] = Queue!Copied(@)] /\ running' \subseteq running
        /\ UNCHANGED <<deaths, handled, crashes, replays>>
    BY <1>4 DEF Queue!DeadLetterCut, Queue!boundVars
  <2> QED
    BY <1>1, <2>1, DropTyped DEF Queue!TypeOK
<1> QED
  BY <1>2, <1>3, <1>4

-----------------------------------------------------------------------------
\* Handlers run on channels that were opened, and a message that a handler of a
\* live channel works on is unacked on that channel.
QueueInv ==
    /\ Queue!TypeOK
    /\ \A h \in running : h[1] \in opened
    /\ \A c \in live, m \in Messages : <<c, m>> \in running => place[m] = c

\* The queue starts empty, with no channel.
LEMMA QueueInit == Queue!Init => QueueInv
BY DEF Queue!Init, QueueInv, Queue!TypeOK, Queue!Places

\* No handler works on a live channel that lost its message.
LEMMA DropQueue ==
    ASSUME QueueInv, NEW C \in SUBSET Channels, Queue!Drop(C), running' \subseteq running
    PROVE  /\ \A h \in running' : h[1] \in opened'
           /\ \A c \in live', m \in Messages : <<c, m>> \in running' => place'[m] = c
BY DEF QueueInv, Queue!TypeOK, Queue!Drop

\* A settled message is on no channel, and no other live channel worked on it.
LEMMA SettleQueue ==
    ASSUME QueueInv, NEW c \in Channels, NEW m \in Messages, NEW s \in Queue!Places,
           Queue!Settle(c, m, s)
    PROVE  /\ \A h \in running' : h[1] \in opened'
           /\ \A d \in live', n \in Messages : <<d, n>> \in running' => place'[n] = d
<1>1. /\ place' = [place EXCEPT ![m] = s] /\ UNCHANGED <<opened, live>>
      /\ running' = running \ {<<c, m>>} /\ place[m] = c
  BY DEF Queue!Settle, Queue!channelVars, QueueInv
<1>2. \A d \in live' : <<d, m>> \notin running'
  BY <1>1 DEF QueueInv
<1> QED
  BY <1>1, <1>2 DEF QueueInv, Queue!TypeOK

\* Every step of the queue keeps its invariant.
LEMMA QueueStep == QueueInv /\ [Queue!Next]_Queue!queueVars => QueueInv'
<1> SUFFICES ASSUME QueueInv, [Queue!Next]_Queue!queueVars PROVE QueueInv'
  OBVIOUS
<1> USE DEF Queue!Places
<1>1. CASE UNCHANGED Queue!queueVars
  BY <1>1 DEF QueueInv, Queue!queueVars, Queue!channelVars, Queue!boundVars, Queue!TypeOK
<1>2. ASSUME NEW m \in Messages, Queue!Publish(m) \/ Queue!ExpireRetry(m) \/ Queue!ReplayDeadLetter(m)
      PROVE  QueueInv'
  <2>1. Queue!TypeOK'
    BY <1>2, InputsTyped, DlqTyped DEF QueueInv
  <2>2. /\ place[m] \notin Channels /\ place' = [place EXCEPT ![m] = "ready"]
        /\ UNCHANGED <<running, opened, live>>
    BY <1>2 DEF Queue!Publish, Queue!ExpireRetry, Queue!ReplayDeadLetter, Queue!channelVars
  <2> QED
    BY <2>1, <2>2 DEF QueueInv, Queue!TypeOK
<1>3. ASSUME NEW c \in Channels, Queue!OpenChannel(c) PROVE QueueInv'
  <2>1. Queue!TypeOK'
    BY <1>3 DEF Queue!OpenChannel, Queue!boundVars, QueueInv, Queue!TypeOK
  <2> QED
    BY <1>3, <2>1 DEF Queue!OpenChannel, QueueInv
<1>4. ASSUME NEW c \in Channels, NEW m \in Messages, Queue!Deliver(c, m) PROVE QueueInv'
  <2>1. Queue!TypeOK'
    BY <1>4, InputsTyped DEF QueueInv
  <2>2. /\ place[m] \notin Channels /\ place' = [place EXCEPT ![m] = c] /\ c \in live
        /\ running' = running \cup {<<c, m>>} /\ UNCHANGED <<opened, live>>
    BY <1>4 DEF Queue!Deliver, Queue!channelVars
  <2> QED
    BY <2>1, <2>2 DEF QueueInv, Queue!TypeOK
<1>5. ASSUME NEW c \in Channels, Queue!LoseChannel(c) PROVE QueueInv'
  <2>1. Queue!TypeOK' /\ {c} \in SUBSET Channels
    BY <1>5, LossesTyped DEF QueueInv
  <2> QED
    BY <1>5, <2>1, DropQueue DEF Queue!LoseChannel, QueueInv
<1>6. ASSUME NEW p \in Processes, Queue!Die(p), Queue!TypeOK' PROVE QueueInv'
  <2>1. Queue!ChannelsOf(p) \in SUBSET Channels /\ running' \subseteq running
    BY <1>6 DEF Queue!ChannelsOf, Queue!Die
  <2> QED
    BY <1>6, <2>1, DropQueue DEF Queue!Die, QueueInv
<1>7. ASSUME NEW p \in Processes, Queue!Crash(p) PROVE QueueInv'
  BY <1>6, <1>7, LossesTyped DEF Queue!Crash, QueueInv
<1>8. ASSUME NEW c \in Channels, NEW m \in Messages, Queue!HandleMessage(c, m)
      PROVE  QueueInv'
  <2>1. CASE Queue!Ack(c, m)
    BY <2>1, SettledTyped, SettleQueue DEF Queue!Ack, QueueInv
  <2>2. CASE Queue!Nack(c, m)
    BY <2>2, RejectedTyped, SettleQueue DEF Queue!Nack, QueueInv
  <2>3. CASE Queue!DeadLetter(c, m)
    BY <2>3, DlqTyped, SettleQueue DEF Queue!DeadLetter, QueueInv
  <2>4. CASE Queue!SettleTooLate(c, m)
    BY <1>6, <2>4, LossesTyped DEF Queue!SettleTooLate, QueueInv
  <2> QED
    BY <1>8, <2>1, <2>2, <2>3, <2>4 DEF Queue!HandleMessage
<1>9. ASSUME NEW c \in Channels, NEW m \in Messages, Queue!DeadLetterCut(c, m)
      PROVE  QueueInv'
  <2>1. Queue!TypeOK' /\ {c} \in SUBSET Channels
    BY <1>9, DlqTyped DEF QueueInv
  <2> QED
    BY <1>9, <2>1, DropQueue DEF Queue!DeadLetterCut, QueueInv
<1>10. \A c \in Channels : ~Queue!CancelConsumer(c)
  BY DEF Queue!CancelConsumer
<1> QED
  BY <1>1, <1>2, <1>3, <1>4, <1>5, <1>7, <1>8, <1>9, <1>10
     DEF Queue!Next, Queue!BrokerNext, Queue!ProcessNext
===========================================================================
