-------------------------- MODULE WorkQueueProofs --------------------------
(***************************************************************************)
(* Proofs about WorkQueue, for every set of messages, processes and        *)
(* channels and every bound: the safety invariants, and that the queue     *)
(* with its channels, crashes and redeliveries implements BoundedRetry.    *)
(***************************************************************************)
EXTENDS WorkQueue, TLAPS

\* A handled message has left the queue and has no copy in the DLQ; a handler
\* runs on a channel that was opened.
Bookkeeping ==
    /\ \A m \in handled : place[m] = "gone" /\ dlq[m] = 0
    /\ \A h \in running : h[1] \in opened

QueueInv ==
    /\ TypeOK
    /\ NothingVanishes
    /\ UnackedIsBeingHandled
    /\ DlqOnlyWhenExhausted
    /\ Bookkeeping

----------------------------------------------------------------------------
\* The initial state satisfies the invariant: an empty queue, no channel.
LEMMA InitInv == Init => QueueInv
<1> SUFFICES ASSUME Init PROVE QueueInv
  OBVIOUS
<1> USE DEF Init
<1>1. TypeOK
  BY DeliveriesAssumption, BoundsAssumption DEF TypeOK, Places
<1>2. UnackedIsBeingHandled
  BY ChannelsAssumption DEF UnackedIsBeingHandled, Places
<1>3. NothingVanishes /\ DlqOnlyWhenExhausted /\ Bookkeeping
  BY DEF NothingVanishes, DlqOnlyWhenExhausted, Bookkeeping
<1> QED BY <1>1, <1>2, <1>3 DEF QueueInv

\* A step that changes no message, handler or channel keeps the four invariants.
LEMMA QuietStep ==
  ASSUME QueueInv, UNCHANGED <<place, deaths, dlq, handled, running, opened, live>>
  PROVE  /\ NothingVanishes' /\ UnackedIsBeingHandled'
         /\ DlqOnlyWhenExhausted' /\ Bookkeeping'
  BY DEF QueueInv, NothingVanishes, UnackedIsBeingHandled, DlqOnlyWhenExhausted, Bookkeeping

\* A message moves between places that are not channels.
LEMMA MoveKeepsUnacked ==
  ASSUME QueueInv, NEW m \in Messages, NEW s \in Places, place[m] \in Places,
         place' = [place EXCEPT ![m] = s], UNCHANGED <<running, live>>
  PROVE  UnackedIsBeingHandled'
  BY ChannelsAssumption DEF QueueInv, TypeOK, UnackedIsBeingHandled

\* Publishing puts a new message in the queue.
LEMMA PublishInv == ASSUME QueueInv, NEW m \in Messages, Publish(m) PROVE QueueInv'
<1> USE DEF QueueInv, Publish, channelVars, boundVars
<1>1. TypeOK'
  BY DEF TypeOK, Places
<1>2. UnackedIsBeingHandled'
  BY MoveKeepsUnacked DEF Places
<1>3. NothingVanishes' /\ DlqOnlyWhenExhausted' /\ Bookkeeping'
  BY DEF NothingVanishes, DlqOnlyWhenExhausted, Bookkeeping, TypeOK
<1> QED BY <1>1, <1>2, <1>3

\* The end of a retry TTL puts a message back in the queue.
LEMMA ExpireRetryInv == ASSUME QueueInv, NEW m \in Messages, ExpireRetry(m) PROVE QueueInv'
<1> USE DEF QueueInv, ExpireRetry, channelVars, boundVars
<1>1. TypeOK'
  BY DEF TypeOK, Places
<1>2. UnackedIsBeingHandled'
  BY MoveKeepsUnacked DEF Places
<1>3. NothingVanishes' /\ DlqOnlyWhenExhausted' /\ Bookkeeping'
  BY DEF NothingVanishes, DlqOnlyWhenExhausted, Bookkeeping, TypeOK
<1> QED BY <1>1, <1>2, <1>3

\* A message that is moved out of the DLQ was never handled.
LEMMA ReplayInv == ASSUME QueueInv, NEW m \in Messages, ReplayDeadLetter(m) PROVE QueueInv'
<1> USE DEF QueueInv, ReplayDeadLetter, channelVars
<1>1. TypeOK'
  BY DeliveriesAssumption, BoundsAssumption DEF TypeOK, Places
<1>2. UnackedIsBeingHandled'
  BY MoveKeepsUnacked DEF Places
<1>3. m \notin handled
  BY DEF Bookkeeping
<1>4. NothingVanishes' /\ DlqOnlyWhenExhausted' /\ Bookkeeping'
  BY <1>3 DEF NothingVanishes, DlqOnlyWhenExhausted, Bookkeeping, TypeOK
<1> QED BY <1>1, <1>2, <1>4

\* A cancelled consumer leaves its channel, its messages and its handlers.
LEMMA CancelInv == ASSUME QueueInv, NEW c \in Channels, CancelConsumer(c) PROVE QueueInv'
<1>1. TypeOK'
  BY BoundsAssumption DEF QueueInv, CancelConsumer, TypeOK
<1> QED BY <1>1, QuietStep DEF QueueInv, CancelConsumer

\* No handler runs on a channel that has just been opened.
LEMMA OpenInv == ASSUME QueueInv, NEW c \in Channels, OpenChannel(c) PROVE QueueInv'
<1> USE DEF QueueInv, OpenChannel, boundVars
<1>1. TypeOK'
  BY DEF TypeOK
<1>2. \A m \in Messages : <<c, m>> \notin running /\ place[m] # c
  BY DEF Bookkeeping, UnackedIsBeingHandled, TypeOK
<1>3. UnackedIsBeingHandled'
  BY <1>2 DEF UnackedIsBeingHandled
<1>4. NothingVanishes' /\ DlqOnlyWhenExhausted' /\ Bookkeeping'
  BY DEF NothingVanishes, DlqOnlyWhenExhausted, Bookkeeping
<1> QED BY <1>1, <1>3, <1>4

\* A delivery is unacked on the channel its handler runs on, and on no other.
LEMMA DeliverInv ==
  ASSUME QueueInv, NEW c \in Channels, NEW m \in Messages, Deliver(c, m)
  PROVE  QueueInv'
<1> USE DEF QueueInv, Deliver, channelVars, boundVars
<1>1. c \in live /\ c \in opened
  BY DEF TypeOK
<1>2. TypeOK'
  BY DEF TypeOK
<1>3. \A d \in Channels : ~(d \in live /\ <<d, m>> \in running)
  BY ChannelsAssumption DEF UnackedIsBeingHandled, Places
<1>4. \A d \in Channels, n \in Messages :
         <<d, n>> \in running' <=> <<d, n>> \in running \/ (d = c /\ n = m)
  OBVIOUS
<1>5. UnackedIsBeingHandled'
  <2>1. \A n \in Messages \ {m}, d \in Channels :
           place'[n] = d <=> d \in live' /\ <<d, n>> \in running'
    <3>1. \A n \in Messages \ {m} : place'[n] = place[n]
      BY DEF TypeOK
    <3>2. \A n \in Messages \ {m}, d \in Channels :
             <<d, n>> \in running' <=> <<d, n>> \in running
      BY <1>4
    <3>3. \A n \in Messages \ {m}, d \in Channels :
             place[n] = d <=> d \in live /\ <<d, n>> \in running
      BY DEF UnackedIsBeingHandled
    <3>4. live' = live
      OBVIOUS
    <3> HIDE DEF QueueInv, Deliver, channelVars, boundVars
    <3> QED BY <3>1, <3>2, <3>3, <3>4
  <2>2. \A d \in Channels : place'[m] = d <=> d = c
    BY DEF TypeOK
  <2>3. \A d \in Channels : d \in live' /\ <<d, m>> \in running' <=> d = c
    BY <1>1, <1>3, <1>4
  <2> QED BY <2>1, <2>2, <2>3 DEF UnackedIsBeingHandled
<1>6. NothingVanishes' /\ DlqOnlyWhenExhausted'
  <2>1. \A n \in Messages : place'[n] = "gone" => place[n] = "gone"
    BY ChannelsAssumption DEF TypeOK, Places
  <2> QED BY <2>1 DEF NothingVanishes, DlqOnlyWhenExhausted
<1>7. Bookkeeping'
  <2>1. \A n \in handled : place'[n] = "gone" /\ dlq'[n] = 0
    BY DEF Bookkeeping, TypeOK
  <2>2. \A h \in running' : h = <<c, m>> \/ h \in running
    OBVIOUS
  <2>3. \A h \in running' : h[1] \in opened'
    BY <1>1, <2>2 DEF Bookkeeping
  <2> QED BY <2>1, <2>3 DEF Bookkeeping
<1> QED BY <1>2, <1>5, <1>6, <1>7

----------------------------------------------------------------------------
\* What a lost set of channels does to the messages.
LEMMA DropFacts ==
  ASSUME QueueInv, NEW C \in SUBSET Channels, Drop(C)
  PROVE  /\ \A m \in Messages : place'[m] = IF place[m] \in C THEN "ready" ELSE place[m]
         /\ place' \in [Messages -> Places \cup Channels]
         /\ live' \subseteq opened' /\ consumed' \subseteq live' /\ opened' = opened
         /\ \A m \in Messages : place'[m] = "gone" <=> place[m] = "gone"
  BY ChannelsAssumption DEF QueueInv, TypeOK, Drop, Places

\* Losing channels, and stopping some of their handlers, strands no message.
LEMMA DropInv ==
  ASSUME QueueInv, NEW C \in SUBSET Channels, Drop(C), UNCHANGED handled,
         running' \subseteq running, \A h \in running \ running' : h[1] \in C
  PROVE  /\ UnackedIsBeingHandled'
         /\ UNCHANGED <<deaths, dlq>> =>
              NothingVanishes' /\ DlqOnlyWhenExhausted' /\ Bookkeeping'
<1> USE DEF QueueInv
<1>1. \A m \in Messages, c \in Channels \ C : place'[m] = c <=> place[m] = c
  BY DropFacts, ChannelsAssumption DEF Places
<1>2. \A m \in Messages, c \in C : place'[m] # c /\ c \notin live'
  BY DropFacts, ChannelsAssumption DEF Drop, Places
<1>3. \A m \in Messages, c \in Channels \ C : <<c, m>> \in running' <=> <<c, m>> \in running
  OBVIOUS
<1>4. \A c \in Channels \ C : c \in live' <=> c \in live
  BY DEF Drop
<1>5. UnackedIsBeingHandled'
  BY <1>1, <1>2, <1>3, <1>4 DEF UnackedIsBeingHandled
<1>6. \A m \in Messages : place'[m] = "gone" <=> place[m] = "gone"
  BY DropFacts
<1>7. \A m \in handled : place'[m] = "gone"
  BY <1>6 DEF Bookkeeping, TypeOK
<1>8. \A h \in running' : h[1] \in opened'
  BY DropFacts DEF Bookkeeping
<1> QED BY <1>5, <1>6, <1>7, <1>8 DEF NothingVanishes, DlqOnlyWhenExhausted, Bookkeeping

\* The end of a process keeps the invariant.
LEMMA DieInv ==
  ASSUME QueueInv, NEW p \in Processes, Die(p),
         crashes' \in 0..MaxCrashes, UNCHANGED <<cancels, replays>>
  PROVE  QueueInv'
<1> DEFINE C == ChannelsOf(p)
<1>1. C \in SUBSET Channels /\ Drop(C)
  BY DEF Die, ChannelsOf
<1>2. running' \subseteq running /\ \A h \in running \ running' : h[1] \in C
  BY DEF Die, ChannelsOf, QueueInv, TypeOK
<1>3. TypeOK'
  BY <1>1, <1>2, DropFacts DEF QueueInv, TypeOK, Die
<1> HIDE DEF C
<1> QED BY <1>1, <1>2, <1>3, DropInv DEF QueueInv, Die

\* A crash, bounded by MaxCrashes.
LEMMA CrashInv == ASSUME QueueInv, NEW p \in Processes, Crash(p) PROVE QueueInv'
<1>1. crashes' \in 0..MaxCrashes
  BY BoundsAssumption DEF Crash, QueueInv, TypeOK
<1> QED BY <1>1, DieInv DEF Crash

\* A handler whose channel is closed takes its process with it.
LEMMA SettleTooLateInv ==
  ASSUME QueueInv, NEW c \in Channels, NEW m \in Messages, SettleTooLate(c, m)
  PROVE  QueueInv'
<1>1. ProcessOf[c] \in Processes
  BY ChannelsAssumption
<1> QED BY <1>1, DieInv DEF SettleTooLate, boundVars, QueueInv, TypeOK

\* A lost connection leaves the handlers running.
LEMMA LoseChannelInv == ASSUME QueueInv, NEW c \in Channels, LoseChannel(c) PROVE QueueInv'
<1>1. {c} \in SUBSET Channels /\ Drop({c})
  BY DEF LoseChannel
<1>2. TypeOK'
  BY <1>1, DropFacts DEF QueueInv, TypeOK, LoseChannel, boundVars
<1> QED BY <1>1, <1>2, DropInv DEF QueueInv, LoseChannel

----------------------------------------------------------------------------
\* What a settled delivery was, and what settling it leaves.
LEMMA SettleFacts ==
  ASSUME QueueInv, NEW c \in Channels, NEW m \in Messages, NEW s \in {"gone", "retry"},
         Settle(c, m, s)
  PROVE  /\ place[m] = c /\ c \notin Places /\ m \notin handled
         /\ place'[m] = s /\ \A n \in Messages \ {m} : place'[n] = place[n]
         /\ place' \in [Messages -> Places \cup Channels]
         /\ running' \subseteq running
         /\ UnackedIsBeingHandled'
<1> USE DEF QueueInv, Settle
<1>1. place[m] = c /\ c \notin Places
  BY ChannelsAssumption DEF UnackedIsBeingHandled
<1>2. m \notin handled
  BY <1>1 DEF Bookkeeping, Places
<1>3. /\ place'[m] = s /\ \A n \in Messages \ {m} : place'[n] = place[n]
      /\ place' \in [Messages -> Places \cup Channels]
  BY DEF TypeOK, Places
<1>4. s \in Places
  BY DEF Places
<1>5. \A d \in Channels : s # d
  BY <1>4, ChannelsAssumption
<1>6. \A d \in Channels, n \in Messages :
         <<d, n>> \in running' <=> <<d, n>> \in running /\ ~(d = c /\ n = m)
  OBVIOUS
<1>7. \A d \in Channels \ {c} : ~(d \in live /\ <<d, m>> \in running)
  BY <1>1 DEF UnackedIsBeingHandled
<1>8. UnackedIsBeingHandled'
  BY <1>1, <1>3, <1>5, <1>6, <1>7 DEF UnackedIsBeingHandled, channelVars
<1> QED BY <1>1, <1>2, <1>3, <1>8

\* An acked message is handled, and has no copy in the DLQ.
LEMMA AckInv == ASSUME QueueInv, NEW c \in Channels, NEW m \in Messages, Ack(c, m)
                PROVE  QueueInv'
<1> USE DEF QueueInv, Ack
<1>0. Settle(c, m, "gone") /\ UNCHANGED <<channelVars, boundVars>>
  BY DEF Settle
<1>1. TypeOK'
  BY <1>0, SettleFacts DEF TypeOK, channelVars, boundVars
<1>2. dlq[m] = 0
  BY DeliveriesAssumption DEF DlqOnlyWhenExhausted, Exhausted, TypeOK
<1>3. NothingVanishes' /\ DlqOnlyWhenExhausted' /\ Bookkeeping'
  BY <1>0, <1>2, SettleFacts
  DEF NothingVanishes, DlqOnlyWhenExhausted, Bookkeeping, TypeOK, channelVars
<1> QED BY <1>0, <1>1, <1>3, SettleFacts

\* A rejected message has one more death, and none is in the DLQ yet.
LEMMA NackInv == ASSUME QueueInv, NEW c \in Channels, NEW m \in Messages, Nack(c, m)
                 PROVE  QueueInv'
<1> USE DEF QueueInv, Nack
<1>0. Settle(c, m, "retry") /\ UNCHANGED <<channelVars, boundVars>>
  BY DEF Settle
<1>1. deaths' \in [Messages -> 0..MaxDeliveries]
  BY DeliveriesAssumption DEF TypeOK, Exhausted
<1>2. TypeOK'
  BY <1>0, <1>1, SettleFacts DEF TypeOK, channelVars, boundVars
<1>3. dlq[m] = 0
  BY DeliveriesAssumption DEF DlqOnlyWhenExhausted, Exhausted, TypeOK
<1>4. NothingVanishes' /\ DlqOnlyWhenExhausted' /\ Bookkeeping'
  BY <1>0, <1>3, SettleFacts
  DEF NothingVanishes, DlqOnlyWhenExhausted, Bookkeeping, TypeOK, channelVars
<1> QED BY <1>0, <1>2, <1>4, SettleFacts

\* A dead-lettered message was rejected MaxDeliveries times.
LEMMA DeadLetterInv ==
  ASSUME QueueInv, NEW c \in Channels, NEW m \in Messages, DeadLetter(c, m)
  PROVE  QueueInv'
<1> USE DEF QueueInv, DeadLetter
<1>0. Settle(c, m, "gone") /\ UNCHANGED <<channelVars, boundVars>>
  BY DEF Settle
<1>1. dlq' \in [Messages -> 0..2] /\ dlq'[m] > 0
  BY DEF TypeOK, Copied
<1>2. TypeOK'
  BY <1>0, <1>1, SettleFacts DEF TypeOK, channelVars, boundVars
<1>3. deaths[m] = MaxDeliveries
  BY DeliveriesAssumption DEF TypeOK, Exhausted
<1>4. NothingVanishes' /\ DlqOnlyWhenExhausted' /\ Bookkeeping'
  BY <1>0, <1>1, <1>3, SettleFacts
  DEF NothingVanishes, DlqOnlyWhenExhausted, Bookkeeping, TypeOK, channelVars
<1> QED BY <1>0, <1>2, <1>4, SettleFacts

\* The same when the channel dies before the ack: the message stays queued.
LEMMA DeadLetterCutInv ==
  ASSUME QueueInv, NEW c \in Channels, NEW m \in Messages, DeadLetterCut(c, m)
  PROVE  QueueInv'
<1> USE DEF QueueInv, DeadLetterCut
<1>1. {c} \in SUBSET Channels /\ Drop({c})
  OBVIOUS
<1>2. dlq' \in [Messages -> 0..2]
  BY DEF TypeOK, Copied
<1>3. TypeOK'
  BY <1>1, <1>2, DropFacts DEF TypeOK, boundVars
<1>4. place[m] = c /\ m \notin handled
  BY ChannelsAssumption DEF UnackedIsBeingHandled, Bookkeeping, Places
<1>5. deaths[m] = MaxDeliveries
  BY DeliveriesAssumption DEF TypeOK, Exhausted
<1>6. UnackedIsBeingHandled'
  <2>1. running' \subseteq running /\ \A h \in running \ running' : h[1] \in {c}
    OBVIOUS
  <2>2. \A n \in Messages, d \in Channels \ {c} : place'[n] = d <=> place[n] = d
    BY <1>1, DropFacts, ChannelsAssumption DEF Places
  <2>3. \A n \in Messages : place'[n] # c /\ c \notin live'
    BY <1>1, DropFacts, ChannelsAssumption DEF Drop, Places
  <2>4. \A d \in Channels \ {c} : d \in live' <=> d \in live
    BY DEF Drop
  <2> QED BY <2>1, <2>2, <2>3, <2>4 DEF UnackedIsBeingHandled
<1>7. \A n \in Messages : place'[n] = "gone" <=> place[n] = "gone"
  BY <1>1, DropFacts
<1>8. NothingVanishes' /\ DlqOnlyWhenExhausted' /\ Bookkeeping'
  BY <1>1, <1>4, <1>5, <1>7, DropFacts
  DEF NothingVanishes, DlqOnlyWhenExhausted, Bookkeeping, TypeOK, Copied
<1> QED BY <1>3, <1>6, <1>8

----------------------------------------------------------------------------
\* Every step preserves the invariant.
LEMMA NextInv == QueueInv /\ [Next]_queueVars => QueueInv'
<1> SUFFICES ASSUME QueueInv, [Next]_queueVars PROVE QueueInv'
  OBVIOUS
<1>1. CASE UNCHANGED queueVars
  <2>1. TypeOK'
    BY <1>1 DEF QueueInv, TypeOK, queueVars, channelVars, boundVars
  <2> QED BY <1>1, <2>1, QuietStep DEF QueueInv, queueVars, channelVars
<1>2. CASE BrokerNext
  BY <1>2, PublishInv, ExpireRetryInv, ReplayInv, CancelInv DEF BrokerNext
<1>3. CASE ProcessNext
  BY <1>3, CrashInv, OpenInv, LoseChannelInv, DeliverInv, AckInv, NackInv, DeadLetterInv,
     SettleTooLateInv, DeadLetterCutInv DEF ProcessNext, HandleMessage
<1> QED BY <1>1, <1>2, <1>3 DEF Next

\* The inductive invariant holds in every reachable state.
THEOREM Invariance == Spec => []QueueInv
  BY InitInv, NextInv, PTL DEF Spec

\* Every reachable state of the queue is well typed.
THEOREM TypeCorrect == Spec => []TypeOK
  BY Invariance, PTL DEF QueueInv

\* A message leaves the queue only handled or with a copy in the DLQ.
THEOREM NothingLost == Spec => []NothingVanishes
  BY Invariance, PTL DEF QueueInv

\* No delivery is unacked without a handler that will settle it on its channel.
THEOREM NoneStranded == Spec => []UnackedIsBeingHandled
  BY Invariance, PTL DEF QueueInv

\* The DLQ holds only messages that were rejected MAX_DELIVERIES times.
THEOREM DlqForExhausted == Spec => []DlqOnlyWhenExhausted
  BY Invariance, PTL DEF QueueInv

----------------------------------------------------------------------------
(* The queue implements BoundedRetry.  A task is pending wherever its      *)
(* message is under way, so all that connections and processes do maps to  *)
(* a stutter; QueueInv excludes that a message leaves the queue otherwise. *)

\* The initial state of the queue is one of BoundedRetry.
LEMMA RefineInit == Init => Retry!Init
  BY DEF Init, Retry!Init, TaskState

\* A task's state when the step moves its message to a place s.
LEMMA TaskMoves ==
  ASSUME QueueInv, NEW m \in Messages,
         \A n \in Messages \ {m} : /\ place'[n] = place[n]
                                   /\ n \in handled' <=> n \in handled
  PROVE  TaskState' = [TaskState EXCEPT ![m] = TaskState'[m]]
  BY DEF TaskState

\* A step after which every message is as pending, handled or dead-lettered as
\* it was before, and no death was counted, is a stutter.
LEMMA TaskStays ==
  ASSUME QueueInv, UNCHANGED <<deaths, handled>>,
         \A m \in Messages :
            \/ place'[m] = place[m]
            \/ {place[m], place'[m]} \cap {"absent", "gone"} = {}
  PROVE  UNCHANGED Retry!retryVars
<1>1. \A m \in Messages : TaskState'[m] = TaskState[m]
  BY DEF TaskState
<1>2. TaskState' = TaskState
  BY <1>1 DEF TaskState
<1> QED BY <1>2 DEF Retry!retryVars

\* A channel is none of the places of a message that is not unacked.
LEMMA ChannelsArePending ==
  ASSUME NEW c \in Channels
  PROVE  c \notin {"absent", "ready", "retry", "gone"}
  BY ChannelsAssumption DEF Places

\* A step that loses channels moves messages between pending places only.
LEMMA DropRefines ==
  ASSUME QueueInv, NEW C \in SUBSET Channels, Drop(C), UNCHANGED <<deaths, handled>>
  PROVE  UNCHANGED Retry!retryVars
<1>1. \A m \in Messages : place'[m] = IF place[m] \in C THEN "ready" ELSE place[m]
  BY DropFacts
<1>2. \A c \in C : c \notin {"absent", "gone"}
  BY ChannelsArePending
<1>3. \A m \in Messages :
         \/ place'[m] = place[m]
         \/ {place[m], place'[m]} \cap {"absent", "gone"} = {}
  BY <1>1, <1>2
<1> QED BY <1>3, TaskStays

\* The steps of the broker: a new task, a stutter, a task submitted again.
LEMMA BrokerRefines ==
  ASSUME QueueInv, BrokerNext PROVE Retry!Next \/ UNCHANGED Retry!retryVars
<1>1. ASSUME NEW m \in Messages, Publish(m) PROVE Retry!Submit(m)
  <2>1. TaskState[m] = "absent" /\ TaskState'[m] = "pending"
    BY <1>1 DEF Publish, TaskState, QueueInv, TypeOK
  <2>2. TaskState' = [TaskState EXCEPT ![m] = "pending"]
    BY <1>1, <2>1, TaskMoves DEF Publish, QueueInv, TypeOK
  <2> QED BY <1>1, <2>1, <2>2 DEF Retry!Submit, Retry!Move, Publish
<1>2. ASSUME NEW m \in Messages, ExpireRetry(m) PROVE UNCHANGED Retry!retryVars
  <2>1. \A n \in Messages :
           \/ place'[n] = place[n]
           \/ {place[n], place'[n]} \cap {"absent", "gone"} = {}
    BY <1>2 DEF ExpireRetry, QueueInv, TypeOK
  <2> QED BY <1>2, <2>1, TaskStays DEF ExpireRetry
<1>3. ASSUME NEW m \in Messages, ReplayDeadLetter(m) PROVE Retry!Resubmit(m)
  <2>1. m \notin handled
    BY <1>3 DEF ReplayDeadLetter, QueueInv, Bookkeeping
  <2>2. TaskState[m] = "dead" /\ TaskState'[m] = "pending"
    BY <1>3, <2>1 DEF ReplayDeadLetter, TaskState, QueueInv, TypeOK
  <2>3. TaskState' = [TaskState EXCEPT ![m] = "pending"]
    BY <1>3, <2>2, TaskMoves DEF ReplayDeadLetter, QueueInv, TypeOK
  <2> QED BY <1>3, <2>2, <2>3 DEF Retry!Resubmit, Retry!Move, ReplayDeadLetter
<1>4. ASSUME NEW c \in Channels, CancelConsumer(c) PROVE UNCHANGED Retry!retryVars
  BY <1>4, TaskStays DEF CancelConsumer
<1> QED BY <1>1, <1>2, <1>3, <1>4 DEF BrokerNext, Retry!Next

\* The ways a delivery ends: success, a failure, giving up, or a stutter.
LEMMA HandlerRefines ==
  ASSUME QueueInv, NEW c \in Channels, NEW m \in Messages,
         HandleMessage(c, m) \/ DeadLetterCut(c, m)
  PROVE  Retry!Next \/ UNCHANGED Retry!retryVars
<1>1. TaskState[m] = "pending" \/ ~(\E s \in {"gone", "retry"} : Settle(c, m, s))
  BY SettleFacts, ChannelsArePending DEF TaskState
<1>2. CASE Ack(c, m)
  <2>1. Settle(c, m, "gone") /\ TaskState[m] = "pending"
    BY <1>1, <1>2 DEF Ack
  <2>2. TaskState'[m] = "done"
    BY <1>2, <2>1, SettleFacts DEF TaskState, Ack
  <2>3. TaskState' = [TaskState EXCEPT ![m] = "done"]
    BY <1>2, <2>1, <2>2, SettleFacts, TaskMoves DEF Ack
  <2>4. deaths[m] < MaxDeliveries /\ deaths' = deaths
    BY <1>2, DeliveriesAssumption DEF Ack, Exhausted, QueueInv, TypeOK
  <2>5. Retry!Succeed(m)
    BY <2>1, <2>3, <2>4 DEF Retry!Succeed, Retry!Move
  <2> QED BY <2>5 DEF Retry!Next
<1>3. CASE Nack(c, m)
  <2>1. Settle(c, m, "retry") /\ TaskState[m] = "pending"
    BY <1>1, <1>3 DEF Nack
  <2>2. TaskState'[m] = "pending"
    BY <2>1, SettleFacts DEF TaskState
  <2>3. TaskState' = [TaskState EXCEPT ![m] = "pending"]
    BY <1>3, <2>1, <2>2, SettleFacts, TaskMoves DEF Nack
  <2>4. TaskState' = TaskState
    BY <2>1, <2>3 DEF TaskState
  <2>5. deaths[m] < MaxDeliveries /\ deaths' = [deaths EXCEPT ![m] = @ + 1]
    BY <1>3, DeliveriesAssumption DEF Nack, Exhausted, QueueInv, TypeOK
  <2>6. Retry!Fail(m)
    BY <2>1, <2>4, <2>5 DEF Retry!Fail
  <2> QED BY <2>6 DEF Retry!Next
<1>4. CASE DeadLetter(c, m)
  <2>1. Settle(c, m, "gone") /\ TaskState[m] = "pending"
    BY <1>1, <1>4 DEF DeadLetter
  <2>2. TaskState'[m] = "dead"
    BY <1>4, <2>1, SettleFacts DEF TaskState, DeadLetter
  <2>3. TaskState' = [TaskState EXCEPT ![m] = "dead"]
    BY <1>4, <2>1, <2>2, SettleFacts, TaskMoves DEF DeadLetter
  <2>4. deaths[m] = MaxDeliveries /\ deaths' = deaths
    BY <1>4, DeliveriesAssumption DEF DeadLetter, Exhausted, QueueInv, TypeOK
  <2>5. Retry!GiveUp(m)
    BY <2>1, <2>3, <2>4 DEF Retry!GiveUp, Retry!Move
  <2> QED BY <2>5 DEF Retry!Next
<1>5. CASE SettleTooLate(c, m)
  <2>1. ChannelsOf(ProcessOf[c]) \in SUBSET Channels /\ Drop(ChannelsOf(ProcessOf[c]))
    BY <1>5 DEF SettleTooLate, Die, ChannelsOf
  <2> QED BY <1>5, <2>1, DropRefines DEF SettleTooLate, Die
<1>6. CASE DeadLetterCut(c, m)
  <2>1. {c} \in SUBSET Channels /\ Drop({c})
    BY <1>6 DEF DeadLetterCut
  <2> QED BY <1>6, <2>1, DropRefines DEF DeadLetterCut
<1> QED BY <1>2, <1>3, <1>4, <1>5, <1>6 DEF HandleMessage

\* The other steps of the consuming processes are stutters.
LEMMA ProcessRefines ==
  ASSUME QueueInv, ProcessNext PROVE Retry!Next \/ UNCHANGED Retry!retryVars
<1>1. ASSUME NEW p \in Processes, Crash(p) PROVE UNCHANGED Retry!retryVars
  <2>1. ChannelsOf(p) \in SUBSET Channels /\ Drop(ChannelsOf(p))
    BY <1>1 DEF Crash, Die, ChannelsOf
  <2> QED BY <1>1, <2>1, DropRefines DEF Crash, Die
<1>2. ASSUME NEW c \in Channels, OpenChannel(c) PROVE UNCHANGED Retry!retryVars
  BY <1>2, TaskStays DEF OpenChannel
<1>3. ASSUME NEW c \in Channels, LoseChannel(c) PROVE UNCHANGED Retry!retryVars
  <2>1. {c} \in SUBSET Channels /\ Drop({c})
    BY <1>3 DEF LoseChannel
  <2> QED BY <1>3, <2>1, DropRefines DEF LoseChannel
<1>4. ASSUME NEW c \in Channels, NEW m \in Messages, Deliver(c, m)
      PROVE  UNCHANGED Retry!retryVars
  <2>1. \A n \in Messages :
           \/ place'[n] = place[n]
           \/ {place[n], place'[n]} \cap {"absent", "gone"} = {}
    BY <1>4, ChannelsArePending DEF Deliver, QueueInv, TypeOK
  <2> QED BY <1>4, <2>1, TaskStays DEF Deliver
<1> QED BY <1>1, <1>2, <1>3, <1>4, HandlerRefines DEF ProcessNext

\* "bounded retry before the DLQ": whatever happens to channels and processes,
\* each message is a task that is retried, given up and resubmitted as
\* BoundedRetry says.
THEOREM Refinement == Spec => ImplementsRetry
<1>1. QueueInv /\ [Next]_queueVars => [Retry!Next]_(Retry!retryVars)
  <2> SUFFICES ASSUME QueueInv, [Next]_queueVars
               PROVE  Retry!Next \/ UNCHANGED Retry!retryVars
    OBVIOUS
  <2>1. CASE UNCHANGED queueVars
    BY <2>1, TaskStays DEF queueVars
  <2>2. CASE BrokerNext
    BY <2>2, BrokerRefines
  <2>3. CASE ProcessNext
    BY <2>3, ProcessRefines
  <2> QED BY <2>1, <2>2, <2>3 DEF Next
<1> QED BY <1>1, RefineInit, Invariance, PTL DEF Spec, ImplementsRetry, Retry!Spec
=============================================================================
