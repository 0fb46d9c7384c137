--------------------------- MODULE AmqpConnection ---------------------------
(***************************************************************************)
(* The RabbitMQ connection a process keeps, as RabbitMqConsumer            *)
(* (libs/shared-messaging/src/lib/rabbitmq-consumer.service.ts) and, with  *)
(* no subscription, RabbitMqPublisher (rabbitmq-publisher.service.ts) keep *)
(* it: connect(), teardown(), scheduleReconnect(), consume() and           *)
(* onModuleDestroy(), one action per await.                                *)
(*                                                                         *)
(* Connect calls are numbered 1, 2, ...; call k dials connection k and     *)
(* opens channel k on it.  Teardown 0 is the one of onModuleDestroy, and 0 *)
(* also stands for an undefined reference.  amqplib rejects what is        *)
(* pending on a connection in the tick that closes it, so a call awaiting  *)
(* a reply fails in the step that loses its connection.                    *)
(***************************************************************************)
EXTENDS Integers, Sequences

CONSTANTS
    Subs,    \* subscriptions: queues consume() is called for at most once
    MaxCalls \* bound: connect() calls; the last one meets no fault

ASSUME CallsAssumption == MaxCalls \in Nat \ {0}

Calls == 1..MaxCalls

VARIABLES
    pc,            \* pc[k]: the await call k is at, or how it ended
    victim,        \* victim[k]: the connection the teardown of k is closing
    next,          \* next[k]: the subscription call k restores next
    connection, channel, closing, timer, subscriptions, \* fields of the service
    openConns,     \* connections open at the broker
    openChans,     \* channels open at the broker
    serving,       \* serving[c][s]: consumers of s on channel c: 0, 1, 2 (more)
    asking,        \* asking[s]: the channel consume(s) awaits a reply on, 0: none
    exited,        \* the process ended because its start failed
    raced,         \* a connect() was in flight when onModuleDestroy ran
    overlapped,    \* subscriptions made while a connect() was restoring
    deaf           \* subscriptions the broker cancelled on the current channel

callVars == <<pc, victim, next>>
fieldVars == <<connection, channel, closing, timer, subscriptions>>
brokerVars == <<openConns, openChans, serving>>
history == <<raced, overlapped, deaf>>
vars == <<callVars, fieldVars, brokerVars, asking, exited, history>>

InFlight == {k \in Calls : pc[k] \in {"teardown", "dialing", "opening", "restoring"}}

Fresh == {k \in Calls : pc[k] = "unborn"}

\* The next connect() call to be made.
IsNext(k) == k \in Fresh /\ \A j \in Fresh : k <= j

Faulty(k) == k # MaxCalls

Running == ~exited

----------------------------------------------------------------------------
Init ==
    /\ pc = [k \in 0..MaxCalls |-> "unborn"]
    /\ victim = [k \in 0..MaxCalls |-> 0]
    /\ next = [k \in Calls |-> 1]
    /\ connection = 0 /\ channel = 0 /\ closing = FALSE /\ timer = FALSE
    /\ subscriptions = <<>>
    /\ openConns = {} /\ openChans = {}
    /\ serving = [c \in Calls |-> [s \in Subs |-> 0]]
    /\ asking = [s \in Subs |-> 0]
    /\ exited = FALSE /\ raced = FALSE /\ overlapped = {} /\ deaf = {}

\* Faulty variant of ScheduleReconnect: the dead channel stays in its field.
ScheduleKeepsChannel ==
    IF closing \/ timer THEN UNCHANGED <<timer, channel>>
    ELSE timer' = TRUE /\ UNCHANGED channel

ScheduleReconnect ==
    IF closing \/ timer THEN UNCHANGED <<timer, channel>>
    ELSE timer' = TRUE /\ channel' = 0

\* Faulty variant of OnClose: no identity check.
OnCloseAny(c) == ScheduleReconnect

\* The "close" listeners of connection c and of its channel: events of what the
\* service has replaced or dropped are ignored.
OnClose(c) ==
    IF c # 0 /\ c \in {connection, channel}
    THEN ScheduleReconnect
    ELSE UNCHANGED <<timer, channel>>

CutChannel(c) ==
    /\ openChans' = openChans \ {c}
    /\ serving' = [serving EXCEPT ![c] = [s \in Subs |-> 0]]

\* Connection c closes, and its channel and consumers with it.
Cut(c) == openConns' = openConns \ {c} /\ CutChannel(c)

\* teardown() up to its await: the fields are cleared, then the connection closed.
BeginTeardown(k) ==
    /\ pc' = [pc EXCEPT ![k] = "teardown"]
    /\ victim' = [victim EXCEPT ![k] = connection]
    /\ connection' = 0

\* The boot calls connect() once; the timer calls it for every reconnect.
Boot ==
    /\ Running /\ pc[1] = "unborn" /\ ~closing
    /\ BeginTeardown(1)
    /\ channel' = 0
    /\ UNCHANGED <<next, closing, timer, subscriptions, brokerVars, asking, exited, history>>

Reconnect(k) ==
    /\ Running /\ timer /\ k # 1 /\ IsNext(k)
    /\ timer' = FALSE
    /\ BeginTeardown(k)
    /\ channel' = 0
    /\ UNCHANGED <<next, closing, subscriptions, brokerVars, asking, exited, history>>

\* The process ends while starting: the rejection reaches bootstrap().
Exit ==
    /\ exited' = TRUE
    /\ openConns' = {} /\ openChans' = {}
    /\ serving' = [c \in Calls |-> [s \in Subs |-> 0]]
    /\ UNCHANGED <<callVars, fieldVars, asking, history>>

\* Somebody who starts the process awaits a reply on connection c.
StartsOn(c) == (c = 1 /\ 1 \in InFlight) \/ \E s \in Subs : asking[s] = c

\* Call k moves on to w; a call awaiting a reply on connection c has failed.
Moved(k, w, c) ==
    [j \in 0..MaxCalls |-> IF j = k THEN w
                           ELSE IF j = c /\ j \in InFlight THEN "failed"
                           ELSE pc[j]]

\* The await of teardown(): connection.close() resolves, or it was closed.
TornDown(k) ==
    /\ Running /\ pc[k] = "teardown"
    /\ IF victim[k] # 0 /\ StartsOn(victim[k]) THEN Exit
       ELSE /\ pc' = Moved(k, IF k = 0 THEN "returned" ELSE "dialing", victim[k])
            /\ victim' = [victim EXCEPT ![k] = 0]
            /\ IF victim[k] = 0 THEN UNCHANGED brokerVars ELSE Cut(victim[k])
            /\ OnClose(victim[k])
            /\ UNCHANGED <<next, connection, closing, subscriptions, asking, exited, history>>

\* amqp.connect() resolves.
Dialed(k) ==
    /\ Running /\ k \in Calls /\ pc[k] = "dialing"
    /\ pc' = [pc EXCEPT ![k] = "opening"]
    /\ openConns' = openConns \cup {k}
    /\ connection' = k
    /\ UNCHANGED <<victim, next, channel, closing, timer, subscriptions, openChans,
                   serving, asking, exited, history>>

\* amqp.connect() or createChannel() rejects: fatal at boot, retried later.
CallFails(k) ==
    /\ Running /\ Faulty(k) /\ pc[k] \in {"dialing", "opening"}
    /\ IF k = 1 THEN Exit
       ELSE /\ pc' = [pc EXCEPT ![k] = "failed"]
            /\ ScheduleReconnect
            /\ UNCHANGED <<victim, next, connection, closing, subscriptions, brokerVars,
                           asking, exited, history>>

ChannelOpened(k) ==
    /\ Running /\ k \in Calls /\ pc[k] = "opening"
    /\ pc' = [pc EXCEPT ![k] = "restoring"]
    /\ openChans' = openChans \cup {k}
    /\ channel' = k
    /\ deaf' = {}
    /\ UNCHANGED <<victim, next, connection, closing, timer, subscriptions, openConns,
                   serving, asking, exited, raced, overlapped>>

\* startConsume() resolves: one more consumer of s on channel c.
Serve(c, s) == serving' = [serving EXCEPT ![c][s] = IF @ = 0 THEN 1 ELSE 2]

\* Faulty variant of Restore: connect() does not replay the subscriptions.
RestoreNothing(k) ==
    /\ Running /\ k \in Calls /\ pc[k] = "restoring" /\ next[k] <= Len(subscriptions)
    /\ next' = [next EXCEPT ![k] = @ + 1]
    /\ UNCHANGED <<pc, victim, fieldVars, brokerVars, asking, exited, history>>

\* Faulty variant of Restore: the replay goes through consume(), which pushes.
RestorePushes(k) ==
    /\ Running /\ k \in Calls /\ pc[k] = "restoring" /\ next[k] <= Len(subscriptions)
    /\ Serve(k, subscriptions[next[k]])
    /\ subscriptions' = Append(subscriptions, subscriptions[next[k]])
    /\ next' = [next EXCEPT ![k] = @ + 1]
    /\ UNCHANGED <<pc, victim, connection, channel, closing, timer, openConns, openChans,
                   asking, exited, history>>

Restore(k) ==
    /\ Running /\ k \in Calls /\ pc[k] = "restoring" /\ next[k] <= Len(subscriptions)
    /\ Serve(k, subscriptions[next[k]])
    /\ next' = [next EXCEPT ![k] = @ + 1]
    /\ UNCHANGED <<pc, victim, fieldVars, openConns, openChans, asking, exited, history>>

Restored(k) ==
    /\ Running /\ k \in Calls /\ pc[k] = "restoring" /\ next[k] > Len(subscriptions)
    /\ pc' = [pc EXCEPT ![k] = "returned"]
    /\ UNCHANGED <<victim, next, fieldVars, brokerVars, asking, exited, history>>

\* The connection, or the channel alone, is lost.
Lose(c) ==
    /\ Running /\ Faulty(c)
    /\ IF StartsOn(c) THEN c \in openConns /\ Exit
       ELSE /\ \/ c \in openConns /\ Cut(c)
               \/ c \in openChans /\ CutChannel(c) /\ UNCHANGED openConns
            /\ pc' = [pc EXCEPT ![c] = IF c \in InFlight THEN "failed" ELSE @]
            /\ OnClose(c)
            /\ UNCHANGED <<victim, next, connection, closing, subscriptions, asking,
                           exited, history>>

\* consume(): a service subscribes while the application starts.
Consume(s) ==
    /\ Running /\ ~closing /\ pc[1] = "returned"
    /\ \A i \in 1..Len(subscriptions) : subscriptions[i] # s
    /\ IF channel = 0 THEN Exit
       ELSE /\ subscriptions' = Append(subscriptions, s)
            /\ asking' = [asking EXCEPT ![s] = channel]
            /\ overlapped' = IF pc[channel] = "restoring" THEN overlapped \cup {s}
                             ELSE overlapped
            /\ UNCHANGED <<callVars, connection, channel, closing, timer, brokerVars,
                           exited, raced, deaf>>

Consumed(s) ==
    /\ Running /\ asking[s] # 0
    /\ Serve(asking[s], s)
    /\ asking' = [asking EXCEPT ![s] = 0]
    /\ UNCHANGED <<callVars, fieldVars, openConns, openChans, exited, history>>

\* The broker cancels a consumer: the callback gets null and returns.
Cancel(c, s) ==
    /\ Running /\ Faulty(c) /\ c \in openChans /\ serving[c][s] # 0
    /\ serving' = [serving EXCEPT ![c][s] = 0]
    /\ deaf' = IF c = channel THEN deaf \cup {s} ELSE deaf
    /\ UNCHANGED <<callVars, fieldVars, openConns, openChans, asking, exited, raced, overlapped>>

\* Faulty variant of Destroy: the reconnect timer is not cleared.
DestroyKeepsTimer ==
    /\ Running /\ pc[1] = "returned" /\ ~closing
    /\ closing' = TRUE
    /\ raced' = (InFlight # {})
    /\ BeginTeardown(0)
    /\ channel' = 0
    /\ UNCHANGED <<next, timer, subscriptions, brokerVars, asking, exited, overlapped, deaf>>

\* onModuleDestroy().
Destroy ==
    /\ Running /\ pc[1] = "returned" /\ ~closing
    /\ closing' = TRUE /\ timer' = FALSE
    /\ raced' = (InFlight # {})
    /\ BeginTeardown(0)
    /\ channel' = 0
    /\ UNCHANGED <<next, subscriptions, brokerVars, asking, exited, overlapped, deaf>>

Next ==
    \/ Boot \/ Destroy
    \/ \E k \in 0..MaxCalls : TornDown(k)
    \/ \E k \in Calls :
         \/ Reconnect(k) \/ Dialed(k) \/ CallFails(k) \/ ChannelOpened(k)
         \/ Restore(k) \/ Restored(k) \/ Lose(k)
    \/ \E s \in Subs : Consume(s) \/ Consumed(s) \/ \E c \in Calls : Cancel(c, s)

Spec == Init /\ [][Next]_vars

\* Timers fire, the broker answers in the end, and the service subscribes.
Progress(k) ==
    \/ Reconnect(k) \/ TornDown(k) \/ Dialed(k) \/ ChannelOpened(k)
    \/ Restore(k) \/ Restored(k)

FairSpec ==
    /\ Spec
    /\ WF_vars(Boot)
    /\ \A k \in Calls : WF_vars(Progress(k))
    /\ WF_vars(TornDown(0))
    /\ \A s \in Subs : WF_vars(Consumed(s))
----------------------------------------------------------------------------
TypeOK ==
    /\ pc[0] \in {"unborn", "teardown", "returned"}
    /\ pc \in [0..MaxCalls -> {"unborn", "teardown", "dialing", "opening", "restoring",
                               "returned", "failed"}]
    /\ victim \in [0..MaxCalls -> 0..MaxCalls]
    /\ next \in [Calls -> Nat \ {0}]
    /\ connection \in 0..MaxCalls /\ channel \in 0..MaxCalls
    /\ closing \in BOOLEAN /\ timer \in BOOLEAN
    /\ subscriptions \in Seq(Subs)
    /\ openConns \subseteq Calls /\ openChans \subseteq Calls
    /\ serving \in [Calls -> [Subs -> 0..2]]
    /\ asking \in [Subs -> 0..MaxCalls]
    /\ exited \in BOOLEAN /\ raced \in BOOLEAN
    /\ overlapped \subseteq Subs /\ deaf \subseteq Subs

\* One connect() runs at a time, and none is scheduled while one runs: the
\* events of a replaced connection and a failing call never start a second one.
OneConnectAtATime ==
    /\ \A j, k \in InFlight : j = k
    /\ timer => InFlight = {}

\* An open connection is the one in the field or one that a teardown is
\* closing; two are never kept.  After onModuleDestroy is through, one is open
\* only if a connect() was in flight when it ran: nothing closes that one.
NoConnectionLeft ==
    /\ \A c \in openConns : c = connection \/ \E k \in 0..MaxCalls : victim[k] = c
    /\ pc[0] = "returned" /\ ~raced => openConns = {}

\* Until the service closes, a channel in the field is open, so that publish()
\* and consume() fail at once in a reconnect instead of writing to a dead channel.
FieldIsUsable == Running /\ ~closing /\ channel # 0 => channel \in openChans

\* A queue has at most one consumer on the channel, unless consume() ran while
\* a reconnect was replaying the subscriptions: the loop reads the list live.
OneConsumerPerQueue ==
    \A c \in openChans, s \in Subs : serving[c][s] = 2 => s \in overlapped

\* Every queue subscribed to is consumed again after a loss of the connection
\* or of the channel; a consumer the broker cancels is not, until the next loss.
EveryQueueServed ==
    \A s \in Subs :
        (\E i \in 1..Len(subscriptions) : subscriptions[i] = s)
            ~> \/ channel # 0 /\ serving[channel][s] # 0
               \/ s \in deaf \/ closing \/ exited
=============================================================================
