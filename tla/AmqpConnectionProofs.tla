------------------------ MODULE AmqpConnectionProofs ------------------------
(***************************************************************************)
(* Proofs about AmqpConnection, for every set of subscriptions and every   *)
(* number of connect() calls.  The inductive invariant is ConnInv: what    *)
(* connection, channel and timer hold is a function of where the one call  *)
(* in flight stands, and a connection outside the field is being closed.   *)
(* Consumers adds whom the broker serves: on a channel that replays, the   *)
(* subscriptions before the cursor of the replay.                          *)
(***************************************************************************)
EXTENDS AmqpConnection, TLAPS

\* The timer is armed only while the fields hold no channel and nobody closes.
TimerIsQuiet == timer => channel = 0 /\ ~closing

\* connect() clears both fields before it dials.
DialsFromNothing ==
    \A k \in Calls : pc[k] \in {"teardown", "dialing"} => connection = 0 /\ channel = 0

\* Past the dial, the field holds the call's own connection.
OpensOwnConnection ==
    \A k \in Calls :
        pc[k] \in {"opening", "restoring"} /\ ~closing /\ Running => connection = k

\* The channel in the field is open, and on the connection in the field.
ChannelOnConnection ==
    Running /\ ~closing /\ channel # 0 => channel \in openChans /\ connection = channel

\* An open connection is in the field, or some teardown is closing it.
OpenIsHeld == \A c \in openConns : c = connection \/ \E k \in 0..MaxCalls : victim[k] = c

VictimsAreClosing == \A k \in 0..MaxCalls : victim[k] # 0 => pc[k] = "teardown"

\* A shutdown that met no connect() in flight leaves nothing to reconnect.
QuietShutdown == closing /\ ~raced => InFlight = {} /\ ~timer /\ connection = 0 /\ channel = 0

ClosingIsTeardown == closing <=> pc[0] # "unborn"

\* Until the boot has called connect(), nothing else has.
BootIsFirst == pc[1] = "unborn" => ~timer /\ \A k \in Calls : pc[k] = "unborn"

\* A connection in the field, under a teardown or with a channel has been dialed.
HeldIsDialed ==
    \A c \in Calls :
        c = connection \/ (\E k \in 0..MaxCalls : victim[k] = c) \/ c \in openChans
            => pc[c] \notin {"unborn", "teardown", "dialing"}

Order ==
    /\ OneConnectAtATime
    /\ TimerIsQuiet
    /\ DialsFromNothing
    /\ OpensOwnConnection
    /\ ChannelOnConnection
    /\ OpenIsHeld
    /\ VictimsAreClosing
    /\ QuietShutdown
    /\ ClosingIsTeardown
    /\ BootIsFirst
    /\ HeldIsDialed

ConnInv == TypeOK /\ Order

\* The consumers.  consume() is called once for a queue.
SubscribedOnce ==
    \A i, j \in 1..Len(subscriptions) : subscriptions[i] = subscriptions[j] => i = j

\* Nothing is consumed on a channel that is not open.
ClosedIsSilent == \A c \in Calls, s \in Subs : c \notin openChans => serving[c][s] = 0

\* What is or is about to be consumed has been subscribed to.
ServedIsSubscribed ==
    \A s \in Subs :
        asking[s] # 0 \/ (\E c \in openChans : serving[c][s] # 0)
            => \E i \in 1..Len(subscriptions) : subscriptions[i] = s

\* A consume() that awaits its reply does so on an open channel: losing that one
\* ends the process.
AskingIsOpen == \A s \in Subs : Running /\ asking[s] # 0 => asking[s] \in openChans

\* A channel is open only after its call began to replay, and while it replays.
OpenIsReplayed ==
    /\ \A c \in openChans : pc[c] \in {"restoring", "returned"}
    /\ \A c \in Calls : Running /\ pc[c] = "restoring" => c \in openChans

\* While a call replays, only what it has come past is consumed on its channel.
ReplayedInOrder ==
    \A c \in openChans, s \in Subs \ overlapped :
        pc[c] = "restoring" =>
            /\ asking[s] # c
            /\ serving[c][s] # 0 =>
                  \E i \in 1..Len(subscriptions) : i < next[c] /\ subscriptions[i] = s

\* A consume() that awaits its reply is the first on its channel.
AsksFirst ==
    \A c \in openChans, s \in Subs \ overlapped : asking[s] = c => serving[c][s] = 0

Consumers ==
    /\ SubscribedOnce
    /\ ClosedIsSilent
    /\ ServedIsSubscribed
    /\ AskingIsOpen
    /\ OpenIsReplayed
    /\ ReplayedInOrder
    /\ AsksFirst
    /\ OneConsumerPerQueue

----------------------------------------------------------------------------
\* Calls are the numbers 1..MaxCalls; 0 is not one.
LEMMA CallsFacts ==
  /\ Calls \subseteq 0..MaxCalls /\ 0 \notin Calls /\ 1 \in Calls
  /\ 0 \in 0..MaxCalls /\ MaxCalls \in Nat \ {0}
  /\ \A k \in 0..MaxCalls : k # 0 => k \in Calls
  BY CallsAssumption DEF Calls

\* The initial state is well typed.
LEMMA InitType == Init => TypeOK
  BY CallsFacts DEF Init, TypeOK, Calls

\* A consumer added or taken away keeps the counts in their range.
LEMMA ServingType ==
  ASSUME TypeOK, NEW c \in 0..MaxCalls, NEW s \in Subs
  PROVE  /\ serving' = [serving EXCEPT ![c][s] = 0]
              => serving' \in [Calls -> [Subs -> 0..2]]
         /\ Serve(c, s) => serving' \in [Calls -> [Subs -> 0..2]]
<1>1. ASSUME NEW n \in 0..2, serving' = [serving EXCEPT ![c][s] = n]
      PROVE  serving' \in [Calls -> [Subs -> 0..2]]
  BY <1>1 DEF TypeOK
<1>2. ASSUME Serve(c, s)
      PROVE  \E n \in 0..2 : serving' = [serving EXCEPT ![c][s] = n]
  <2>1. serving' = [serving EXCEPT ![c][s] = IF serving[c][s] = 0 THEN 1 ELSE 2]
    BY <1>2 DEF Serve
  <2>2. CASE serving[c][s] = 0
    BY <2>1, <2>2
  <2>3. CASE serving[c][s] # 0
    BY <2>1, <2>3
  <2> QED
    BY <2>2, <2>3
<1> QED
  BY <1>1, <1>2

\* So does a process without consumers.
LEMMA NoneServing == [d \in Calls |-> [t \in Subs |-> 0]] \in [Calls -> [Subs -> 0..2]]
<1>1. [t \in Subs |-> 0] \in [Subs -> 0..2]
  OBVIOUS
<1> QED
  BY <1>1

\* A channel that closes leaves well-typed consumers behind.
LEMMA CutType ==
  ASSUME TypeOK, NEW c \in 0..MaxCalls, CutChannel(c)
  PROVE  openChans' \subseteq openChans /\ serving' \in [Calls -> [Subs -> 0..2]]
<1>1. [t \in Subs |-> 0] \in [Subs -> 0..2]
  OBVIOUS
<1>2. [serving EXCEPT ![c] = [t \in Subs |-> 0]] \in [Calls -> [Subs -> 0..2]]
  BY <1>1 DEF TypeOK
<1> QED
  BY <1>2 DEF CutChannel

\* Every step keeps the types.
LEMMA StepType == ASSUME TypeOK, [Next]_vars PROVE TypeOK'
<1> USE CallsFacts DEF callVars, fieldVars, brokerVars, history
<1>1. CASE Boot
  BY <1>1 DEF Boot, BeginTeardown, TypeOK
<1>2. CASE Destroy
  BY <1>2 DEF Destroy, BeginTeardown, TypeOK
<1>0. ASSUME Exit PROVE TypeOK'
  BY <1>0, NoneServing DEF Exit, TypeOK
<1>3. ASSUME NEW k \in 0..MaxCalls, TornDown(k) PROVE TypeOK'
  <2>1. CASE victim[k] # 0 /\ StartsOn(victim[k])
    BY <1>3, <2>1, <1>0 DEF TornDown
  <2>2. CASE ~(victim[k] # 0 /\ StartsOn(victim[k]))
    <3>1. /\ pc' = Moved(k, IF k = 0 THEN "returned" ELSE "dialing", victim[k])
          /\ victim' = [victim EXCEPT ![k] = 0]
          /\ UNCHANGED <<next, connection, closing, subscriptions, asking, exited, history>>
      BY <1>3, <2>2 DEF TornDown
    <3>2. /\ openConns' \subseteq openConns /\ openChans' \subseteq openChans
          /\ serving' \in [Calls -> [Subs -> 0..2]]
      BY <1>3, <2>2, CutType DEF TornDown, Cut, TypeOK
    <3>3. timer' \in BOOLEAN /\ channel' \in 0..MaxCalls
      BY <1>3, <2>2 DEF TornDown, OnClose, ScheduleReconnect, TypeOK
    <3>4. /\ pc' \in [0..MaxCalls -> {"unborn", "teardown", "dialing", "opening",
                                      "restoring", "returned", "failed"}]
          /\ pc'[0] \in {"unborn", "teardown", "returned"}
      BY <3>1 DEF Moved, InFlight, TypeOK
    <3> QED
      BY <3>1, <3>2, <3>3, <3>4 DEF TypeOK
  <2> QED
    BY <2>1, <2>2
<1>4. ASSUME NEW k \in Calls, Reconnect(k) PROVE TypeOK'
  BY <1>4 DEF Reconnect, BeginTeardown, TypeOK
<1>5. ASSUME NEW k \in Calls, Dialed(k) PROVE TypeOK'
  BY <1>5 DEF Dialed, TypeOK
<1>6. ASSUME NEW k \in Calls, CallFails(k) PROVE TypeOK'
  BY <1>6, <1>0 DEF CallFails, ScheduleReconnect, TypeOK
<1>7. ASSUME NEW k \in Calls, ChannelOpened(k) PROVE TypeOK'
  BY <1>7 DEF ChannelOpened, TypeOK
<1>8. ASSUME NEW k \in Calls, Restore(k) PROVE TypeOK'
  <2>1. subscriptions[next[k]] \in Subs
    <3>1. /\ next[k] \in Nat \ {0} /\ next[k] <= Len(subscriptions)
          /\ subscriptions \in Seq(Subs)
      BY <1>8 DEF Restore, TypeOK
    <3> QED
      BY <3>1
  <2> QED
    <3>1. Serve(k, subscriptions[next[k]]) /\ k \in 0..MaxCalls
      BY <1>8 DEF Restore
    <3>2. serving' \in [Calls -> [Subs -> 0..2]]
      BY <2>1, <3>1, ServingType
    <3>3. /\ next' = [next EXCEPT ![k] = @ + 1]
          /\ UNCHANGED <<pc, victim, fieldVars, openConns, openChans, asking, exited, history>>
      BY <1>8 DEF Restore
    <3>4. next' \in [Calls -> Nat \ {0}]
      <4>1. next \in [Calls -> Nat \ {0}] /\ next[k] \in Nat \ {0}
        BY <1>8 DEF TypeOK
      <4>2. next[k] + 1 \in Nat \ {0}
        BY <4>1
      <4> QED
        BY <3>3, <4>1, <4>2
    <3> QED
      BY <3>2, <3>3, <3>4 DEF TypeOK
<1>9. ASSUME NEW k \in Calls, Restored(k) PROVE TypeOK'
  BY <1>9 DEF Restored, TypeOK
<1>10. ASSUME NEW k \in Calls, Lose(k) PROVE TypeOK'
  <2>1. CASE StartsOn(k)
    BY <1>10, <2>1, <1>0 DEF Lose
  <2>2. CASE ~StartsOn(k)
    <3>1. /\ openConns' \subseteq openConns /\ openChans' \subseteq openChans
          /\ serving' \in [Calls -> [Subs -> 0..2]]
      BY <1>10, <2>2, CutType DEF Lose, Cut, TypeOK
    <3>2. timer' \in BOOLEAN /\ channel' \in 0..MaxCalls
      BY <1>10, <2>2 DEF Lose, OnClose, ScheduleReconnect, TypeOK
    <3> QED
      BY <1>10, <2>2, <3>1, <3>2 DEF Lose, TypeOK
  <2> QED
    BY <2>1, <2>2
<1>11. ASSUME NEW s \in Subs, Consume(s) PROVE TypeOK'
  <2>1. CASE channel = 0
    BY <1>11, <2>1, <1>0 DEF Consume
  <2>2. CASE channel # 0
    <3>1. Append(subscriptions, s) \in Seq(Subs)
      BY DEF TypeOK
    <3>2. overlapped' \subseteq Subs
      BY <1>11, <2>2 DEF Consume, TypeOK
    <3>3. asking' \in [Subs -> 0..MaxCalls]
      BY <1>11, <2>2 DEF Consume, TypeOK
    <3> QED
      BY <1>11, <2>2, <3>1, <3>2, <3>3 DEF Consume, TypeOK
  <2> QED
    BY <2>1, <2>2
<1>12. ASSUME NEW s \in Subs, Consumed(s) PROVE TypeOK'
  BY <1>12, ServingType DEF Consumed, TypeOK
<1>13. ASSUME NEW s \in Subs, NEW c \in Calls, Cancel(c, s) PROVE TypeOK'
  BY <1>13, ServingType DEF Cancel, TypeOK
<1>14. CASE UNCHANGED vars
  BY <1>14 DEF vars, TypeOK
<1> QED
  BY <1>1, <1>2, <1>3, <1>4, <1>5, <1>6, <1>7, <1>8, <1>9, <1>10, <1>11, <1>12,
     <1>13, <1>14 DEF Next

----------------------------------------------------------------------------
\* The variables Order speaks of.
orderVars == <<pc, victim, connection, channel, closing, timer, openConns, openChans,
               exited, raced>>

\* A step that leaves these alone keeps the order.
LEMMA OrderUnchanged == Order /\ UNCHANGED orderVars => Order'
  BY DEF Order, orderVars, OneConnectAtATime, TimerIsQuiet, DialsFromNothing,
     OpensOwnConnection, ChannelOnConnection, OpenIsHeld, VictimsAreClosing,
     QuietShutdown, ClosingIsTeardown, BootIsFirst, HeldIsDialed, InFlight, Running

\* A call begins: the connection in the field, if any, is now its victim.
LEMMA BeginOrder ==
  ASSUME TypeOK, Order, NEW k \in 0..MaxCalls, pc[k] = "unborn", BeginTeardown(k),
         channel' = 0, ~timer', UNCHANGED <<openConns, openChans, exited>>,
         \/ /\ k = 1 \/ (k # 0 /\ pc[1] # "unborn")
            /\ InFlight = {} /\ ~closing /\ UNCHANGED <<closing, raced>>
         \/ k = 0 /\ closing' /\ raced' = (InFlight # {})
  PROVE  Order'
<1> USE CallsFacts
<1>1. /\ pc'[k] = "teardown" /\ \A j \in 0..MaxCalls : j # k => pc'[j] = pc[j]
      /\ victim'[k] = connection /\ \A j \in 0..MaxCalls : j # k => victim'[j] = victim[j]
      /\ connection' = 0
  BY DEF BeginTeardown, TypeOK
<1>2. victim[k] = 0
  BY DEF Order, VictimsAreClosing
<1>3. InFlight' = InFlight \cup (IF k = 0 THEN {} ELSE {k})
  BY <1>1 DEF InFlight
<1>4. OneConnectAtATime'
  BY <1>3 DEF Order, OneConnectAtATime
<1>5. TimerIsQuiet'
  BY DEF TimerIsQuiet
<1>6. DialsFromNothing'
  BY <1>1 DEF DialsFromNothing
<1>7. OpensOwnConnection'
  BY <1>1 DEF Order, OpensOwnConnection, InFlight, Running
<1>8. ChannelOnConnection'
  BY DEF ChannelOnConnection
<1>9. OpenIsHeld'
  <2>1. ASSUME NEW c \in openConns
        PROVE  \E j \in 0..MaxCalls : victim'[j] = c
    <3>1. CASE c = connection
      BY <1>1, <3>1
    <3>2. CASE c # connection
      <4>1. PICK j \in 0..MaxCalls : victim[j] = c
        BY <3>2 DEF Order, OpenIsHeld
      <4>2. j # k
        BY <1>2, <4>1 DEF TypeOK
      <4> QED
        BY <1>1, <4>1, <4>2
    <3> QED
      BY <3>1, <3>2
  <2> QED
    BY <2>1 DEF OpenIsHeld
<1>10. VictimsAreClosing'
  BY <1>1 DEF Order, VictimsAreClosing
<1>11. QuietShutdown'
  BY <1>1, <1>3 DEF QuietShutdown
<1>12. ClosingIsTeardown'
  BY <1>1 DEF Order, ClosingIsTeardown
<1>13. BootIsFirst'
  BY <1>1, <1>3 DEF Order, BootIsFirst
<1>14. HeldIsDialed'
  BY <1>1 DEF Order, HeldIsDialed
<1> QED
  BY <1>4, <1>5, <1>6, <1>7, <1>8, <1>9, <1>10, <1>11, <1>12, <1>13, <1>14 DEF Order

\* A process that ends has no connection left.
LEMMA ExitOrder == ASSUME TypeOK, Order, Exit PROVE Order'
<1>1. /\ UNCHANGED <<pc, victim, connection, channel, closing, timer, raced>>
      /\ exited' = TRUE /\ openConns' = {} /\ openChans' = {}
  BY DEF Exit, callVars, fieldVars, history
<1>2. InFlight' = InFlight /\ ~Running'
  BY <1>1 DEF InFlight, Running
<1>3. OneConnectAtATime' /\ TimerIsQuiet' /\ QuietShutdown' /\ ChannelOnConnection'
  BY <1>1, <1>2 DEF Order, OneConnectAtATime, TimerIsQuiet, QuietShutdown,
     ChannelOnConnection
<1>4. DialsFromNothing' /\ OpensOwnConnection'
  BY <1>1, <1>2 DEF Order, DialsFromNothing, OpensOwnConnection
<1>5. /\ OpenIsHeld' /\ VictimsAreClosing' /\ ClosingIsTeardown' /\ BootIsFirst'
      /\ HeldIsDialed'
  BY <1>1 DEF Order, OpenIsHeld, VictimsAreClosing, ClosingIsTeardown, BootIsFirst,
     HeldIsDialed
<1> QED
  BY <1>3, <1>4, <1>5 DEF Order

\* A teardown that is through has closed its victim and schedules nothing.
LEMMA TornDownOrder ==
  ASSUME TypeOK, Order, NEW k \in 0..MaxCalls, TornDown(k)
  PROVE  Order'
<1> USE CallsFacts
<1>1. CASE victim[k] # 0 /\ StartsOn(victim[k])
  BY <1>1, ExitOrder DEF TornDown
<1>2. CASE ~(victim[k] # 0 /\ StartsOn(victim[k]))
  <2>1. k # 0 => k \in InFlight /\ connection = 0 /\ channel = 0
    BY DEF TornDown, InFlight, Order, DialsFromNothing
  <2>2. k = 0 => closing
    BY DEF TornDown, Order, ClosingIsTeardown
  \* Whose connection it is, no reconnect is scheduled.
  <2>3. UNCHANGED <<timer, channel>>
    BY <1>2, <2>1, <2>2 DEF TornDown, OnClose, ScheduleReconnect
  <2>4. /\ victim' = [victim EXCEPT ![k] = 0]
        /\ pc' = Moved(k, IF k = 0 THEN "returned" ELSE "dialing", victim[k])
        /\ UNCHANGED <<connection, closing, exited, raced>>
    BY <1>2 DEF TornDown, history
  <2>5. /\ pc'[k] = (IF k = 0 THEN "returned" ELSE "dialing")
        /\ \A j \in 0..MaxCalls : j # k => \/ pc'[j] = pc[j]
                                           \/ j \in InFlight /\ pc'[j] = "failed"
    BY <2>4 DEF Moved
  <2>6. /\ victim'[k] = 0 /\ \A j \in 0..MaxCalls : j # k => victim'[j] = victim[j]
    BY <2>4 DEF TypeOK
  <2>7. InFlight' \subseteq InFlight
    BY <2>1, <2>5 DEF InFlight
  <2>8. /\ openConns' = openConns \ {victim[k]}
        /\ openChans' = openChans \ {victim[k]}
    <3>1. CASE victim[k] = 0
      <4>1. 0 \notin openConns /\ 0 \notin openChans
        BY DEF TypeOK
      <4>2. UNCHANGED <<openConns, openChans>>
        BY <1>2, <3>1 DEF TornDown, brokerVars
      <4> QED
        BY <3>1, <4>1, <4>2
    <3>2. CASE victim[k] # 0
      BY <1>2, <3>2 DEF TornDown, Cut, CutChannel
    <3> QED
      BY <3>1, <3>2
  <2>9. OneConnectAtATime' /\ TimerIsQuiet' /\ QuietShutdown'
    BY <2>3, <2>4, <2>7 DEF Order, OneConnectAtATime, TimerIsQuiet, QuietShutdown
  <2>10. DialsFromNothing'
    BY <2>1, <2>3, <2>4, <2>5 DEF Order, DialsFromNothing
  <2>11. OpensOwnConnection'
    BY <2>4, <2>5 DEF Order, OpensOwnConnection, Running
  <2>12. ChannelOnConnection'
    BY <2>1, <2>2, <2>3, <2>4 DEF ChannelOnConnection, Running
  <2>13. OpenIsHeld'
    BY <2>4, <2>6, <2>8 DEF Order, OpenIsHeld, TypeOK
  <2>14. VictimsAreClosing'
    <3>1. ASSUME NEW j \in 0..MaxCalls, victim'[j] # 0
          PROVE  pc'[j] = "teardown"
      <4>1. j # k /\ victim[j] # 0 /\ pc[j] = "teardown"
        BY <2>6, <3>1 DEF Order, VictimsAreClosing
      <4>2. j = 0 \/ (k = 0 /\ j \in Calls)
        BY <2>1, <4>1 DEF Order, OneConnectAtATime, InFlight
      <4>3. j = victim[k] => j \notin Calls
        BY <4>1 DEF Order, HeldIsDialed
      <4>4. pc'[j] = pc[j]
        BY <2>4, <4>1, <4>2, <4>3 DEF Moved, InFlight
      <4> QED
        BY <4>1, <4>4
    <3> QED
      BY <3>1 DEF VictimsAreClosing
  <2>15. ClosingIsTeardown'
    BY <2>1, <2>2, <2>4, <2>5 DEF Order, ClosingIsTeardown, InFlight
  <2>16. BootIsFirst'
    BY <2>1, <2>3, <2>5, <2>7 DEF Order, BootIsFirst, InFlight
  <2>17. HeldIsDialed'
    <3>1. ASSUME NEW c \in Calls,
                 \/ c = connection \/ (\E j \in 0..MaxCalls : victim'[j] = c)
                 \/ c \in openChans
          PROVE  pc'[c] \notin {"unborn", "teardown", "dialing"}
      <4>1. \/ c = connection \/ (\E j \in 0..MaxCalls : victim[j] = c)
            \/ c \in openChans
        BY <2>6, <3>1
      <4>2. pc[c] \notin {"unborn", "teardown", "dialing"}
        BY <3>1, <4>1 DEF Order, HeldIsDialed
      <4>3. c # k /\ c \in 0..MaxCalls
        BY <3>1, <4>2 DEF TornDown
      <4> QED
        BY <2>5, <4>2, <4>3
    <3> QED
      BY <2>4, <2>8, <3>1 DEF HeldIsDialed
  <2> QED
    BY <2>9, <2>10, <2>11, <2>12, <2>13, <2>14, <2>15, <2>16, <2>17 DEF Order
<1> QED
  BY <1>1, <1>2

\* A dial that is answered fills an empty field.
LEMMA DialedOrder ==
  ASSUME TypeOK, Order, NEW k \in Calls, Dialed(k)
  PROVE  Order'
<1> USE CallsFacts
<1>1. /\ k \in InFlight /\ connection = 0 /\ channel = 0
      /\ pc[k] = "dialing"
  BY DEF Dialed, InFlight, Order, DialsFromNothing
<1>2. /\ pc'[k] = "opening" /\ \A j \in 0..MaxCalls : j # k => pc'[j] = pc[j]
      /\ openConns' = openConns \cup {k} /\ connection' = k
      /\ UNCHANGED <<victim, channel, closing, timer, openChans, exited, raced>>
  BY DEF Dialed, TypeOK, history
<1>3. InFlight' = InFlight
  BY <1>1, <1>2 DEF InFlight
<1>4. OneConnectAtATime' /\ TimerIsQuiet' /\ QuietShutdown' /\ ChannelOnConnection'
  BY <1>1, <1>2, <1>3 DEF Order, OneConnectAtATime, TimerIsQuiet, QuietShutdown,
     ChannelOnConnection
<1>5. DialsFromNothing' /\ OpensOwnConnection'
  BY <1>1, <1>2 DEF Order, OneConnectAtATime, InFlight, DialsFromNothing, OpensOwnConnection
<1>6. OpenIsHeld'
  BY <1>1, <1>2 DEF Order, OpenIsHeld, TypeOK
<1>7. VictimsAreClosing' /\ ClosingIsTeardown' /\ BootIsFirst'
  BY <1>1, <1>2, <1>3 DEF Order, VictimsAreClosing, ClosingIsTeardown, BootIsFirst
<1>8. HeldIsDialed'
  BY <1>1, <1>2 DEF Order, HeldIsDialed
<1> QED
  BY <1>4, <1>5, <1>6, <1>7, <1>8 DEF Order

\* A call that fails was the only one, and arms the timer unless closing.
LEMMA CallFailsOrder ==
  ASSUME TypeOK, Order, NEW k \in Calls, CallFails(k)
  PROVE  Order'
<1> USE CallsFacts
<1>1. CASE k = 1
  BY <1>1, ExitOrder DEF CallFails
<1>2. CASE k # 1
  <2>1. k \in InFlight /\ ~timer
    BY DEF CallFails, InFlight, Order, OneConnectAtATime
  <2>2. /\ pc'[k] = "failed" /\ \A j \in 0..MaxCalls : j # k => pc'[j] = pc[j]
        /\ UNCHANGED <<victim, connection, closing, openConns, openChans, exited, raced>>
        /\ IF closing THEN UNCHANGED <<timer, channel>> ELSE timer' = TRUE /\ channel' = 0
    BY <1>2, <2>1 DEF CallFails, ScheduleReconnect, TypeOK, history, brokerVars
  <2>3. InFlight' = {}
    BY <2>1, <2>2 DEF Order, OneConnectAtATime, InFlight
  <2>4. OneConnectAtATime' /\ TimerIsQuiet' /\ QuietShutdown' /\ ChannelOnConnection'
    BY <2>1, <2>2, <2>3 DEF Order, OneConnectAtATime, TimerIsQuiet, QuietShutdown,
       ChannelOnConnection, Running
  <2>5. DialsFromNothing' /\ OpensOwnConnection'
    BY <2>3 DEF InFlight, DialsFromNothing, OpensOwnConnection
  <2>6. OpenIsHeld' /\ VictimsAreClosing' /\ ClosingIsTeardown' /\ HeldIsDialed'
    BY <2>1, <2>2 DEF Order, OpenIsHeld, VictimsAreClosing, ClosingIsTeardown,
       HeldIsDialed, InFlight, CallFails
  <2>7. BootIsFirst'
    BY <1>2, <2>2 DEF Order, BootIsFirst, CallFails
  <2> QED
    BY <2>4, <2>5, <2>6, <2>7 DEF Order
<1> QED
  BY <1>1, <1>2

\* A channel opens on the connection in the field.
LEMMA ChannelOpenedOrder ==
  ASSUME TypeOK, Order, NEW k \in Calls, ChannelOpened(k)
  PROVE  Order'
<1> USE CallsFacts
<1>1. k \in InFlight /\ ~timer /\ pc[k] = "opening" /\ Running
  BY DEF ChannelOpened, InFlight, Order, OneConnectAtATime
<1>2. /\ pc'[k] = "restoring" /\ \A j \in 0..MaxCalls : j # k => pc'[j] = pc[j]
      /\ openChans' = openChans \cup {k} /\ channel' = k
      /\ UNCHANGED <<victim, connection, closing, timer, openConns, exited, raced>>
  BY DEF ChannelOpened, TypeOK
<1>3. InFlight' = InFlight /\ (~closing => connection = k)
  BY <1>1, <1>2 DEF InFlight, Order, OpensOwnConnection
<1>4. OneConnectAtATime' /\ TimerIsQuiet' /\ QuietShutdown' /\ ChannelOnConnection'
  BY <1>1, <1>2, <1>3 DEF Order, OneConnectAtATime, TimerIsQuiet, QuietShutdown,
     ChannelOnConnection, Running
<1>5. DialsFromNothing' /\ OpensOwnConnection'
  BY <1>1, <1>2, <1>3 DEF Order, OneConnectAtATime, InFlight, DialsFromNothing,
     OpensOwnConnection, Running
<1>6. /\ OpenIsHeld' /\ VictimsAreClosing' /\ ClosingIsTeardown' /\ BootIsFirst'
      /\ HeldIsDialed'
  BY <1>1, <1>2, <1>3 DEF Order, OpenIsHeld, VictimsAreClosing, ClosingIsTeardown,
     BootIsFirst, HeldIsDialed
<1> QED
  BY <1>4, <1>5, <1>6 DEF Order

\* A call that returns leaves the fields alone.
LEMMA RestoredOrder ==
  ASSUME TypeOK, Order, NEW k \in Calls, Restored(k)
  PROVE  Order'
<1> USE CallsFacts
<1>1. /\ k \in InFlight /\ pc[k] = "restoring"
      /\ pc'[k] = "returned" /\ \A j \in 0..MaxCalls : j # k => pc'[j] = pc[j]
      /\ UNCHANGED <<victim, connection, channel, closing, timer, openConns, openChans,
                     exited, raced>>
  BY DEF Restored, InFlight, TypeOK, fieldVars, brokerVars, history
<1>2. InFlight' \subseteq InFlight
  BY <1>1 DEF InFlight
<1>3. OneConnectAtATime' /\ TimerIsQuiet' /\ QuietShutdown' /\ ChannelOnConnection'
  BY <1>1, <1>2 DEF Order, OneConnectAtATime, TimerIsQuiet, QuietShutdown,
     ChannelOnConnection, Running
<1>4. DialsFromNothing' /\ OpensOwnConnection'
  BY <1>1 DEF Order, DialsFromNothing, OpensOwnConnection, Running
<1>5. /\ OpenIsHeld' /\ VictimsAreClosing' /\ ClosingIsTeardown' /\ BootIsFirst'
      /\ HeldIsDialed'
  BY <1>1 DEF Order, OpenIsHeld, VictimsAreClosing, ClosingIsTeardown, BootIsFirst,
     HeldIsDialed
<1> QED
  BY <1>3, <1>4, <1>5 DEF Order

\* A loss arms the timer only if it ends the call in flight, if there is one.
LEMMA LoseOrder ==
  ASSUME TypeOK, Order, NEW c \in Calls, Lose(c)
  PROVE  Order'
<1> USE CallsFacts
<1>1. CASE StartsOn(c)
  BY <1>1, ExitOrder DEF Lose
<1>2. CASE ~StartsOn(c)
  <2>1. /\ openConns' \subseteq openConns /\ openChans' = openChans \ {c}
        /\ pc'[c] = IF c \in InFlight THEN "failed" ELSE pc[c]
        /\ \A j \in 0..MaxCalls : j # c => pc'[j] = pc[j]
        /\ OnClose(c) /\ Running
        /\ UNCHANGED <<victim, connection, closing, exited, raced>>
    BY <1>2 DEF Lose, Cut, CutChannel, TypeOK, history
  <2>2. InFlight' = InFlight \ {c}
    BY <2>1 DEF InFlight
  <2>5. OpenIsHeld' /\ ClosingIsTeardown' /\ HeldIsDialed'
    BY <2>1 DEF Order, OpenIsHeld, ClosingIsTeardown, HeldIsDialed, TypeOK
  <2>6. pc[c] # "teardown"
    BY DEF Lose, Order, OpenIsHeld, HeldIsDialed
  <2>7. VictimsAreClosing'
    BY <2>1, <2>6 DEF Order, VictimsAreClosing
  \* Who reconnects was the connection of the only call in flight.
  <2>3. CASE c \in {connection, channel} /\ ~closing
    <3>1. c = connection
      BY <2>1, <2>3 DEF Order, ChannelOnConnection
    <3>2. InFlight' = {}
      <4>1. ASSUME NEW j \in InFlight, j # c PROVE FALSE
        BY <2>1, <2>3, <3>1, <4>1 DEF Order, InFlight, DialsFromNothing, OpensOwnConnection
      <4> QED
        BY <2>2, <4>1
    <3>3. timer' /\ channel' = 0
      BY <2>1, <2>3 DEF OnClose, ScheduleReconnect, Order, TimerIsQuiet
    <3>4. OneConnectAtATime' /\ TimerIsQuiet' /\ QuietShutdown' /\ ChannelOnConnection'
      BY <2>1, <2>3, <3>2, <3>3 DEF Order, OneConnectAtATime, TimerIsQuiet, QuietShutdown,
         ChannelOnConnection
    <3>5. DialsFromNothing' /\ OpensOwnConnection'
      BY <3>2 DEF InFlight, DialsFromNothing, OpensOwnConnection
    <3>6. BootIsFirst'
      BY <2>1, <3>1 DEF Order, BootIsFirst, HeldIsDialed
    <3> QED
      BY <2>5, <2>7, <3>4, <3>5, <3>6 DEF Order
  <2>4. CASE ~(c \in {connection, channel} /\ ~closing)
    <3>1. UNCHANGED <<timer, channel>>
      BY <2>1, <2>4 DEF OnClose, ScheduleReconnect
    <3>2. OneConnectAtATime' /\ TimerIsQuiet' /\ QuietShutdown'
      BY <2>1, <2>2, <3>1 DEF Order, OneConnectAtATime, TimerIsQuiet, QuietShutdown
    <3>3. DialsFromNothing' /\ OpensOwnConnection'
      BY <2>1, <3>1 DEF Order, DialsFromNothing, OpensOwnConnection, Running
    <3>4. ChannelOnConnection'
      BY <2>1, <2>4, <3>1 DEF Order, ChannelOnConnection, Running
    <3>5. BootIsFirst'
      BY <2>1, <3>1 DEF Order, BootIsFirst, InFlight
    <3> QED
      BY <2>5, <2>7, <3>2, <3>3, <3>4, <3>5 DEF Order
  <2> QED
    BY <2>3, <2>4
<1> QED
  BY <1>1, <1>2

----------------------------------------------------------------------------
\* Nothing is open before the boot.
LEMMA InitInv == Init => ConnInv
<1> SUFFICES ASSUME Init PROVE ConnInv
  OBVIOUS
<1>1. InFlight = {}
  BY CallsFacts DEF Init, InFlight
<1>2. Order
  BY <1>1, CallsFacts DEF Init, Order, OneConnectAtATime, TimerIsQuiet, DialsFromNothing,
     OpensOwnConnection, ChannelOnConnection, OpenIsHeld, VictimsAreClosing,
     QuietShutdown, ClosingIsTeardown, BootIsFirst, HeldIsDialed
<1> QED
  BY <1>2, InitType DEF ConnInv

\* Every step keeps the invariant.
LEMMA StepInv == ConnInv /\ [Next]_vars => ConnInv'
<1> SUFFICES ASSUME ConnInv, [Next]_vars PROVE ConnInv'
  OBVIOUS
<1> USE CallsFacts
<1>1. TypeOK /\ Order /\ TypeOK'
  BY StepType DEF ConnInv
<1>2. ASSUME UNCHANGED orderVars PROVE Order'
  BY <1>1, <1>2, OrderUnchanged
<1>3. ASSUME Boot PROVE Order'
  <2>1. InFlight = {} /\ ~timer
    BY <1>1, <1>3 DEF Boot, Order, BootIsFirst, InFlight
  <2>2. /\ pc[1] = "unborn" /\ BeginTeardown(1) /\ channel' = 0 /\ ~closing
        /\ UNCHANGED <<timer, openConns, openChans, exited, closing, raced>>
    BY <1>3 DEF Boot, brokerVars, history
  <2> QED
    BY <1>1, <2>1, <2>2, BeginOrder
<1>4. ASSUME Destroy PROVE Order'
  <2>1. pc[0] = "unborn"
    BY <1>1, <1>4 DEF Destroy, Order, ClosingIsTeardown
  <2>2. /\ BeginTeardown(0) /\ channel' = 0 /\ ~timer' /\ closing'
        /\ raced' = (InFlight # {})
        /\ UNCHANGED <<openConns, openChans, exited>>
    BY <1>4 DEF Destroy, brokerVars
  <2> QED
    BY <1>1, <2>1, <2>2, BeginOrder
<1>5. ASSUME NEW k \in Calls, Reconnect(k) PROVE Order'
  <2>1. InFlight = {} /\ ~closing /\ pc[1] # "unborn"
    BY <1>1, <1>5 DEF Reconnect, Order, OneConnectAtATime, TimerIsQuiet, BootIsFirst
  <2>2. pc[k] = "unborn"
    BY <1>5 DEF Reconnect, IsNext, Fresh
  <2> QED
    BY <1>1, <1>5, <2>1, <2>2, BeginOrder DEF Reconnect, brokerVars, history
<1>6. ASSUME NEW k \in 0..MaxCalls, TornDown(k) PROVE Order'
  BY <1>1, <1>6, TornDownOrder
<1>7. ASSUME NEW k \in Calls
      PROVE  /\ (Dialed(k) => Order') /\ (CallFails(k) => Order')
             /\ (ChannelOpened(k) => Order') /\ (Restored(k) => Order') /\ (Lose(k) => Order')
  BY <1>1, DialedOrder, CallFailsOrder, ChannelOpenedOrder, RestoredOrder, LoseOrder
<1>8. ASSUME NEW k \in Calls, Restore(k) PROVE Order'
  BY <1>2, <1>8 DEF Restore, orderVars, fieldVars, history
<1>9. ASSUME NEW s \in Subs, Consume(s) PROVE Order'
  <2>1. CASE channel = 0
    BY <1>1, <1>9, <2>1, ExitOrder DEF Consume
  <2>2. CASE channel # 0
    BY <1>2, <1>9, <2>2 DEF Consume, orderVars, callVars, brokerVars
  <2> QED
    BY <2>1, <2>2
<1>10. ASSUME NEW s \in Subs, Consumed(s) PROVE Order'
  BY <1>2, <1>10 DEF Consumed, orderVars, callVars, fieldVars, history
<1>11. ASSUME NEW s \in Subs, NEW c \in Calls, Cancel(c, s) PROVE Order'
  BY <1>2, <1>11 DEF Cancel, orderVars, callVars, fieldVars
<1>12. ASSUME UNCHANGED vars PROVE Order'
  <2>1. UNCHANGED orderVars
    BY <1>12 DEF vars, orderVars, callVars, fieldVars, brokerVars, history
  <2> QED
    BY <1>2, <2>1
<1>13. Order'
  BY <1>3, <1>4, <1>5, <1>6, <1>7, <1>8, <1>9, <1>10, <1>11, <1>12 DEF Next
<1> QED
  BY <1>1, <1>13 DEF ConnInv

\* The inductive invariant holds in every reachable state.
THEOREM InvCorrect == Spec => []ConnInv
<1>1. Init => ConnInv
  BY InitInv
<1>2. ConnInv /\ [Next]_vars => ConnInv'
  BY StepInv
<1> QED
  BY <1>1, <1>2, PTL DEF Spec

\* Every variable keeps to its type.
THEOREM TypeCorrect == Spec => []TypeOK
<1>1. ConnInv => TypeOK
  BY DEF ConnInv, Order
<1> QED
  BY <1>1, InvCorrect, PTL

\* Whatever is lost and whenever, one connect() runs at a time and the timer is
\* not armed while one runs.
THEOREM OneConnectCorrect == Spec => []OneConnectAtATime
<1>1. ConnInv => OneConnectAtATime
  BY DEF ConnInv, Order
<1> QED
  BY <1>1, InvCorrect, PTL

\* No connection is forgotten open, unless onModuleDestroy overtook a connect().
THEOREM NoConnectionLeftCorrect == Spec => []NoConnectionLeft
<1>1. ConnInv => NoConnectionLeft
  <2> SUFFICES ASSUME ConnInv, pc[0] = "returned", ~raced PROVE openConns = {}
    BY DEF ConnInv, Order, OpenIsHeld, NoConnectionLeft
  <2>1. InFlight = {} /\ connection = 0
    BY DEF ConnInv, Order, ClosingIsTeardown, QuietShutdown
  <2>2. ASSUME NEW c \in openConns PROVE FALSE
    <3>1. c # 0
      BY CallsFacts DEF ConnInv, Order, TypeOK
    <3>2. PICK k \in 0..MaxCalls : victim[k] = c
      BY <2>1, <3>1 DEF ConnInv, Order, OpenIsHeld
    <3>3. pc[k] = "teardown" /\ k # 0
      BY <3>1, <3>2 DEF ConnInv, Order, VictimsAreClosing
    <3> QED
      BY <2>1, <3>3, CallsFacts DEF InFlight
  <2> QED
    BY <2>2
<1> QED
  BY <1>1, InvCorrect, PTL

\* A channel in the field of a service that is not closing is open.
THEOREM FieldIsUsableCorrect == Spec => []FieldIsUsable
<1>1. ConnInv => FieldIsUsable
  BY DEF ConnInv, Order, ChannelOnConnection, FieldIsUsable
<1> QED
  BY <1>1, InvCorrect, PTL

----------------------------------------------------------------------------
(* The consumers on the channels.                                           *)

consumerVars == <<subscriptions, serving, asking, openChans, overlapped, pc, next, exited>>

\* Steps that leave these variables alone keep what the invariant says of them.
LEMMA ConsumersUnchanged == Consumers /\ UNCHANGED consumerVars => Consumers'
  BY DEF Consumers, consumerVars, SubscribedOnce, ClosedIsSilent, ServedIsSubscribed,
     AskingIsOpen, OpenIsReplayed, ReplayedInOrder, AsksFirst, OneConsumerPerQueue, Running

\* A process that ends has no channel and no consumer.
LEMMA ExitConsumers == ASSUME TypeOK, Consumers, Exit PROVE Consumers'
<1>1. /\ openChans' = {} /\ exited' /\ UNCHANGED <<subscriptions, asking>>
      /\ \A c \in Calls, s \in Subs : serving'[c][s] = 0
  BY DEF Exit, fieldVars
<1>2. ServedIsSubscribed'
  BY <1>1 DEF Consumers, ServedIsSubscribed
<1> QED
  BY <1>1, <1>2 DEF Consumers, SubscribedOnce, ClosedIsSilent, AskingIsOpen, OpenIsReplayed,
     ReplayedInOrder, AsksFirst, OneConsumerPerQueue, Running

\* A step that at most closes channels nobody asks on, and leaves the calls of
\* the open ones where they are, adds no consumer.
LEMMA CloseConsumers ==
  ASSUME TypeOK, Consumers, openChans' \subseteq openChans,
         \A c \in openChans' : serving'[c] = serving[c] /\ pc'[c] = pc[c],
         \A c \in Calls, s \in Subs : c \notin openChans' => serving'[c][s] = 0,
         \A s \in Subs : Running /\ asking[s] # 0 => asking[s] \in openChans',
         \A c \in Calls : Running /\ pc'[c] = "restoring" => c \in openChans',
         UNCHANGED <<subscriptions, asking, overlapped, next, exited>>
  PROVE  Consumers'
<1>1. SubscribedOnce' /\ ClosedIsSilent' /\ AskingIsOpen' /\ OpenIsReplayed'
  BY DEF Consumers, SubscribedOnce, ClosedIsSilent, AskingIsOpen, OpenIsReplayed, Running
<1>2. ServedIsSubscribed'
  BY DEF Consumers, ServedIsSubscribed
<1>3. ReplayedInOrder' /\ AsksFirst' /\ OneConsumerPerQueue'
  BY DEF Consumers, ReplayedInOrder, AsksFirst, OneConsumerPerQueue
<1> QED
  BY <1>1, <1>2, <1>3 DEF Consumers

\* Channel c closes, and with it the consumers on it.
LEMMA CutConsumers ==
  ASSUME TypeOK, Consumers, NEW c \in Calls, ~StartsOn(c), CutChannel(c), Running,
         \A d \in openChans : d # c => pc'[d] = pc[d],
         pc'[c] # "restoring",
         \A d \in Calls : pc'[d] = "restoring" => pc[d] = "restoring",
         UNCHANGED <<subscriptions, asking, overlapped, next, exited>>
  PROVE  Consumers'
<1>1. openChans' = openChans \ {c} /\ openChans \subseteq Calls
  BY DEF CutChannel, TypeOK
<1>2. \A d \in Calls : serving'[d] = IF d = c THEN [s \in Subs |-> 0] ELSE serving[d]
  BY DEF CutChannel, TypeOK
<1>3. \A d \in openChans' : serving'[d] = serving[d] /\ pc'[d] = pc[d]
  BY <1>1, <1>2
<1>4. ASSUME NEW d \in Calls, NEW s \in Subs, d \notin openChans' PROVE serving'[d][s] = 0
  <2>1. CASE d = c
    BY <1>2, <2>1
  <2>2. CASE d # c
    BY <1>1, <1>2, <1>4, <2>2 DEF Consumers, ClosedIsSilent
  <2> QED
    BY <2>1, <2>2
<1>5. \A s \in Subs : Running /\ asking[s] # 0 => asking[s] \in openChans'
  BY <1>1 DEF Consumers, AskingIsOpen, StartsOn
<1>6. \A d \in Calls : Running /\ pc'[d] = "restoring" => d \in openChans'
  BY <1>1 DEF Consumers, OpenIsReplayed
<1> QED
  BY <1>1, <1>3, <1>4, <1>5, <1>6, CloseConsumers

\* A teardown and a loss close channels; a failing call leaves them.
LEMMA TornDownConsumers ==
  ASSUME TypeOK, Order, Consumers, NEW k \in 0..MaxCalls, TornDown(k)
  PROVE  Consumers'
<1> USE CallsFacts
<1>1. CASE victim[k] # 0 /\ StartsOn(victim[k])
  BY <1>1, ExitConsumers DEF TornDown
<1>2. CASE ~(victim[k] # 0 /\ StartsOn(victim[k]))
  <2>1. /\ pc' = Moved(k, IF k = 0 THEN "returned" ELSE "dialing", victim[k])
        /\ IF victim[k] = 0 THEN UNCHANGED brokerVars ELSE Cut(victim[k])
        /\ UNCHANGED <<subscriptions, asking, overlapped, next, exited>>
        /\ Running /\ pc[k] = "teardown"
    BY <1>2 DEF TornDown, history
  <2>2. ASSUME NEW d \in openChans, d # victim[k] PROVE pc'[d] = pc[d]
    BY <2>1, <2>2 DEF Moved, Order, HeldIsDialed, TypeOK
  <2>5. \A d \in Calls : pc'[d] = "restoring" => pc[d] = "restoring" /\ d # victim[k]
    BY <2>1 DEF Moved, InFlight
  <2>3. CASE victim[k] = 0
    <3>1. UNCHANGED <<openChans, serving>>
      BY <2>1, <2>3 DEF brokerVars
    <3>2. \A d \in openChans : pc'[d] = pc[d]
      BY <2>2, <2>3 DEF TypeOK
    <3>3. /\ \A c \in Calls, s \in Subs : c \notin openChans' => serving'[c][s] = 0
          /\ \A s \in Subs : Running /\ asking[s] # 0 => asking[s] \in openChans'
      BY <3>1 DEF Consumers, ClosedIsSilent, AskingIsOpen
    <3> QED
      BY <2>1, <2>5, <3>1, <3>2, <3>3, CloseConsumers DEF Consumers, OpenIsReplayed
  <2>4. CASE victim[k] # 0
    <3>1. victim[k] \in Calls /\ ~StartsOn(victim[k]) /\ CutChannel(victim[k])
      BY <1>2, <2>1, <2>4 DEF Cut, TypeOK
    <3> QED
      BY <2>1, <2>2, <2>5, <3>1, CutConsumers
  <2> QED
    BY <2>3, <2>4
<1> QED
  BY <1>1, <1>2

\* A loss closes the channel, and the connection perhaps.
LEMMA LoseConsumers ==
  ASSUME TypeOK, Order, Consumers, NEW c \in Calls, Lose(c)
  PROVE  Consumers'
<1>1. CASE StartsOn(c)
  BY <1>1, ExitConsumers DEF Lose
<1>2. CASE ~StartsOn(c)
  <2>1. /\ CutChannel(c) /\ Running
        /\ UNCHANGED <<subscriptions, asking, overlapped, next, exited>>
    BY <1>2 DEF Lose, Cut, history
  <2>2. pc' = [pc EXCEPT ![c] = IF c \in InFlight THEN "failed" ELSE pc[c]]
    BY <1>2 DEF Lose
  <2>3. /\ \A d \in 0..MaxCalls : d # c => pc'[d] = pc[d]
        /\ pc'[c] # "restoring"
    BY <2>2, CallsFacts DEF TypeOK, InFlight
  <2>4. openChans \subseteq 0..MaxCalls
    BY CallsFacts DEF TypeOK
  <2> QED
    BY <1>2, <2>1, <2>3, <2>4, CallsFacts, CutConsumers
<1> QED
  BY <1>1, <1>2

\* Steps that move calls without a channel leave the consumers as they are.
LEMMA MoveConsumers ==
  ASSUME TypeOK, Consumers, UNCHANGED <<openChans, serving>>,
         \A c \in openChans : pc'[c] = pc[c],
         \A c \in Calls : pc'[c] = "restoring" => pc[c] = "restoring",
         UNCHANGED <<subscriptions, asking, overlapped, next, exited>>
  PROVE  Consumers'
<1>1. /\ \A c \in Calls, s \in Subs : c \notin openChans' => serving'[c][s] = 0
      /\ \A s \in Subs : Running /\ asking[s] # 0 => asking[s] \in openChans'
      /\ \A c \in Calls : Running /\ pc'[c] = "restoring" => c \in openChans'
  BY DEF Consumers, ClosedIsSilent, AskingIsOpen, OpenIsReplayed
<1> QED
  BY <1>1, CloseConsumers

\* A channel opens without a consumer.
LEMMA ChannelOpenedConsumers ==
  ASSUME TypeOK, Consumers, NEW k \in Calls, ChannelOpened(k)
  PROVE  Consumers'
<1>1. k \notin openChans
  BY DEF ChannelOpened, Consumers, OpenIsReplayed
<1>2. /\ openChans' = openChans \cup {k}
      /\ openChans \subseteq Calls
      /\ \A d \in Calls : pc'[d] = IF d = k THEN "restoring" ELSE pc[d]
      /\ UNCHANGED <<subscriptions, serving, asking, overlapped, next, exited>>
  BY DEF ChannelOpened, TypeOK, Calls
<1>3. \A s \in Subs : serving[k][s] = 0
  BY <1>1 DEF Consumers, ClosedIsSilent
<1>4. \A s \in Subs : asking[s] # k
  BY <1>1, CallsFacts DEF ChannelOpened, Consumers, AskingIsOpen
<1>5. SubscribedOnce' /\ ClosedIsSilent' /\ AskingIsOpen' /\ OpenIsReplayed'
  BY <1>2 DEF Consumers, SubscribedOnce, ClosedIsSilent, AskingIsOpen, OpenIsReplayed, Running
<1>6. ServedIsSubscribed'
  BY <1>2, <1>3 DEF Consumers, ServedIsSubscribed
<1>7. ReplayedInOrder' /\ AsksFirst' /\ OneConsumerPerQueue'
  BY <1>2, <1>3, <1>4 DEF Consumers, ReplayedInOrder, AsksFirst, OneConsumerPerQueue
<1> QED
  BY <1>5, <1>6, <1>7 DEF Consumers

\* One more consumer of a queue on a channel; the others stay.
LEMMA ServeCounts ==
  ASSUME TypeOK, NEW c \in Calls, NEW s \in Subs, Serve(c, s)
  PROVE  \A d \in Calls, t \in Subs :
            serving'[d][t] = IF d = c /\ t = s THEN IF serving[c][s] = 0 THEN 1 ELSE 2
                             ELSE serving[d][t]
  BY DEF Serve, TypeOK

\* The replay asks for the next subscription: it has no consumer yet.
LEMMA RestoreConsumers ==
  ASSUME TypeOK, Order, Consumers, NEW k \in Calls, Restore(k)
  PROVE  Consumers'
<1> DEFINE s == subscriptions[next[k]]
<1>1. next[k] \in 1..Len(subscriptions) /\ s \in Subs /\ pc[k] = "restoring" /\ Running
  BY DEF Restore, TypeOK
<1>2. /\ \A c \in Calls : next'[c] = IF c = k THEN next[k] + 1 ELSE next[c]
      /\ UNCHANGED <<pc, subscriptions, openChans, asking, exited, overlapped>>
  BY DEF Restore, TypeOK, fieldVars, history
<1>3. \A d \in Calls, t \in Subs :
          serving'[d][t] = IF d = k /\ t = s THEN IF serving[k][s] = 0 THEN 1 ELSE 2
                           ELSE serving[d][t]
  BY <1>1, ServeCounts DEF Restore
<1>4. k \in openChans
  BY <1>1 DEF Consumers, OpenIsReplayed
<1>5. \/ s \in overlapped
      \/ serving[k][s] = 0 /\ asking[s] # k
  BY <1>1, <1>4 DEF Consumers, ReplayedInOrder, SubscribedOnce, TypeOK
<1>6. SubscribedOnce' /\ ClosedIsSilent' /\ AskingIsOpen' /\ OpenIsReplayed'
  BY <1>2, <1>3, <1>4 DEF Consumers, SubscribedOnce, ClosedIsSilent, AskingIsOpen,
     OpenIsReplayed, Running
<1>7. ServedIsSubscribed'
  <2> SUFFICES ASSUME NEW t \in Subs,
                      asking[t] # 0 \/ \E c \in openChans : serving'[c][t] # 0
               PROVE  \E i \in 1..Len(subscriptions) : subscriptions[i] = t
    BY <1>2 DEF ServedIsSubscribed
  <2>1. CASE t = s
    BY <1>1, <2>1
  <2>2. CASE t # s
    BY <1>3, <2>2 DEF Consumers, ServedIsSubscribed, TypeOK
  <2> QED
    BY <2>1, <2>2
<1>8. ReplayedInOrder'
  <2> SUFFICES ASSUME NEW c \in openChans, NEW t \in Subs \ overlapped, pc[c] = "restoring"
               PROVE  /\ asking[t] # c
                      /\ serving'[c][t] # 0 =>
                            \E i \in 1..Len(subscriptions) :
                                i < next'[c] /\ subscriptions[i] = t
    BY <1>2 DEF ReplayedInOrder
  <2>0. c \in Calls
    BY DEF TypeOK
  <2>1. CASE c = k /\ t = s
    BY <1>1, <1>2, <1>5, <2>0, <2>1 DEF TypeOK
  <2>2. CASE ~(c = k /\ t = s)
    <3>1. /\ asking[t] # c
          /\ serving[c][t] # 0 =>
                \E i \in 1..Len(subscriptions) : i < next[c] /\ subscriptions[i] = t
      BY DEF Consumers, ReplayedInOrder
    <3>2. serving'[c][t] = serving[c][t] /\ next'[c] \in Nat /\ next[c] \in Nat
          /\ next'[c] >= next[c]
      BY <1>2, <1>3, <2>0, <2>2 DEF TypeOK
    <3> QED
      BY <3>1, <3>2
  <2> QED
    BY <2>1, <2>2
<1>9. AsksFirst' /\ OneConsumerPerQueue'
  <2>1. \A c \in openChans : c \in Calls
    BY DEF TypeOK
  <2>2. AsksFirst'
    <3> SUFFICES ASSUME NEW c \in openChans, NEW t \in Subs \ overlapped, asking[t] = c
                 PROVE  serving'[c][t] = 0
      BY <1>2 DEF AsksFirst
    <3>1. ~(c = k /\ t = s) /\ serving[c][t] = 0
      BY <1>5 DEF Consumers, AsksFirst
    <3> QED
      BY <1>3, <2>1, <3>1
  <2>3. OneConsumerPerQueue'
    <3> SUFFICES ASSUME NEW c \in openChans, NEW t \in Subs, serving'[c][t] = 2
                 PROVE  t \in overlapped
      BY <1>2 DEF OneConsumerPerQueue
    <3>1. CASE c = k /\ t = s
      BY <1>3, <1>5, <2>1, <3>1
    <3>2. CASE ~(c = k /\ t = s)
      BY <1>3, <2>1, <3>2 DEF Consumers, OneConsumerPerQueue
    <3> QED
      BY <3>1, <3>2
  <2> QED
    BY <2>2, <2>3
<1> QED
  BY <1>6, <1>7, <1>8, <1>9 DEF Consumers

\* A call that has replayed every subscription returns.
LEMMA RestoredConsumers ==
  ASSUME TypeOK, Consumers, NEW k \in Calls, Restored(k)
  PROVE  Consumers'
<1>1. /\ \A c \in Calls : pc'[c] = IF c = k THEN "returned" ELSE pc[c]
      /\ UNCHANGED <<subscriptions, serving, openChans, asking, exited, overlapped, next>>
  BY CallsFacts DEF Restored, TypeOK, fieldVars, brokerVars, history
<1>2. openChans \subseteq Calls
  BY DEF TypeOK
<1>3. /\ SubscribedOnce' /\ ClosedIsSilent' /\ AskingIsOpen' /\ AsksFirst'
      /\ ServedIsSubscribed' /\ OneConsumerPerQueue'
  BY <1>1 DEF Consumers, SubscribedOnce, ClosedIsSilent, AskingIsOpen, AsksFirst,
     ServedIsSubscribed, OneConsumerPerQueue, Running
<1>4. OpenIsReplayed' /\ ReplayedInOrder'
  BY <1>1, <1>2 DEF Consumers, OpenIsReplayed, ReplayedInOrder, Running
<1> QED
  BY <1>3, <1>4 DEF Consumers

\* consume() of a queue nobody consumes: on a channel that replays, it overlaps.
LEMMA ConsumeConsumers ==
  ASSUME TypeOK, Order, Consumers, NEW s \in Subs, Consume(s)
  PROVE  Consumers'
<1>1. CASE channel = 0
  BY <1>1, ExitConsumers DEF Consume
<1>2. CASE channel # 0
  <2>1. /\ subscriptions' = Append(subscriptions, s)
        /\ \A i \in 1..Len(subscriptions) : subscriptions[i] # s
        /\ \A t \in Subs : asking'[t] = IF t = s THEN channel ELSE asking[t]
        /\ overlapped' = IF pc[channel] = "restoring" THEN overlapped \cup {s}
                         ELSE overlapped
        /\ UNCHANGED <<pc, next, serving, openChans, exited>>
        /\ channel \in openChans
    BY <1>2 DEF Consume, TypeOK, callVars, brokerVars, Order, ChannelOnConnection
  <2>2. /\ Len(subscriptions') = Len(subscriptions) + 1
        /\ Len(subscriptions) \in Nat
        /\ \A i \in 1..Len(subscriptions) : subscriptions'[i] = subscriptions[i]
        /\ subscriptions'[Len(subscriptions) + 1] = s
    BY <2>1 DEF TypeOK
  <2>3. asking[s] = 0 /\ \A c \in openChans : serving[c][s] = 0
    BY <2>1 DEF Consumers, ServedIsSubscribed
  <2>4. SubscribedOnce'
    BY <2>1, <2>2 DEF Consumers, SubscribedOnce
  <2>5. ClosedIsSilent' /\ AskingIsOpen' /\ OpenIsReplayed'
    BY <2>1 DEF Consumers, ClosedIsSilent, AskingIsOpen, OpenIsReplayed, Running
  <2>6. ServedIsSubscribed'
    <3> SUFFICES ASSUME NEW t \in Subs,
                        asking'[t] # 0 \/ \E c \in openChans : serving[c][t] # 0
                 PROVE  \E i \in 1..Len(subscriptions') : subscriptions'[i] = t
      BY <2>1 DEF ServedIsSubscribed
    <3>1. CASE t = s
      BY <2>2, <3>1
    <3>2. CASE t # s
      <4>1. PICK i \in 1..Len(subscriptions) : subscriptions[i] = t
        BY <2>1, <3>2 DEF Consumers, ServedIsSubscribed
      <4> QED
        BY <2>2, <4>1
    <3> QED
      BY <3>1, <3>2
  <2>7. ReplayedInOrder'
    <3> SUFFICES ASSUME NEW c \in openChans, NEW t \in Subs \ overlapped',
                        pc[c] = "restoring"
                 PROVE  /\ asking'[t] # c
                        /\ serving[c][t] # 0 =>
                              \E i \in 1..Len(subscriptions') :
                                  i < next[c] /\ subscriptions'[i] = t
      BY <2>1 DEF ReplayedInOrder
    <3>1. t \notin overlapped
      BY <2>1
    <3>2. CASE t = s
      BY <2>1, <2>3, <3>2
    <3>3. CASE t # s
      BY <2>1, <2>2, <3>1, <3>3 DEF Consumers, ReplayedInOrder
    <3> QED
      BY <3>2, <3>3
  <2>8. AsksFirst' /\ OneConsumerPerQueue'
    BY <2>1, <2>3 DEF Consumers, AsksFirst, OneConsumerPerQueue
  <2> QED
    BY <2>4, <2>5, <2>6, <2>7, <2>8 DEF Consumers
<1> QED
  BY <1>1, <1>2

\* The reply to consume(): the queue had no consumer on the channel.
LEMMA ConsumedConsumers ==
  ASSUME TypeOK, Consumers, NEW s \in Subs, Consumed(s)
  PROVE  Consumers'
<1> DEFINE c == asking[s]
<1>1. /\ c \in openChans /\ c \in Calls /\ c # 0 /\ Serve(c, s)
      /\ \A t \in Subs : asking'[t] = IF t = s THEN 0 ELSE asking[t]
      /\ UNCHANGED <<pc, next, subscriptions, openChans, exited, overlapped>>
  BY DEF Consumed, TypeOK, Consumers, AskingIsOpen, callVars, fieldVars, history
<1>2. \A d \in Calls, t \in Subs :
          serving'[d][t] = IF d = c /\ t = s THEN IF serving[c][s] = 0 THEN 1 ELSE 2
                           ELSE serving[d][t]
  BY <1>1, ServeCounts
<1>3. openChans \subseteq Calls
  BY DEF TypeOK
<1>4. SubscribedOnce' /\ ClosedIsSilent' /\ AskingIsOpen' /\ OpenIsReplayed'
  BY <1>1, <1>2 DEF Consumers, SubscribedOnce, ClosedIsSilent, AskingIsOpen,
     OpenIsReplayed, Running
<1>5. ServedIsSubscribed'
  BY <1>1, <1>2, <1>3 DEF Consumers, ServedIsSubscribed
<1>6. ReplayedInOrder' /\ AsksFirst' /\ OneConsumerPerQueue'
  BY <1>1, <1>2, <1>3, CallsFacts DEF Consumers, ReplayedInOrder, AsksFirst, OneConsumerPerQueue
<1> QED
  BY <1>4, <1>5, <1>6 DEF Consumers

\* The broker takes a consumer away.
LEMMA CancelConsumers ==
  ASSUME TypeOK, Consumers, NEW c \in Calls, NEW s \in Subs, Cancel(c, s)
  PROVE  Consumers'
<1>1. /\ \A d \in Calls, t \in Subs :
            serving'[d][t] = IF d = c /\ t = s THEN 0 ELSE serving[d][t]
      /\ UNCHANGED <<pc, next, subscriptions, openChans, asking, exited, overlapped>>
  BY DEF Cancel, TypeOK, callVars, fieldVars
<1>2. openChans \subseteq Calls
  BY DEF TypeOK
<1>3. SubscribedOnce' /\ ClosedIsSilent' /\ AskingIsOpen' /\ OpenIsReplayed'
  BY <1>1 DEF Consumers, SubscribedOnce, ClosedIsSilent, AskingIsOpen, OpenIsReplayed, Running
<1>4. ServedIsSubscribed'
  BY <1>1, <1>2 DEF Consumers, ServedIsSubscribed
<1>5. ReplayedInOrder' /\ AsksFirst' /\ OneConsumerPerQueue'
  BY <1>1, <1>2 DEF Consumers, ReplayedInOrder, AsksFirst, OneConsumerPerQueue
<1> QED
  BY <1>3, <1>4, <1>5 DEF Consumers

\* Every step keeps what the invariant says of the consumers.
LEMMA StepConsumers == ConnInv /\ Consumers /\ [Next]_vars => Consumers'
<1> SUFFICES ASSUME ConnInv, Consumers, [Next]_vars PROVE Consumers'
  OBVIOUS
<1> USE CallsFacts
<1>1. TypeOK /\ Order /\ Running \in BOOLEAN
  BY DEF ConnInv, Running
<1>0. openChans \subseteq 0..MaxCalls
  BY <1>1 DEF TypeOK
<1>2. ASSUME NEW k \in 0..MaxCalls, BeginTeardown(k), k \notin openChans,
             UNCHANGED <<openChans, serving, subscriptions, asking, overlapped, next, exited>>
      PROVE  Consumers'
  <2>1. \A c \in 0..MaxCalls : pc'[c] = IF c = k THEN "teardown" ELSE pc[c]
    BY <1>1, <1>2 DEF BeginTeardown, TypeOK
  <2> QED
    BY <1>0, <1>1, <1>2, <2>1, MoveConsumers
<1>3. ASSUME Boot PROVE Consumers'
  <2>1. 1 \notin openChans
    BY <1>3 DEF Boot, Consumers, OpenIsReplayed
  <2> QED
    BY <1>2, <1>3, <2>1 DEF Boot, brokerVars, history
<1>4. ASSUME Destroy PROVE Consumers'
  <2>1. 0 \notin openChans
    BY <1>1 DEF TypeOK
  <2> QED
    BY <1>2, <1>4, <2>1 DEF Destroy, brokerVars
<1>5. ASSUME NEW k \in Calls, Reconnect(k) PROVE Consumers'
  <2>1. k \notin openChans
    BY <1>5 DEF Reconnect, IsNext, Fresh, Consumers, OpenIsReplayed
  <2> QED
    BY <1>2, <1>5, <2>1 DEF Reconnect, brokerVars, history
<1>6. ASSUME NEW k \in 0..MaxCalls, TornDown(k) PROVE Consumers'
  BY <1>1, <1>6, TornDownConsumers
<1>7. ASSUME NEW k \in Calls, Dialed(k) PROVE Consumers'
  <2>1. /\ \A c \in 0..MaxCalls : pc'[c] = IF c = k THEN "opening" ELSE pc[c]
        /\ k \notin openChans
        /\ UNCHANGED <<openChans, serving, subscriptions, asking, overlapped, next, exited>>
    BY <1>1, <1>7 DEF Dialed, TypeOK, Consumers, OpenIsReplayed, history
  <2> QED
    BY <1>0, <1>1, <2>1, MoveConsumers
<1>8. ASSUME NEW k \in Calls, CallFails(k) PROVE Consumers'
  <2>1. CASE k = 1
    BY <1>1, <1>8, <2>1, ExitConsumers DEF CallFails
  <2>2. CASE k # 1
    <3>1. /\ \A c \in 0..MaxCalls : pc'[c] = IF c = k THEN "failed" ELSE pc[c]
          /\ k \notin openChans
          /\ UNCHANGED <<openChans, serving, subscriptions, asking, overlapped, next, exited>>
      BY <1>1, <1>8, <2>2 DEF CallFails, TypeOK, Consumers, OpenIsReplayed, history, brokerVars
    <3> QED
      BY <1>0, <1>1, <3>1, MoveConsumers
  <2> QED
    BY <2>1, <2>2
<1>9. ASSUME NEW k \in Calls
      PROVE  /\ (ChannelOpened(k) => Consumers') /\ (Restore(k) => Consumers')
             /\ (Restored(k) => Consumers') /\ (Lose(k) => Consumers')
  BY <1>1, ChannelOpenedConsumers, RestoreConsumers, RestoredConsumers, LoseConsumers
<1>10. ASSUME NEW s \in Subs
       PROVE  /\ (Consume(s) => Consumers') /\ (Consumed(s) => Consumers')
              /\ \A c \in Calls : Cancel(c, s) => Consumers'
  BY <1>1, ConsumeConsumers, ConsumedConsumers, CancelConsumers
<1>11. ASSUME UNCHANGED vars PROVE Consumers'
  <2>1. UNCHANGED consumerVars
    BY <1>11 DEF vars, consumerVars, callVars, fieldVars, brokerVars, history
  <2> QED
    BY <2>1, ConsumersUnchanged
<1> QED
  BY <1>3, <1>4, <1>5, <1>6, <1>7, <1>8, <1>9, <1>10, <1>11 DEF Next

\* Nothing is consumed before the boot.
LEMMA InitConsumers == Init => Consumers
  BY CallsFacts DEF Init, Consumers, SubscribedOnce, ClosedIsSilent, ServedIsSubscribed,
     AskingIsOpen, OpenIsReplayed, ReplayedInOrder, AsksFirst, OneConsumerPerQueue

\* A queue has two consumers on an open channel only if consume() was called for
\* it while a reconnect was replaying the subscriptions, however many connections
\* and channels are lost, and when.
THEOREM OneConsumerCorrect == Spec => []OneConsumerPerQueue
<1>1. Init => Consumers
  BY InitConsumers
<1>2. ConnInv /\ Consumers /\ [Next]_vars => Consumers'
  BY StepConsumers
<1>3. Consumers => OneConsumerPerQueue
  BY DEF Consumers
<1> QED
  BY <1>1, <1>2, <1>3, InvCorrect, PTL DEF Spec
=============================================================================
