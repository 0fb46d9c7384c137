--------------------------- MODULE ModerationPush ---------------------------
(***************************************************************************)
(* Live verdicts: ModerationPushService hands each event of the topic to   *)
(* the sockets its author has open, the gateway of the notification        *)
(* service registers a socket after checking its ticket, and a tab of the  *)
(* dashboard (lib/socket.ts, use-moderation-notifications.ts) dials, dials *)
(* again after a loss, and shows a toast for each push.                    *)
(***************************************************************************)
EXTENDS KafkaConsumer

CONSTANTS
    Tabs,      \* tabs of one user, the author of the events
    MaxSockets \* bound: connections dialed; the last ones may stay unused

ASSUME SocketsAssumption == MaxSockets \in Nat

Sockets == 1..MaxSockets

VARIABLES
    tab,        \* tab[t]: "off", "dialing", "ticket" (fetched or not), "open",
                \* or "refused": the server has closed it and nothing dials again
    ticket,     \* ticket[t]: "none", "valid" or "stale"
    socket,     \* socket[t]: the connection the tab holds, 0: none
    serverEnd,  \* connections the server has not seen closed
    registry,   \* sockets of the user in SocketRegistryService
    dialed,     \* connections made so far
    toasts      \* toasts[t]: toasts on the screen of t, 2: or more

tabVars == <<tab, ticket, socket, toasts>>
serverVars == <<serverEnd, registry, dialed>>
pushVars == <<tabVars, serverVars>>

InitPush ==
    /\ tab = [t \in Tabs |-> "off"] /\ ticket = [t \in Tabs |-> "none"]
    /\ socket = [t \in Tabs |-> 0] /\ toasts = [t \in Tabs |-> 0]
    /\ serverEnd = {} /\ registry = {} /\ dialed = 0

Up == state # "down"

Pushing == group = "push" /\ Ready

\* Both ends of the tab's connection are open.
Connected(t) == tab[t] = "open" /\ socket[t] \in serverEnd

----------------------------------------------------------------------------
\* The layout is mounted: socket.connect().
Mount(t) ==
    /\ group = "push" /\ tab[t] = "off"
    /\ tab' = [tab EXCEPT ![t] = "dialing"]
    /\ UNCHANGED <<kafkaVars, ticket, socket, toasts, serverVars>>

\* Before each handshake: a fresh ticket of the gateway, or none if that fails.
FetchTicket(t) ==
    /\ tab[t] = "dialing"
    /\ tab' = [tab EXCEPT ![t] = "ticket"]
    /\ \/ ticket' = [ticket EXCEPT ![t] = "valid"] /\ UNCHANGED faults
       \/ ticket' = [ticket EXCEPT ![t] = "none"] /\ Fault
    /\ UNCHANGED <<topicVars, consumerVars, socket, toasts, serverVars>>

\* The ticket's 60 s are over before the handshake.
TicketExpires(t) ==
    /\ tab[t] = "ticket" /\ ticket[t] = "valid" /\ Fault
    /\ ticket' = [ticket EXCEPT ![t] = "stale"]
    /\ UNCHANGED <<topicVars, consumerVars, tab, socket, toasts, serverVars>>

Register(s) == registry' = registry \cup {s}

\* Faulty variant of Unregister: the user's whole entry goes.
UnregisterUser(s) == registry' = IF s \in registry THEN {} ELSE registry

Unregister(s) == registry' = registry \ {s}

\* handleConnection(): a valid ticket registers the socket, else the server
\* disconnects it.
HandleConnection(t) ==
    /\ Up /\ tab[t] = "ticket" /\ dialed < MaxSockets
    /\ dialed' = dialed + 1
    /\ ticket' = [ticket EXCEPT ![t] = "none"]
    /\ IF ticket[t] = "valid"
       THEN /\ tab' = [tab EXCEPT ![t] = "open"]
            /\ socket' = [socket EXCEPT ![t] = dialed']
            /\ serverEnd' = serverEnd \cup {dialed'}
            /\ Register(dialed')
       ELSE /\ tab' = [tab EXCEPT ![t] = "refused"]
            /\ UNCHANGED <<socket, serverEnd, registry>>
    /\ UNCHANGED <<kafkaVars, toasts>>

\* The tab's end of its connection is lost: socket.io dials again.
Redial(t) ==
    /\ tab[t] = "open"
    /\ IF socket[t] \in serverEnd THEN Fault ELSE UNCHANGED faults
    /\ tab' = [tab EXCEPT ![t] = "dialing"]
    /\ socket' = [socket EXCEPT ![t] = 0]
    /\ UNCHANGED <<topicVars, consumerVars, ticket, toasts, serverVars>>

\* handleDisconnect(): the server sees a connection end, before or after the tab.
HandleDisconnect(s) ==
    /\ s \in serverEnd
    /\ IF \E t \in Tabs : socket[t] = s THEN Fault ELSE UNCHANGED faults
    /\ serverEnd' = serverEnd \ {s}
    /\ Unregister(s)
    /\ UNCHANGED <<topicVars, consumerVars, tabVars, dialed>>

\* The layout is unmounted: the socket is closed, timers and toasts are gone.
Unmount(t) ==
    /\ tab[t] # "off"
    /\ tab' = [tab EXCEPT ![t] = "off"]
    /\ ticket' = [ticket EXCEPT ![t] = "none"]
    /\ socket' = [socket EXCEPT ![t] = 0]
    /\ toasts' = [toasts EXCEPT ![t] = 0]
    /\ UNCHANGED <<kafkaVars, serverVars>>

\* The user dismisses a toast, or its 8 s are over.
Dismiss(t) ==
    /\ toasts[t] > 0
    /\ toasts' = [toasts EXCEPT ![t] = @ - 1]
    /\ UNCHANGED <<kafkaVars, tab, ticket, socket, serverVars>>

\* The notification service ends, and its registry with it.
ServerDies ==
    /\ group = "push" /\ Die
    /\ serverEnd' = {} /\ registry' = {}
    /\ UNCHANGED <<tabVars, dialed>>
----------------------------------------------------------------------------
\* Malformed, from the future, or without an author to route it to: dropped.
DropEvent ==
    /\ Pushing
    /\ Unreadable(Current) \/ Kind[Current] = "anonymous"
    /\ Pass
    /\ UNCHANGED <<faults, pushVars>>

RefuseEvent ==
    /\ Pushing /\ Kind[Current] = "invalid"
    /\ Throw
    /\ UNCHANGED <<faults, pushVars>>

\* The socket's listener adds a toast.
OneMoreToast(t) == Min2(toasts[t] + 1, 2)

\* A push for every registered socket; a tab whose end is open shows a toast.
\* Without a socket the verdict is dropped.
Push ==
    /\ Pushing /\ Kind[Current] = "sound"
    /\ Pass
    /\ toasts' = [t \in Tabs |->
            IF tab[t] = "open" /\ socket[t] \in registry
            THEN OneMoreToast(t)
            ELSE toasts[t]]
    /\ UNCHANGED <<faults, tab, ticket, socket, serverVars>>

PushNext ==
    \/ DropEvent \/ RefuseEvent \/ Push \/ ServerDies
    \/ \E s \in Sockets : HandleDisconnect(s)
    \/ \E t \in Tabs :
         \/ Mount(t) \/ FetchTicket(t) \/ TicketExpires(t) \/ HandleConnection(t)
         \/ Redial(t) \/ Unmount(t) \/ Dismiss(t)

PushTypeOK ==
    /\ tab \in [Tabs -> {"off", "dialing", "ticket", "open", "refused"}]
    /\ ticket \in [Tabs -> {"none", "valid", "stale"}]
    /\ socket \in [Tabs -> 0..MaxSockets]
    /\ serverEnd \subseteq 1..dialed /\ registry \subseteq 1..dialed
    /\ dialed \in 0..MaxSockets
    /\ toasts \in [Tabs -> 0..2]

\* Every connection the server holds open is in the registry, one whose owner
\* has not noticed its end included, so that a verdict reaches each open tab of
\* its author; and the registry keeps none that has ended.
OpenSocketIsRegistered ==
    /\ \A t \in Tabs : Connected(t) => socket[t] \in registry
    /\ registry \subseteq serverEnd
=============================================================================
