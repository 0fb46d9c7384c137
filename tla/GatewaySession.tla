--------------------------- MODULE GatewaySession ---------------------------
(***************************************************************************)
(* One browser tab against the gateway's sessions: the session store and   *)
(* the rolling cookie (apps/api-gateway/src/main.ts), AuthController,      *)
(* SessionGuard and the posts proxy on one side, the tab's `me` query, its *)
(* query cache and the 401 eviction (apps/dashboard/src/lib/query.tsx,     *)
(* features/auth/use-auth.ts) on the other.  Requests of one tab overlap:  *)
(* each is sent, answered and delivered in steps of its own.  A session id *)
(* is random, so a name that nothing refers to stands for a new one.       *)
(***************************************************************************)
EXTENDS FiniteSets

CONSTANTS
    Users,    \* accounts a person may use in this tab
    Sids,     \* names of session ids
    Requests, \* bound: requests in flight together
    None      \* no session, no user

ASSUME SessionNames ==
    None \notin Sids \cup Users \cup {"loading", "anonymous", "unreachable"}
ASSUME UserNames == Users \cap {"loading", "anonymous", "unreachable"} = {}

VARIABLES
    store,      \* user of each session in Redis, None: no such session
    cookie,     \* the session cookie of the browser
    me,         \* data of the `me` query: what AuthGate goes by
    cached,     \* users whose answers are in the query cache
    reqs,       \* the tab's requests
    entered,    \* the session `me` was set under
    strayed     \* a late answer replaced the cookie of that session

sessionVars == <<store, cookie, me, cached, reqs, entered, strayed>>

Kinds == {"me", "query", "mutation", "login", "register", "signup", "logout"}
Request ==
    [phase : {"idle", "sent", "answered"}, kind : Kinds,
     user : Users \cup {None}, sid : Sids \cup {None},
     status : {"none", "ok", "unauthorized", "failed"},
     set : Sids \cup {None}, relayed : BOOLEAN, dropped : BOOLEAN]
IdleRequest ==
    [phase |-> "idle", kind |-> "me", user |-> None, sid |-> None,
     status |-> "none", set |-> None, relayed |-> FALSE, dropped |-> FALSE]

SessionInit ==
    /\ store = [s \in Sids |-> None]
    /\ cookie = None /\ entered = None /\ strayed = FALSE
    /\ me = "loading" /\ cached = {}
    /\ reqs = [r \in Requests |-> IdleRequest]

InFlight(kinds) == {r \in Requests : reqs[r].phase # "idle" /\ reqs[r].kind \in kinds}

\* AuthGate: a spinner or an error, the login screen, or the pages.
GatewayUnknown == me \in {"loading", "unreachable"}
LoginScreen == me = "anonymous"
Pages == me \in Users

-----------------------------------------------------------------------------
(* The tab sends.                                                          *)

Sent(kind, user, sid) ==
    [IdleRequest EXCEPT !.phase = "sent", !.kind = kind, !.user = user, !.sid = sid]

Send(r, kind, user) ==
    /\ reqs[r].phase = "idle"
    /\ reqs' = [reqs EXCEPT ![r] = Sent(kind, user, cookie)]
    /\ UNCHANGED <<store, cookie, me, cached, entered, strayed>>

\* useMe(): when the app starts, and again from the ErrorState.
AskMe(r) ==
    /\ GatewayUnknown /\ InFlight({"me"}) = {}
    /\ Send(r, "me", None)

\* The login screen: a pending form has its own button disabled, not the other
\* mode's.
SubmitLogin(r, u) ==
    /\ LoginScreen /\ InFlight({"login"}) = {}
    /\ Send(r, "login", u)
SubmitRegister(r, u) ==
    /\ LoginScreen /\ InFlight({"register", "signup"}) = {}
    /\ Send(r, "register", u)

\* The pages behind AuthGate: queries, the Trigger page's post, Log out.
SendQuery(r) == Pages /\ Send(r, "query", None)
SendPost(r) == Pages /\ Send(r, "mutation", None)
SubmitLogout(r) ==
    /\ Pages /\ InFlight({"logout"}) = {}
    /\ Send(r, "logout", None)

-----------------------------------------------------------------------------
(* The gateway answers.                                                    *)

Live(sid) == sid # None /\ store[sid] # None

\* rolling: every response of a live session sets its cookie again.
Rolling(r) == IF Live(reqs[r].sid) THEN reqs[r].sid ELSE None

Answer(r, status, user, set) ==
    reqs' = [reqs EXCEPT ![r] = [@ EXCEPT !.phase = "answered", !.status = status,
                                          !.user = user, !.set = set]]

Arrives(r, kinds) == reqs[r].phase = "sent" /\ reqs[r].kind \in kinds

SessionGuard(r) == Live(reqs[r].sid)

\* A read behind SessionGuard.
Serve(r) ==
    /\ Arrives(r, {"me", "query"})
    /\ IF SessionGuard(r)
         THEN Answer(r, "ok", store[reqs[r].sid], Rolling(r))
         ELSE Answer(r, "unauthorized", None, None)
    /\ UNCHANGED <<store, cookie, me, cached, entered, strayed>>

\* A post behind SessionGuard: the proxy sends it on under an internal token
\* and returns whatever status the content service gave, a 401 included.
Forward(r) ==
    /\ Arrives(r, {"mutation"})
    /\ IF SessionGuard(r)
         THEN Answer(r, "ok", store[reqs[r].sid], Rolling(r))
         ELSE Answer(r, "unauthorized", None, None)
    /\ UNCHANGED <<store, cookie, me, cached, entered, strayed>>
UpstreamRejects(r) ==
    /\ Arrives(r, {"mutation"}) /\ SessionGuard(r)
    /\ reqs' = [reqs EXCEPT ![r] = [@ EXCEPT !.phase = "answered",
          !.status = "unauthorized", !.set = Rolling(r), !.relayed = TRUE]]
    /\ UNCHANGED <<store, cookie, me, cached, entered, strayed>>

\* The same answer whether the email had an account or not.  Which emails have
\* one matters to the outcome of a login only, which is left open.
Register(r) ==
    /\ Arrives(r, {"register"})
    /\ Answer(r, "ok", reqs[r].user, Rolling(r))
    /\ UNCHANGED <<store, cookie, me, cached, entered, strayed>>

Unused(sid) ==
    /\ store[sid] = None /\ sid \notin {cookie, entered}
    /\ \A r \in Requests : sid \notin {reqs[r].sid, reqs[r].set}

\* Credentials hold: the session of the request is regenerated.
Login(r) ==
    /\ Arrives(r, {"login", "signup"})
    /\ \E sid \in Sids :
          /\ Unused(sid)
          /\ store' = [s \in Sids |-> IF s = sid THEN reqs[r].user
                                      ELSE IF s = reqs[r].sid THEN None ELSE store[s]]
          /\ Answer(r, "ok", reqs[r].user, sid)
    /\ UNCHANGED <<cookie, me, cached, entered, strayed>>
BadCredentials(r) ==
    /\ Arrives(r, {"login", "signup"})
    /\ Answer(r, "unauthorized", None, Rolling(r))
    /\ UNCHANGED <<store, cookie, me, cached, entered, strayed>>

Logout(r) ==
    /\ Arrives(r, {"logout"})
    /\ store' = [s \in Sids |-> IF s = reqs[r].sid THEN None ELSE store[s]]
    /\ Answer(r, "ok", None, None)
    /\ UNCHANGED <<cookie, me, cached, entered, strayed>>

\* 429 of the rate limit, a 5xx, or no answer at all.
Fail(r) ==
    /\ reqs[r].phase = "sent"
    /\ \E set \in {None, Rolling(r)} : Answer(r, "failed", None, set)
    /\ UNCHANGED <<store, cookie, me, cached, entered, strayed>>

\* An hour without a request.
Expire(sid) ==
    /\ Live(sid)
    /\ store' = [store EXCEPT ![sid] = None]
    /\ UNCHANGED <<cookie, me, cached, reqs, entered, strayed>>

-----------------------------------------------------------------------------
(* The answer reaches the tab: the browser stores the cookie, then the     *)
(* query or mutation sees it.                                              *)

Arrived(r, kinds) == reqs[r].phase = "answered" /\ reqs[r].kind \in kinds

\* The browser does not know a late Set-Cookie from a current one.
TakeCookie(r) ==
    /\ cookie' = IF reqs[r].set = None THEN cookie ELSE reqs[r].set
    /\ strayed' = (strayed \/ (me \in Users /\ reqs[r].set \notin {None, entered}))
Close(r) == reqs' = [reqs EXCEPT ![r] = IdleRequest]

\* removeQueries of everything but `me` cancels the fetches of those queries.
RemoveOtherQueries(r) ==
    /\ cached' = {}
    /\ reqs' = [q \in Requests |->
          IF q = r THEN IdleRequest
          ELSE [reqs[q] EXCEPT !.dropped = reqs[q].phase # "idle" /\ reqs[q].kind = "query"]]

\* Faulty variant of EvictExpiredSession: any error evicts.
EvictOnAnyError(r) ==
    me' = IF reqs[r].status # "ok" THEN "anonymous" ELSE me

\* evictExpiredSession(): `me` only, the caches stay.
EvictExpiredSession(r) ==
    me' = IF reqs[r].status = "unauthorized" THEN "anonymous" ELSE me

DeliverMe(r) ==
    /\ Arrived(r, {"me"})
    /\ me' = CASE reqs[r].status = "ok" -> reqs[r].user
               [] reqs[r].status = "unauthorized" -> "anonymous"
               [] OTHER -> "unreachable"
    /\ entered' = IF reqs[r].status = "ok" THEN reqs[r].set ELSE entered
    /\ TakeCookie(r) /\ Close(r)
    /\ UNCHANGED <<store, cached>>

DeliverQuery(r) ==
    /\ Arrived(r, {"query"})
    /\ IF reqs[r].dropped
         THEN UNCHANGED <<me, cached>>
         ELSE /\ EvictExpiredSession(r)
              /\ cached' = IF reqs[r].status = "ok" THEN cached \cup {reqs[r].user} ELSE cached
    /\ TakeCookie(r) /\ Close(r)
    /\ UNCHANGED <<store, entered>>

DeliverPost(r) ==
    /\ Arrived(r, {"mutation"})
    /\ EvictExpiredSession(r)
    /\ TakeCookie(r) /\ Close(r)
    /\ UNCHANGED <<store, cached, entered>>

\* Faulty variant of EnterSession: leftover queries stay.
EnterWithOldCache(r) ==
    /\ Arrived(r, {"login", "signup"}) /\ reqs[r].status = "ok"
    /\ me' = reqs[r].user
    /\ cookie' = reqs[r].set /\ entered' = reqs[r].set /\ strayed' = FALSE
    /\ Close(r)
    /\ UNCHANGED <<store, cached>>

\* enterSession() on success.
EnterSession(r) ==
    /\ Arrived(r, {"login", "signup"}) /\ reqs[r].status = "ok"
    /\ me' = reqs[r].user
    /\ cookie' = reqs[r].set /\ entered' = reqs[r].set /\ strayed' = FALSE
    /\ RemoveOtherQueries(r)
    /\ UNCHANGED <<store>>
LoginRefused(r) ==
    /\ Arrived(r, {"login", "signup"}) /\ reqs[r].status # "ok"
    /\ EvictExpiredSession(r)
    /\ TakeCookie(r) /\ Close(r)
    /\ UNCHANGED <<store, cached, entered>>

\* useRegister() chains the login behind the registration.
DeliverRegister(r) ==
    /\ Arrived(r, {"register"})
    /\ TakeCookie(r)
    /\ reqs' = [reqs EXCEPT ![r] = IF reqs[r].status = "ok"
                                     THEN Sent("signup", reqs[r].user, cookie')
                                     ELSE IdleRequest]
    /\ UNCHANGED <<store, me, cached, entered>>

DeliverLogout(r) ==
    /\ Arrived(r, {"logout"})
    /\ TakeCookie(r)
    /\ IF reqs[r].status = "ok"
         THEN me' = "anonymous" /\ RemoveOtherQueries(r)
         ELSE UNCHANGED <<me, cached>> /\ Close(r)
    /\ UNCHANGED <<store, entered>>

SessionNext ==
    \/ \E r \in Requests :
          \/ AskMe(r) \/ SendQuery(r) \/ SendPost(r) \/ SubmitLogout(r)
          \/ \E u \in Users : SubmitLogin(r, u) \/ SubmitRegister(r, u)
          \/ Serve(r) \/ Forward(r) \/ UpstreamRejects(r) \/ Register(r)
          \/ Login(r) \/ BadCredentials(r) \/ Logout(r) \/ Fail(r)
          \/ DeliverMe(r) \/ DeliverQuery(r) \/ DeliverPost(r) \/ EnterSession(r)
          \/ LoginRefused(r) \/ DeliverRegister(r) \/ DeliverLogout(r)
    \/ \E sid \in Sids : Expire(sid)

SessionSpec == SessionInit /\ [][SessionNext]_sessionVars

-----------------------------------------------------------------------------
SessionTypeOK ==
    /\ store \in [Sids -> Users \cup {None}]
    /\ {cookie, entered} \subseteq Sids \cup {None}
    /\ me \in Users \cup {"loading", "anonymous", "unreachable"}
    /\ cached \in SUBSET Users
    /\ reqs \in [Requests -> Request]
    /\ strayed \in BOOLEAN

\* use-auth.ts:17-21: leftover queries belong to the old session.  The pages of
\* a logged-in user show nothing another user fetched, whatever answers were
\* still on their way at the login, until a late Set-Cookie of an earlier
\* session has replaced the cookie.
CacheBelongsToMe == Pages /\ ~strayed => cached \subseteq {me}

EvictionStep ==
    me \in Users /\ me' = "anonymous" =>
        \/ ~Live(entered) \/ strayed
        \/ \E r \in Requests :
              /\ reqs[r].phase = "answered" /\ reqs'[r].phase = "idle"
              /\ \/ reqs[r].kind \in {"logout", "login", "signup"} \/ reqs[r].relayed
                 \/ reqs[r].kind = "mutation" /\ reqs[r].sid # entered

\* query.tsx:17-22: a 401 after login means the session expired.  The tab drops
\* to the login screen only then, on logout, after a late Set-Cookie, on a 401
\* the content service gave, or when the answer to a post sent before this
\* login or to the other login form comes in late.  A query never does it.
EvictionHasCause == [][EvictionStep]_sessionVars
=============================================================================
