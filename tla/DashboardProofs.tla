-------------------------- MODULE DashboardProofs --------------------------
(***************************************************************************)
(* Proofs about Dashboard, part by part, for every value of the constants. *)
(* SessionInv: while the cookie has not strayed, everything in the tab that*)
(* could still write to the query cache was sent under the session `me` was*)
(* set under.  LimitInv: the window before a counter was one counter's.    *)
(* StatusInv: the tiles drift by one for each row that moves.  StreamInv   *)
(* and TailInv: numbers of a service grow along buffer and stream, and the *)
(* tail reads on from the greatest id it sent.  TraceInv adds that lines   *)
(* tell of what took place.  At the end, what the composition keeps.       *)
(***************************************************************************)
EXTENDS Dashboard, FiniteSetTheorems, SequenceTheorems, WellFoundedInduction, TLAPS

-----------------------------------------------------------------------------
(* The session of the tab.                                                 *)

\* Until `me` is known the tab has asked for nothing else, not even twice, and
\* holds nothing; afterwards it does not ask again.
MeComesFirst ==
    /\ \A q, r \in InFlight({"me"}) : q = r
    /\ GatewayUnknown => cached = {} /\ InFlight(Kinds \ {"me"}) = {}
    /\ ~GatewayUnknown => InFlight({"me"}) = {}

\* An answer that lets somebody in names a session of theirs, alive or not.
GrantNamesItsUser ==
    \A r \in Requests :
        reqs[r].phase = "answered" /\ reqs[r].status = "ok"
            /\ reqs[r].kind \in {"me", "login", "signup"} =>
          /\ reqs[r].user \in Users
          /\ reqs[r].set \in Sids /\ store[reqs[r].set] \in {None, reqs[r].user}

\* Who fills in a login form is a user.
FormNamesUser ==
    \A r \in Requests :
        reqs[r].phase = "sent" /\ reqs[r].kind \in {"login", "register", "signup"}
            => reqs[r].user \in Users

\* So is whom an answer is about.
AnswerNamesUser ==
    \A r \in Requests :
        reqs[r].phase = "answered" /\ reqs[r].status = "ok"
            /\ reqs[r].kind \in {"register", "query"} => reqs[r].user \in Users

\* A session SessionGuard refused is gone for good: its id is not given out
\* again while the request holds it.
RefusedIsGone ==
    \A r \in Requests :
        reqs[r].phase = "answered" /\ reqs[r].status = "unauthorized"
            /\ reqs[r].kind \in {"query", "mutation"} /\ ~reqs[r].relayed
          => ~Live(reqs[r].sid)

\* While the cookie is that of `me`, the session is of that user, alive or not.
EnteredIsMine ==
    Pages /\ ~strayed =>
        /\ entered \in Sids /\ cookie = entered /\ store[entered] \in {None, me}

\* The queries whose answers count were sent under it.
QueriesAreMine ==
    Pages /\ ~strayed =>
        \A r \in InFlight({"query"}) : ~reqs[r].dropped =>
            /\ reqs[r].sid = entered
            /\ reqs[r].phase = "answered" /\ reqs[r].status = "ok" => reqs[r].user = me

Tags ==
    /\ MeComesFirst
    /\ GrantNamesItsUser
    /\ FormNamesUser
    /\ AnswerNamesUser
    /\ RefusedIsGone
    /\ EnteredIsMine
    /\ QueriesAreMine
    /\ CacheBelongsToMe

SessionInv == SessionTypeOK /\ Tags
-----------------------------------------------------------------------------
(* Types.                                                                  *)

USE SessionNames, UserNames

\* A request as a component sends it is well typed.
LEMMA SentIsTyped ==
    ASSUME NEW kind \in Kinds, NEW user \in Users \cup {None}, NEW sid \in Sids \cup {None}
    PROVE  Sent(kind, user, sid) \in Request
BY DEF Sent, IdleRequest, Request, Kinds

\* So is a slot without a request.
LEMMA IdleIsTyped == IdleRequest \in Request
BY DEF IdleRequest, Request, Kinds

\* The initial state is well typed.
LEMMA InitTyped == SessionInit => SessionTypeOK
BY IdleIsTyped DEF SessionInit, SessionTypeOK

-----------------------------------------------------------------------------
(* Sending.                                                                *)

Others(r) == \A q \in Requests \ {r} : reqs'[q] = reqs[q]

\* A request starts with the cookie of the tab and no answer.
LEMMA SendPreserves ==
    ASSUME SessionInv, NEW r \in Requests, NEW kind \in Kinds,
           NEW user \in Users \cup {None}, Send(r, kind, user),
           kind = "me" => GatewayUnknown /\ InFlight({"me"}) = {},
           kind # "me" => ~GatewayUnknown,
           kind = "query" => Pages,
           kind \in {"login", "register", "signup"} => user \in Users
    PROVE  SessionInv'
<1>1. SessionTypeOK /\ Tags
  BY DEF SessionInv
<1>2. UNCHANGED <<store, cookie, me, cached, entered, strayed>>
  BY DEF Send
<1>3. reqs'[r] = Sent(kind, user, cookie) /\ Others(r) /\ reqs' \in [Requests -> Request]
  BY <1>1, SentIsTyped DEF Send, Others, SessionTypeOK
<1>4. /\ reqs'[r].phase = "sent" /\ reqs'[r].kind = kind /\ reqs'[r].user = user
      /\ reqs'[r].sid = cookie /\ reqs'[r].dropped = FALSE
  BY <1>3 DEF Sent, IdleRequest
<1>5. SessionTypeOK'
  BY <1>1, <1>2, <1>3 DEF SessionTypeOK
<1>6. MeComesFirst'
  BY <1>1, <1>2, <1>3, <1>4
     DEF Tags, MeComesFirst, InFlight, GatewayUnknown, Others, Kinds
<1>7. GrantNamesItsUser' /\ FormNamesUser' /\ AnswerNamesUser' /\ RefusedIsGone'
  BY <1>1, <1>2, <1>3, <1>4
     DEF Tags, GrantNamesItsUser, FormNamesUser, AnswerNamesUser, RefusedIsGone, Live, Others
<1>8. EnteredIsMine' /\ CacheBelongsToMe'
  BY <1>1, <1>2 DEF Tags, EnteredIsMine, CacheBelongsToMe, Pages
<1>9. QueriesAreMine'
  BY <1>1, <1>2, <1>3, <1>4
     DEF Tags, QueriesAreMine, EnteredIsMine, InFlight, Pages, Others
<1> QED
  BY <1>5, <1>6, <1>7, <1>8, <1>9 DEF SessionInv, Tags

\* Whatever the tab sends keeps the invariant.
LEMMA SendsPreserve ==
    ASSUME SessionInv, NEW r \in Requests,
           \/ AskMe(r) \/ SendQuery(r) \/ SendPost(r) \/ SubmitLogout(r)
           \/ \E u \in Users : SubmitLogin(r, u) \/ SubmitRegister(r, u)
    PROVE  SessionInv'
<1> USE SendPreserves DEF Kinds, GatewayUnknown, Pages, LoginScreen
<1>1. CASE AskMe(r)
  BY <1>1 DEF AskMe
<1>2. CASE SendQuery(r) \/ SendPost(r)
  BY <1>2 DEF SendQuery, SendPost
<1>3. CASE SubmitLogout(r)
  BY <1>3 DEF SubmitLogout
<1>4. CASE \E u \in Users : SubmitLogin(r, u) \/ SubmitRegister(r, u)
  BY <1>4 DEF SubmitLogin, SubmitRegister
<1> QED
  BY <1>1, <1>2, <1>3, <1>4

-----------------------------------------------------------------------------
(* Answering.                                                              *)

\* What the answers have in common: the request keeps its kind and session id,
\* the tab sees nothing yet, and a session of the store ends, stays, or is made
\* under an id nothing refers to.
AnswersOne(r) ==
    /\ reqs[r].phase = "sent" /\ reqs'[r].phase = "answered"
    /\ reqs'[r].kind = reqs[r].kind /\ reqs'[r].sid = reqs[r].sid
    /\ reqs'[r].dropped = reqs[r].dropped
    /\ Others(r)
    /\ UNCHANGED <<cookie, me, cached, entered, strayed>>
    /\ \A s \in Sids : Unused(s) \/ store'[s] \in {None, store[s]}

\* An answer changes one request and none of what it asked for.
LEMMA AnswerTyped ==
    ASSUME SessionTypeOK, NEW r \in Requests,
           NEW status \in {"ok", "unauthorized", "failed"},
           NEW user \in Users \cup {None}, NEW set \in Sids \cup {None},
           Answer(r, status, user, set)
    PROVE  /\ reqs' \in [Requests -> Request] /\ Others(r)
           /\ reqs'[r].phase = "answered" /\ reqs'[r].kind = reqs[r].kind
           /\ reqs'[r].sid = reqs[r].sid /\ reqs'[r].dropped = reqs[r].dropped
           /\ reqs'[r].status = status /\ reqs'[r].user = user /\ reqs'[r].set = set
           /\ reqs'[r].relayed = reqs[r].relayed
<1> DEFINE answered == [reqs[r] EXCEPT !.phase = "answered", !.status = status,
                                       !.user = user, !.set = set]
<1>1. reqs[r] \in Request
  BY DEF SessionTypeOK
<1>2. answered \in Request
  BY <1>1 DEF Request
<1>3. reqs' = [reqs EXCEPT ![r] = answered]
  BY DEF Answer
<1>4. reqs' \in [Requests -> Request] /\ Others(r) /\ reqs'[r] = answered
  BY <1>2, <1>3 DEF SessionTypeOK, Others
<1>5. /\ answered.phase = "answered" /\ answered.kind = reqs[r].kind
      /\ answered.sid = reqs[r].sid /\ answered.dropped = reqs[r].dropped
      /\ answered.status = status /\ answered.user = user /\ answered.set = set
      /\ answered.relayed = reqs[r].relayed
  BY <1>1 DEF Request
<1> QED
  BY <1>4, <1>5

\* A rolling cookie carries the session the request came with, or nothing.
LEMMA RollingTyped ==
    ASSUME SessionInv, NEW r \in Requests
    PROVE  /\ Rolling(r) \in Sids \cup {None}
           /\ Live(reqs[r].sid) => /\ Rolling(r) = reqs[r].sid /\ reqs[r].sid \in Sids
                                   /\ store[reqs[r].sid] \in Users
<1>1. SessionTypeOK
  BY DEF SessionInv
<1>2. reqs[r].sid \in Sids \cup {None}
  BY <1>1 DEF SessionTypeOK, Request
<1> QED
  BY <1>1, <1>2 DEF Rolling, Live, SessionTypeOK

\* An answer that names the user of its session keeps the invariant.
LEMMA AnswerPreserves ==
    ASSUME SessionInv, SessionTypeOK', NEW r \in Requests, AnswersOne(r),
           reqs'[r].status = "ok" =>
             /\ reqs'[r].kind \in {"me", "login", "signup"} =>
                  /\ reqs'[r].user \in Users /\ reqs'[r].set \in Sids
                  /\ store'[reqs'[r].set] \in {None, reqs'[r].user}
             /\ reqs'[r].kind = "register" => reqs'[r].user \in Users
             /\ reqs'[r].kind = "query" => Live(reqs[r].sid) /\ reqs'[r].user = store[reqs[r].sid],
           reqs'[r].status = "unauthorized" /\ reqs'[r].kind \in {"query", "mutation"}
             /\ ~reqs'[r].relayed => ~Live(reqs[r].sid) /\ UNCHANGED store
    PROVE  SessionInv'
<1>1. SessionTypeOK /\ Tags
  BY DEF SessionInv
<1>2. MeComesFirst'
  BY <1>1 DEF Tags, MeComesFirst, InFlight, GatewayUnknown, AnswersOne, Others
<1>3. GrantNamesItsUser'
  <2> SUFFICES ASSUME NEW q \in Requests \ {r},
                      reqs[q].phase = "answered", reqs[q].status = "ok",
                      reqs[q].kind \in {"me", "login", "signup"}
               PROVE  /\ reqs[q].user \in Users
                      /\ reqs[q].set \in Sids /\ store'[reqs[q].set] \in {None, reqs[q].user}
    BY DEF GrantNamesItsUser, AnswersOne, Others
  <2> QED
    BY <1>1 DEF Tags, GrantNamesItsUser, AnswersOne, Unused
<1>4. FormNamesUser'
  BY <1>1 DEF Tags, FormNamesUser, AnswersOne, Others
<1>5. AnswerNamesUser'
  BY <1>1, RollingTyped DEF Tags, AnswerNamesUser, AnswersOne, Others
<1>6. RefusedIsGone'
  <2>1. ASSUME NEW q \in Requests, ~Live(reqs[q].sid), q # r
        PROVE  ~Live(reqs[q].sid)'
    <3>1. reqs'[q] = reqs[q]
      BY <2>1 DEF AnswersOne, Others
    <3>2. reqs[q].sid \in Sids \cup {None}
      BY <1>1 DEF SessionTypeOK, Request
    <3> QED
      BY <2>1, <3>1, <3>2 DEF AnswersOne, Unused, Live
  <2>2. (reqs'[r].status = "unauthorized" /\ reqs'[r].kind \in {"query", "mutation"}
          /\ ~reqs'[r].relayed) => ~Live(reqs[r].sid)'
    BY DEF Live, AnswersOne
  <2> QED
    BY <1>1, <2>1, <2>2 DEF Tags, RefusedIsGone, AnswersOne, Others
<1>7. EnteredIsMine' /\ CacheBelongsToMe'
  BY <1>1 DEF Tags, EnteredIsMine, CacheBelongsToMe, Pages, AnswersOne, Unused
<1>8. QueriesAreMine'
  BY <1>1 DEF Tags, QueriesAreMine, EnteredIsMine, InFlight, Pages, AnswersOne, Others, Live
<1> QED
  BY <1>2, <1>3, <1>4, <1>5, <1>6, <1>7, <1>8 DEF SessionInv, Tags

\* The answers that leave the store alone.
LEMMA Answered ==
    ASSUME SessionInv, NEW r \in Requests, reqs[r].phase = "sent",
           NEW status \in {"ok", "unauthorized", "failed"},
           NEW user \in Users \cup {None}, NEW set \in Sids \cup {None},
           Answer(r, status, user, set),
           UNCHANGED <<store, cookie, me, cached, entered, strayed>>
    PROVE  /\ SessionTypeOK' /\ AnswersOne(r)
           /\ reqs'[r].kind = reqs[r].kind /\ reqs'[r].status = status
           /\ reqs'[r].user = user /\ reqs'[r].set = set
<1>1. SessionTypeOK
  BY DEF SessionInv
<1>2. SessionTypeOK'
  BY <1>1, AnswerTyped DEF SessionTypeOK
<1> QED
  BY <1>1, <1>2, AnswerTyped DEF AnswersOne

\* Reads and proxied calls are answered for the user of their session.
LEMMA ServePreserves ==
    ASSUME SessionInv, NEW r \in Requests, Serve(r) \/ Forward(r)
    PROVE  SessionInv'
<1>1. /\ reqs[r].phase = "sent" /\ reqs[r].kind \in {"me", "query", "mutation"}
      /\ UNCHANGED <<store, cookie, me, cached, entered, strayed>>
  BY DEF Serve, Forward, Arrives
<1>2. CASE Live(reqs[r].sid)
  <2>1. Answer(r, "ok", store[reqs[r].sid], Rolling(r))
    BY <1>2 DEF Serve, Forward, SessionGuard
  <2> QED
    BY <1>1, <1>2, <2>1, Answered, RollingTyped, AnswerPreserves
<1>3. CASE ~Live(reqs[r].sid)
  <2>1. Answer(r, "unauthorized", None, None)
    BY <1>3 DEF Serve, Forward, SessionGuard
  <2> QED
    BY <1>1, <1>3, <2>1, Answered, AnswerPreserves
<1> QED
  BY <1>2, <1>3

\* Registering answers for the user in the form and starts no session.
LEMMA RegisterPreserves ==
    ASSUME SessionInv, NEW r \in Requests, Register(r)
    PROVE  SessionInv'
<1>1. /\ reqs[r].phase = "sent" /\ reqs[r].kind = "register"
      /\ Answer(r, "ok", reqs[r].user, Rolling(r))
      /\ UNCHANGED <<store, cookie, me, cached, entered, strayed>>
  BY DEF Register, Arrives
<1>2. reqs[r].user \in Users
  BY <1>1 DEF SessionInv, Tags, FormNamesUser
<1> QED
  BY <1>1, <1>2, Answered, RollingTyped, AnswerPreserves

\* Refused and failed requests carry no user.
LEMMA RefusalsPreserve ==
    ASSUME SessionInv, NEW r \in Requests, BadCredentials(r) \/ Fail(r)
    PROVE  SessionInv'
<1>1. CASE BadCredentials(r)
  BY <1>1, Answered, RollingTyped, AnswerPreserves DEF BadCredentials, Arrives
<1>2. CASE Fail(r)
  <2>1. PICK set \in {None, Rolling(r)} : Answer(r, "failed", None, set)
    BY <1>2 DEF Fail
  <2> QED
    BY <1>2, <2>1, Answered, RollingTyped, AnswerPreserves DEF Fail
<1> QED
  BY <1>1, <1>2

\* A 401 relayed from a service behind the gateway keeps the invariant.
LEMMA UpstreamPreserves ==
    ASSUME SessionInv, NEW r \in Requests, UpstreamRejects(r)
    PROVE  SessionInv'
<1> DEFINE answered == [reqs[r] EXCEPT !.phase = "answered",
                          !.status = "unauthorized", !.set = Rolling(r), !.relayed = TRUE]
<1>1. SessionTypeOK /\ reqs[r] \in Request /\ reqs[r].phase = "sent"
  BY DEF SessionInv, SessionTypeOK, UpstreamRejects, Arrives
<1>2. answered \in Request
  BY <1>1, RollingTyped DEF Request
<1>3. reqs' = [reqs EXCEPT ![r] = answered]
      /\ UNCHANGED <<store, cookie, me, cached, entered, strayed>>
  BY DEF UpstreamRejects
<1>4. reqs' \in [Requests -> Request] /\ Others(r) /\ reqs'[r] = answered
  BY <1>1, <1>2, <1>3 DEF SessionTypeOK, Others
<1>5. /\ answered.phase = "answered" /\ answered.kind = reqs[r].kind
      /\ answered.sid = reqs[r].sid /\ answered.dropped = reqs[r].dropped
      /\ answered.status = "unauthorized" /\ answered.relayed
  BY <1>1 DEF Request
<1>6. SessionTypeOK' /\ AnswersOne(r)
  BY <1>1, <1>3, <1>4, <1>5 DEF SessionTypeOK, AnswersOne
<1> QED
  BY <1>4, <1>5, <1>6, AnswerPreserves

\* A login answers with the session it has just stored.
LEMMA LoginPreserves ==
    ASSUME SessionInv, NEW r \in Requests, Login(r)
    PROVE  SessionInv'
<1>1. /\ SessionTypeOK /\ reqs[r].phase = "sent" /\ reqs[r].kind \in {"login", "signup"}
      /\ UNCHANGED <<cookie, me, cached, entered, strayed>>
  BY DEF SessionInv, Login, Arrives
<1>2. reqs[r].user \in Users
  BY <1>1 DEF SessionInv, Tags, FormNamesUser
<1>3. PICK sid \in Sids :
        /\ Unused(sid)
        /\ store' = [s \in Sids |-> IF s = sid THEN reqs[r].user
                                    ELSE IF s = reqs[r].sid THEN None ELSE store[s]]
        /\ Answer(r, "ok", reqs[r].user, sid)
  BY DEF Login
<1>4. store' \in [Sids -> Users \cup {None}] /\ store'[sid] = reqs[r].user
  BY <1>1, <1>2, <1>3 DEF SessionTypeOK
<1>5. /\ reqs' \in [Requests -> Request] /\ reqs'[r].kind = reqs[r].kind
      /\ reqs'[r].status = "ok" /\ reqs'[r].user = reqs[r].user /\ reqs'[r].set = sid
  BY <1>1, <1>2, <1>3, AnswerTyped
<1>6. SessionTypeOK'
  BY <1>1, <1>4, <1>5 DEF SessionTypeOK
<1>7. AnswersOne(r)
  BY <1>1, <1>2, <1>3, AnswerTyped DEF AnswersOne
<1> QED
  BY <1>1, <1>2, <1>4, <1>5, <1>6, <1>7, AnswerPreserves

\* A logout removes the session it came with and no other.
LEMMA LogoutPreserves ==
    ASSUME SessionInv, NEW r \in Requests, Logout(r)
    PROVE  SessionInv'
<1>1. /\ SessionTypeOK /\ reqs[r].phase = "sent" /\ reqs[r].kind = "logout"
      /\ UNCHANGED <<cookie, me, cached, entered, strayed>>
      /\ store' = [s \in Sids |-> IF s = reqs[r].sid THEN None ELSE store[s]]
      /\ Answer(r, "ok", None, None)
  BY DEF SessionInv, Logout, Arrives
<1>2. SessionTypeOK'
  BY <1>1, AnswerTyped DEF SessionTypeOK
<1>3. AnswersOne(r)
  BY <1>1, AnswerTyped DEF AnswersOne
<1>4. reqs'[r].kind = "logout" /\ reqs'[r].status = "ok"
  BY <1>1, AnswerTyped
<1> QED
  BY <1>2, <1>3, <1>4, AnswerPreserves

\* A session that ends at its TTL is never given to another user.
LEMMA ExpirePreserves ==
    ASSUME SessionInv, NEW sid \in Sids, Expire(sid)
    PROVE  SessionInv'
<1>1. /\ SessionTypeOK /\ Tags /\ UNCHANGED <<cookie, me, cached, reqs, entered, strayed>>
      /\ store' = [store EXCEPT ![sid] = None]
  BY DEF SessionInv, Expire
<1>2. SessionTypeOK' /\ \A s \in Sids : store'[s] \in {None, store[s]}
  BY <1>1 DEF SessionTypeOK
<1>3. MeComesFirst' /\ FormNamesUser' /\ AnswerNamesUser' /\ QueriesAreMine' /\ CacheBelongsToMe'
  BY <1>1 DEF Tags, MeComesFirst, GatewayUnknown, InFlight, FormNamesUser, AnswerNamesUser,
              QueriesAreMine, CacheBelongsToMe, Pages
<1>4. GrantNamesItsUser' /\ EnteredIsMine'
  BY <1>1, <1>2 DEF Tags, GrantNamesItsUser, EnteredIsMine, Pages
<1>5. \A r \in Requests : ~Live(reqs[r].sid) => ~Live(reqs[r].sid)'
  <2> SUFFICES ASSUME NEW r \in Requests, ~Live(reqs[r].sid)
               PROVE  ~Live(reqs[r].sid)'
    OBVIOUS
  <2>1. reqs[r].sid \in Sids \cup {None}
    BY <1>1 DEF SessionTypeOK, Request
  <2> QED
    BY <1>1, <1>2, <2>1 DEF Live
<1>6. RefusedIsGone'
  BY <1>1, <1>5 DEF Tags, RefusedIsGone
<1> QED
  BY <1>2, <1>3, <1>4, <1>6 DEF SessionInv, Tags

-----------------------------------------------------------------------------
(* Delivering.                                                             *)

\* What the deliveries have in common: the request is over, others may only
\* lose the fetch they stand for, and the store does not change.
ClosesOne(r) ==
    /\ reqs[r].phase = "answered" /\ reqs'[r] = IdleRequest
    /\ \A q \in Requests \ {r} :
          /\ reqs'[q].phase = reqs[q].phase /\ reqs'[q].kind = reqs[q].kind
          /\ reqs'[q].user = reqs[q].user /\ reqs'[q].sid = reqs[q].sid
          /\ reqs'[q].status = reqs[q].status /\ reqs'[q].set = reqs[q].set
          /\ reqs'[q].relayed = reqs[q].relayed
    /\ UNCHANGED store

\* Delivering an answer frees its slot.
LEMMA CloseTyped ==
    ASSUME SessionTypeOK, NEW r \in Requests, Close(r)
    PROVE  reqs' \in [Requests -> Request] /\ reqs'[r] = IdleRequest /\ Others(r)
BY IdleIsTyped DEF Close, SessionTypeOK, Others

\* removeQueries() drops the queries in flight.
LEMMA RemoveTyped ==
    ASSUME SessionTypeOK, NEW r \in Requests, RemoveOtherQueries(r)
    PROVE  /\ reqs' \in [Requests -> Request] /\ reqs'[r] = IdleRequest
           /\ \A q \in Requests \ {r} :
                /\ reqs'[q] = [reqs[q] EXCEPT
                      !.dropped = reqs[q].phase # "idle" /\ reqs[q].kind = "query"]
                /\ reqs[q] \in Request
<1> DEFINE removed(q) == [reqs[q] EXCEPT
             !.dropped = reqs[q].phase # "idle" /\ reqs[q].kind = "query"]
<1>1. \A q \in Requests : reqs[q] \in Request /\ removed(q) \in Request
  <2> SUFFICES ASSUME NEW q \in Requests
               PROVE  reqs[q] \in Request /\ removed(q) \in Request
    OBVIOUS
  <2>1. reqs[q] \in Request
    BY DEF SessionTypeOK
  <2>2. \A b \in BOOLEAN : [reqs[q] EXCEPT !.dropped = b] \in Request
    BY <2>1 DEF Request
  <2>3. (reqs[q].phase # "idle" /\ reqs[q].kind = "query") \in BOOLEAN
    OBVIOUS
  <2> QED
    BY <2>1, <2>2, <2>3
<1>2. reqs' = [q \in Requests |-> IF q = r THEN IdleRequest ELSE removed(q)]
  BY DEF RemoveOtherQueries
<1> QED
  BY <1>1, <1>2, IdleIsTyped

\* The part of the invariant that the request alone decides.
LEMMA ClosePreserves ==
    ASSUME SessionInv, NEW r \in Requests, ClosesOne(r)
    PROVE  GrantNamesItsUser' /\ FormNamesUser' /\ AnswerNamesUser' /\ RefusedIsGone'
<1>1. Tags
  BY DEF SessionInv
<1>2. reqs'[r].phase = "idle"
  BY DEF ClosesOne, IdleRequest
<1> QED
  BY <1>1, <1>2 DEF Tags, ClosesOne, GrantNamesItsUser, FormNamesUser, AnswerNamesUser,
                    RefusedIsGone, Live

\* Deliveries after which the tab is not a user's, or is the same user's with
\* nothing new in the cache and the cookie still that of `me`, or strayed.
LEMMA DeliveryPreserves ==
    ASSUME SessionInv, NEW r \in Requests, ClosesOne(r), SessionTypeOK',
           reqs[r].kind # "me", entered' = entered, TakeCookie(r),
           \A q \in Requests \ {r} :
             q \in InFlight({"query"}) /\ ~reqs'[q].dropped => ~reqs[q].dropped,
           me' \in {me, "anonymous"},
           cached' \subseteq cached \/ (Pages /\ ~strayed => cached' \subseteq {me})
    PROVE  SessionInv'
<1>1. SessionTypeOK /\ Tags /\ reqs'[r].phase = "idle"
  BY DEF SessionInv, ClosesOne, IdleRequest
<1>2. ~GatewayUnknown
  BY <1>1 DEF Tags, MeComesFirst, InFlight, SessionTypeOK, Request, ClosesOne
<1>3. ~GatewayUnknown'
  BY <1>2 DEF GatewayUnknown
<1>4. MeComesFirst'
  BY <1>1, <1>2, <1>3 DEF Tags, MeComesFirst, InFlight, ClosesOne
<1>5. ASSUME Pages', ~strayed'
      PROVE  Pages /\ ~strayed /\ me' = me /\ cookie' = cookie
  BY <1>1, <1>5 DEF Pages, TakeCookie, Tags, EnteredIsMine
<1>6. EnteredIsMine'
  BY <1>1, <1>5 DEF Tags, EnteredIsMine, ClosesOne
<1>7. QueriesAreMine'
  <2> SUFFICES ASSUME Pages', ~strayed', NEW q \in InFlight({"query"})', ~reqs'[q].dropped
               PROVE  /\ reqs'[q].sid = entered'
                      /\ reqs'[q].phase = "answered" /\ reqs'[q].status = "ok"
                           => reqs'[q].user = me'
    BY DEF QueriesAreMine
  <2>1. q \in Requests \ {r} /\ q \in InFlight({"query"}) /\ ~reqs[q].dropped
    BY <1>1 DEF InFlight, ClosesOne
  <2> QED
    BY <1>1, <1>5, <2>1 DEF Tags, QueriesAreMine, ClosesOne
<1>8. CacheBelongsToMe'
  BY <1>1, <1>5 DEF Tags, CacheBelongsToMe, Pages
<1> QED
  BY <1>4, <1>6, <1>7, <1>8, ClosePreserves DEF SessionInv, Tags

\* A late answer's cookie and the flag that goes with it are typed.
LEMMA CookieTyped ==
    ASSUME SessionTypeOK, NEW r \in Requests, TakeCookie(r)
    PROVE  cookie' \in Sids \cup {None} /\ strayed' \in BOOLEAN
<1>1. reqs[r].set \in Sids \cup {None}
  BY DEF SessionTypeOK, Request
<1>2. strayed' \in BOOLEAN
  BY DEF SessionTypeOK, TakeCookie
<1> QED
  BY <1>1, <1>2 DEF SessionTypeOK, TakeCookie

\* Either way of delivering an answer leaves the other requests as they were.
LEMMA CloseCloses ==
    ASSUME SessionTypeOK, NEW r \in Requests, reqs[r].phase = "answered", UNCHANGED store,
           Close(r) \/ RemoveOtherQueries(r)
    PROVE  /\ ClosesOne(r) /\ reqs' \in [Requests -> Request]
           /\ \A q \in Requests \ {r} :
                q \in InFlight({"query"}) /\ ~reqs'[q].dropped => ~reqs[q].dropped
<1>1. CASE Close(r)
  BY <1>1, CloseTyped DEF ClosesOne, Others
<1>2. CASE RemoveOtherQueries(r)
  <2>1. /\ reqs' \in [Requests -> Request] /\ reqs'[r] = IdleRequest
        /\ \A q \in Requests \ {r} :
             /\ reqs'[q] = [reqs[q] EXCEPT
                   !.dropped = reqs[q].phase # "idle" /\ reqs[q].kind = "query"]
             /\ reqs[q] \in Request
    BY <1>2, RemoveTyped
  <2>2. ASSUME NEW q \in Requests \ {r}
        PROVE  /\ reqs'[q].phase = reqs[q].phase /\ reqs'[q].kind = reqs[q].kind
               /\ reqs'[q].user = reqs[q].user /\ reqs'[q].sid = reqs[q].sid
               /\ reqs'[q].status = reqs[q].status /\ reqs'[q].set = reqs[q].set
               /\ reqs'[q].relayed = reqs[q].relayed
    BY <2>1 DEF Request
  <2>3. \A q \in Requests \ {r} : q \in InFlight({"query"}) => reqs'[q].dropped
    BY <2>1 DEF Request, InFlight
  <2> QED
    BY <2>1, <2>2, <2>3 DEF ClosesOne
<1> QED
  BY <1>1, <1>2

\* Answers that cannot set me keep the invariant.
LEMMA DeliveriesPreserve ==
    ASSUME SessionInv, NEW r \in Requests,
           \/ DeliverQuery(r) \/ DeliverPost(r) \/ LoginRefused(r) \/ DeliverLogout(r)
    PROVE  SessionInv'
<1>1. SessionTypeOK /\ Tags /\ reqs[r] \in Request
  BY DEF SessionInv, SessionTypeOK
<1>2. /\ reqs[r].phase = "answered" /\ reqs[r].kind # "me" /\ TakeCookie(r)
      /\ UNCHANGED <<store, entered>> /\ (Close(r) \/ RemoveOtherQueries(r))
  BY DEF DeliverQuery, DeliverPost, LoginRefused, DeliverLogout, Arrived, Close
<1>3. me' \in {me, "anonymous"}
  BY DEF DeliverQuery, DeliverPost, LoginRefused, DeliverLogout, EvictExpiredSession
<1>4. /\ cached' \in SUBSET Users
      /\ cached' \subseteq cached \/ (Pages /\ ~strayed => cached' \subseteq {me})
  <2>1. CASE UNCHANGED cached \/ cached' = {}
    BY <1>1, <2>1 DEF SessionTypeOK
  <2>2. CASE DeliverQuery(r) /\ ~reqs[r].dropped /\ reqs[r].status = "ok"
    <3>1. cached' = cached \cup {reqs[r].user} /\ r \in InFlight({"query"})
      BY <2>2 DEF DeliverQuery, InFlight, Arrived
    <3>2. Pages /\ ~strayed => reqs[r].user = me /\ cached \subseteq {me}
      BY <1>1, <1>2, <2>2, <3>1 DEF Tags, QueriesAreMine, CacheBelongsToMe
    <3>3. reqs[r].user \in Users
      BY <1>1, <1>2, <2>2 DEF Tags, AnswerNamesUser, DeliverQuery, Arrived
    <3> QED
      BY <1>1, <3>1, <3>2, <3>3 DEF SessionTypeOK
  <2> QED
    BY <2>1, <2>2 DEF DeliverQuery, DeliverPost, LoginRefused, DeliverLogout, RemoveOtherQueries
<1>5. /\ ClosesOne(r) /\ reqs' \in [Requests -> Request]
      /\ \A q \in Requests \ {r} :
           q \in InFlight({"query"}) /\ ~reqs'[q].dropped => ~reqs[q].dropped
  BY <1>1, <1>2, CloseCloses
<1>6. SessionTypeOK'
  BY <1>1, <1>2, <1>3, <1>4, <1>5, CookieTyped DEF SessionTypeOK
<1> QED
  BY <1>2, <1>3, <1>4, <1>5, <1>6, DeliveryPreserves

\* The answer to GET /auth/me sets me to the user of its session.
LEMMA MePreserves ==
    ASSUME SessionInv, NEW r \in Requests, DeliverMe(r)
    PROVE  SessionInv'
<1>1. SessionTypeOK /\ Tags /\ reqs[r] \in Request
  BY DEF SessionInv, SessionTypeOK
<1>2. /\ reqs[r].phase = "answered" /\ reqs[r].kind = "me" /\ TakeCookie(r) /\ Close(r)
      /\ UNCHANGED <<store, cached>>
  BY DEF DeliverMe, Arrived
<1>3. ClosesOne(r) /\ reqs' \in [Requests -> Request]
  BY <1>1, <1>2, CloseCloses
<1>4. GatewayUnknown /\ cached = {} /\ r \in InFlight({"me"})
  BY <1>1, <1>2 DEF Tags, MeComesFirst, InFlight
<1>5. \A q \in Requests : reqs'[q].phase = "idle"
  <2>1. reqs'[r].phase = "idle"
    BY <1>3 DEF ClosesOne, IdleRequest
  <2>2. ASSUME NEW q \in Requests \ {r}
        PROVE  reqs'[q].phase = "idle"
    <3>1. q \notin InFlight({"me"}) /\ q \notin InFlight(Kinds \ {"me"})
      BY <1>1, <1>4 DEF Tags, MeComesFirst
    <3>2. reqs[q].kind \in Kinds
      BY <1>1 DEF SessionTypeOK, Request
    <3>3. reqs[q].phase = "idle"
      BY <3>1, <3>2 DEF InFlight
    <3> QED
      BY <1>3, <3>3 DEF ClosesOne
  <2> QED
    BY <2>1, <2>2
<1>6. SessionTypeOK' /\ EnteredIsMine'
  <2>1. CASE reqs[r].status = "ok"
    <3>1. /\ me' = reqs[r].user /\ entered' = reqs[r].set
          /\ reqs[r].user \in Users /\ reqs[r].set \in Sids
          /\ store[reqs[r].set] \in {None, reqs[r].user}
      BY <1>1, <1>2, <2>1 DEF DeliverMe, Tags, GrantNamesItsUser
    <3>2. cookie' = entered'
      BY <1>2, <3>1 DEF TakeCookie
    <3>3. SessionTypeOK'
      BY <1>1, <1>2, <1>3, <3>1, CookieTyped DEF SessionTypeOK
    <3> QED
      BY <1>2, <3>1, <3>2, <3>3 DEF EnteredIsMine
  <2>2. CASE reqs[r].status # "ok"
    <3>1. me' \in {"anonymous", "unreachable"} /\ entered' = entered
      BY <2>2 DEF DeliverMe
    <3>2. SessionTypeOK'
      BY <1>1, <1>2, <1>3, <3>1, CookieTyped DEF SessionTypeOK
    <3> QED
      BY <3>1, <3>2 DEF EnteredIsMine, Pages
  <2> QED
    BY <2>1, <2>2
<1>7. MeComesFirst' /\ QueriesAreMine' /\ CacheBelongsToMe'
  BY <1>2, <1>4, <1>5 DEF MeComesFirst, QueriesAreMine, CacheBelongsToMe, InFlight
<1> QED
  BY <1>3, <1>6, <1>7, ClosePreserves DEF SessionInv, Tags

\* A login answer starts from an empty cache.
LEMMA EnterPreserves ==
    ASSUME SessionInv, NEW r \in Requests, EnterSession(r)
    PROVE  SessionInv'
<1>1. SessionTypeOK /\ Tags /\ reqs[r] \in Request
  BY DEF SessionInv, SessionTypeOK
<1>2. /\ reqs[r].phase = "answered" /\ reqs[r].kind \in {"login", "signup"}
      /\ reqs[r].status = "ok" /\ RemoveOtherQueries(r) /\ UNCHANGED store
      /\ me' = reqs[r].user /\ cookie' = reqs[r].set /\ entered' = reqs[r].set
      /\ strayed' = FALSE /\ cached' = {}
  BY DEF EnterSession, Arrived, RemoveOtherQueries
<1>3. /\ reqs[r].user \in Users /\ reqs[r].set \in Sids
      /\ store[reqs[r].set] \in {None, reqs[r].user}
  BY <1>1, <1>2 DEF Tags, GrantNamesItsUser
<1>4. ClosesOne(r) /\ reqs' \in [Requests -> Request] /\ reqs'[r].phase = "idle"
  <2>1. ClosesOne(r) /\ reqs' \in [Requests -> Request]
    BY <1>1, <1>2, CloseCloses
  <2> QED
    BY <2>1 DEF ClosesOne, IdleRequest
<1>5. SessionTypeOK'
  BY <1>1, <1>2, <1>3, <1>4 DEF SessionTypeOK
<1>6. ~GatewayUnknown /\ ~GatewayUnknown'
  BY <1>1, <1>2, <1>3 DEF Tags, MeComesFirst, InFlight, GatewayUnknown, Kinds
<1>7. MeComesFirst'
  BY <1>1, <1>4, <1>6 DEF Tags, MeComesFirst, InFlight, ClosesOne
<1>8. EnteredIsMine' /\ CacheBelongsToMe'
  BY <1>2, <1>3 DEF EnteredIsMine, CacheBelongsToMe
<1>9. QueriesAreMine'
  <2>1. \A q \in Requests : q \in InFlight({"query"})' => reqs'[q].dropped
    BY <1>1, <1>2, <1>4, RemoveTyped DEF InFlight, Request
  <2> QED
    BY <2>1 DEF QueriesAreMine, InFlight
<1> QED
  BY <1>4, <1>5, <1>7, <1>8, <1>9, ClosePreserves DEF SessionInv, Tags

\* The answer to a registration sends the login with the same user.
LEMMA RegisteredPreserves ==
    ASSUME SessionInv, NEW r \in Requests, DeliverRegister(r)
    PROVE  SessionInv'
<1>1. SessionTypeOK /\ Tags /\ reqs[r] \in Request
  BY DEF SessionInv, SessionTypeOK
<1>2. /\ reqs[r].phase = "answered" /\ reqs[r].kind = "register" /\ TakeCookie(r)
      /\ UNCHANGED <<store, me, cached, entered>>
  BY DEF DeliverRegister, Arrived
<1>3. cookie' \in Sids \cup {None} /\ strayed' \in BOOLEAN
  BY <1>1, <1>2, CookieTyped
<1>4. CASE reqs[r].status # "ok"
  <2>1. Close(r)
    BY <1>4 DEF DeliverRegister, Close
  <2>2. /\ ClosesOne(r) /\ reqs' \in [Requests -> Request]
        /\ \A q \in Requests \ {r} :
             q \in InFlight({"query"}) /\ ~reqs'[q].dropped => ~reqs[q].dropped
    BY <1>1, <1>2, <2>1, CloseCloses
  <2>3. SessionTypeOK'
    BY <1>1, <1>2, <1>3, <2>2 DEF SessionTypeOK
  <2> QED
    BY <1>2, <2>2, <2>3, DeliveryPreserves
<1>5. CASE reqs[r].status = "ok"
  <2>1. reqs[r].user \in Users
    BY <1>1, <1>2, <1>5 DEF Tags, AnswerNamesUser
  <2>2. /\ reqs' \in [Requests -> Request] /\ Others(r)
        /\ reqs'[r] = Sent("signup", reqs[r].user, cookie')
    BY <1>1, <1>3, <1>5, <2>1, SentIsTyped DEF DeliverRegister, SessionTypeOK, Others, Kinds
  <2>3. reqs'[r].phase = "sent" /\ reqs'[r].kind = "signup" /\ reqs'[r].user \in Users
    BY <2>1, <2>2 DEF Sent, IdleRequest
  <2>4. SessionTypeOK'
    BY <1>1, <1>2, <1>3, <2>2 DEF SessionTypeOK
  <2>5. MeComesFirst'
    BY <1>1, <1>2, <2>2, <2>3 DEF Tags, MeComesFirst, InFlight, GatewayUnknown, Others, Kinds
  <2>6. GrantNamesItsUser' /\ FormNamesUser' /\ AnswerNamesUser' /\ RefusedIsGone'
    BY <1>1, <1>2, <2>2, <2>3
       DEF Tags, GrantNamesItsUser, FormNamesUser, AnswerNamesUser, RefusedIsGone, Live, Others
  <2>7. ASSUME Pages', ~strayed'
        PROVE  Pages /\ ~strayed /\ cookie' = cookie
    BY <1>1, <1>2, <2>7 DEF Pages, TakeCookie, Tags, EnteredIsMine
  <2>8. EnteredIsMine' /\ CacheBelongsToMe'
    BY <1>1, <1>2, <2>7 DEF Tags, EnteredIsMine, CacheBelongsToMe, Pages
  <2>9. QueriesAreMine'
    BY <1>1, <1>2, <2>2, <2>3, <2>7 DEF Tags, QueriesAreMine, InFlight, Others
  <2> QED
    BY <2>4, <2>5, <2>6, <2>8, <2>9 DEF SessionInv, Tags
<1> QED
  BY <1>4, <1>5

-----------------------------------------------------------------------------
(* The theorems.                                                           *)

\* The initial state satisfies the invariant.
LEMMA SessionBegins == SessionInit => SessionInv
<1> SUFFICES ASSUME SessionInit PROVE SessionInv
  OBVIOUS
<1>1. \A r \in Requests : reqs[r].phase = "idle"
  BY DEF SessionInit, IdleRequest
<1>2. me = "loading" /\ cached = {} /\ ~Pages
  BY DEF SessionInit, Pages
<1> QED
  BY <1>1, <1>2, InitTyped
     DEF SessionInv, Tags, MeComesFirst, GrantNamesItsUser, FormNamesUser, AnswerNamesUser,
         RefusedIsGone, EnteredIsMine, QueriesAreMine, CacheBelongsToMe, InFlight

\* Every step keeps the invariant.
LEMMA SessionSteps == SessionInv /\ [SessionNext]_sessionVars => SessionInv'
<1> SUFFICES ASSUME SessionInv, [SessionNext]_sessionVars PROVE SessionInv'
  OBVIOUS
<1>1. ASSUME NEW r \in Requests,
             \/ AskMe(r) \/ SendQuery(r) \/ SendPost(r) \/ SubmitLogout(r)
             \/ \E u \in Users : SubmitLogin(r, u) \/ SubmitRegister(r, u)
      PROVE  SessionInv'
  BY <1>1, SendsPreserve
<1>2. ASSUME NEW r \in Requests,
             \/ Serve(r) \/ Forward(r) \/ UpstreamRejects(r) \/ Register(r)
             \/ Login(r) \/ BadCredentials(r) \/ Logout(r) \/ Fail(r)
      PROVE  SessionInv'
  BY <1>2, ServePreserves, UpstreamPreserves, RegisterPreserves, LoginPreserves,
     RefusalsPreserve, LogoutPreserves
<1>3. ASSUME NEW r \in Requests,
             \/ DeliverMe(r) \/ DeliverQuery(r) \/ DeliverPost(r) \/ EnterSession(r)
             \/ LoginRefused(r) \/ DeliverRegister(r) \/ DeliverLogout(r)
      PROVE  SessionInv'
  BY <1>3, MePreserves, DeliveriesPreserve, EnterPreserves, RegisteredPreserves
<1>4. ASSUME NEW sid \in Sids, Expire(sid) PROVE SessionInv'
  BY <1>4, ExpirePreserves
<1>5. CASE UNCHANGED sessionVars
  BY <1>5 DEF sessionVars, SessionInv, SessionTypeOK, Tags, MeComesFirst, GrantNamesItsUser,
              FormNamesUser, AnswerNamesUser, RefusedIsGone, EnteredIsMine, QueriesAreMine,
              CacheBelongsToMe, InFlight, GatewayUnknown, Pages, Live
<1> QED
  BY <1>1, <1>2, <1>3, <1>4, <1>5 DEF SessionNext

\* The tags of requests, cache and me hold in every reachable state.
THEOREM SessionCorrect == SessionSpec => []SessionInv
BY SessionBegins, SessionSteps, PTL DEF SessionSpec

\* Every reachable state of the session is well typed: a request in flight has
\* a kind, a user and a session id that exist.
THEOREM SessionTypeCorrect == SessionSpec => []SessionTypeOK
BY SessionCorrect, PTL DEF SessionInv

\* use-auth.ts:17-21, for any number of users, sessions and overlapping
\* requests: the query cache of a logged-in user holds nobody else's answers.
THEOREM CacheCorrect == SessionSpec => []CacheBelongsToMe
<1>1. SessionInv => CacheBelongsToMe
  BY DEF SessionInv, Tags
<1> QED
  BY <1>1, SessionCorrect, PTL

\* A step that drops me has one of the named causes.
LEMMA EvictionHolds == SessionInv /\ [SessionNext]_sessionVars => EvictionStep
<1> SUFFICES ASSUME SessionInv, [SessionNext]_sessionVars, me \in Users, me' = "anonymous",
                    Live(entered), ~strayed
             PROVE  \E r \in Requests :
                      /\ reqs[r].phase = "answered" /\ reqs'[r].phase = "idle"
                      /\ \/ reqs[r].kind \in {"logout", "login", "signup"} \/ reqs[r].relayed
                         \/ reqs[r].kind = "mutation" /\ reqs[r].sid # entered
  BY DEF EvictionStep
<1>1. SessionTypeOK /\ Tags /\ Pages /\ me' # me
  BY DEF SessionInv, Pages
<1>2. ~GatewayUnknown
  BY <1>1 DEF GatewayUnknown, Pages
<1>3. PICK r \in Requests :
        \/ DeliverMe(r) \/ DeliverQuery(r) \/ DeliverPost(r) \/ EnterSession(r)
        \/ LoginRefused(r) \/ DeliverLogout(r)
  BY <1>1 DEF SessionNext, sessionVars, AskMe, SendQuery, SendPost, SubmitLogout, SubmitLogin,
              SubmitRegister, Send, Serve, Forward, UpstreamRejects, Register, Login,
              BadCredentials, Logout, Fail, Expire, DeliverRegister
<1>4. reqs[r].phase = "answered" /\ reqs[r].kind # "me"
  BY <1>1, <1>2, <1>3 DEF DeliverMe, DeliverQuery, DeliverPost, EnterSession, LoginRefused,
              DeliverLogout, Arrived, Tags, MeComesFirst, InFlight
<1>5. reqs'[r].phase = "idle"
  <2>1. Close(r) \/ RemoveOtherQueries(r)
    BY <1>3 DEF DeliverMe, DeliverQuery, DeliverPost, EnterSession, LoginRefused, DeliverLogout
  <2> QED
    BY <1>1, <2>1, CloseTyped, RemoveTyped DEF IdleRequest
<1>6. CASE DeliverQuery(r) \/ DeliverPost(r)
  <2>1. reqs[r].status = "unauthorized" /\ reqs[r].kind \in {"query", "mutation"}
    BY <1>1, <1>6 DEF DeliverQuery, DeliverPost, EvictExpiredSession, Arrived
  <2>2. reqs[r].relayed \/ ~Live(reqs[r].sid)
    BY <1>1, <1>4, <2>1 DEF Tags, RefusedIsGone
  <2>3. reqs[r].kind = "query" => reqs[r].sid = entered
    BY <1>1, <1>4, <1>6 DEF Tags, QueriesAreMine, InFlight, DeliverQuery, DeliverPost, Arrived
  <2> QED
    BY <1>4, <1>5, <2>1, <2>2, <2>3
<1>7. CASE EnterSession(r) \/ LoginRefused(r) \/ DeliverLogout(r)
  BY <1>4, <1>5, <1>7 DEF EnterSession, LoginRefused, DeliverLogout, Arrived
<1> QED
  BY <1>3, <1>4, <1>6, <1>7 DEF DeliverMe, Arrived

\* query.tsx:17-22, for any number of users, sessions and overlapping requests:
\* the tab drops to the login screen for one of the named causes only, and no
\* query does it to a session that is alive.
THEOREM EvictionCorrect == SessionSpec => EvictionHasCause
<1>1. SessionInv /\ [SessionNext]_sessionVars => [EvictionStep]_sessionVars
  BY EvictionHolds
<1> QED
  BY <1>1, SessionCorrect, PTL DEF SessionSpec, EvictionHasCause

-----------------------------------------------------------------------------
(* The rate limit.                                                         *)

\* Requests let through up to tick t, before the first one too.
Upto(t) == IF t < 0 THEN 0 ELSE passed[t]

\* The request that sets the expiry is the first of its counter.
ArmsTheFirst ==
    /\ arming > 0 => count > 0 /\ expiry = Never
    /\ count = 0 => expiry = Never

\* The clock has not reached what comes after now, and nothing is taken back.
PassedGrows ==
    /\ \A t, u \in 0..MaxTime : t <= u => passed[t] <= passed[u]
    /\ \A t \in now..MaxTime : passed[t] = passed[now]

\* Without a counter nothing passed in this tick, and the window before it was
\* one counter's.
QuietBetween ==
    count = 0 =>
        /\ Upto(now) = Upto(now - 1)
        /\ Upto(now - 1) - Upto(now - Window - 1) <= MaxRequests

\* A counter that began at tick b has let through what it counts, the window
\* before b was one counter's, and it lives for a window at least.
BeganAt(b) ==
    /\ Upto(now) - Upto(b - 1) <= MaxRequests - arming
    /\ Upto(now) - Upto(b - 1) <= count - arming
    /\ Upto(b - 1) - Upto(b - Window - 1) <= MaxRequests
    /\ expiry # Never => expiry >= b + Window

OneCounterAtATime == count > 0 => \E b \in 0..now : BeganAt(b)

LimitInv ==
    /\ LimitTypeOK
    /\ ArmsTheFirst
    /\ PassedGrows
    /\ QuietBetween
    /\ OneCounterAtATime
    /\ LimitKept

\* The clock and the bounds are numbers.
LEMMA LimitNumbers ==
  ASSUME LimitTypeOK
  PROVE  /\ Window \in Nat \ {0} /\ MaxRequests \in Nat \ {0} /\ MaxTime \in Nat
         /\ now \in 0..MaxTime /\ count \in Nat /\ arming \in {0, 1}
         /\ expiry = Never \/ (expiry \in Nat /\ expiry > now)
         /\ \A t \in 0..MaxTime : passed[t] \in Nat
  BY LimitAssumption DEF LimitTypeOK, Never

\* Later ticks have let through no fewer requests.
LEMMA UptoGrows ==
  ASSUME LimitTypeOK, PassedGrows, NEW t \in Int, NEW u \in Int, t <= u, u <= MaxTime
  PROVE  Upto(t) <= Upto(u) /\ Upto(t) \in Nat /\ Upto(u) \in Nat
<1> USE LimitNumbers
<1>1. CASE t < 0
  BY <1>1 DEF Upto
<1>2. CASE t >= 0
  BY <1>2 DEF Upto, PassedGrows
<1> QED
  BY <1>1, <1>2

\* A window that reaches now meets the running counter and the one before it.
LEMMA WindowBounded ==
  ASSUME LimitTypeOK, PassedGrows, OneCounterAtATime, count > 0,
         NEW t \in 0..(MaxTime - Window + 1), t <= now, now <= t + Window - 1
  PROVE  passed[t + Window - 1] - PassedBefore(t) <= 2 * MaxRequests
<1> USE LimitNumbers
<1>1. PICK b \in 0..now : BeganAt(b)
  BY DEF OneCounterAtATime
<1>2. passed[t + Window - 1] = Upto(now) /\ PassedBefore(t) = Upto(t - 1)
  BY DEF PassedGrows, Upto, PassedBefore
<1>3. /\ Upto(t - 1) \in Nat /\ Upto(now) \in Nat /\ Upto(b - 1) \in Nat
      /\ Upto(b - Window - 1) \in Nat
  BY UptoGrows
<1>4. CASE t >= b
  <2>1. Upto(b - 1) <= Upto(t - 1)
    BY <1>4, UptoGrows
  <2> QED
    BY <1>1, <1>2, <1>3, <2>1 DEF BeganAt
<1>5. CASE t < b
  <2>1. Upto(b - Window - 1) <= Upto(t - 1)
    BY <1>5, UptoGrows
  <2> QED
    BY <1>1, <1>2, <1>3, <2>1 DEF BeganAt
<1> QED
  BY <1>4, <1>5

\* No window let more through than twice the limit, if the past ones did not.
LEMMA AllWindowsBounded ==
  ASSUME LimitTypeOK, PassedGrows, OneCounterAtATime, count > 0,
         \A t \in 0..(MaxTime - Window + 1) :
            t + Window - 1 < now => passed[t + Window - 1] - PassedBefore(t) <= 2 * MaxRequests
  PROVE  BurstBounded
<1> USE LimitNumbers
<1> SUFFICES ASSUME NEW t \in 0..(MaxTime - Window + 1)
             PROVE  passed[t + Window - 1] - PassedBefore(t) <= 2 * MaxRequests
  BY DEF BurstBounded
<1>1. CASE t > now
  BY <1>1 DEF PassedGrows, PassedBefore
<1>2. CASE t <= now /\ now <= t + Window - 1
  BY <1>2, WindowBounded
<1>3. CASE t + Window - 1 < now
  BY <1>3
<1> QED
  BY <1>1, <1>2, <1>3

\* One request more is let through.
LEMMA PassKeeps ==
  ASSUME LimitTypeOK, PassedGrows, Pass, UNCHANGED now
  PROVE  /\ passed' \in [0..MaxTime -> Nat] /\ PassedGrows'
         /\ Upto(now)' = Upto(now) + 1
         /\ \A t \in Int : t < now => Upto(t)' = Upto(t)
         /\ \A t \in 0..(MaxTime - Window + 1) :
               t + Window - 1 < now => /\ passed'[t + Window - 1] = passed[t + Window - 1]
                                       /\ PassedBefore(t)' = PassedBefore(t)
<1> USE LimitNumbers
<1>1. \A t \in 0..MaxTime : passed'[t] = IF t < now THEN passed[t] ELSE passed[t] + 1
  BY DEF Pass
<1>2. passed' \in [0..MaxTime -> Nat]
  BY DEF Pass
<1>3. PassedGrows'
  BY <1>1 DEF PassedGrows
<1>4. Upto(now)' = Upto(now) + 1 /\ \A t \in Int : t < now => Upto(t)' = Upto(t)
  BY <1>1 DEF Upto
<1>5. ASSUME NEW t \in 0..(MaxTime - Window + 1), t + Window - 1 < now
      PROVE  /\ passed'[t + Window - 1] = passed[t + Window - 1]
             /\ PassedBefore(t)' = PassedBefore(t)
  BY <1>1, <1>5 DEF PassedBefore
<1> QED
  BY <1>2, <1>3, <1>4, <1>5

\* A request that passes is counted by the counter that began at b.
LEMMA PassBounded ==
  ASSUME LimitInv, Pass, UNCHANGED now, count > 0, LimitTypeOK', count' > 0,
         OneCounterAtATime'
  PROVE  BurstBounded'
<1>1. /\ LimitTypeOK /\ PassedGrows /\ PassedGrows' /\ BurstBounded
      /\ \A t \in 0..(MaxTime - Window + 1) :
            t + Window - 1 < now => /\ passed'[t + Window - 1] = passed[t + Window - 1]
                                    /\ PassedBefore(t)' = PassedBefore(t)
  BY PassKeeps DEF LimitInv, LimitKept
<1>2. \A t \in 0..(MaxTime - Window + 1) :
          t + Window - 1 < now => passed'[t + Window - 1] - PassedBefore(t)' <= 2 * MaxRequests
  BY <1>1 DEF BurstBounded
<1>3. (LimitTypeOK /\ PassedGrows /\ OneCounterAtATime /\ count > 0
        /\ \A t \in 0..(MaxTime - Window + 1) :
              t + Window - 1 < now
                => passed[t + Window - 1] - PassedBefore(t) <= 2 * MaxRequests)' 
  BY <1>1, <1>2
<1> QED
  BY <1>3, AllWindowsBounded, PTL

\* A further request: it passes if the counter allows it.
LEMMA IncrKeeps == ASSUME LimitInv, Incr PROVE LimitInv'
<1>0. /\ Window \in Nat \ {0} /\ MaxRequests \in Nat \ {0} /\ MaxTime \in Nat
      /\ now \in 0..MaxTime /\ count \in Nat /\ arming \in {0, 1}
  BY LimitNumbers DEF LimitInv
<1>1. /\ LimitTypeOK /\ ArmsTheFirst /\ PassedGrows /\ OneCounterAtATime /\ LimitKept
      /\ count > 0 /\ count' = count + 1 /\ UNCHANGED <<now, expiry, arming, failures>>
  BY DEF LimitInv, Incr
<1>2. PICK b \in 0..now : BeganAt(b)
  BY <1>0, <1>1 DEF OneCounterAtATime
<1>3. ArmsTheFirst' /\ QuietBetween' /\ LockedOutOnlyByFailure'
  BY <1>0, <1>1 DEF ArmsTheFirst, QuietBetween, LimitKept, LockedOutOnlyByFailure
<1>4. CASE Over(count + 1)
  <2>1. UNCHANGED passed
    BY <1>4 DEF Incr
  <2>2. LimitTypeOK' /\ PassedGrows' /\ BurstBounded'
    BY <1>0, <1>1, <2>1 DEF LimitTypeOK, PassedGrows, LimitKept, BurstBounded, PassedBefore, Incr
  <2>3. BeganAt(b)'
    <3>1. \A t \in Int : Upto(t)' = Upto(t)
      BY <2>1 DEF Upto
    <3>2. Upto(now) \in Nat /\ Upto(b - 1) \in Nat
      BY <1>0, <1>1, UptoGrows
    <3> QED
      BY <1>0, <1>1, <1>2, <3>1, <3>2 DEF BeganAt
  <2> QED
    BY <1>0, <1>1, <1>3, <2>2, <2>3 DEF LimitInv, OneCounterAtATime, LimitKept
<1>5. CASE ~Over(count + 1)
  <2>1. Pass
    BY <1>5 DEF Incr
  <2>2. /\ passed' \in [0..MaxTime -> Nat] /\ PassedGrows' /\ Upto(now)' = Upto(now) + 1
        /\ \A t \in Int : t < now => Upto(t)' = Upto(t)
    BY <1>0, <1>1, <2>1, PassKeeps
  <2>3. LimitTypeOK'
    BY <1>0, <1>1, <2>2 DEF LimitTypeOK, Incr
  <2>4. BeganAt(b)'
    <3>1. Upto(b - 1)' = Upto(b - 1) /\ Upto(b - Window - 1)' = Upto(b - Window - 1)
      BY <1>0, <1>1, <2>2
    <3>2. Upto(now) \in Nat /\ Upto(b - 1) \in Nat
      BY <1>0, <1>1, UptoGrows
    <3>3. count + 1 <= MaxRequests
      BY <1>0, <1>1, <1>5 DEF Over
    <3>4. /\ Upto(now) - Upto(b - 1) <= count - arming
          /\ Upto(b - 1) - Upto(b - Window - 1) <= MaxRequests
          /\ expiry # Never => expiry >= b + Window
      BY <1>0, <1>2 DEF BeganAt
    <3>5. /\ count \in Nat /\ count' = count + 1 /\ arming' = arming /\ arming \in Nat
          /\ expiry' = expiry /\ Upto(now)' = Upto(now) + 1
      BY <1>0, <1>1, <2>2
    <3>6. /\ Upto(now)' - Upto(b - 1)' <= count' - arming'
          /\ Upto(now)' - Upto(b - 1)' <= MaxRequests - arming'
      BY <1>0, <3>1, <3>2, <3>3, <3>4, <3>5
    <3> QED
      BY <3>1, <3>4, <3>5, <3>6 DEF BeganAt
  <2>5. OneCounterAtATime'
    BY <1>0, <1>1, <2>4 DEF OneCounterAtATime
  <2>6. BurstBounded'
    BY <1>0, <1>1, <2>1, <2>3, <2>5, PassBounded
  <2> QED
    BY <1>3, <2>2, <2>3, <2>5, <2>6 DEF LimitInv, LimitKept
<1> QED
  BY <1>4, <1>5

\* The first request of a counter is counted and not let through yet.
LEMMA IncrFirstKeeps == ASSUME LimitInv, IncrFirst PROVE LimitInv'
<1> USE LimitNumbers
<1>1. /\ LimitTypeOK /\ ArmsTheFirst /\ PassedGrows /\ QuietBetween /\ LimitKept
      /\ count = 0 /\ arming = 0 /\ count' = 1 /\ arming' = 1 /\ expiry = Never
      /\ UNCHANGED <<now, expiry, passed, failures>>
  BY DEF LimitInv, IncrFirst, ArmsTheFirst
<1>2. LimitTypeOK' /\ PassedGrows' /\ BurstBounded'
  BY <1>1 DEF LimitTypeOK, PassedGrows, LimitKept, BurstBounded, PassedBefore
<1>3. ArmsTheFirst' /\ QuietBetween' /\ LockedOutOnlyByFailure'
  BY <1>1 DEF ArmsTheFirst, QuietBetween, LockedOutOnlyByFailure
<1>4. BeganAt(now)'
  <2>1. Upto(now - 1) \in Nat /\ Upto(now) = Upto(now - 1)
    BY <1>1, UptoGrows DEF QuietBetween
  <2> QED
    BY <1>1, <2>1 DEF QuietBetween, BeganAt, Upto
<1>5. OneCounterAtATime'
  BY <1>1, <1>4 DEF OneCounterAtATime
<1> QED
  BY <1>2, <1>3, <1>5 DEF LimitInv, LimitKept

\* It passes when it has set the expiry, a window from then on.
LEMMA PExpireKeeps == ASSUME LimitInv, PExpire PROVE LimitInv'
<1>0. /\ Window \in Nat \ {0} /\ MaxRequests \in Nat \ {0} /\ MaxTime \in Nat
      /\ now \in 0..MaxTime /\ count \in Nat /\ arming \in {0, 1}
  BY LimitNumbers DEF LimitInv
<1>1. /\ LimitTypeOK /\ ArmsTheFirst /\ PassedGrows /\ OneCounterAtATime /\ LimitKept
      /\ count > 0 /\ arming = 1 /\ arming' = 0 /\ expiry' = now + Window
      /\ UNCHANGED <<now, count, failures>> /\ Pass
  BY <1>0 DEF LimitInv, PExpire, ArmsTheFirst
<1>2. PICK b \in 0..now : BeganAt(b)
  BY <1>0, <1>1 DEF OneCounterAtATime
<1>3. /\ passed' \in [0..MaxTime -> Nat] /\ PassedGrows' /\ Upto(now)' = Upto(now) + 1
      /\ \A t \in Int : t < now => Upto(t)' = Upto(t)
  BY <1>0, <1>1, PassKeeps
<1>4. LimitTypeOK'
  BY <1>0, <1>1, <1>3 DEF LimitTypeOK
<1>5. ArmsTheFirst' /\ QuietBetween' /\ LockedOutOnlyByFailure'
  BY <1>0, <1>1 DEF ArmsTheFirst, QuietBetween, LockedOutOnlyByFailure, Never
<1>6. BeganAt(b)'
  <2>1. Upto(b - 1)' = Upto(b - 1) /\ Upto(b - Window - 1)' = Upto(b - Window - 1)
    BY <1>0, <1>1, <1>3
  <2>2. Upto(now) \in Nat /\ Upto(b - 1) \in Nat
    BY <1>0, <1>1, UptoGrows
  <2>3. /\ Upto(now) - Upto(b - 1) <= MaxRequests - 1
        /\ Upto(now) - Upto(b - 1) <= count - 1
        /\ Upto(b - 1) - Upto(b - Window - 1) <= MaxRequests
    BY <1>0, <1>1, <1>2 DEF BeganAt
  <2>4. count \in Nat /\ count' = count /\ arming' = 0 /\ Upto(now)' = Upto(now) + 1
    BY <1>0, <1>1, <1>3
  <2>5. /\ Upto(now)' - Upto(b - 1)' <= MaxRequests - arming'
        /\ Upto(now)' - Upto(b - 1)' <= count' - arming'
    BY <1>0, <2>1, <2>2, <2>3, <2>4
  <2>6. Upto(b - 1)' - Upto(b - Window - 1)' <= MaxRequests
    BY <2>1, <2>3
  <2> QED
    BY <1>0, <1>1, <2>5, <2>6 DEF BeganAt
<1>7. OneCounterAtATime'
  BY <1>0, <1>1, <1>6 DEF OneCounterAtATime
<1>8. BurstBounded'
  BY <1>0, <1>1, <1>4, <1>7, PassBounded
<1> QED
  BY <1>3, <1>4, <1>5, <1>7, <1>8 DEF LimitInv, LimitKept

\* A PEXPIRE that fails leaves a counter without expiry: the named cause.
LEMMA PExpireFailsKeeps == ASSUME LimitInv, PExpireFails PROVE LimitInv'
<1> USE LimitNumbers
<1>1. /\ LimitTypeOK /\ ArmsTheFirst /\ PassedGrows /\ OneCounterAtATime /\ LimitKept
      /\ count > 0 /\ arming = 1 /\ arming' = 0 /\ failures' = failures + 1
      /\ failures \in Nat /\ failures < MaxFailures
      /\ UNCHANGED <<now, count, expiry, passed>>
  BY DEF LimitInv, PExpireFails, ArmsTheFirst, LimitTypeOK
<1>2. PICK b \in 0..now : BeganAt(b)
  BY <1>1 DEF OneCounterAtATime
<1>3. LimitTypeOK' /\ PassedGrows' /\ BurstBounded'
  BY <1>1, LimitAssumption DEF LimitTypeOK, PassedGrows, LimitKept, BurstBounded, PassedBefore
<1>4. ArmsTheFirst' /\ QuietBetween' /\ LockedOutOnlyByFailure'
  BY <1>1 DEF ArmsTheFirst, QuietBetween, LockedOutOnlyByFailure
<1>5. BeganAt(b)'
  <2>1. Upto(now) \in Nat /\ Upto(b - 1) \in Nat
    BY <1>1, UptoGrows
  <2> QED
    BY <1>1, <1>2, <2>1 DEF BeganAt, Upto
<1> QED
  BY <1>1, <1>3, <1>4, <1>5 DEF LimitInv, OneCounterAtATime, LimitKept

\* The clock moves on; a counter that expires has lived for a window.
LEMMA TickKeeps == ASSUME LimitInv, Tick PROVE LimitInv'
<1> USE LimitNumbers
<1>1. /\ LimitTypeOK /\ ArmsTheFirst /\ PassedGrows /\ QuietBetween /\ OneCounterAtATime
      /\ LimitKept /\ now < MaxTime /\ now' = now + 1
      /\ UNCHANGED <<arming, passed, failures>>
      /\ \A t \in Int : Upto(t)' = Upto(t)
  BY DEF LimitInv, Tick, Upto
<1>2. PassedGrows' /\ BurstBounded' /\ Upto(now + 1) = Upto(now)
  BY <1>1 DEF PassedGrows, LimitKept, BurstBounded, PassedBefore, Upto
<1>3. /\ Upto(now) \in Nat /\ Upto(now - 1) \in Nat
      /\ Upto(now - Window) \in Nat /\ Upto(now - Window - 1) \in Nat
      /\ Upto(now - Window - 1) <= Upto(now - Window)
  BY <1>1, UptoGrows
<1>4. CASE expiry = now + 1
  <2>1. /\ count' = 0 /\ expiry' = Never /\ count > 0 /\ arming = 0 /\ expiry # Never
    BY <1>1, <1>4 DEF Tick, ArmsTheFirst, Never
  <2>2. LimitTypeOK' /\ ArmsTheFirst' /\ OneCounterAtATime' /\ LockedOutOnlyByFailure'
    BY <1>1, <2>1 DEF LimitTypeOK, ArmsTheFirst, OneCounterAtATime, LockedOutOnlyByFailure
  <2>3. PICK b \in 0..now : BeganAt(b)
    BY <1>1, <2>1 DEF OneCounterAtATime
  <2>4. Upto(b - 1) <= Upto(now - Window) /\ Upto(b - 1) \in Nat
    BY <1>1, <1>4, <2>1, <2>3, UptoGrows DEF BeganAt
  <2>5. QuietBetween'
    BY <1>1, <1>2, <1>3, <2>1, <2>3, <2>4 DEF QuietBetween, BeganAt
  <2> QED
    BY <1>2, <2>2, <2>5 DEF LimitInv, LimitKept
<1>5. CASE expiry # now + 1
  <2>1. UNCHANGED <<count, expiry>>
    BY <1>1, <1>5 DEF Tick
  <2>2. LimitTypeOK' /\ ArmsTheFirst' /\ LockedOutOnlyByFailure'
    BY <1>1, <1>5, <2>1, SMTT(30)
       DEF LimitTypeOK, ArmsTheFirst, LimitKept, LockedOutOnlyByFailure
  <2>3. QuietBetween'
    BY <1>1, <1>2, <1>3, <2>1 DEF QuietBetween
  <2>4. ASSUME NEW b \in 0..now, BeganAt(b) PROVE BeganAt(b)'
    BY <1>1, <1>2, <2>1, <2>4 DEF BeganAt
  <2>5. OneCounterAtATime'
    BY <1>1, <2>1, <2>4 DEF OneCounterAtATime
  <2> QED
    BY <1>2, <2>2, <2>3, <2>5 DEF LimitInv, LimitKept
<1> QED
  BY <1>4, <1>5

\* A client that has asked for nothing.
LEMMA LimitBegins == LimitInit => LimitInv
  BY LimitAssumption
     DEF LimitInit, LimitInv, LimitTypeOK, ArmsTheFirst, PassedGrows, QuietBetween,
         OneCounterAtATime, LimitKept, BurstBounded, LockedOutOnlyByFailure, Upto,
         PassedBefore, Never

\* Every step of the guard and of the clock keeps the invariant.
LEMMA LimitSteps == LimitInv /\ [LimitNext]_limitVars => LimitInv'
<1>1. ASSUME LimitInv, UNCHANGED limitVars PROVE LimitInv'
  BY <1>1 DEF limitVars, LimitInv, LimitTypeOK, ArmsTheFirst, PassedGrows, QuietBetween,
     OneCounterAtATime, BeganAt, LimitKept, BurstBounded, LockedOutOnlyByFailure, Upto,
     PassedBefore
<1> QED
  BY <1>1, IncrKeeps, IncrFirstKeeps, PExpireKeeps, PExpireFailsKeeps, TickKeeps DEF LimitNext

\* rate-limit.guard.ts:6-10 and 23-25, for every window, limit and number of
\* failures: no window lets more than twice the limit through, and a counter
\* without expiry is the work of a PEXPIRE that failed.
THEOREM LimitCorrect == LimitSpec => []LimitKept
<1>1. LimitInv => LimitKept
  BY DEF LimitInv
<1> QED
  BY <1>1, LimitBegins, LimitSteps, PTL DEF LimitSpec

-----------------------------------------------------------------------------
(* The status page.                                                        *)

\* What a query answers if it is asked now.
Present(q) ==
    CASE q = "pending" -> Cardinality(Waiting)
      [] q = "quarantined" -> Cardinality(Quarantined)
      [] q = "published" -> Cardinality(published)

\* How far an answer has fallen behind.
Drift(q) == IF stats[q] = Unanswered THEN 0 ELSE stats[q] - Present(q)

TotalDrift == Drift("pending") + Drift("quarantined") + Drift("published")

\* A row that comes joins a count, one that moves leaves one for another: the
\* answers drift by one if one count of these is answered, and not at all if
\* none or both are.
DriftsByMoves == refresh = "running" => -moves <= TotalDrift /\ TotalDrift <= moves

StatusInv == StatusTypeOK /\ DriftsByMoves /\ StatsCountOnce

\* Every row is in one of the three counts.
LEMMA RowsAreCounted ==
  ASSUME StatusTypeOK
  PROVE  /\ IsFiniteSet(Waiting) /\ IsFiniteSet(Quarantined) /\ IsFiniteSet(published)
         /\ Present("pending") \in Nat /\ Present("quarantined") \in Nat
         /\ Present("published") \in Nat
         /\ Present("pending") + Present("quarantined") + Present("published")
               = Cardinality(rows)
         /\ \A q \in {"pending", "quarantined", "published"} :
               Present(q) <= Cardinality(OutboxRows)
         /\ Cardinality(OutboxRows) \in Nat /\ Cardinality(rows) \in Nat
<1>1. /\ Waiting \in SUBSET OutboxRows /\ Quarantined \in SUBSET OutboxRows
      /\ published \in SUBSET OutboxRows /\ rows \in SUBSET OutboxRows
  BY DEF Waiting, Quarantined, StatusTypeOK
<1>2. /\ IsFiniteSet(Waiting) /\ IsFiniteSet(Quarantined) /\ IsFiniteSet(published)
      /\ Cardinality(Waiting) \in Nat /\ Cardinality(Quarantined) \in Nat
      /\ Cardinality(published) \in Nat /\ Cardinality(OutboxRows) \in Nat
      /\ IsFiniteSet(rows) /\ Cardinality(rows) \in Nat
      /\ Cardinality(Waiting) <= Cardinality(OutboxRows)
      /\ Cardinality(Quarantined) <= Cardinality(OutboxRows)
      /\ Cardinality(published) <= Cardinality(OutboxRows)
  BY <1>1, StatusAssumption, FS_Subset, FS_CardinalityType
<1>3. Cardinality(Waiting \cup Quarantined) = Cardinality(Waiting) + Cardinality(Quarantined)
  <2>1. Waiting \cap Quarantined = {}
    BY StatusAssumption DEF Waiting, Quarantined, StatusTypeOK
  <2>2. /\ IsFiniteSet(Waiting \cup Quarantined)
        /\ Cardinality(Waiting \cup Quarantined)
              = Cardinality(Waiting) + Cardinality(Quarantined)
                  - Cardinality(Waiting \cap Quarantined)
    BY <1>2, FS_Union
  <2>3. Cardinality(Waiting \cap Quarantined) = 0
    BY <2>1, FS_EmptySet
  <2> QED
    BY <1>2, <2>2, <2>3
<1>4. Cardinality(Waiting \cup Quarantined) = Cardinality(rows) - Cardinality(published)
  <2>1. Waiting \cup Quarantined = rows \ published
    BY StatusAssumption DEF Waiting, Quarantined, StatusTypeOK
  <2>2. rows \cap published = published
    BY DEF StatusTypeOK
  <2> QED
    BY <1>2, <2>1, <2>2, FS_Difference
<1>5. /\ Present("pending") = Cardinality(Waiting)
      /\ Present("quarantined") = Cardinality(Quarantined)
      /\ Present("published") = Cardinality(published)
  BY DEF Present
<1> QED
  BY <1>2, <1>3, <1>4, <1>5

\* The counts after a step, when a row joins or leaves them.
Counts(pending, quarantined, processed) ==
    /\ Present("pending")' = Present("pending") + pending
    /\ Present("quarantined")' = Present("quarantined") + quarantined
    /\ Present("published")' = Present("published") + processed

\* A row that comes joins one of the counts, and one that moves changes two of
\* them by one, or none.
LEMMA RowMoves ==
  ASSUME StatusTypeOK, NEW r \in OutboxRows,
         InsertRow(r) \/ RelayPublishes(r) \/ RelayFails(r) \/ Replay(r)
  PROVE  \/ Counts(0, 0, 0) \/ Counts(1, 0, 0) \/ Counts(-1, 1, 0) \/ Counts(-1, 0, 1) \/ Counts(1, -1, 0)
<1> USE StatusAssumption
<1>0. /\ Present("pending") = Cardinality(Waiting)
      /\ Present("quarantined") = Cardinality(Quarantined)
      /\ Present("published") = Cardinality(published)
      /\ Present("pending")' = Cardinality(Waiting')
      /\ Present("quarantined")' = Cardinality(Quarantined')
      /\ Present("published")' = Cardinality(published')
  BY DEF Present
<1>1. /\ IsFiniteSet(Waiting) /\ IsFiniteSet(Quarantined) /\ IsFiniteSet(published)
      /\ Cardinality(Waiting) \in Nat /\ Cardinality(Quarantined) \in Nat
      /\ Cardinality(published) \in Nat
  BY RowsAreCounted, FS_CardinalityType
<1>2. CASE RelayPublishes(r)
  <2>1. /\ Waiting' = Waiting \ {r} /\ r \in Waiting /\ Quarantined' = Quarantined
        /\ published' = published \cup {r} /\ r \notin published
    BY <1>2 DEF RelayPublishes, Waiting, Quarantined, StatusTypeOK
  <2>2. Cardinality(Waiting') = Cardinality(Waiting) - 1
    BY <1>1, <2>1, FS_RemoveElement
  <2>3. Cardinality(published') = Cardinality(published) + 1
    BY <1>1, <2>1, FS_AddElement
  <2> QED
    BY <1>0, <1>1, <2>1, <2>2, <2>3 DEF Counts
<1>3. CASE RelayFails(r)
  <2>1. /\ published' = published /\ r \in Waiting /\ r \notin Quarantined
        /\ rows' = rows /\ \A s \in OutboxRows : attempts'[s] = IF s = r THEN attempts[r] + 1 ELSE attempts[s]
        /\ attempts[r] \in Nat
    BY <1>3 DEF RelayFails, Waiting, Quarantined, StatusTypeOK
  <2>2. CASE attempts[r] + 1 < MaxAttempts
    <3>1. Waiting' = Waiting /\ Quarantined' = Quarantined
      BY <2>1, <2>2 DEF Waiting, Quarantined, StatusTypeOK
    <3> QED
      BY <1>0, <1>1, <2>1, <3>1 DEF Counts
  <2>3. CASE attempts[r] + 1 >= MaxAttempts
    <3>1. Waiting' = Waiting \ {r} /\ Quarantined' = Quarantined \cup {r}
      BY <2>1, <2>3 DEF Waiting, Quarantined, StatusTypeOK
    <3>2. Cardinality(Waiting') = Cardinality(Waiting) - 1
      BY <1>1, <2>1, <3>1, FS_RemoveElement
    <3>3. Cardinality(Quarantined') = Cardinality(Quarantined) + 1
      BY <1>1, <2>1, <3>1, FS_AddElement
    <3> QED
      BY <1>0, <1>1, <2>1, <3>2, <3>3 DEF Counts
  <2> QED
    BY <2>1, <2>2, <2>3
<1>4. CASE Replay(r)
  <2>1. /\ published' = published /\ r \in Quarantined /\ r \notin Waiting
        /\ rows' = rows /\ \A s \in OutboxRows : attempts'[s] = IF s = r THEN 0 ELSE attempts[s]
    BY <1>4 DEF Replay, Waiting, Quarantined, StatusTypeOK
  <2>2. Waiting' = Waiting \cup {r} /\ Quarantined' = Quarantined \ {r}
    BY <2>1 DEF Waiting, Quarantined, StatusTypeOK
  <2>3. Cardinality(Quarantined') = Cardinality(Quarantined) - 1
    BY <1>1, <2>1, <2>2, FS_RemoveElement
  <2>4. Cardinality(Waiting') = Cardinality(Waiting) + 1
    BY <1>1, <2>1, <2>2, FS_AddElement
  <2> QED
    BY <1>0, <1>1, <2>1, <2>3, <2>4 DEF Counts
<1>5. CASE InsertRow(r)
  <2>1. /\ Waiting' = Waiting \cup {r} /\ r \notin Waiting /\ Quarantined' = Quarantined
        /\ published' = published
    BY <1>5 DEF InsertRow, Waiting, Quarantined, StatusTypeOK
  <2>2. Cardinality(Waiting') = Cardinality(Waiting) + 1
    BY <1>1, <2>1, FS_AddElement
  <2> QED
    BY <1>0, <1>1, <2>1, <2>2 DEF Counts
<1> QED
  BY <1>2, <1>3, <1>4, <1>5

\* The initial state of the page.
LEMMA StatusBegins == StatusInit => StatusInv
<1> SUFFICES ASSUME StatusInit PROVE StatusInv
  OBVIOUS
<1>1. Cardinality(OutboxRows) \in Nat
  BY StatusAssumption, FS_CardinalityType
<1>2. StatusTypeOK /\ DriftsByMoves /\ StatsCountOnce
  BY <1>1, StatusAssumption
     DEF StatusInit, StatusTypeOK, DriftsByMoves, StatsCountOnce, NoStats, Loading, Queries,
         Unanswered
<1> QED
  BY <1>2 DEF StatusInv

\* A query adds an answer that is up to date; types of the answers.
LEMMA QueryTyped ==
  ASSUME StatusTypeOK, NEW q \in Queries, Query(q)
  PROVE  /\ stats' \in [Queries -> {Unanswered} \cup 0..Cardinality(OutboxRows)]
         /\ q # "oldest" => stats'[q] = Present(q)
         /\ \A p \in Queries : p # q => stats'[p] = stats[p]
<1> DEFINE answer == CASE q = "pending" -> Cardinality(Waiting)
                       [] q = "quarantined" -> Cardinality(Quarantined)
                       [] q = "published" -> Cardinality(published)
                       [] q = "oldest" -> IF published = rows THEN 0 ELSE 1
<1>1. stats' = [stats EXCEPT ![q] = answer]
  BY DEF Query
<1>2. q # "oldest" => answer = Present(q)
  BY DEF Present, Queries
<1>3. answer \in 0..Cardinality(OutboxRows)
  <2>1. CASE q # "oldest"
    BY <1>2, <2>1, RowsAreCounted DEF Queries
  <2>2. CASE q = "oldest"
    <3>1. answer = IF published = rows THEN 0 ELSE 1
      BY <2>2
    <3>2. published # rows => Cardinality(OutboxRows) # 0
      BY StatusAssumption, FS_EmptySet DEF StatusTypeOK
    <3>3. Cardinality(OutboxRows) \in Nat
      BY StatusAssumption, FS_CardinalityType
    <3> HIDE DEF answer
    <3> QED
      BY <3>1, <3>2, <3>3
  <2> QED
    BY <2>1, <2>2
<1> HIDE DEF answer
<1> QED
  BY <1>1, <1>2, <1>3 DEF StatusTypeOK

\* Rows move while a snapshot is taken or not.
LEMMA MoveKeepsStats ==
  ASSUME StatusInv, NEW r \in OutboxRows, InsertRow(r) \/ RelayPublishes(r) \/ RelayFails(r) \/ Replay(r)
  PROVE  StatusInv'
<1> USE StatusAssumption
<1>1. /\ StatusTypeOK /\ DriftsByMoves /\ StatsCountOnce /\ Moved
      /\ UNCHANGED <<refresh, stats, screen>>
  BY DEF StatusInv, InsertRow, RelayPublishes, RelayFails, Replay, Moved
<1>2. /\ attempts' \in [OutboxRows -> 0..MaxAttempts]
      /\ published' \subseteq rows' /\ rows' \subseteq OutboxRows
  BY <1>1 DEF InsertRow, RelayPublishes, RelayFails, Replay, StatusTypeOK
<1>3. /\ moves \in Nat /\ moves' \in 0..MaxMoves
      /\ IF refresh = "running" THEN moves' = moves + 1 ELSE moves' = moves
  BY <1>1 DEF Moved, StatusTypeOK
<1>4. StatusTypeOK'
  BY <1>1, <1>2, <1>3 DEF StatusTypeOK
<1>5. StatsCountOnce'
  <2>1. UNCHANGED screen => StatsCountOnce'
    BY <1>1 DEF StatsCountOnce, NoStats, Distance
  <2> QED
    BY <1>1, <2>1
<1>6. ASSUME refresh = "running" PROVE -moves' <= TotalDrift' /\ TotalDrift' <= moves'
  <2>1. -moves <= TotalDrift /\ TotalDrift <= moves /\ moves' = moves + 1
    BY <1>1, <1>3, <1>6 DEF DriftsByMoves
  <2>2. /\ Present("pending") \in Nat /\ Present("quarantined") \in Nat
        /\ Present("published") \in Nat
    BY <1>1, RowsAreCounted
  <2>3. \A q \in Queries : stats[q] \in Int /\ stats'[q] = stats[q]
    BY <1>1, RowsAreCounted DEF StatusTypeOK, Unanswered
  <2>4. ASSUME NEW p \in Int, NEW n \in Int, NEW o \in Int, Counts(p, n, o)
        PROVE  /\ Drift("pending")' = Drift("pending") - (IF stats["pending"] = Unanswered
                                                           THEN 0 ELSE p)
               /\ Drift("quarantined")' = Drift("quarantined")
                                            - (IF stats["quarantined"] = Unanswered THEN 0 ELSE n)
               /\ Drift("published")' = Drift("published")
                                          - (IF stats["published"] = Unanswered THEN 0 ELSE o)
    BY <2>2, <2>3, <2>4 DEF Drift, Counts, Queries
  <2>5. \A q \in {"pending", "quarantined", "published"} : Drift(q) \in Int
    BY <2>2, <2>3 DEF Drift, Queries
  <2>6. \/ Counts(0, 0, 0) \/ Counts(1, 0, 0) \/ Counts(-1, 1, 0) \/ Counts(-1, 0, 1) \/ Counts(1, -1, 0)
    BY <1>1, RowMoves
  <2>a. ASSUME NEW p \in Int, NEW n \in Int, NEW o \in Int, Counts(p, n, o)
        PROVE  \E x \in {0, p}, y \in {0, n}, z \in {0, o} :
                  TotalDrift' = TotalDrift - (x + y + z)
    <3>1. PICK x \in {0, p} : Drift("pending")' = Drift("pending") - x
      BY <2>4, <2>a
    <3>2. PICK y \in {0, n} : Drift("quarantined")' = Drift("quarantined") - y
      BY <2>4, <2>a
    <3>3. PICK z \in {0, o} : Drift("published")' = Drift("published") - z
      BY <2>4, <2>a
    <3>4. TotalDrift' = TotalDrift - (x + y + z)
      BY <2>5, <3>1, <3>2, <3>3 DEF TotalDrift
    <3> QED
      BY <3>4
  <2>b. TotalDrift \in Int
    BY <2>5 DEF TotalDrift
  <2>c. ASSUME NEW d \in -1..1, TotalDrift' = TotalDrift - d
        PROVE  -moves' <= TotalDrift' /\ TotalDrift' <= moves'
    BY <1>3, <2>1, <2>b, <2>c
  <2>7. CASE Counts(0, 0, 0)
    <3>1. TotalDrift' = TotalDrift - 0
      BY <2>7, <2>a
    <3> QED
      BY <2>c, <3>1
  <2>8. CASE Counts(-1, 1, 0)
    <3>1. PICK x \in {0, -1}, y \in {0, 1}, z \in {0, 0} : TotalDrift' = TotalDrift - (x + y + z)
      BY <2>8, <2>a
    <3>2. x + y + z \in -1..1
      OBVIOUS
    <3> QED
      BY <2>c, <3>1, <3>2
  <2>9. CASE Counts(-1, 0, 1)
    <3>1. PICK x \in {0, -1}, y \in {0, 0}, z \in {0, 1} : TotalDrift' = TotalDrift - (x + y + z)
      BY <2>9, <2>a
    <3>2. x + y + z \in -1..1
      OBVIOUS
    <3> QED
      BY <2>c, <3>1, <3>2
  <2>10. CASE Counts(1, -1, 0)
    <3>1. PICK x \in {0, 1}, y \in {0, -1}, z \in {0, 0} : TotalDrift' = TotalDrift - (x + y + z)
      BY <2>10, <2>a
    <3>2. x + y + z \in -1..1
      OBVIOUS
    <3> QED
      BY <2>c, <3>1, <3>2
  <2>11. CASE Counts(1, 0, 0)
    <3>1. PICK x \in {0, 1}, y \in {0, 0}, z \in {0, 0} : TotalDrift' = TotalDrift - (x + y + z)
      BY <2>11, <2>a
    <3>2. x + y + z \in -1..1
      OBVIOUS
    <3> QED
      BY <2>c, <3>1, <3>2
  <2> QED
    BY <2>6, <2>7, <2>8, <2>9, <2>10, <2>11
<1>7. DriftsByMoves'
  BY <1>1, <1>6 DEF DriftsByMoves
<1> QED
  BY <1>4, <1>5, <1>7 DEF StatusInv

\* A query does not add to the drift.
LEMMA QueryKeepsStats ==
  ASSUME StatusInv, NEW q \in Queries, Query(q)
  PROVE  StatusInv'
<1>1. /\ StatusTypeOK /\ DriftsByMoves /\ StatsCountOnce
      /\ UNCHANGED <<rows, attempts, published, refresh, moves, screen>>
      /\ refresh = "running" /\ stats[q] = Unanswered
  BY DEF StatusInv, Query
<1>2. /\ stats' \in [Queries -> {Unanswered} \cup 0..Cardinality(OutboxRows)]
      /\ q # "oldest" => stats'[q] = Present(q)
      /\ \A p \in Queries : p # q => stats'[p] = stats[p]
  BY <1>1, QueryTyped
<1>3. StatusTypeOK' /\ StatsCountOnce'
  BY <1>1, <1>2 DEF StatusTypeOK, StatsCountOnce, NoStats, Distance
<1>4. \A p \in Queries : Present(p)' = Present(p)
  BY <1>1 DEF Present, Waiting, Quarantined
<1>5. \A p \in {"pending", "quarantined", "published"} : Drift(p)' = Drift(p)
  <2> SUFFICES ASSUME NEW p \in {"pending", "quarantined", "published"}
               PROVE  Drift(p)' = Drift(p)
    OBVIOUS
  <2>1. p \in Queries /\ p # "oldest" /\ Present(p) \in Nat
    BY <1>1, RowsAreCounted DEF Queries
  <2>2. CASE p = q
    BY <1>1, <1>2, <1>4, <2>1, <2>2 DEF Drift
  <2>3. CASE p # q
    BY <1>2, <1>4, <2>1, <2>3 DEF Drift
  <2> QED
    BY <2>2, <2>3
<1>6. DriftsByMoves'
  BY <1>1, <1>5 DEF DriftsByMoves, TotalDrift
<1> QED
  BY <1>3, <1>6 DEF StatusInv

\* What a snapshot shows is off by the rows that moved while it was taken.
LEMMA SnapshotKeepsStats == ASSUME StatusInv, Snapshot PROVE StatusInv'
<1>1. /\ StatusTypeOK /\ DriftsByMoves /\ refresh = "running" /\ refresh' = "idle"
      /\ UNCHANGED <<rows, attempts, published, stats, moves>>
  BY DEF StatusInv, Snapshot
<1>2. PICK up \in ProbeServices, outbox \in ProbeOutbox, queues \in ProbeQueues :
          screen' = [kind |-> "snapshot", up |-> up, outbox |-> outbox,
                     queues |-> queues, moves |-> moves, rows |-> Cardinality(rows)]
  BY DEF Snapshot
<1>3. /\ screen'.kind = "snapshot" /\ screen'.outbox = outbox /\ screen'.moves = moves
      /\ screen'.rows = Cardinality(rows)
  BY <1>2
<1>4. StatusTypeOK'
  BY <1>1, <1>3 DEF StatusTypeOK
<1>5. DriftsByMoves'
  BY <1>1 DEF DriftsByMoves
<1>6. ASSUME outbox # NoStats
      PROVE  Distance(outbox["pending"] + outbox["quarantined"] + outbox["published"],
                      Cardinality(rows)) <= moves
  <2>1. outbox = stats /\ \A q \in Queries : stats[q] # Unanswered
    BY <1>6 DEF ProbeOutbox, OutboxSection
  <2>2. /\ Drift("pending") = stats["pending"] - Present("pending")
        /\ Drift("quarantined") = stats["quarantined"] - Present("quarantined")
        /\ Drift("published") = stats["published"] - Present("published")
    BY <2>1 DEF Drift, Queries
  <2>3. /\ stats["pending"] \in Nat /\ stats["quarantined"] \in Nat
        /\ stats["published"] \in Nat /\ moves \in Nat
    BY <1>1, <2>1, StatusAssumption, RowsAreCounted DEF StatusTypeOK, Queries
  <2>4. /\ Present("pending") \in Nat /\ Present("quarantined") \in Nat
        /\ Present("published") \in Nat
        /\ Present("pending") + Present("quarantined") + Present("published")
              = Cardinality(rows)
    BY <1>1, RowsAreCounted
  <2>5. -moves <= TotalDrift /\ TotalDrift <= moves
    BY <1>1 DEF DriftsByMoves
  <2> QED
    BY <2>1, <2>2, <2>3, <2>4, <2>5 DEF TotalDrift, Distance
<1>7. StatsCountOnce'
  BY <1>3, <1>6 DEF StatsCountOnce, NoStats
<1> QED
  BY <1>4, <1>5, <1>7 DEF StatusInv

\* The other steps of the page begin or end a snapshot.
LEMMA RefreshKeepsStats == ASSUME StatusInv, Refresh \/ RefreshFails PROVE StatusInv'
<1>1. StatusTypeOK /\ StatsCountOnce
  BY DEF StatusInv
<1>2. CASE Refresh
  <2>1. StatusTypeOK' /\ StatsCountOnce'
    BY <1>1, <1>2, StatusAssumption
       DEF Refresh, StatusTypeOK, NoStats, StatsCountOnce, Distance
  <2>2. DriftsByMoves'
    BY <1>2 DEF Refresh, DriftsByMoves, TotalDrift, Drift, NoStats, Queries
  <2> QED
    BY <2>1, <2>2 DEF StatusInv
<1>3. CASE RefreshFails
  BY <1>1, <1>3 DEF StatusInv, RefreshFails, StatusTypeOK, DriftsByMoves, StatsCountOnce
<1> QED
  BY <1>2, <1>3

\* Every step of the page and of the rows keeps the invariant.
LEMMA StatusSteps == StatusInv /\ [StatusNext]_statusVars => StatusInv'
<1>1. ASSUME StatusInv, UNCHANGED statusVars PROVE StatusInv'
  BY <1>1 DEF statusVars, StatusInv, StatusTypeOK, DriftsByMoves, TotalDrift, Drift, Present,
     Waiting, Quarantined, StatsCountOnce
<1> QED
  BY <1>1, MoveKeepsStats, QueryKeepsStats, SnapshotKeepsStats, RefreshKeepsStats
     DEF StatusNext

\* dev-stats.service.ts:16-39, for any number of rows, attempts and moves: the
\* tiles are off by no more than the rows that came or moved meanwhile.
THEOREM StatsCorrect == StatusSpec => []StatsCountOnce
<1>1. StatusInv => StatsCountOnce
  BY DEF StatusInv
<1> QED
  BY <1>1, StatusBegins, StatusSteps, PTL DEF StatusSpec

-----------------------------------------------------------------------------
(* The log stream.  S are the services that log, E the entries they may    *)
(* write: the Logs page and the chain of Trace each have their own.        *)

\* What is held and what is written are entries of these services.
StreamTyped(S, E) ==
    /\ sink \in [S -> {"connecting", "ready", "disabled"}]
    /\ buffer \in [S -> Seq(E)] /\ logged \in [S -> Nat]
    /\ added \in Seq(E) /\ trimmed \in 0..Len(added)

\* A logger that is not connected has written nothing, any other holds nothing.
HeldOrWritten(S) ==
    /\ \A i \in 1..Len(added) : sink[added[i].service] # "connecting"
    /\ \A s \in S : sink[s] # "connecting" => buffer[s] = <<>>

\* No entry is ahead of what its service logged, and what is held is in order.
NumberedInOrder(S) ==
    /\ \A i \in 1..Len(added) : added[i].n <= logged[added[i].service]
    /\ \A s \in S : \A i \in 1..Len(buffer[s]) :
          buffer[s][i].service = s /\ buffer[s][i].n <= logged[s]
    /\ \A s \in S : \A i, j \in 1..Len(buffer[s]) :
          i < j => buffer[s][i].n < buffer[s][j].n

StreamInv(S, E) ==
    StreamTyped(S, E) /\ HeldOrWritten(S) /\ NumberedInOrder(S) /\ ServiceOrderKept

\* E are entries of services of S with a number each.
Entries(S, E) == \A e \in E : e.service \in S /\ e.n \in Nat

\* The tail reads on from the last entry sent, and what is shown was sent.
TailTyped ==
    /\ source \in {"idle", "connecting", "open", "closed"}
    /\ live = (source # "idle") /\ banner \in BOOLEAN
    /\ lastId \in 0..Len(added) /\ parked \in {NotParked} \cup 0..Len(added)
    /\ seen \subseteq 1..Len(added) /\ shown \in Seq(Nat)

\* The last id is the newest entry of this subscription, and a read that is
\* under way starts there.
ReadsOn ==
    /\ seen = {} => lastId = Dollar
    /\ seen # {} => lastId \in seen /\ \A i \in seen : i <= lastId
    /\ parked # NotParked /\ lastId # Dollar => parked = lastId

\* What a read will bring is newer than all that is shown.
ShownIsRead ==
    \A k \in 1..Len(shown) :
        /\ shown[k] <= Len(added)
        /\ parked # NotParked => shown[k] <= parked
        /\ lastId # Dollar => shown[k] <= lastId

\* NoGap for any two entries of the subscription.
NoHole == \A a, b \in seen : \A i \in a..b : i \in seen \/ i <= trimmed

TailInv == TailTyped /\ ReadsOn /\ ShownIsRead /\ NoHole /\ NewestFirst

\* What the bounds allow, n the entries of a service and l the lost writes.
WithinBounds(S, n, l) ==
    /\ \A s \in S : Len(buffer[s]) <= MaxBuffer
    /\ logged \in [S -> 0..n] /\ lost \in 0..l
    /\ redials \in 0..MaxRedials /\ Len(shown) <= LiveBuffer

\* The greater of two.
LEMMA MaxOfTwo ==
  ASSUME NEW a \in Int, NEW b \in Int
  PROVE  Max({a, b}) = IF a >= b THEN a ELSE b
BY DEF Max

\* The bounds are numbers.
LEMMA StreamNumbers == MaxBuffer \in Nat /\ LiveBuffer \in Nat /\ MaxRedials \in Nat /\ MaxLogs \in Nat
                       /\ MaxLost \in Nat /\ MaxLength \in Nat /\ ScanDepth \in Nat
BY StreamAssumption

\* Entries written to the stream go behind the others.
LEMMA WrittenEntries ==
  ASSUME NEW E, added \in Seq(E), NEW held \in Seq(E), added' = added \o held
  PROVE  /\ added' \in Seq(E) /\ Len(added') = Len(added) + Len(held)
         /\ \A i \in 1..Len(added) : added'[i] = added[i]
         /\ \A i \in 1..Len(added') :
               i > Len(added) => /\ i - Len(added) \in 1..Len(held)
                                 /\ added'[i] = held[i - Len(added)]
BY ConcatProperties

\* A service's entries are written behind those it wrote before.
LEMMA WritesKeepOrder ==
  ASSUME NEW S, NEW E, Entries(S, E), StreamInv(S, E), NEW s \in S, NEW held \in Seq(E),
         added' = added \o held, trimmed' \in trimmed..Len(added'),
         \A i \in 1..Len(held) : held[i].service = s,
         \A i, j \in 1..Len(held) : i < j => held[i].n < held[j].n,
         \A i \in 1..Len(added), j \in 1..Len(held) :
            added[i].service = s => added[i].n < held[j].n
  PROVE  added' \in Seq(E) /\ trimmed' \in 0..Len(added') /\ ServiceOrderKept'
<1>1. /\ added' \in Seq(E) /\ Len(added') = Len(added) + Len(held)
      /\ Len(added) \in Nat /\ Len(held) \in Nat
      /\ \A i \in 1..Len(added) : added'[i] = added[i]
      /\ \A i \in 1..Len(added') :
            i > Len(added) => /\ i - Len(added) \in 1..Len(held)
                              /\ added'[i] = held[i - Len(added)]
  BY WrittenEntries DEF StreamInv, StreamTyped
<1>2. trimmed' \in 0..Len(added')
  BY <1>1 DEF StreamInv, StreamTyped
<1>3. ASSUME NEW i \in 1..Len(added'), NEW j \in 1..Len(added'), i < j,
             added'[i].service = added'[j].service
      PROVE  added'[i].n < added'[j].n
  <2>1. CASE j <= Len(added)
    BY <1>1, <1>3, <2>1 DEF StreamInv, ServiceOrderKept
  <2>2. CASE i > Len(added)
    <3> DEFINE a == i - Len(added)
               b == j - Len(added)
    <3>1. a \in 1..Len(held) /\ b \in 1..Len(held) /\ a < b
      BY <1>1, <1>3, <2>2
    <3>2. added'[i] = held[a] /\ added'[j] = held[b]
      BY <1>1, <1>3, <2>2
    <3>3. held[a].n < held[b].n
      BY <3>1
    <3> QED
      BY <3>2, <3>3
  <2>3. CASE i <= Len(added) /\ j > Len(added)
    <3>1. j - Len(added) \in 1..Len(held) /\ added'[j] = held[j - Len(added)]
      BY <1>1, <2>3
    <3>2. i \in 1..Len(added) /\ added'[i] = added[i]
      BY <1>1, <2>3
    <3> QED
      BY <1>3, <3>1, <3>2
  <2> QED
    BY <1>1, <2>1, <2>2, <2>3
<1> QED
  BY <1>1, <1>2, <1>3 DEF ServiceOrderKept

\* The same for one entry.
LEMMA WriteKeepsOrder ==
  ASSUME NEW S, NEW E, Entries(S, E), StreamInv(S, E), NEW s \in S, NEW entry \in E,
         entry.service = s, added' = added \o <<entry>>, trimmed' \in trimmed..Len(added'),
         \A i \in 1..Len(added) : added[i].service = s => added[i].n < entry.n
  PROVE  added' \in Seq(E) /\ trimmed' \in 0..Len(added') /\ ServiceOrderKept'
<1> DEFINE held == <<entry>>
<1>1. held \in Seq(E) /\ Len(held) = 1 /\ held[1] = entry
  OBVIOUS
<1> HIDE DEF held
<1>2. /\ \A i \in 1..Len(held) : held[i].service = s
      /\ \A i, j \in 1..Len(held) : i < j => held[i].n < held[j].n
      /\ \A i \in 1..Len(added), j \in 1..Len(held) :
            added[i].service = s => added[i].n < held[j].n
  BY <1>1
<1>3. added' = added \o held
  BY DEF held
<1> QED
  BY <1>1, <1>2, <1>3, WritesKeepOrder, ZenonT(40)

\* A service logs: the entry is dropped, held, or written, or its write is lost.
LEMMA LogKeepsStream ==
  ASSUME NEW S, NEW E, Entries(S, E), StreamInv(S, E), NEW s \in S, NEW entry \in E,
         entry.service = s, entry.n = logged[s] + 1,
         sink' = sink, logged' = [logged EXCEPT ![s] = @ + 1],
         \/ UNCHANGED <<buffer, added, trimmed>>
         \/ /\ sink[s] = "connecting" /\ buffer' = [buffer EXCEPT ![s] = Append(@, entry)]
            /\ UNCHANGED <<added, trimmed>>
         \/ /\ sink[s] = "ready" /\ UNCHANGED buffer
            /\ added' = added \o <<entry>> /\ trimmed' \in trimmed..Len(added')
  PROVE  StreamInv(S, E)'
<1>0. /\ StreamTyped(S, E) /\ HeldOrWritten(S) /\ NumberedInOrder(S) /\ ServiceOrderKept
      /\ added \in Seq(E) /\ Len(added) \in Nat
      /\ \A i \in 1..Len(added) : added[i] \in E /\ added[i].service \in S /\ added[i].n \in Nat
  BY ElementOfSeq, LenProperties DEF StreamInv, StreamTyped, Entries
<1>1. logged' \in [S -> Nat] /\ \A t \in S : logged[t] \in Nat /\ logged[t] <= logged'[t]
  BY <1>0 DEF StreamTyped
<1>2. logged'[s] = logged[s] + 1
  BY <1>0 DEF StreamTyped
<1>3. CASE UNCHANGED <<buffer, added, trimmed>>
  <2>1. StreamTyped(S, E)' /\ HeldOrWritten(S)' /\ ServiceOrderKept'
    BY <1>0, <1>1, <1>3 DEF StreamTyped, HeldOrWritten, ServiceOrderKept
  <2>2. \A i \in 1..Len(added) : added[i].n <= logged'[added[i].service]
    BY <1>0, <1>1 DEF NumberedInOrder
  <2>3. \A t \in S : \A i \in 1..Len(buffer[t]) :
           buffer[t][i].service = t /\ buffer[t][i].n <= logged'[t]
    <3> SUFFICES ASSUME NEW t \in S, NEW i \in 1..Len(buffer[t])
                 PROVE  buffer[t][i].service = t /\ buffer[t][i].n <= logged'[t]
      OBVIOUS
    <3>1. buffer[t][i] \in E /\ buffer[t][i].n \in Nat
      BY <1>0, ElementOfSeq DEF StreamTyped, Entries
    <3> QED
      BY <1>0, <1>1, <3>1 DEF NumberedInOrder
  <2> QED
    BY <1>0, <1>3, <2>1, <2>2, <2>3 DEF StreamInv, NumberedInOrder
<1>4. CASE /\ sink[s] = "connecting" /\ buffer' = [buffer EXCEPT ![s] = Append(@, entry)]
           /\ UNCHANGED <<added, trimmed>>
  <2>1. /\ buffer'[s] \in Seq(E) /\ Len(buffer'[s]) = Len(buffer[s]) + 1
        /\ buffer'[s][Len(buffer[s]) + 1] = entry /\ Len(buffer[s]) \in Nat
        /\ \A i \in 1..Len(buffer[s]) : buffer'[s][i] = buffer[s][i]
    BY <1>0, <1>4, AppendProperties DEF StreamTyped
  <2>2. \A t \in S \ {s} : buffer'[t] = buffer[t]
    BY <1>0, <1>4 DEF StreamTyped
  <2>3. StreamTyped(S, E)' /\ HeldOrWritten(S)' /\ ServiceOrderKept'
    BY <1>0, <1>1, <1>4, <2>1, <2>2 DEF StreamTyped, HeldOrWritten, ServiceOrderKept
  <2>4. \A i \in 1..Len(added) : added[i].n <= logged'[added[i].service]
    BY <1>0, <1>1 DEF NumberedInOrder
  <2>5. \A t \in S : \A i \in 1..Len(buffer[t]) :
           /\ buffer[t][i].n \in Nat /\ buffer[t][i].service = t
           /\ buffer[t][i].n <= logged[t] /\ buffer[t][i].n <= logged'[t]
    <3> SUFFICES ASSUME NEW t \in S, NEW i \in 1..Len(buffer[t])
                 PROVE  /\ buffer[t][i].n \in Nat /\ buffer[t][i].service = t
                        /\ buffer[t][i].n <= logged[t] /\ buffer[t][i].n <= logged'[t]
      OBVIOUS
    <3>1. buffer[t][i] \in E /\ buffer[t][i].n \in Nat
      BY <1>0, ElementOfSeq DEF StreamTyped, Entries
    <3> QED
      BY <1>0, <1>1, <3>1 DEF NumberedInOrder
  <2>6. \A t \in S : \A i \in 1..Len(buffer'[t]) :
           buffer'[t][i].service = t /\ buffer'[t][i].n <= logged'[t]
    <3> SUFFICES ASSUME NEW t \in S, NEW i \in 1..Len(buffer'[t])
                 PROVE  buffer'[t][i].service = t /\ buffer'[t][i].n <= logged'[t]
      OBVIOUS
    <3>1. CASE t # s
      BY <2>2, <2>5, <3>1
    <3>2. CASE t = s /\ i = Len(buffer[s]) + 1
      BY <1>1, <1>2, <2>1, <3>2
    <3>3. CASE t = s /\ i \in 1..Len(buffer[s])
      BY <2>1, <2>5, <3>3
    <3> QED
      BY <2>1, <3>1, <3>2, <3>3
  <2>7. \A t \in S : \A i, j \in 1..Len(buffer'[t]) :
           i < j => buffer'[t][i].n < buffer'[t][j].n
    <3> SUFFICES ASSUME NEW t \in S, NEW i \in 1..Len(buffer'[t]), NEW j \in 1..Len(buffer'[t]),
                        i < j
                 PROVE  buffer'[t][i].n < buffer'[t][j].n
      OBVIOUS
    <3>1. CASE t # s
      BY <1>0, <2>2, <3>1 DEF NumberedInOrder
    <3>2. CASE t = s /\ j = Len(buffer[s]) + 1
      <4>1. i \in 1..Len(buffer[s])
        BY <2>1, <3>2
      <4> QED
        BY <1>1, <2>1, <2>5, <3>2, <4>1
    <3>3. CASE t = s /\ j \in 1..Len(buffer[s])
      <4>1. i \in 1..Len(buffer[s])
        BY <2>1, <3>3
      <4> QED
        BY <1>0, <2>1, <3>3, <4>1, ZenonT(40) DEF NumberedInOrder
    <3> QED
      BY <2>1, <3>1, <3>2, <3>3
  <2> QED
    BY <1>4, <2>3, <2>4, <2>6, <2>7 DEF StreamInv, NumberedInOrder
<1>5. CASE /\ sink[s] = "ready" /\ UNCHANGED buffer
           /\ added' = added \o <<entry>> /\ trimmed' \in trimmed..Len(added')
  <2> DEFINE held == <<entry>>
  <2>1. held \in Seq(E) /\ Len(held) = 1 /\ held[1] = entry
    OBVIOUS
  <2>2. \A i \in 1..Len(added) : added[i].service = s => added[i].n < entry.n
    BY <1>0, <1>1 DEF NumberedInOrder
  <2>3. added' \in Seq(E) /\ trimmed' \in 0..Len(added') /\ ServiceOrderKept'
    BY <1>5, <2>2, WriteKeepsOrder
  <2>4. /\ Len(added') = Len(added) + 1 /\ added'[Len(added) + 1] = entry
        /\ \A i \in 1..Len(added) : added'[i] = added[i]
    BY <1>0, <1>5, <2>1, ConcatProperties
  <2>5. StreamTyped(S, E)'
    BY <1>0, <1>1, <1>5, <2>3 DEF StreamTyped
  <2>6. \A i \in 1..Len(added') :
           /\ sink'[added'[i].service] # "connecting"
           /\ added'[i].n <= logged'[added'[i].service]
    <3> SUFFICES ASSUME NEW i \in 1..Len(added')
                 PROVE  /\ sink'[added'[i].service] # "connecting"
                        /\ added'[i].n <= logged'[added'[i].service]
      OBVIOUS
    <3>1. CASE i = Len(added) + 1
      BY <1>1, <1>2, <1>5, <2>4, <3>1
    <3>2. CASE i \in 1..Len(added)
      BY <1>0, <1>1, <2>4, <3>2 DEF NumberedInOrder, HeldOrWritten
    <3> QED
      BY <1>0, <2>4, <3>1, <3>2
  <2>7. HeldOrWritten(S)'
    BY <1>0, <1>5, <2>6 DEF HeldOrWritten
  <2>8. \A t \in S : \A i \in 1..Len(buffer[t]) :
           buffer[t][i].service = t /\ buffer[t][i].n <= logged'[t]
    <3> SUFFICES ASSUME NEW t \in S, NEW i \in 1..Len(buffer[t])
                 PROVE  buffer[t][i].service = t /\ buffer[t][i].n <= logged'[t]
      OBVIOUS
    <3>1. buffer[t][i] \in E /\ buffer[t][i].n \in Nat
      BY <1>0, ElementOfSeq DEF StreamTyped, Entries
    <3> QED
      BY <1>0, <1>1, <3>1 DEF NumberedInOrder
  <2> QED
    BY <1>0, <1>5, <2>3, <2>5, <2>6, <2>7, <2>8 DEF StreamInv, NumberedInOrder
<1> QED
  BY <1>3, <1>4, <1>5

\* The logger of a service is connected and writes what it held, or gives it up.
LEMMA ConnectKeepsStream ==
  ASSUME NEW S, NEW E, Entries(S, E), StreamInv(S, E), NEW s \in S,
         sink[s] = "connecting", logged' = logged,
         buffer' = [buffer EXCEPT ![s] = <<>>],
         \/ /\ sink' = [sink EXCEPT ![s] = "ready"]
            /\ added' = added \o buffer[s] /\ trimmed' \in trimmed..Len(added')
         \/ /\ sink' = [sink EXCEPT ![s] = "disabled"]
            /\ UNCHANGED <<added, trimmed>>
  PROVE  StreamInv(S, E)'
<1>0. /\ StreamTyped(S, E) /\ HeldOrWritten(S) /\ NumberedInOrder(S) /\ ServiceOrderKept
      /\ added \in Seq(E) /\ Len(added) \in Nat
      /\ buffer[s] \in Seq(E) /\ Len(buffer[s]) \in Nat
      /\ \A i \in 1..Len(added) : added[i] \in E /\ added[i].service \in S /\ added[i].n \in Nat
  BY ElementOfSeq, LenProperties DEF StreamInv, StreamTyped, Entries
<1>1. /\ sink' \in [S -> {"connecting", "ready", "disabled"}]
      /\ sink'[s] # "connecting" /\ \A t \in S \ {s} : sink'[t] = sink[t]
      /\ buffer' \in [S -> Seq(E)] /\ buffer'[s] = <<>>
      /\ \A t \in S \ {s} : buffer'[t] = buffer[t]
  <2>1. <<>> \in Seq(E)
    OBVIOUS
  <2> QED
    BY <1>0, <2>1 DEF StreamTyped
<1>2. \A t \in S : sink'[t] # "connecting" => buffer'[t] = <<>>
  BY <1>0, <1>1 DEF HeldOrWritten
<1>3. /\ \A t \in S : \A i \in 1..Len(buffer'[t]) :
            buffer'[t][i].service = t /\ buffer'[t][i].n <= logged'[t]
      /\ \A t \in S : \A i, j \in 1..Len(buffer'[t]) :
            i < j => buffer'[t][i].n < buffer'[t][j].n
  <2>1. Len(<<>>) = 0
    OBVIOUS
  <2>2. ASSUME NEW t \in S, NEW i \in 1..Len(buffer'[t])
        PROVE  t # s
    BY <1>1, <2>1, <2>2
  <2> QED
    BY <1>0, <1>1, <2>2 DEF NumberedInOrder
<1>4. CASE /\ added' = added \o buffer[s] /\ trimmed' \in trimmed..Len(added')
  <2>1. /\ \A i \in 1..Len(buffer[s]) :
              buffer[s][i].service = s /\ buffer[s][i].n <= logged[s]
        /\ \A i, j \in 1..Len(buffer[s]) : i < j => buffer[s][i].n < buffer[s][j].n
    BY <1>0 DEF NumberedInOrder
  <2>2. \A i \in 1..Len(added) : added[i].service # s
    BY <1>0 DEF HeldOrWritten
  <2>3. added' \in Seq(E) /\ trimmed' \in 0..Len(added') /\ ServiceOrderKept'
    <3>1. \A i \in 1..Len(added), j \in 1..Len(buffer[s]) :
             added[i].service = s => added[i].n < buffer[s][j].n
      BY <2>2
    <3>2. \A i \in 1..Len(buffer[s]) : buffer[s][i].service = s
      BY <2>1
    <3>3. \A i, j \in 1..Len(buffer[s]) : i < j => buffer[s][i].n < buffer[s][j].n
      BY <2>1
    <3> DEFINE held == buffer[s]
    <3>4. held \in Seq(E) /\ added' = added \o held /\ trimmed' \in trimmed..Len(added')
      BY <1>0, <1>4
    <3> HIDE DEF held
    <3>5. /\ \A i \in 1..Len(held) : held[i].service = s
          /\ \A i, j \in 1..Len(held) : i < j => held[i].n < held[j].n
          /\ \A i \in 1..Len(added), j \in 1..Len(held) :
                added[i].service = s => added[i].n < held[j].n
      BY <3>1, <3>2, <3>3 DEF held
    <3> QED
      BY <3>4, <3>5, WritesKeepOrder
  <2>4. /\ Len(added') = Len(added) + Len(buffer[s])
        /\ \A i \in 1..Len(added) : added'[i] = added[i]
        /\ \A i \in 1..Len(added') :
              i > Len(added) => /\ i - Len(added) \in 1..Len(buffer[s])
                                /\ added'[i] = buffer[s][i - Len(added)]
    BY <1>0, <1>4, WrittenEntries
  <2>5. \A i \in 1..Len(added') :
           /\ sink'[added'[i].service] # "connecting"
           /\ added'[i].n <= logged'[added'[i].service]
    <3> SUFFICES ASSUME NEW i \in 1..Len(added')
                 PROVE  /\ sink'[added'[i].service] # "connecting"
                        /\ added'[i].n <= logged'[added'[i].service]
      OBVIOUS
    <3>1. CASE i > Len(added)
      BY <1>1, <2>1, <2>4, <3>1
    <3>2. CASE i \in 1..Len(added)
      BY <1>0, <1>1, <2>4, <3>2 DEF NumberedInOrder, HeldOrWritten
    <3> QED
      BY <1>0, <2>4, <3>1, <3>2
  <2> QED
    BY <1>0, <1>1, <1>2, <1>3, <2>3, <2>5
       DEF StreamInv, StreamTyped, HeldOrWritten, NumberedInOrder
<1>5. CASE UNCHANGED <<added, trimmed>>
  <2>1. \A i \in 1..Len(added) : sink'[added[i].service] # "connecting"
    BY <1>0, <1>1 DEF HeldOrWritten
  <2>2. StreamTyped(S, E)' /\ ServiceOrderKept'
    BY <1>0, <1>1, <1>5 DEF StreamTyped, ServiceOrderKept
  <2> QED
    BY <1>0, <1>2, <1>3, <1>5, <2>1, <2>2 DEF StreamInv, HeldOrWritten, NumberedInOrder
<1> QED
  BY <1>4, <1>5

\* The stream grows behind what the tail has read.
LEMMA StreamGrowsBehindTail ==
  ASSUME TailInv, trimmed \in 0..Len(added), Len(added) \in Nat, Len(added') \in Nat,
         Len(added) <= Len(added'), trimmed' \in trimmed..Len(added'), UNCHANGED tailVars
  PROVE  TailInv'
<1>1. TailTyped'
  BY DEF TailInv, TailTyped, tailVars, NotParked
<1>2. ShownIsRead'
  <2>1. \A k \in 1..Len(shown) : shown[k] \in Nat
    BY ElementOfSeq DEF TailInv, TailTyped
  <2> QED
    BY <2>1 DEF TailInv, ShownIsRead, tailVars
<1>3. ReadsOn' /\ NewestFirst'
  BY DEF TailInv, ReadsOn, NewestFirst, tailVars
<1>4. NoHole'
  <2>1. \A i \in seen : i \in Nat
    BY DEF TailInv, TailTyped
  <2> QED
    BY <2>1 DEF TailInv, NoHole, tailVars
<1> QED
  BY <1>1, <1>2, <1>3, <1>4 DEF TailInv

\* The page turns Live on or off, a subscription begins, ends or is refused, and
\* XREAD is sent or comes back empty.
LEMMA NothingReadKeepsTail ==
  ASSUME TailInv, Len(added) \in Nat, UNCHANGED <<added, trimmed>>,
         \/ /\ seen' = {} /\ lastId' = Dollar /\ parked' = NotParked
            /\ shown' = shown \/ shown' = <<>>
         \/ UNCHANGED <<seen, lastId, parked>> /\ shown' = <<>>
         \/ /\ UNCHANGED <<seen, lastId, shown>>
            /\ \/ parked' = parked \/ parked' = NotParked
               \/ lastId = Dollar /\ parked' = Len(added)
               \/ lastId # Dollar /\ parked' = lastId,
         source' \in {"idle", "connecting", "open", "closed"}, live' = (source' # "idle"),
         banner' \in BOOLEAN
  PROVE  TailInv'
<1>0. Len(<<>>) = 0 /\ <<>> \in Seq(Nat)
  OBVIOUS
<1>1. TailTyped'
  <2>1. /\ lastId \in 0..Len(added) /\ parked \in {NotParked} \cup 0..Len(added)
        /\ seen \subseteq 1..Len(added) /\ shown \in Seq(Nat)
    BY DEF TailInv, TailTyped
  <2>2. lastId' \in 0..Len(added) /\ parked' \in {NotParked} \cup 0..Len(added)
    BY <2>1 DEF Dollar, NotParked
  <2>3. seen' \subseteq 1..Len(added) /\ shown' \in Seq(Nat)
    BY <1>0, <2>1
  <2> QED
    BY <2>2, <2>3 DEF TailTyped, NotParked
<1>2. ShownIsRead'
  BY <1>0 DEF TailInv, TailTyped, ShownIsRead, Dollar, NotParked
<1>3. ReadsOn'
  BY DEF TailInv, TailTyped, ReadsOn, Dollar, NotParked
<1>4. NewestFirst'
  BY <1>0 DEF TailInv, NewestFirst
<1>5. NoHole'
  BY DEF TailInv, NoHole
<1> QED
  BY <1>1, <1>2, <1>3, <1>4, <1>5 DEF TailInv

\* What the list keeps are its first entries.
LEMMA FirstOf ==
  ASSUME NEW list \in Seq(Nat), NEW keep \in Nat, keep <= Len(list)
  PROVE  /\ SubSeq(list, 1, keep) \in Seq(Nat) /\ Len(SubSeq(list, 1, keep)) = keep
         /\ \A k \in 1..keep : SubSeq(list, 1, keep)[k] = list[k]
OBVIOUS

\* The ids of one read.
FromTo(ids, from, to) ==
    /\ ids \in Seq(Nat) /\ Len(ids) = to - from + 1
    /\ \A i \in 1..Len(ids) : ids[i] = from + i - 1

\* The ids of one read, turned round.
LEMMA NewestComeFirst ==
  ASSUME NEW from \in Nat, NEW to \in Nat, from <= to, from > 0,
         NEW ids, FromTo(ids, from, to)
  PROVE  /\ Reverse(ids) \in Seq(Nat) /\ Len(Reverse(ids)) = to - from + 1
         /\ \A i \in 1..Len(Reverse(ids)) : Reverse(ids)[i] = to - i + 1
<1> DEFINE n == to - from + 1
<1>1. n \in Nat /\ ids \in Seq(Nat) /\ Len(ids) = n /\ \A i \in 1..n : ids[i] = from + i - 1
  BY DEF FromTo
<1>2. Reverse(ids) = [i \in 1..n |-> ids[(n - i) + 1]]
  BY <1>1 DEF Reverse
<1>3. \A i \in 1..n : ids[(n - i) + 1] = to - i + 1 /\ ids[(n - i) + 1] \in Nat
  BY <1>1
<1>4. \A i \in 1..n : Reverse(ids)[i] = to - i + 1
  BY <1>2, <1>3
<1> HIDE DEF n
<1>5. Reverse(ids) \in Seq(Nat) /\ Len(Reverse(ids)) = n
  BY <1>1, <1>2, <1>3
<1> QED
  BY <1>4, <1>5 DEF n

\* What stands in a list put behind others.
LEMMA ListBehind ==
  ASSUME NEW front \in Seq(Nat), NEW list \in Seq(Nat)
  PROVE  /\ front \o list \in Seq(Nat) /\ Len(front \o list) = Len(front) + Len(list)
         /\ \A i \in 1..Len(front) : (front \o list)[i] = front[i]
         /\ \A i \in 1..Len(list) : (front \o list)[Len(front) + i] = list[i]
         /\ Len(front) \in Nat /\ Len(list) \in Nat
<1>1. Len(front) \in Nat /\ Len(list) \in Nat
  BY LenProperties
<1> QED
  BY <1>1, ConcatProperties

\* Two lists, each newest first and the first newer than the second, are newest
\* first together.
LEMMA NewestInFront ==
  ASSUME NEW front \in Seq(Nat), NEW list \in Seq(Nat), NEW all, all = front \o list,
         NEW from \in Nat, \A i \in 1..Len(front) : front[i] >= from,
         \A i \in 1..Len(list) : list[i] < from,
         \A i \in 1..(Len(front) - 1) : front[i] > front[i + 1],
         \A i \in 1..(Len(list) - 1) : list[i] > list[i + 1]
  PROVE  \A k \in 1..(Len(all) - 1) : all[k] > all[k + 1]
<1>0. /\ all \in Seq(Nat) /\ Len(all) = Len(front) + Len(list)
      /\ \A i \in 1..Len(front) : all[i] = front[i]
      /\ \A i \in 1..Len(list) : all[Len(front) + i] = list[i]
      /\ Len(front) \in Nat /\ Len(list) \in Nat
  BY ListBehind, Zenon
<1> SUFFICES ASSUME NEW k \in 1..(Len(all) - 1) PROVE all[k] > all[k + 1]
  OBVIOUS
<1>1. CASE k + 1 <= Len(front)
  <2>1. k \in 1..Len(front) /\ k + 1 \in 1..Len(front) /\ k \in 1..(Len(front) - 1)
    BY <1>0, <1>1
  <2> QED
    BY <1>0, <2>1
<1>2. CASE k = Len(front)
  <2>1. k \in 1..Len(front) /\ 1 \in 1..Len(list)
    BY <1>0, <1>2
  <2>2. all[k] = front[k] /\ all[k + 1] = list[1]
    BY <1>0, <1>2, <2>1
  <2>3. front[k] \in Nat /\ list[1] \in Nat
    BY <2>1, ElementOfSeq
  <2>4. front[k] >= from /\ list[1] < from
    BY <2>1
  <2> QED
    BY <2>2, <2>3, <2>4
<1>3. CASE k > Len(front)
  <2>1. PICK j \in 1..(Len(list) - 1) : k = Len(front) + j
    <3>1. k - Len(front) \in 1..(Len(list) - 1) /\ k = Len(front) + (k - Len(front))
      BY <1>0, <1>3
    <3> QED
      BY <3>1
  <2>2. j \in 1..Len(list) /\ j + 1 \in 1..Len(list) /\ k + 1 = Len(front) + (j + 1)
    BY <1>0, <2>1
  <2>3. all[k] = list[j] /\ all[k + 1] = list[j + 1]
    BY <1>0, <2>1, <2>2
  <2> QED
    BY <2>1, <2>3
<1> QED
  BY <1>0, <1>1, <1>2, <1>3

\* The frames of one read, newest first, in front of the list, which is then cut:
\* still newest first, and nothing newer than the last.
LEMMA FramesInFront ==
  ASSUME NEW from \in Nat, NEW to \in Nat, from <= to,
         NEW front \in Seq(Nat), Len(front) = to - from + 1,
         \A i \in 1..Len(front) : front[i] = to - i + 1,
         NEW list \in Seq(Nat), \A i \in 1..Len(list) : list[i] < from,
         \A i \in 1..(Len(list) - 1) : list[i] > list[i + 1],
         NEW keep \in Nat, keep <= Len(front \o list)
  PROVE  /\ SubSeq(front \o list, 1, keep) \in Seq(Nat)
         /\ Len(SubSeq(front \o list, 1, keep)) = keep
         /\ \A i \in 1..(keep - 1) :
               SubSeq(front \o list, 1, keep)[i] > SubSeq(front \o list, 1, keep)[i + 1]
         /\ \A i \in 1..keep : SubSeq(front \o list, 1, keep)[i] <= to
<1>a. PICK all : all = front \o list
  OBVIOUS
<1>b. PICK cut : cut = SubSeq(all, 1, keep)
  OBVIOUS
<1>0. /\ all \in Seq(Nat) /\ Len(all) = Len(front) + Len(list)
      /\ \A i \in 1..Len(front) : all[i] = front[i]
      /\ \A i \in 1..Len(list) : all[Len(front) + i] = list[i]
      /\ Len(front) \in Nat /\ Len(list) \in Nat
  BY <1>a, ListBehind, ZenonT(40)
<1>1. \A i \in 1..Len(front) : front[i] >= from /\ front[i] <= to
  OBVIOUS
<1>2. \A i \in 1..(Len(front) - 1) : front[i] > front[i + 1]
  OBVIOUS
<1>3. \A k \in 1..(Len(all) - 1) : all[k] > all[k + 1]
  BY <1>1, <1>2, <1>a, NewestInFront
<1>4. \A k \in 1..Len(all) : all[k] <= to
  <2> SUFFICES ASSUME NEW k \in 1..Len(all) PROVE all[k] <= to
    OBVIOUS
  <2>1. CASE k \in 1..Len(front)
    BY <1>0, <1>1, <2>1
  <2>2. CASE k > Len(front)
    <3>1. k - Len(front) \in 1..Len(list) /\ k = Len(front) + (k - Len(front))
      BY <1>0, <2>2
    <3>2. PICK j \in 1..Len(list) : k = Len(front) + j
      BY <3>1
    <3>3. all[k] = list[j] /\ list[j] < from /\ list[j] \in Nat
      BY <1>0, <3>2, ElementOfSeq
    <3> QED
      BY <3>3, SMTT(30)
  <2> QED
    BY <1>0, <2>1, <2>2
<1>5. /\ cut \in Seq(Nat) /\ Len(cut) = keep
      /\ \A i \in 1..keep : cut[i] = all[i]
  BY <1>0, <1>a, <1>b, FirstOf
<1>6. ASSUME NEW k \in 1..(keep - 1) PROVE cut[k] > cut[k + 1]
  <2>1. k \in 1..(Len(all) - 1) /\ k \in 1..keep /\ k + 1 \in 1..keep
    BY <1>0
  <2> QED
    BY <1>3, <1>5, <2>1
<1>7. ASSUME NEW k \in 1..keep PROVE cut[k] <= to
  <2>1. k \in 1..Len(all)
    BY <1>0
  <2> QED
    BY <1>4, <1>5, <2>1
<1> QED
  BY <1>5, <1>6, <1>7, <1>a, <1>b

\* The numbers of one read.
LEMMA IdsOfRead ==
  ASSUME NEW from \in Nat, NEW n \in Nat
  PROVE  /\ [i \in 1..n |-> from + i - 1] \in Seq(Int) /\ Len([i \in 1..n |-> from + i - 1]) = n
         /\ from > 0 => [i \in 1..n |-> from + i - 1] \in Seq(Nat)
OBVIOUS

\* A read brings the first entries behind the last one that Redis still has.
LEMMA ReadKeepsTail ==
  ASSUME TailInv, Len(added) \in Nat, trimmed \in 0..Len(added),
         parked # NotParked, NEW from, from = Max({parked, trimmed}) + 1,
         NEW to \in from..Len(added), lastId' = to, seen' = seen \cup from..to,
         NEW ids, FromTo(ids, from, to),
         shown' = Newest(Reverse(ids) \o shown),
         parked' = NotParked, UNCHANGED <<live, source, banner, added, trimmed>>
  PROVE  TailInv' /\ Len(shown') <= LiveBuffer
<1>0. /\ parked \in Nat /\ parked <= Len(added) /\ trimmed \in Nat /\ LiveBuffer \in Nat
      /\ TailTyped /\ ReadsOn /\ ShownIsRead /\ NoHole /\ NewestFirst
  BY StreamNumbers DEF TailInv, TailTyped
<1>1. from \in Nat /\ from > parked /\ from > trimmed /\ from > 0
      /\ (from = parked + 1 \/ from = trimmed + 1)
  BY <1>0, MaxOfTwo
<1>2. to \in Nat /\ from <= to /\ to <= Len(added)
  BY <1>1
<1>f. PICK front : front = Reverse(ids)
  OBVIOUS
<1>g. /\ front \in Seq(Nat) /\ Len(front) = to - from + 1
      /\ \A i \in 1..Len(front) : front[i] = to - i + 1
  <2>1. from \in Nat /\ to \in Nat /\ from <= to /\ from > 0
    BY <1>1, <1>2
  <2>2. /\ Reverse(ids) \in Seq(Nat) /\ Len(Reverse(ids)) = to - from + 1
        /\ \A i \in 1..Len(Reverse(ids)) : Reverse(ids)[i] = to - i + 1
    BY <2>1, NewestComeFirst
  <2> QED
    BY <1>f, <2>2
<1>h. PICK list : list = shown
  OBVIOUS
<1>3. front \o shown \in Seq(Nat)
  BY <1>0, <1>g, ConcatProperties DEF TailTyped
<1>4. PICK frames : frames = front \o shown
  OBVIOUS
<1>5. PICK keep : keep = IF Len(frames) < LiveBuffer THEN Len(frames) ELSE LiveBuffer
  OBVIOUS
<1>6. keep \in Nat /\ keep <= Len(frames) /\ keep <= LiveBuffer
  BY <1>0, <1>3, <1>4, <1>5, LenProperties
<1>7. shown' = SubSeq(frames, 1, keep)
  BY <1>4, <1>5, <1>f DEF Newest
<1>8. \A k \in 1..Len(shown) : shown[k] < from
  <2> SUFFICES ASSUME NEW k \in 1..Len(shown) PROVE shown[k] < from
    OBVIOUS
  <2>1. shown[k] \in Nat
    BY <1>0, ElementOfSeq DEF TailTyped
  <2>2. shown[k] <= parked
    BY <1>0 DEF ShownIsRead
  <2> QED
    BY <1>0, <1>1, <2>1, <2>2
<1>9. /\ shown' \in Seq(Nat) /\ Len(shown') = keep /\ NewestFirst'
      /\ \A k \in 1..Len(shown') : shown'[k] <= to
  <2>1. /\ list \in Seq(Nat) /\ \A i \in 1..Len(list) : list[i] < from
        /\ \A i \in 1..(Len(list) - 1) : list[i] > list[i + 1]
    BY <1>0, <1>8, <1>h DEF TailTyped, NewestFirst
  <2>2. frames = front \o list /\ keep \in Nat /\ keep <= Len(frames)
    BY <1>4, <1>6, <1>h
  <2>3. PICK cut : cut = SubSeq(frames, 1, keep)
    OBVIOUS
  <2>4. from \in Nat /\ to \in Nat /\ from <= to
    BY <1>1, <1>2
  <2>6. /\ SubSeq(front \o list, 1, keep) \in Seq(Nat)
        /\ Len(SubSeq(front \o list, 1, keep)) = keep
        /\ \A i \in 1..(keep - 1) : SubSeq(front \o list, 1, keep)[i] > SubSeq(front \o list, 1, keep)[i + 1]
        /\ \A i \in 1..keep : SubSeq(front \o list, 1, keep)[i] <= to
    BY <1>g, <2>1, <2>2, <2>4, FramesInFront
  <2>5. /\ cut \in Seq(Nat) /\ Len(cut) = keep
        /\ \A i \in 1..(Len(cut) - 1) : cut[i] > cut[i + 1]
        /\ \A i \in 1..Len(cut) : cut[i] <= to
    BY <2>2, <2>3, <2>6
  <2> QED
    BY <1>7, <2>3, <2>5 DEF NewestFirst
<1>10. TailTyped'
  <2>1. seen' \subseteq 1..Len(added)
    <3>1. seen \subseteq 1..Len(added) /\ from..to \subseteq 1..Len(added)
      BY <1>0, <1>1, <1>2 DEF TailTyped
    <3> QED
      BY <3>1
  <2>2. lastId' \in 0..Len(added) /\ shown' \in Seq(Nat)
    BY <1>2, <1>9
  <2> QED
    BY <1>0, <2>1, <2>2 DEF TailTyped
<1>11. ShownIsRead'
  <2> SUFFICES ASSUME NEW k \in 1..Len(shown')
               PROVE  shown'[k] <= Len(added) /\ shown'[k] <= to
    BY DEF ShownIsRead
  <2>1. shown'[k] \in Nat
    BY <1>9, ElementOfSeq
  <2>2. shown'[k] <= to
    BY <1>9
  <2> QED
    BY <1>2, <2>1, <2>2
<1>12. ReadsOn'
  <2>1. to \in seen' /\ \A i \in seen' : i <= to
    <3>1. \A i \in seen : i <= to
      BY <1>0, <1>1, <1>2 DEF TailTyped, ReadsOn, Dollar, NotParked
    <3> QED
      BY <1>1, <1>2, <3>1
  <2> QED
    BY <2>1 DEF ReadsOn
<1>13. NoHole'
  <2> SUFFICES ASSUME NEW a \in seen', NEW b \in seen', NEW i \in a..b
               PROVE  i \in seen' \/ i <= trimmed
    BY DEF NoHole
  <2>1. a \in Nat /\ b \in Nat /\ i \in Nat /\ \A j \in seen : j \in Nat
    BY <1>0, <1>1, <1>2 DEF TailTyped
  <2>2. CASE i \in from..to
    BY <2>2
  <2>3. CASE i < from
    <3>1. a \in seen
      BY <1>1, <2>1, <2>3
    <3>2. lastId \in seen /\ lastId = parked /\ \A j \in seen : j <= lastId
      BY <1>0, <3>1 DEF ReadsOn, TailTyped, Dollar
    <3>3. CASE i <= lastId
      <4>1. i \in a..lastId
        BY <2>1, <3>2, <3>3
      <4> QED
        BY <1>0, <3>1, <3>2, <4>1 DEF NoHole
    <3>4. CASE i > lastId
      BY <1>0, <1>1, <2>1, <2>3, <3>2, <3>4
    <3> QED
      BY <2>1, <3>2, <3>3, <3>4
  <2>4. i <= to
    <3>1. b <= to
      BY <1>12, <1>2 DEF ReadsOn
    <3> QED
      BY <1>2, <2>1, <3>1
  <2> QED
    BY <1>1, <1>2, <2>1, <2>2, <2>3, <2>4
<1> QED
  BY <1>6, <1>9, <1>10, <1>11, <1>12, <1>13 DEF TailInv

\* A set of numbers with a greatest one: it is its Max.
LEMMA MaxIs ==
  ASSUME NEW T, T \subseteq Int, NEW m \in T, \A x \in T : x <= m
  PROVE  Max(T) = m
<1>1. \A y \in T : m >= y
  OBVIOUS
<1>2. Max(T) \in T /\ \A y \in T : Max(T) >= y
  BY <1>1 DEF Max
<1>3. Max(T) >= m /\ Max(T) <= m /\ Max(T) \in Int /\ m \in Int
  BY <1>2
<1> QED
  BY <1>3

\* A set of numbers that is not empty has a least one: it is its Min.
LEMMA MinIs ==
  ASSUME NEW T, T \subseteq Nat, T # {}
  PROVE  Min(T) \in T /\ \A x \in T : Min(T) <= x
<1> DEFINE less == OpToRel(<, Nat)
<1>1. IsWellFoundedOn(less, Nat)
  BY NatLessThanWellFounded
<1> HIDE DEF less
<1>2. PICK m \in T : \A x \in T : ~(<<x, m>> \in less)
  BY <1>1, WFMin
<1>3. \A x \in T : m <= x
  <2> SUFFICES ASSUME NEW x \in T PROVE m <= x
    OBVIOUS
  <2>1. <<x, m>> \notin less /\ <<x, m>> \in Nat \X Nat
    BY <1>2
  <2>2. ~(x < m) /\ x \in Nat /\ m \in Nat
    BY <2>1 DEF less, OpToRel
  <2> QED
    BY <2>2
<1> QED
  BY <1>3 DEF Min

\* What the invariants of stream and tail say of what the Logs page shows.
LEMMA TailShowsStream ==
  ASSUME TailInv, Len(added) \in Nat, ServiceOrderKept
  PROVE  TailIsFaithful
<1>1. NoGap
  <2> SUFFICES ASSUME seen # {}, NEW i \in Min(seen)..Max(seen)
               PROVE  i \in seen \/ i <= trimmed
    BY DEF NoGap
  <2>1. seen \subseteq Nat
    BY DEF TailInv, TailTyped
  <2>2. Min(seen) \in seen
    BY <2>1, MinIs
  <2>3. Max(seen) \in seen
    <3>1. lastId \in seen /\ \A x \in seen : x <= lastId
      BY DEF TailInv, ReadsOn
    <3>2. seen \subseteq Int
      BY <2>1
    <3> QED
      BY <3>1, <3>2, MaxIs
  <2> QED
    BY <2>2, <2>3 DEF TailInv, NoHole
<1> QED
  BY <1>1 DEF TailInv, TailIsFaithful

\* Redis trims no further than the end of the stream.
LEMMA TrimsWithin ==
  ASSUME NEW cap \in Nat, trimmed \in Nat, Len(added') \in Nat, trimmed <= Len(added'),
         trimmed' \in trimmed..Max({trimmed, Len(added') - cap})
  PROVE  trimmed' \in trimmed..Len(added')
<1>1. Max({trimmed, Len(added') - cap}) <= Len(added')
  BY MaxOfTwo
<1>2. Max({trimmed, Len(added') - cap}) \in Int
  BY MaxOfTwo
<1> QED
  BY <1>1, <1>2

\* What a log call does to stream and tail, the cap of the stream being given.
LEMMA LoggedKeeps ==
  ASSUME NEW S, NEW E, Entries(S, E), NEW n \in Nat, NEW l \in Nat,
         StreamInv(S, E), TailInv, WithinBounds(S, n, l),
         NEW s \in S, NEW entry \in E, entry.service = s, entry.n = logged[s] + 1,
         logged[s] < n, logged' = [logged EXCEPT ![s] = @ + 1], UNCHANGED <<sink, tailVars>>,
         \/ UNCHANGED <<buffer, lost, added, trimmed>>
         \/ /\ sink[s] = "connecting"
            /\ buffer' = [buffer EXCEPT ![s] = IF Len(@) < MaxBuffer THEN Append(@, entry) ELSE @]
            /\ UNCHANGED <<lost, added, trimmed>>
         \/ /\ sink[s] = "ready" /\ added' = added \o <<entry>>
            /\ trimmed' \in trimmed..Len(added') /\ UNCHANGED <<buffer, lost>>
         \/ lost < l /\ lost' = lost + 1 /\ UNCHANGED <<buffer, added, trimmed>>
  PROVE  StreamInv(S, E)' /\ TailInv' /\ WithinBounds(S, n, l)'
<1>0. /\ added \in Seq(E) /\ Len(added) \in Nat /\ trimmed \in 0..Len(added)
      /\ buffer \in [S -> Seq(E)] /\ Len(buffer[s]) \in Nat /\ MaxBuffer \in Nat
      /\ logged \in [S -> 0..n] /\ sink' = sink
  BY LenProperties, StreamNumbers DEF StreamInv, StreamTyped, WithinBounds
<1>1. logged' \in [S -> 0..n] /\ UNCHANGED <<redials, shown>>
  BY <1>0 DEF tailVars
<1>2. CASE UNCHANGED <<buffer, lost, added, trimmed>>
  <2>1. StreamInv(S, E)'
    BY <1>2, LogKeepsStream
  <2>2. TailInv'
    BY <1>0, <1>2, StreamGrowsBehindTail
  <2> QED
    BY <1>1, <1>2, <2>1, <2>2 DEF WithinBounds
<1>3. CASE /\ sink[s] = "connecting"
           /\ buffer' = [buffer EXCEPT ![s] = IF Len(@) < MaxBuffer THEN Append(@, entry) ELSE @]
           /\ UNCHANGED <<lost, added, trimmed>>
  <2>1. TailInv'
    BY <1>0, <1>3, StreamGrowsBehindTail
  <2>2. CASE Len(buffer[s]) < MaxBuffer
    <3>1. buffer' = [buffer EXCEPT ![s] = Append(@, entry)]
      BY <1>3, <2>2
    <3>2. StreamInv(S, E)'
      BY <1>3, <3>1, LogKeepsStream
    <3>3. Len(buffer'[s]) = Len(buffer[s]) + 1 /\ \A t \in S \ {s} : buffer'[t] = buffer[t]
      BY <1>0, <3>1, AppendProperties
    <3> QED
      BY <1>0, <1>1, <1>3, <2>1, <2>2, <3>2, <3>3 DEF WithinBounds
  <2>3. CASE ~(Len(buffer[s]) < MaxBuffer)
    <3>1. buffer' = buffer
      BY <1>0, <1>3, <2>3
    <3>2. StreamInv(S, E)'
      BY <1>3, <3>1, LogKeepsStream
    <3> QED
      BY <1>1, <1>3, <2>1, <3>1, <3>2 DEF WithinBounds
  <2> QED
    BY <2>2, <2>3
<1>4. CASE /\ sink[s] = "ready" /\ added' = added \o <<entry>>
           /\ trimmed' \in trimmed..Len(added') /\ UNCHANGED <<buffer, lost>>
  <2>1. StreamInv(S, E)'
    BY <1>4, LogKeepsStream
  <2>2. Len(added') = Len(added) + 1
    BY <1>0, <1>4, ConcatProperties
  <2>3. TailInv'
    BY <1>0, <1>4, <2>2, StreamGrowsBehindTail
  <2> QED
    BY <1>1, <1>4, <2>1, <2>3 DEF WithinBounds
<1>5. CASE lost < l /\ lost' = lost + 1 /\ UNCHANGED <<buffer, added, trimmed>>
  <2>1. StreamInv(S, E)'
    BY <1>5, LogKeepsStream
  <2>2. TailInv'
    BY <1>0, <1>5, StreamGrowsBehindTail
  <2> QED
    BY <1>1, <1>5, <2>1, <2>2 DEF WithinBounds
<1> QED
  BY <1>2, <1>3, <1>4, <1>5

\* The Logs page has operators of the library as an instance: they are the same.
LEMMA SameOnPage ==
  ASSUME NEW T
  PROVE  LogsPage!Max(T) = Max(T) /\ LogsPage!Reverse(T) = Reverse(T) /\ LogsPage!Newest(T) = Newest(T)
<1>1. LogsPage!Max(T) = Max(T)
  BY DEF LogsPage!Max, Max
<1>2. LogsPage!Reverse(T) = Reverse(T)
  BY DEF LogsPage!Reverse, Reverse
<1>3. LogsPage!Newest(T) = Newest(T)
  BY DEF LogsPage!Newest, Newest
<1> QED
  BY <1>1, <1>2, <1>3

\* What the Logs page writes.
PageEntries == LogsPage!Entry

LogsPageInv ==
    /\ StreamInv(TailServices, PageEntries) /\ TailInv
    /\ WithinBounds(TailServices, TailLogs, TailLost)

\* Its bounds are numbers, its entries numbered entries of its services.
LEMMA PageNumbers ==
  /\ TailLogs \in Nat /\ TailLost \in Nat /\ TailLength \in Nat
  /\ Entries(TailServices, PageEntries)
<1>1. TailLogs \in Nat /\ TailLost \in Nat /\ TailLength \in Nat
  BY TailAssumption
<1> QED
  BY <1>1 DEF Entries, PageEntries, LogsPage!Entry

\* At first nothing was logged and nobody looks.
LEMMA PageBegins == LogsPage!LogInit => LogsPageInv
<1> SUFFICES ASSUME LogsPage!LogInit PROVE LogsPageInv
  OBVIOUS
<1>1. /\ sink = [s \in TailServices |-> "connecting"]
      /\ buffer = [s \in TailServices |-> <<>>] /\ logged = [s \in TailServices |-> 0]
      /\ lost = 0 /\ added = <<>> /\ trimmed = 0
      /\ live = FALSE /\ source = "idle" /\ banner = FALSE
      /\ lastId = Dollar /\ parked = NotParked /\ seen = {} /\ shown = <<>> /\ redials = 0
  BY DEF LogsPage!LogInit, LogsPage!InitStream, LogsPage!InitTail, Dollar, NotParked,
         LogsPage!Dollar, LogsPage!NotParked
<1>2. Len(<<>>) = 0 /\ \A T : <<>> \in Seq(T)
  OBVIOUS
<1>3. StreamInv(TailServices, PageEntries)
  BY <1>1, <1>2 DEF StreamInv, StreamTyped, HeldOrWritten, NumberedInOrder, ServiceOrderKept
<1>4. TailInv
  <2>1. TailTyped
    <3>1. Len(added) = 0 /\ shown \in Seq(Nat)
      BY <1>1, <1>2
    <3>2. live = (source # "idle") /\ banner \in BOOLEAN
      BY <1>1
    <3>3. lastId \in 0..Len(added) /\ parked \in {NotParked} \cup 0..Len(added)
      BY <1>1, <3>1 DEF Dollar
    <3> QED
      BY <1>1, <3>1, <3>2, <3>3 DEF TailTyped
  <2>2. ReadsOn /\ ShownIsRead /\ NoHole /\ NewestFirst
    BY <1>1, <1>2 DEF ReadsOn, ShownIsRead, NoHole, NewestFirst
  <2> QED
    BY <2>1, <2>2 DEF TailInv
<1>5. WithinBounds(TailServices, TailLogs, TailLost)
  BY <1>1, <1>2, PageNumbers, StreamNumbers DEF WithinBounds
<1> QED
  BY <1>3, <1>4, <1>5 DEF LogsPageInv

\* A service of the Logs page logs.
LEMMA PageLogs ==
  ASSUME LogsPageInv, NEW s \in TailServices, LogsPage!LogSome(s)
  PROVE  LogsPageInv'
<1> DEFINE entry == [service |-> s, n |-> logged[s] + 1]
<1>0. /\ logged[s] < TailLogs /\ logged' = [logged EXCEPT ![s] = @ + 1]
      /\ UNCHANGED <<sink, tailVars>> /\ logged[s] \in Nat
      /\ sink[s] \in {"connecting", "ready", "disabled"}
      /\ trimmed \in 0..Len(added) /\ Len(added) \in Nat /\ added \in Seq(PageEntries)
  BY LenProperties DEF LogsPage!LogSome, LogsPage!Log, LogsPage!tailVars, tailVars, LogsPageInv,
         StreamInv, StreamTyped
<1>1. entry \in PageEntries /\ entry.service = s /\ entry.n = logged[s] + 1
  BY <1>0, PageNumbers DEF PageEntries, LogsPage!Entry
<1>2. CASE sink[s] = "disabled"
  BY <1>0, <1>1, <1>2, PageNumbers, LoggedKeeps
     DEF LogsPage!LogSome, LogsPage!Log, LogsPage!streamVars, LogsPageInv
<1>3. CASE sink[s] = "connecting"
  <2>1. /\ buffer' = [buffer EXCEPT ![s] = IF Len(@) < MaxBuffer THEN Append(@, entry) ELSE @]
        /\ UNCHANGED <<lost, added, trimmed>>
    BY <1>3 DEF LogsPage!LogSome, LogsPage!Log, LogsPage!streamVars
  <2> HIDE DEF entry
  <2> QED
    BY <1>0, <1>1, <1>3, <2>1, PageNumbers, LoggedKeeps DEF LogsPageInv
<1>4. CASE sink[s] = "ready"
  <2>1. UNCHANGED buffer
        /\ \/ LogsPage!Write(<<entry>>) /\ UNCHANGED lost
           \/ lost < TailLost /\ lost' = lost + 1 /\ UNCHANGED <<added, trimmed>>
    BY <1>4 DEF LogsPage!LogSome, LogsPage!Log, LogsPage!streamVars
  <2>2. CASE LogsPage!Write(<<entry>>) /\ UNCHANGED lost
    <3>1. added' = added \o <<entry>> /\ trimmed' \in trimmed..Max({trimmed, Len(added') - TailLength})
      BY <2>2, SameOnPage DEF LogsPage!Write
    <3> HIDE DEF entry
    <3>2. Len(added') = Len(added) + 1
      BY <1>0, <1>1, <3>1, ConcatProperties
    <3>3. trimmed' \in trimmed..Len(added')
      <4>1. trimmed \in Nat /\ Len(added') \in Nat /\ trimmed <= Len(added') /\ TailLength \in Nat
        BY <1>0, <3>2, PageNumbers
      <4> QED
        BY <3>1, <4>1, TrimsWithin
    <3> QED
      BY <1>0, <1>1, <1>4, <2>1, <2>2, <3>1, <3>3, PageNumbers, LoggedKeeps DEF LogsPageInv
  <2>3. CASE lost < TailLost /\ lost' = lost + 1 /\ UNCHANGED <<added, trimmed>>
    <3> HIDE DEF entry
    <3> QED
      BY <1>0, <1>1, <1>4, <2>1, <2>3, PageNumbers, LoggedKeeps DEF LogsPageInv
  <2> QED
    BY <2>1, <2>2, <2>3
<1> QED
  BY <1>0, <1>2, <1>3, <1>4

\* A logger of the Logs page is connected or gives up.
LEMMA PageConnects ==
  ASSUME LogsPageInv, NEW s \in TailServices, LogsPage!Connected(s) \/ LogsPage!ConnectFails(s)
  PROVE  LogsPageInv'
<1>0. /\ sink[s] = "connecting" /\ logged' = logged /\ buffer' = [buffer EXCEPT ![s] = <<>>]
      /\ UNCHANGED <<lost, tailVars>>
      /\ trimmed \in 0..Len(added) /\ Len(added) \in Nat /\ added \in Seq(PageEntries)
      /\ buffer \in [TailServices -> Seq(PageEntries)] /\ Len(buffer[s]) \in Nat
  BY LenProperties DEF LogsPage!Connected, LogsPage!ConnectFails, LogsPage!tailVars, tailVars,
         LogsPageInv, StreamInv, StreamTyped
<1>1. CASE LogsPage!Connected(s)
  <2>1. /\ sink' = [sink EXCEPT ![s] = "ready"] /\ added' = added \o buffer[s]
        /\ trimmed' \in trimmed..Max({trimmed, Len(added') - TailLength})
    BY <1>1, SameOnPage DEF LogsPage!Connected, LogsPage!Write
  <2>2. Len(added') = Len(added) + Len(buffer[s])
    BY <1>0, <2>1, ConcatProperties
  <2>3. trimmed' \in trimmed..Len(added')
    <3>1. trimmed \in Nat /\ Len(added') \in Nat /\ trimmed <= Len(added') /\ TailLength \in Nat
      BY <1>0, <2>2, PageNumbers
    <3> QED
      BY <2>1, <3>1, TrimsWithin
  <2>4. StreamInv(TailServices, PageEntries)'
    BY <1>0, <2>1, <2>3, PageNumbers, ConnectKeepsStream DEF LogsPageInv
  <2>5. TailInv'
    BY <1>0, <2>2, <2>3, StreamGrowsBehindTail DEF LogsPageInv
  <2> QED
    BY <2>4, <2>5, <1>0, StreamNumbers DEF LogsPageInv, WithinBounds, tailVars
<1>2. CASE LogsPage!ConnectFails(s)
  <2>1. sink' = [sink EXCEPT ![s] = "disabled"] /\ UNCHANGED <<added, trimmed>>
    BY <1>2 DEF LogsPage!ConnectFails, LogsPage!streamVars
  <2>2. StreamInv(TailServices, PageEntries)'
    BY <1>0, <2>1, PageNumbers, ConnectKeepsStream DEF LogsPageInv
  <2>3. TailInv'
    BY <1>0, <2>1, StreamGrowsBehindTail DEF LogsPageInv
  <2> QED
    BY <2>2, <2>3, <1>0, StreamNumbers DEF LogsPageInv, WithinBounds, tailVars
<1> QED
  BY <1>1, <1>2

\* A step of the tail leaves loggers and stream alone.
LEMMA TailLeavesStream ==
  ASSUME NEW S, NEW E, StreamInv(S, E), UNCHANGED <<sinkVars, streamVars>>
  PROVE  StreamInv(S, E)'
BY DEF StreamInv, StreamTyped, HeldOrWritten, NumberedInOrder, ServiceOrderKept,
       sinkVars, streamVars

\* The page, its EventSource and the gateway's tail.
LEMMA PageTails == ASSUME LogsPageInv, LogsPage!TailNext PROVE LogsPageInv'
<1> USE DEF LogsPage!Dollar, LogsPage!NotParked, Dollar, NotParked
<1>0. /\ UNCHANGED <<sinkVars, streamVars>> /\ UNCHANGED <<buffer, logged, lost, added, trimmed>>
      /\ Len(added) \in Nat /\ trimmed \in 0..Len(added)
      /\ redials \in Nat /\ MaxRedials \in Nat /\ LiveBuffer \in Nat /\ TailTyped /\ ReadsOn
      /\ redials <= MaxRedials /\ Len(shown) <= LiveBuffer
      /\ TailInv /\ Len(<<>>) = 0
  <2>1. UNCHANGED <<sinkVars, streamVars>>
    BY DEF LogsPage!TailNext, LogsPage!GoLive, LogsPage!GoQuiet, LogsPage!Subscribe, LogsPage!Park,
           LogsPage!BlockElapses, LogsPage!Read, LogsPage!Break, LogsPage!Refused,
           LogsPage!sinkVars, LogsPage!streamVars, sinkVars, streamVars
  <2>2. Len(added) \in Nat
    BY LenProperties DEF LogsPageInv, StreamInv, StreamTyped
  <2> QED
    BY <2>1, <2>2, StreamNumbers
       DEF LogsPageInv, StreamInv, StreamTyped, WithinBounds, TailInv, sinkVars, streamVars
<1>1. StreamInv(TailServices, PageEntries)'
  BY <1>0, TailLeavesStream DEF LogsPageInv
<1>2. ASSUME TailInv', redials' \in 0..MaxRedials, Len(shown') <= LiveBuffer
      PROVE  LogsPageInv'
  BY <1>0, <1>1, <1>2 DEF LogsPageInv, WithinBounds
<1>3. CASE LogsPage!GoLive
  <2>1. TailInv'
    BY <1>0, <1>3, NothingReadKeepsTail DEF LogsPage!GoLive
  <2> QED
    BY <1>0, <1>2, <1>3, <2>1 DEF LogsPage!GoLive
<1>4. CASE LogsPage!GoQuiet
  <2>1. TailInv'
    BY <1>0, <1>4, NothingReadKeepsTail DEF LogsPage!GoQuiet
  <2> QED
    BY <1>0, <1>2, <1>4, <2>1 DEF LogsPage!GoQuiet
<1>5. CASE LogsPage!Subscribe \/ LogsPage!Break
  <2>1. TailInv'
    BY <1>0, <1>5, NothingReadKeepsTail DEF LogsPage!Subscribe, LogsPage!Break, TailTyped
  <2> QED
    BY <1>0, <1>2, <1>5, <2>1 DEF LogsPage!Subscribe, LogsPage!Break
<1>6. CASE LogsPage!Refused \/ LogsPage!Park \/ LogsPage!BlockElapses
  <2>1. TailInv'
    BY <1>0, <1>6, NothingReadKeepsTail
       DEF LogsPage!Refused, LogsPage!Park, LogsPage!BlockElapses, TailTyped
  <2> QED
    BY <1>0, <1>2, <1>6, <2>1 DEF LogsPage!Refused, LogsPage!Park, LogsPage!BlockElapses
<1>7. CASE LogsPage!Read
  <2> DEFINE start == LogsPage!Max({parked, trimmed}) + 1
             List(to) == [i \in 1..(to - start + 1) |-> start + i - 1]
  <2>1. PICK to \in start..Len(added) :
          /\ lastId' = to /\ seen' = seen \cup start..to
          /\ shown' = LogsPage!Newest(LogsPage!Reverse(List(to)) \o shown)
    BY <1>7 DEF LogsPage!Read
  <2>2. PICK from : from = start
    OBVIOUS
  <2>3. PICK ids : ids = List(to)
    OBVIOUS
  <2>4. from = Max({parked, trimmed}) + 1 /\ ids = [i \in 1..(to - from + 1) |-> from + i - 1]
    BY <2>2, <2>3, SameOnPage
  <2>5. shown' = Newest(Reverse(ids) \o shown)
    <3> HIDE DEF List
    <3> QED
      BY <2>1, <2>3, SameOnPage
  <2>6. to \in from..Len(added) /\ lastId' = to /\ seen' = seen \cup from..to
    BY <2>1, <2>2
  <2>7. parked # NotParked /\ parked' = NotParked /\ UNCHANGED <<live, source, banner, added, trimmed>>
    BY <1>0, <1>7 DEF LogsPage!Read
  <2> HIDE DEF start, List
  <2>8. FromTo(ids, from, to)
    <3>1. from \in Nat /\ from > 0 /\ to \in Nat /\ from <= to
      <4>1. parked \in Nat /\ trimmed \in Nat
        BY <1>0, <2>7 DEF TailTyped
      <4>2. Max({parked, trimmed}) \in Nat
        BY <4>1, MaxOfTwo
      <4> QED
        BY <1>0, <2>4, <2>6, <4>2
    <3>2. PICK n \in Nat : n = to - from + 1
      BY <3>1
    <3>3. ids = [i \in 1..n |-> from + i - 1]
      BY <2>4, <3>2
    <3>4. ids \in Seq(Nat) /\ Len(ids) = n
      BY <3>1, <3>3, IdsOfRead
    <3> QED
      BY <3>2, <3>3, <3>4 DEF FromTo
  <2>9. TailInv' /\ Len(shown') <= LiveBuffer
    <3>1. from = Max({parked, trimmed}) + 1
      BY <2>4
    <3> QED
      BY <1>0, <2>5, <2>6, <2>7, <2>8, <3>1, ReadKeepsTail
  <2> QED
    BY <1>0, <1>2, <1>7, <2>9 DEF LogsPage!Read
<1> QED
  BY <1>3, <1>4, <1>5, <1>6, <1>7 DEF LogsPage!TailNext

\* Every step of the Logs page.
LEMMA PageSteps == ASSUME LogsPageInv, LogsPage!LogNext PROVE LogsPageInv'
BY PageLogs, PageConnects, PageTails DEF LogsPage!LogNext

-----------------------------------------------------------------------------
(* The chain of Trace.                                                     *)

\* The lines of the chain, and those of other requests.
Lines ==
    [service : Services, n : Nat, stage : Stages \cup {"other", "unlisted"},
     level : {"log", "error"}]

\* A stage whose marker is logged took place, one in error was reached.
Truth(line) ==
    line.stage \in Stages =>
        IF line.level = "log" THEN line.stage \in happened ELSE Reached(line.stage)

\* The lines of the post tell of what took place.
LinesTell == \A i \in 1..Len(added) : Truth(added[i])

TraceInv ==
    /\ StreamInv(Services, Lines) /\ TailInv /\ WithinBounds(Services, MaxLogs, MaxLost)
    /\ TraceTypeOK /\ LinesTell

\* There are eight stages, and neither "other" nor "unlisted" is one of them.
LEMMA StagesOfChain ==
  /\ Len(Chain) = 8 /\ \A stage : stage \in Stages <=> \E k \in 1..8 : stage = Chain[k]
  /\ "gateway" \in Stages /\ "other" \notin Stages /\ "unlisted" \notin Stages
<1>1. Len(Chain) = 8 /\ DOMAIN Chain = 1..8
  BY DEF Chain
<1>2. \A stage : stage \in Stages <=> \E k \in 1..8 : stage = Chain[k]
  BY <1>1 DEF Stages, ToSet
<1>3. Chain[1] = "gateway" /\ \A k \in 1..8 : Chain[k] # "other" /\ Chain[k] # "unlisted"
  BY DEF Chain
<1> QED
  BY <1>1, <1>2, <1>3

\* The lines have numbers and come from services.
LEMMA LineNumbers == Entries(Services, Lines) /\ "api-gateway" \in Services
<1>1. ServiceOf("gateway") = "api-gateway"
  BY DEF ServiceOf
<1> QED
  BY <1>1, ServicesAssumption, StagesOfChain DEF Entries, Lines

\* At first every logger is connected and nothing has happened.
LEMMA TraceBegins == TraceInit => TraceInv
<1> SUFFICES ASSUME TraceInit PROVE TraceInv
  OBVIOUS
<1>1. /\ sink = [s \in Services |-> "ready"]
      /\ buffer = [s \in Services |-> <<>>] /\ logged = [s \in Services |-> 0]
      /\ lost = 0 /\ added = <<>> /\ trimmed = 0
      /\ live = FALSE /\ source = "idle" /\ banner = FALSE
      /\ lastId = Dollar /\ parked = NotParked /\ seen = {} /\ shown = <<>> /\ redials = 0
      /\ happened = {} /\ unlogged = {} /\ trigger = "idle" /\ known = FALSE /\ data = {}
  BY DEF TraceInit, InitStream, InitTail, ChainInit
<1>2. Len(<<>>) = 0 /\ \A T : <<>> \in Seq(T)
  OBVIOUS
<1>3. StreamInv(Services, Lines)
  BY <1>1, <1>2 DEF StreamInv, StreamTyped, HeldOrWritten, NumberedInOrder, ServiceOrderKept
<1>4. TailInv
  <2>1. Len(added) = 0 /\ shown \in Seq(Nat)
    BY <1>1, <1>2
  <2>2. live = (source # "idle") /\ banner \in BOOLEAN
    BY <1>1
  <2>3. lastId \in 0..Len(added) /\ parked \in {NotParked} \cup 0..Len(added)
    BY <1>1, <2>1 DEF Dollar
  <2>4. TailTyped
    BY <1>1, <2>1, <2>2, <2>3 DEF TailTyped
  <2>5. ReadsOn /\ ShownIsRead /\ NoHole /\ NewestFirst
    BY <1>1, <1>2 DEF ReadsOn, ShownIsRead, NoHole, NewestFirst
  <2> QED
    BY <2>4, <2>5 DEF TailInv
<1>5. WithinBounds(Services, MaxLogs, MaxLost)
  BY <1>1, <1>2, StreamNumbers DEF WithinBounds
<1>6. TraceTypeOK
  BY <1>1 DEF TraceTypeOK
<1>7. LinesTell
  BY <1>1, <1>2 DEF LinesTell
<1> QED
  BY <1>3, <1>4, <1>5, <1>6, <1>7 DEF TraceInv

\* A service logs a line: stream and tail stay what they were, and the stream
\* grows by that line or not at all.
LEMMA LineKeeps ==
  ASSUME StreamInv(Services, Lines), TailInv, WithinBounds(Services, MaxLogs, MaxLost),
         NEW s \in Services, NEW entry \in Lines, entry.service = s, entry.n = logged[s] + 1,
         Log(s, entry)
  PROVE  /\ StreamInv(Services, Lines)' /\ TailInv' /\ WithinBounds(Services, MaxLogs, MaxLost)'
         /\ added' = added \/ added' = Append(added, entry)
<1>0. /\ logged[s] < MaxLogs /\ logged' = [logged EXCEPT ![s] = @ + 1]
      /\ UNCHANGED <<sink, tailVars>>
      /\ sink[s] \in {"connecting", "ready", "disabled"}
      /\ trimmed \in 0..Len(added) /\ Len(added) \in Nat /\ added \in Seq(Lines)
  BY LenProperties DEF Log, tailVars, StreamInv, StreamTyped
<1>1. CASE sink[s] = "disabled"
  <2>1. UNCHANGED <<buffer, lost, added, trimmed>>
    BY <1>1 DEF Log, streamVars
  <2> QED
    BY <1>0, <2>1, LineNumbers, StreamNumbers, LoggedKeeps
<1>2. CASE sink[s] = "connecting"
  <2>1. /\ buffer' = [buffer EXCEPT ![s] = IF Len(@) < MaxBuffer THEN Append(@, entry) ELSE @]
        /\ UNCHANGED <<lost, added, trimmed>>
    BY <1>2 DEF Log, streamVars
  <2> QED
    BY <1>0, <1>2, <2>1, LineNumbers, StreamNumbers, LoggedKeeps
<1>3. CASE sink[s] = "ready"
  <2>1. UNCHANGED buffer
        /\ \/ Write(<<entry>>) /\ UNCHANGED lost
           \/ lost < MaxLost /\ lost' = lost + 1 /\ UNCHANGED <<added, trimmed>>
    BY <1>3 DEF Log, streamVars
  <2>2. CASE Write(<<entry>>) /\ UNCHANGED lost
    <3>1. added' = added \o <<entry>> /\ trimmed' \in trimmed..Max({trimmed, Len(added') - MaxLength})
      BY <2>2 DEF Write
    <3>2. Len(added') = Len(added) + 1
      BY <1>0, <3>1, ConcatProperties
    <3>3. trimmed' \in trimmed..Len(added')
      <4>1. trimmed \in Nat /\ Len(added') \in Nat /\ trimmed <= Len(added') /\ MaxLength \in Nat
        BY <1>0, <3>2, StreamNumbers
      <4> QED
        BY <3>1, <4>1, TrimsWithin
    <3>4. added' = Append(added, entry)
      BY <1>0, <3>1
    <3> QED
      BY <1>0, <1>3, <2>1, <2>2, <3>1, <3>3, <3>4, LineNumbers, StreamNumbers, LoggedKeeps
  <2>3. CASE lost < MaxLost /\ lost' = lost + 1 /\ UNCHANGED <<added, trimmed>>
    BY <1>0, <1>3, <2>1, <2>3, LineNumbers, StreamNumbers, LoggedKeeps
  <2> QED
    BY <2>1, <2>2, <2>3
<1> QED
  BY <1>0, <1>1, <1>2, <1>3

\* The lines of the stream are of these kinds.
LEMMA LineTyped ==
  ASSUME StreamInv(Services, Lines)
  PROVE  /\ added \in Seq(Lines) /\ Len(added) \in Nat /\ DOMAIN added = 1..Len(added)
         /\ \A i \in 1..Len(added) : added[i] \in Lines
         /\ ToSet(added) = {added[i] : i \in 1..Len(added)}
<1>1. added \in Seq(Lines)
  BY DEF StreamInv, StreamTyped
<1> QED
  BY <1>1, LenProperties, ElementOfSeq DEF ToSet

\* What has happened stays, and so does the failure the form was told of.
LEMMA TruthLasts ==
  ASSUME NEW line, Truth(line), happened \subseteq happened',
         trigger = "failed" => trigger' = "failed"
  PROVE  Truth(line)'
<1>1. ASSUME NEW stage, Reached(stage) PROVE Reached(stage)'
  BY <1>1 DEF Reached
<1> QED
  BY <1>1 DEF Truth

\* A line that tells the truth joins the stream.
LEMMA TruthJoins ==
  ASSUME TraceInv, NEW entry \in Lines, StreamInv(Services, Lines)',
         added' = added \/ added' = Append(added, entry),
         happened \subseteq happened', trigger = "failed" => trigger' = "failed",
         Truth(entry)'
  PROVE  LinesTell' /\ ToSet(added) \subseteq ToSet(added')
<1>0. /\ added \in Seq(Lines) /\ Len(added) \in Nat
      /\ ToSet(added) = {added[i] : i \in 1..Len(added)}
      /\ ToSet(added') = {added'[i] : i \in 1..Len(added')} /\ LinesTell
  <2>1. added' \in Seq(Lines)
    BY DEF StreamInv, StreamTyped
  <2>2. DOMAIN added' = 1..Len(added')
    BY <2>1, LenProperties
  <2> QED
    BY <2>2, LineTyped DEF TraceInv, ToSet
<1>1. \A i \in 1..Len(added) : Truth(added[i])'
  <2> SUFFICES ASSUME NEW i \in 1..Len(added) PROVE Truth(added[i])'
    OBVIOUS
  <2>1. PICK line : line = added[i]
    OBVIOUS
  <2>2. added'[i] = line
    BY <1>0, <2>1, AppendProperties
  <2> QED
    BY <1>0, <2>1, <2>2, TruthLasts DEF LinesTell
<1>2. CASE added' = added
  BY <1>0, <1>1, <1>2 DEF LinesTell
<1>3. CASE added' = Append(added, entry)
  <2>1. /\ Len(added') = Len(added) + 1 /\ added'[Len(added) + 1] = entry
        /\ \A i \in 1..Len(added) : added'[i] = added[i] /\ i \in 1..Len(added')
    BY <1>0, <1>3, AppendProperties
  <2>2. \A i \in 1..Len(added') : i = Len(added) + 1 \/ i \in 1..Len(added)
    BY <1>0, <2>1
  <2>3. PICK k : k = Len(added) + 1
    OBVIOUS
  <2>4. Truth(added[k])'
    BY <2>1, <2>3
  <2>5. LinesTell'
    BY <1>1, <2>2, <2>3, <2>4 DEF LinesTell
  <2> QED
    BY <1>0, <2>1, <2>5
<1> QED
  BY <1>2, <1>3, Zenon

\* Stream and tail do not depend on what the chain does besides logging.
LEMMA LogVarsKeep ==
  ASSUME StreamInv(Services, Lines), TailInv, WithinBounds(Services, MaxLogs, MaxLost),
         UNCHANGED logVars
  PROVE  StreamInv(Services, Lines)' /\ TailInv' /\ WithinBounds(Services, MaxLogs, MaxLost)'
<1>1. /\ UNCHANGED <<sinkVars, streamVars>> /\ UNCHANGED tailVars
      /\ UNCHANGED <<sink, buffer, logged, lost, added, trimmed>> /\ UNCHANGED <<redials, shown>>
  BY DEF logVars, sinkVars, streamVars, tailVars
<1>2. StreamInv(Services, Lines)'
  BY <1>1, TailLeavesStream
<1>3. TailInv'
  BY <1>1 DEF TailInv, TailTyped, ReadsOn, ShownIsRead, NoHole, NewestFirst, tailVars
<1>4. WithinBounds(Services, MaxLogs, MaxLost)'
  BY <1>1 DEF WithinBounds
<1> QED
  BY <1>2, <1>3, <1>4

\* A stage's effect, what the browser does and a poll leave the stream alone.
LEMMA QuietStepsKeepTrace ==
  ASSUME TraceInv, UNCHANGED logVars, TraceTypeOK', happened \subseteq happened',
         trigger = "failed" => trigger' = "failed"
  PROVE  TraceInv'
<1>1. added' = added
  BY DEF logVars, streamVars
<1>2. LinesTell'
  <2> SUFFICES ASSUME NEW i \in 1..Len(added) PROVE Truth(added[i])'
    BY <1>1 DEF LinesTell
  <2>1. PICK line : line = added[i]
    OBVIOUS
  <2>2. Truth(line)'
    BY <2>1, TruthLasts DEF TraceInv, LinesTell
  <2> QED
    BY <1>1, <2>1, <2>2
<1> QED
  BY <1>2, LogVarsKeep DEF TraceInv

\* What the gateway's query returns are lines of the post in the stream.
LEMMA FetchReturnsLines ==
  ASSUME StreamInv(Services, Lines)
  PROVE  /\ \A e \in Fetch : Ours(e) /\ e \in ToSet(added)
         /\ \A i \in Scanned : added[i].stage \in Stages => added[i] \in Fetch
<1>0. /\ Len(added) \in Nat /\ ScanDepth \in Nat /\ trimmed \in 0..Len(added)
      /\ ToSet(added) = {added[i] : i \in 1..Len(added)}
  BY LineTyped, StreamNumbers DEF StreamInv, StreamTyped
<1>1. Scanned \subseteq 1..Len(added)
  <2>1. trimmed \in Int /\ Len(added) - ScanDepth \in Int
    BY <1>0
  <2>2. Max({trimmed, Len(added) - ScanDepth}) \in Int /\ Max({trimmed, Len(added) - ScanDepth}) >= 0
    BY <1>0, <2>1, MaxOfTwo
  <2> QED
    BY <1>0, <2>2 DEF Scanned
<1>2. \A e \in Fetch : Ours(e) /\ e \in ToSet(added)
  BY <1>0, <1>1 DEF Fetch, Matching
<1>3. ASSUME NEW i \in Scanned, added[i].stage \in Stages
      PROVE  added[i] \in Fetch
  <2> DEFINE ours == {e \in ToSet(added) : Ours(e)}
             ids == {j \in Scanned : added[j] \in ours}
             newer == {j \in ids : j > i}
  <2>1. i \in ids /\ i \in 1..Len(added)
    BY <1>0, <1>1, <1>3, StagesOfChain DEF Ours
  <2>2. newer \subseteq (1..Len(added)) \ {i}
    <3> SUFFICES ASSUME NEW j \in newer PROVE j \in 1..Len(added) /\ j # i
      OBVIOUS
    <3>1. j \in Scanned /\ j > i
      OBVIOUS
    <3>2. j \in 1..Len(added)
      BY <1>1, <3>1
    <3> QED
      BY <2>1, <3>1, <3>2
  <2>3. IsFiniteSet(1..Len(added)) /\ Cardinality(1..Len(added)) = Len(added)
    <3>1. 1 \in Int /\ Len(added) \in Int /\ ~(1 > Len(added)) /\ Len(added) - 1 + 1 = Len(added)
      BY <1>0, <2>1
    <3> QED
      BY <3>1, FS_Interval
  <2>4. Cardinality((1..Len(added)) \ {i}) = Len(added) - 1 /\ IsFiniteSet((1..Len(added)) \ {i})
    <3> HIDE DEF newer, ids, ours
    <3> QED
      BY <2>1, <2>3, FS_RemoveElement
  <2>5. Cardinality(newer) <= Len(added) - 1 /\ Cardinality(newer) \in Nat
    BY <2>2, <2>4, FS_Subset, FS_CardinalityType
  <2>6. Cardinality(newer) < Len(added)
    BY <1>0, <2>5
  <2>7. i \in Matching(ours, Len(added))
    BY <2>1, <2>6 DEF Matching
  <2> QED
    BY <2>7 DEF Fetch
<1> QED
  BY <1>2, <1>3

\* Every step of the chain.
LEMMA TraceSteps == ASSUME TraceInv, TraceNext PROVE TraceInv'
<1>0. TraceTypeOK /\ StreamInv(Services, Lines)
      /\ TailInv /\ WithinBounds(Services, MaxLogs, MaxLost)
  BY DEF TraceInv
<1>1. ASSUME NEW stage \in Stages, Happen(stage) PROVE TraceInv'
  <2>1. UNCHANGED logVars /\ added' = added /\ UNCHANGED pageVars
        /\ happened' = happened \cup {stage} /\ unlogged' = unlogged \cup {stage}
    BY <1>1 DEF Happen, logVars, streamVars
  <2>2. TraceTypeOK'
    BY <1>0, <2>1 DEF TraceTypeOK, pageVars
  <2> QED
    BY <2>1, <2>2, QuietStepsKeepTrace DEF pageVars
<1>2. ASSUME NEW stage \in Stages, Mark(stage) PROVE TraceInv'
  <2>1. PICK entry : entry = Line(ServiceOf(stage), stage, "log")
    OBVIOUS
  <2>2. ServiceOf(stage) \in Services /\ logged[ServiceOf(stage)] \in Nat
    BY <1>0, ServicesAssumption DEF StreamInv, StreamTyped
  <2>3. /\ entry \in Lines /\ entry.service = ServiceOf(stage)
        /\ entry.n = logged[ServiceOf(stage)] + 1 /\ entry.stage = stage
    BY <2>1, <2>2 DEF Line, Lines
  <2>4. /\ StreamInv(Services, Lines)' /\ TailInv' /\ WithinBounds(Services, MaxLogs, MaxLost)'
        /\ added' = added \/ added' = Append(added, entry)
    BY <1>0, <1>2, <2>1, <2>2, <2>3, LineKeeps DEF Mark
  <2>5. entry.level = "log" /\ stage \in happened /\ UNCHANGED <<happened, pageVars>>
    BY <1>0, <1>2, <2>1 DEF Mark, TraceTypeOK, Line
  <2>6. Truth(entry)'
    BY <2>3, <2>5 DEF Truth
  <2>7. LinesTell' /\ ToSet(added) \subseteq ToSet(added')
    BY <2>3, <2>4, <2>5, <2>6, TruthJoins DEF pageVars
  <2>8. TraceTypeOK'
    BY <1>0, <1>2, <2>5, <2>7 DEF Mark, TraceTypeOK, pageVars
  <2> QED
    BY <2>4, <2>7, <2>8 DEF TraceInv
<1>3. ASSUME NEW stage \in Stages, FailDelivery(stage) PROVE TraceInv'
  <2>1. PICK entry : entry = Line(ServiceOf(stage), ListedAs(stage), "error")
    OBVIOUS
  <2>2. ServiceOf(stage) \in Services /\ logged[ServiceOf(stage)] \in Nat
    BY <1>0, ServicesAssumption DEF StreamInv, StreamTyped
  <2>3. /\ entry \in Lines /\ entry.service = ServiceOf(stage)
        /\ entry.n = logged[ServiceOf(stage)] + 1
        /\ entry.stage = ListedAs(stage) /\ entry.level = "error"
    BY <2>1, <2>2 DEF Line, Lines, ListedAs
  <2>4. /\ StreamInv(Services, Lines)' /\ TailInv' /\ WithinBounds(Services, MaxLogs, MaxLost)'
        /\ added' = added \/ added' = Append(added, entry)
    BY <1>0, <1>3, <2>1, <2>2, <2>3, LineKeeps DEF FailDelivery
  <2>5. Before(stage) \subseteq happened /\ stage # "gateway" /\ UNCHANGED chainVars
    BY <1>3 DEF FailDelivery, Consumed
  <2>6. Truth(entry)'
    BY <2>3, <2>5, StagesOfChain DEF Truth, Reached, ListedAs, chainVars
  <2>7. LinesTell' /\ ToSet(added) \subseteq ToSet(added')
    BY <2>3, <2>4, <2>5, <2>6, TruthJoins DEF chainVars, pageVars
  <2>8. TraceTypeOK'
    BY <1>0, <2>5, <2>7 DEF TraceTypeOK, chainVars, pageVars
  <2> QED
    BY <2>4, <2>7, <2>8 DEF TraceInv
<1>4. CASE Unreachable \/ Noise
  <2>1. PICK entry : /\ \/ Unreachable /\ entry = Line("api-gateway", "gateway", "error")
                        \/ Noise /\ entry = Line("api-gateway", "other", "log")
                     /\ Log("api-gateway", entry)
    BY <1>4 DEF Unreachable, Noise
  <2>2. "api-gateway" \in Services /\ logged["api-gateway"] \in Nat
    BY <1>0, LineNumbers DEF StreamInv, StreamTyped
  <2>3. /\ entry \in Lines /\ entry.service = "api-gateway" /\ entry.n = logged["api-gateway"] + 1
    BY <2>1, <2>2, StagesOfChain DEF Line, Lines
  <2>4. /\ StreamInv(Services, Lines)' /\ TailInv' /\ WithinBounds(Services, MaxLogs, MaxLost)'
        /\ added' = added \/ added' = Append(added, entry)
    BY <1>0, <2>1, <2>2, <2>3, LineKeeps
  <2>5. UNCHANGED <<happened, unlogged, known, data>> /\ trigger' \in {trigger, "failed"}
    BY <1>4 DEF Unreachable, Noise, chainVars, pageVars
  <2>6. Truth(entry)'
    <3>1. CASE Unreachable /\ entry = Line("api-gateway", "gateway", "error")
      <4>1. trigger' = "failed" /\ entry.stage = "gateway" /\ entry.level = "error"
        BY <3>1 DEF Unreachable, Line
      <4> QED
        BY <4>1 DEF Truth, Reached
    <3>2. CASE entry = Line("api-gateway", "other", "log")
      BY <3>2, StagesOfChain DEF Truth, Line
    <3> QED
      BY <2>1, <3>1, <3>2
  <2>7. LinesTell' /\ ToSet(added) \subseteq ToSet(added')
    BY <2>3, <2>4, <2>5, <2>6, TruthJoins
  <2>8. TraceTypeOK'
    BY <1>0, <2>5, <2>7 DEF TraceTypeOK
  <2> QED
    BY <2>4, <2>7, <2>8 DEF TraceInv
<1>5. CASE FirePost \/ Fired \/ Paste
  <2>1. UNCHANGED logVars /\ added' = added /\ UNCHANGED <<happened, unlogged, data>>
    BY <1>5 DEF FirePost, Fired, Paste, logVars, streamVars
  <2>2. TraceTypeOK' /\ (trigger = "failed" => trigger' = "failed")
    BY <1>0, <1>5, <2>1 DEF TraceTypeOK, FirePost, Fired, Paste
  <2> QED
    BY <2>1, <2>2, QuietStepsKeepTrace
<1>6. CASE Poll
  <2>1. UNCHANGED logVars /\ added' = added /\ UNCHANGED <<happened, unlogged, trigger, known>>
        /\ data' = Fetch
    BY <1>6 DEF Poll, logVars, streamVars
  <2>2. TraceTypeOK'
    BY <1>0, <2>1, FetchReturnsLines DEF TraceTypeOK
  <2> QED
    BY <2>1, <2>2, QuietStepsKeepTrace
<1> QED
  BY <1>1, <1>2, <1>3, <1>4, <1>5, <1>6 DEF TraceNext

\* Numbers up to a bound have a greatest: it is their Max.
LEMMA MaxOfBounded ==
  ASSUME NEW b \in Nat, NEW T, T \subseteq 0..b, T # {}
  PROVE  Max(T) \in T /\ \A x \in T : x <= Max(T)
<1> DEFINE gaps == {b - x : x \in T}
<1>1. gaps \subseteq Nat /\ gaps # {}
  <2>1. \A x \in T : b - x \in Nat
    OBVIOUS
  <2> QED
    BY <2>1
<1>2. PICK x \in T : b - x = Min(gaps)
  BY <1>1, MinIs
<1>3. \A y \in T : b - x <= b - y
  BY <1>1, <1>2, MinIs
<1>4. \A y \in T : y <= x
  BY <1>3
<1>5. T \subseteq Int
  OBVIOUS
<1> QED
  BY <1>2, <1>4, <1>5, MaxIs

\* The stages reached began at places of the stream.
LEMMA StagesStart ==
  ASSUME NEW entries, Len(added) \in Nat,
         \A e \in entries : \E i \in 1..Len(added) : e = added[i]
  PROVE  /\ DOMAIN StartedAt(entries) \subseteq 1..8
         /\ StartedAt(entries) \in [DOMAIN StartedAt(entries) -> 0..Len(added)]
<1> DEFINE at(stage) == {i \in 1..Len(added) : added[i].stage = stage /\ added[i] \in entries}
           reached == {k \in 1..Len(Chain) : Chain[k] \in Listed(entries)}
<1>1. StartedAt(entries) = [k \in reached |-> Min(at(Chain[k]))]
  BY DEF StartedAt
<1>2. \A k \in reached : Min(at(Chain[k])) \in 0..Len(added)
  <2> SUFFICES ASSUME NEW k \in reached PROVE Min(at(Chain[k])) \in 0..Len(added)
    OBVIOUS
  <2>1. PICK e \in entries : e.stage = Chain[k]
    BY DEF Listed
  <2>2. at(Chain[k]) \subseteq Nat /\ at(Chain[k]) # {} /\ at(Chain[k]) \subseteq 0..Len(added)
    BY <2>1
  <2> QED
    BY <2>2, MinIs
<1>3. reached \subseteq 1..8
  BY StagesOfChain
<1> HIDE DEF reached, at
<1> QED
  BY <1>1, <1>2, <1>3

\* However the stages of a trace began, none of them took longer than the whole.
LEMMA LatencyWithinTotal ==
  ASSUME NEW b \in Nat, NEW D, D \subseteq 1..8, NEW f \in [D -> 0..b],
         NEW latency \in Range(Latencies(f))
  PROVE  latency <= TotalDuration(f)
<1> DEFINE earlier(k) == {j \in DOMAIN f : j < k}
<1>1. PICK k \in D : /\ earlier(k) # {}
                     /\ latency = Max({0, f[k] - f[Max(earlier(k))]})
  BY DEF Range, Latencies
<1>2. PICK e : e = Max(earlier(k))
  OBVIOUS
<1>3. e \in D
  <2>1. 8 \in Nat /\ earlier(k) \subseteq 0..8
    <3>1. \A j \in D : j \in 0..8
      OBVIOUS
    <3> QED
      BY <3>1
  <2>2. Max(earlier(k)) \in earlier(k)
    BY <1>1, <2>1, MaxOfBounded
  <2> QED
    BY <1>2, <2>2
<1>4. latency = Max({0, f[k] - f[e]})
  BY <1>1, <1>2
<1>5. f[k] \in 0..b /\ f[e] \in 0..b
  BY <1>3
<1>6. latency = IF 0 >= f[k] - f[e] THEN 0 ELSE f[k] - f[e]
  BY <1>4, <1>5, MaxOfTwo
<1>7. f[k] \in Range(f) /\ f[e] \in Range(f) /\ Range(f) \subseteq 0..b
  BY <1>3 DEF Range
<1>8. /\ Max(Range(f)) \in Range(f) /\ Min(Range(f)) \in Range(f)
      /\ f[k] <= Max(Range(f)) /\ Min(Range(f)) <= f[e] /\ Min(Range(f)) <= f[k]
  <2>1. Range(f) \subseteq Nat /\ Range(f) # {}
    BY <1>7
  <2> QED
    BY <1>7, <2>1, MaxOfBounded, MinIs
<1>9. f # <<>>
  <2>1. DOMAIN f = D /\ DOMAIN <<>> = {}
    OBVIOUS
  <2> QED
    BY <2>1, <1>3
<1>10. TotalDuration(f) = Max(Range(f)) - Min(Range(f))
  BY <1>9 DEF TotalDuration
<1>11. Max(Range(f)) \in 0..b /\ Min(Range(f)) \in 0..b
  BY <1>7, <1>8
<1> QED
  BY <1>5, <1>6, <1>8, <1>10, <1>11

\* A poll shows what took place.
LEMMA PollShowsChain == ASSUME TraceInv, Poll PROVE PollStep
<1>0. /\ data' = Fetch /\ Len(added) \in Nat /\ LinesTell /\ StreamInv(Services, Lines)
  BY LineTyped DEF Poll, TraceInv
<1>1. PICK lines : lines = data'
  OBVIOUS
<1>2. \A e \in lines : /\ e \in Lines /\ \E i \in 1..Len(added) : e = added[i]
                       /\ Truth(e)
  BY <1>0, <1>1, FetchReturnsLines, LineTyped DEF LinesTell
<1>3. \A stage \in Stages : stage \notin Listed(lines) => ~InWindow(stage)
  BY <1>0, <1>1, FetchReturnsLines DEF Listed, InWindow
<1>4. Failed(lines) \subseteq Stages /\ \A stage \in Failed(lines) : Reached(stage)
  <2>1. Failed(lines) \subseteq Stages
    BY DEF Failed, Listed
  <2>2. ASSUME NEW stage \in Failed(lines) PROVE Reached(stage)
    <3>1. PICK e \in lines : e.stage = stage /\ e.level = "error" /\ stage \in Stages
      BY DEF Failed, Listed
    <3> QED
      BY <1>2, <3>1 DEF Truth
  <2> QED
    BY <2>1, <2>2
<1>5. Done(lines) \subseteq happened
  <2> SUFFICES ASSUME NEW stage \in Done(lines) PROVE stage \in happened
    OBVIOUS
  <2>1. PICK e \in lines : e.stage = stage /\ e.level # "error" /\ stage \in Stages
    BY DEF Done, Failed, Listed
  <2>2. e.level = "log"
    BY <1>2, <2>1 DEF Lines
  <2> QED
    BY <1>2, <2>1, <2>2 DEF Truth
<1>6. IsTraceSettled(lines) /\ Failed(lines) = {} => happened = Stages
  BY <1>5 DEF IsTraceSettled, TraceInv, TraceTypeOK
<1>7. \A latency \in Range(Latencies(StartedAt(lines))) :
        latency <= TotalDuration(StartedAt(lines))
  <2>1. PICK f : f = StartedAt(lines)
    OBVIOUS
  <2>2. DOMAIN f \subseteq 1..8 /\ f \in [DOMAIN f -> 0..Len(added)]
    BY <1>0, <1>2, <2>1, StagesStart
  <2>3. PICK b \in Nat : b = Len(added)
    BY <1>0
  <2>4. \A latency \in Range(Latencies(f)) : latency <= TotalDuration(f)
    BY <2>2, <2>3, LatencyWithinTotal
  <2> QED
    BY <2>1, <2>4
<1>8. PICK shot : shot = TraceScreen(lines)
  OBVIOUS
<1>9. /\ shot.settled = IsTraceSettled(lines)
      /\ shot.done = Done(lines) /\ shot.failed = Failed(lines)
      /\ shot.duration = TotalDuration(StartedAt(lines))
      /\ shot.latencies = Range(Latencies(StartedAt(lines)))
  BY <1>8 DEF TraceScreen
<1>10. /\ shot.done \subseteq happened
       /\ \A stage \in shot.failed : Reached(stage)
       /\ shot.settled /\ shot.failed = {} => happened = Stages
       /\ \A latency \in shot.latencies : latency <= shot.duration
  BY <1>4, <1>5, <1>6, <1>7, <1>9
<1>11. \A stage \in Listed(data) \ Listed(data') : ~InWindow(stage)
  BY <1>1, <1>3 DEF Listed
<1> QED
  BY <1>1, <1>8, <1>10, <1>11 DEF PollStep

-----------------------------------------------------------------------------
(* The dashboard: a behaviour follows one part, the others rest.           *)

DashboardInv ==
    /\ part \in {"session", "limit", "logs", "trace", "status"}
    /\ SessionInv /\ LimitInv /\ StatusInv
    /\ IF part = "logs" THEN LogsPageInv ELSE TraceInv

\* The dashboard begins where its parts do.
LEMMA DashboardBegins == Init => DashboardInv
<1>1. Init => SessionInv /\ LimitInv /\ StatusInv
  BY SessionBegins, LimitBegins, StatusBegins DEF Init
<1>2. Init => IF part = "logs" THEN LogsPageInv ELSE TraceInv
  BY PageBegins, TraceBegins DEF Init
<1> QED
  BY <1>1, <1>2 DEF Init, DashboardInv

\* The variables of the Logs page are the ones of Trace.
LEMMA SameVariables == LogsPage!logVars = logVars
BY DEF LogsPage!logVars, logVars, LogsPage!sinkVars, sinkVars, LogsPage!streamVars, streamVars,
       LogsPage!tailVars, tailVars

\* A part that rests is what it was.
LEMMA LogsRest == ASSUME LogsPageInv, UNCHANGED logVars PROVE LogsPageInv'
<1>1. /\ UNCHANGED <<sinkVars, streamVars>> /\ UNCHANGED tailVars
      /\ UNCHANGED <<sink, buffer, logged, lost, added, trimmed>> /\ UNCHANGED <<redials, shown>>
  BY DEF logVars, sinkVars, streamVars, tailVars
<1>2. StreamInv(TailServices, PageEntries)'
  BY <1>1, TailLeavesStream DEF LogsPageInv
<1>3. TailInv'
  BY <1>1 DEF LogsPageInv, TailInv, TailTyped, ReadsOn, ShownIsRead, NoHole, NewestFirst, tailVars
<1>4. WithinBounds(TailServices, TailLogs, TailLost)'
  BY <1>1 DEF LogsPageInv, WithinBounds
<1> QED
  BY <1>2, <1>3, <1>4 DEF LogsPageInv

\* So is Trace.
LEMMA TraceRests == ASSUME TraceInv, UNCHANGED traceVars PROVE TraceInv'
<1>1. UNCHANGED logVars /\ UNCHANGED <<happened, unlogged, trigger, known, data>> /\ added' = added
  BY DEF traceVars, chainVars, pageVars, logVars, streamVars
<1>2. TraceTypeOK'
  BY <1>1 DEF TraceInv, TraceTypeOK
<1> QED
  BY <1>1, <1>2, QuietStepsKeepTrace

\* Every step of the dashboard is one of a part, the rest unchanged.
LEMMA OnePartMoves ==
  ASSUME [Next]_vars
  PROVE  /\ part' = part /\ [SessionNext]_sessionVars /\ [LimitNext]_limitVars
         /\ [StatusNext]_statusVars
         /\ part = "logs" => LogsPage!LogNext \/ UNCHANGED logVars
         /\ part # "logs" => [TraceNext]_traceVars
         /\ part = "logs" => UNCHANGED chainVars
<1>1. CASE UNCHANGED vars
  BY <1>1 DEF vars, traceVars
<1>2. CASE Next
  BY <1>2 DEF Next, SessionStep, LimitStep, LogsStep, TraceStep, StatusStep, traceVars
<1> QED
  BY <1>1, <1>2

\* No step of any part breaks what holds of all.
LEMMA DashboardSteps == DashboardInv /\ [Next]_vars => DashboardInv'
<1> SUFFICES ASSUME DashboardInv, [Next]_vars PROVE DashboardInv'
  OBVIOUS
<1>1. SessionInv' /\ LimitInv' /\ StatusInv'
  BY OnePartMoves, SessionSteps, LimitSteps, StatusSteps DEF DashboardInv
<1>2. CASE part = "logs"
  <2>1. LogsPageInv'
    BY <1>2, OnePartMoves, PageSteps, LogsRest DEF DashboardInv
  <2> QED
    BY <1>1, <1>2, <2>1, OnePartMoves DEF DashboardInv
<1>3. CASE part # "logs"
  <2>1. TraceInv'
    BY <1>3, OnePartMoves, TraceSteps, TraceRests DEF DashboardInv
  <2> QED
    BY <1>1, <1>3, <2>1, OnePartMoves DEF DashboardInv
<1> QED
  BY <1>2, <1>3

\* The invariants of all parts hold together.
THEOREM DashboardCorrect == Spec => []DashboardInv
BY DashboardBegins, DashboardSteps, PTL DEF Spec

\* The composition adds nothing to its parts: a behaviour of the dashboard is,
\* for the tab and its sessions, one of GatewaySession ...
LEMMA FollowsSession == Spec => SessionSpec
<1>1. Init => SessionInit
  BY DEF Init
<1>2. [Next]_vars => [SessionNext]_sessionVars
  BY OnePartMoves
<1> QED
  BY <1>1, <1>2, PTL DEF Spec, SessionSpec

\* ... for the rate limit one of RateLimit ...
LEMMA FollowsLimit == Spec => LimitSpec
<1>1. Init => LimitInit
  BY DEF Init
<1>2. [Next]_vars => [LimitNext]_limitVars
  BY OnePartMoves
<1> QED
  BY <1>1, <1>2, PTL DEF Spec, LimitSpec

\* ... and for the Status page one of StatusPage.
LEMMA FollowsStatus == Spec => StatusSpec
<1>1. Init => StatusInit
  BY DEF Init
<1>2. [Next]_vars => [StatusNext]_statusVars
  BY OnePartMoves
<1> QED
  BY <1>1, <1>2, PTL DEF Spec, StatusSpec

\* The bounds of the log stream, for its loggers and its tail.
LEMMA PageIsTyped == LogsPageInv => LogsPage!LogTypeOK
<1> SUFFICES ASSUME LogsPageInv PROVE LogsPage!LogTypeOK
  OBVIOUS
<1> QED
  BY DEF LogsPageInv, StreamInv, StreamTyped, TailInv, TailTyped, WithinBounds,
         LogsPage!LogTypeOK, LogsPage!NotParked, NotParked

\* The same for the services of Trace.
LEMMA TraceIsTyped == TraceInv => LogTypeOK /\ TraceTypeOK
BY DEF TraceInv, StreamInv, StreamTyped, TailInv, TailTyped, WithinBounds, LogTypeOK

\* Every reachable state of the dashboard and the gateway behind it is well
\* typed and within its bounds.
THEOREM TypeCorrect == Spec => []TypeOK
<1>1. DashboardInv => TypeOK
  BY PageIsTyped, TraceIsTyped
     DEF DashboardInv, TypeOK, SessionInv, LimitInv, StatusInv
<1> QED
  BY <1>1, DashboardCorrect, PTL

\* dev-logs.service.ts:65-77, for any services, stream and list length, redials
\* and lost writes: the live list is the stream as the services wrote it.
THEOREM TailCorrect == Spec => []TailIsFaithful
<1>1. ASSUME DashboardInv PROVE TailIsFaithful
  <2>1. TailInv /\ ServiceOrderKept /\ Len(added) \in Nat
    <3>1. CASE part = "logs"
      BY <1>1, <3>1, LenProperties DEF DashboardInv, LogsPageInv, StreamInv, StreamTyped
    <3>2. CASE part # "logs"
      BY <1>1, <3>2, LenProperties DEF DashboardInv, TraceInv, StreamInv, StreamTyped
    <3> QED
      BY <3>1, <3>2
  <2> QED
    BY <2>1, TailShowsStream
<1> QED
  BY <1>1, DashboardCorrect, PTL

\* derive-trace.ts:114-120, for any services, scan depth, markers outstanding,
\* failed deliveries and other lines: what a poll of the Trace page shows, failures
\* included, is what took place.
THEOREM PageCorrect == Spec => PageFollowsChain
<1>1. ASSUME DashboardInv, [Next]_vars PROVE [PollStep]_traceVars
  <2>1. CASE data' = data
    BY <2>1 DEF PollStep
  <2>2. CASE data' # data
    <3>1. part # "logs" /\ TraceNext
      BY <2>2, <1>1, OnePartMoves DEF traceVars, chainVars, pageVars
    <3>2. Poll
      BY <2>2, <3>1 DEF TraceNext, Happen, Mark, FailDelivery, FirePost, Fired, Unreachable, Noise, Paste,
                        pageVars, chainVars
    <3> QED
      BY <1>1, <3>1, <3>2, PollShowsChain DEF DashboardInv
  <2> QED
    BY <2>1, <2>2
<1> QED
  BY <1>1, DashboardCorrect, PTL DEF Spec, PageFollowsChain

\* use-auth.ts:17-21, query.tsx:17-22, rate-limit.guard.ts:6-25 and
\* dev-stats.service.ts:16-39 in the composed dashboard: what was proved of the
\* session, the rate limit and the Status page alone holds of them there.
THEOREM PartsCorrect ==
  Spec => [](CacheBelongsToMe /\ LimitKept /\ StatsCountOnce) /\ EvictionHasCause
BY FollowsSession, FollowsLimit, FollowsStatus, CacheCorrect, LimitCorrect, StatsCorrect,
   EvictionCorrect, PTL
=============================================================================
