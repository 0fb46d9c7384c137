----------------------------- MODULE RateLimit -----------------------------
(***************************************************************************)
(* RateLimitGuard (apps/api-gateway/src/app/rate-limit/rate-limit.guard.ts)*)
(* for one client address: a counter in Redis and the expiry that the      *)
(* request taking it to 1 sets in a second call.  Time is a bounded count  *)
(* of ticks; addresses have counters of their own and are independent.     *)
(***************************************************************************)
EXTENDS Integers

CONSTANTS
    Window,      \* ticks in WINDOW_MS
    MaxRequests, \* MAX_REQUESTS
    MaxTime,     \* bound: the last tick
    MaxFailures  \* bound: PEXPIRE calls that fail

ASSUME LimitAssumption ==
    /\ Window \in Nat \ {0} /\ MaxRequests \in Nat \ {0}
    /\ MaxTime \in Nat /\ MaxFailures \in Nat

VARIABLES
    now,      \* the clock
    count,    \* the counter, 0: no such key
    expiry,   \* when the key expires, Never: it has no TTL
    arming,   \* requests between INCR and PEXPIRE
    passed,   \* requests the guard let through up to each tick
    failures  \* PEXPIRE calls that failed

limitVars == <<now, count, expiry, arming, passed, failures>>

Never == -1

LimitInit ==
    /\ now = 0 /\ count = 0 /\ expiry = Never /\ arming = 0 /\ failures = 0
    /\ passed = [t \in 0..MaxTime |-> 0]

\* Faulty variant of Over: one request too many.
OverByOne(n) == n > MaxRequests + 1

Over(n) == n > MaxRequests

Pass == passed' = [t \in 0..MaxTime |-> IF t < now THEN passed[t] ELSE passed[t] + 1]

\* INCR by a request that does not start a window: 429 or through.
Incr ==
    /\ count > 0
    /\ count <= MaxRequests + 1 \* bound: further requests only repeat the 429
    /\ count' = count + 1
    /\ IF Over(count + 1) THEN UNCHANGED passed ELSE Pass
    /\ UNCHANGED <<now, expiry, arming, failures>>

\* INCR answers 1: this request goes on to set the expiry.
IncrFirst ==
    /\ count = 0 /\ count' = 1
    /\ arming' = arming + 1
    /\ UNCHANGED <<now, expiry, passed, failures>>
PExpire ==
    /\ arming > 0 /\ arming' = arming - 1
    /\ expiry' = now + Window
    /\ Pass
    /\ UNCHANGED <<now, count, failures>>
\* A crash or a lost connection in between: no TTL, and a 500 for the request.
PExpireFails ==
    /\ arming > 0 /\ arming' = arming - 1
    /\ failures < MaxFailures /\ failures' = failures + 1
    /\ UNCHANGED <<now, count, expiry, passed>>

Tick ==
    /\ now < MaxTime /\ now' = now + 1
    /\ IF expiry = now'
         THEN count' = 0 /\ expiry' = Never
         ELSE UNCHANGED <<count, expiry>>
    /\ UNCHANGED <<arming, passed, failures>>

LimitNext == Incr \/ IncrFirst \/ PExpire \/ PExpireFails \/ Tick

LimitSpec == LimitInit /\ [][LimitNext]_limitVars

-----------------------------------------------------------------------------
LimitTypeOK ==
    /\ now \in 0..MaxTime /\ count \in 0..(MaxRequests + 2)
    /\ expiry \in {Never} \cup (now + 1)..(now + Window)
    /\ arming \in {0, 1} /\ failures \in 0..MaxFailures
    /\ passed \in [0..MaxTime -> Nat]

\* Requests let through before tick t.
PassedBefore(t) == IF t = 0 THEN 0 ELSE passed[t - 1]

\* rate-limit.guard.ts:6-10: a client can burst up to twice the limit across a
\* window boundary.  It can do no more than that: no stretch of one window's
\* length lets more than 2 * MAX_REQUESTS through, however late PEXPIRE comes.
BurstBounded ==
    \A t \in 0..(MaxTime - Window + 1) :
        passed[t + Window - 1] - PassedBefore(t) <= 2 * MaxRequests

\* rate-limit.guard.ts:23-25: a counter stays without expiry, and its client
\* locked out for good, only when PEXPIRE failed after INCR.
LockedOutOnlyByFailure == count > 0 /\ expiry = Never /\ arming = 0 => failures > 0

\* rate-limit.guard.ts:6-10 and 23-25: what the guard promises of its counter.
LimitKept == BurstBounded /\ LockedOutOnlyByFailure
=============================================================================
