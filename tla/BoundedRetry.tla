---------------------------- MODULE BoundedRetry ----------------------------
(***************************************************************************)
(* What a work queue promises the service that publishes to it             *)
(* (queue-topology.ts: "bounded retry before the DLQ"): every task stays   *)
(* pending until its handler succeeds, or until it has failed              *)
(* MaxDeliveries times and is set aside for a human, who may submit it     *)
(* again, as a new task or as the one that has failed.  Connections,       *)
(* crashes and redeliveries do not show here.                              *)
(***************************************************************************)
EXTENDS Integers

CONSTANTS Tasks, MaxDeliveries

VARIABLES
    state,   \* "absent", "pending", "done" or "dead"
    failures \* failed attempts since the task was submitted

retryVars == <<state, failures>>

Move(t, s) == state' = [state EXCEPT ![t] = s]

Init ==
    /\ state = [t \in Tasks |-> "absent"]
    /\ failures = [t \in Tasks |-> 0]

Submit(t) == state[t] = "absent" /\ Move(t, "pending") /\ UNCHANGED failures

Succeed(t) ==
    /\ state[t] = "pending" /\ failures[t] < MaxDeliveries
    /\ Move(t, "done")
    /\ UNCHANGED failures

Fail(t) ==
    /\ state[t] = "pending" /\ failures[t] < MaxDeliveries
    /\ failures' = [failures EXCEPT ![t] = @ + 1]
    /\ UNCHANGED state

GiveUp(t) ==
    /\ state[t] = "pending" /\ failures[t] = MaxDeliveries
    /\ Move(t, "dead")
    /\ UNCHANGED failures

Resubmit(t) ==
    /\ state[t] = "dead"
    /\ Move(t, "pending")
    /\ UNCHANGED failures \/ failures' = [failures EXCEPT ![t] = 0]

Next == \E t \in Tasks : Submit(t) \/ Succeed(t) \/ Fail(t) \/ GiveUp(t) \/ Resubmit(t)

Spec == Init /\ [][Next]_retryVars
=============================================================================
