---------------------------- MODULE ServiceQueue ----------------------------
(***************************************************************************)
(* A WorkQueue as the services on it are modelled: the broker cancels no   *)
(* consumer, so a live channel consumes.  ModerationWorker has one of      *)
(* these for moderation.job, ContentModeration one for                     *)
(* moderation.completed.                                                   *)
(***************************************************************************)
EXTENDS Integers, FiniteSets

CONSTANTS
    Messages, Processes, Channels, ProcessOf, Lasting, \* see WorkQueue
    MaxDeliveries, Prefetch, MaxCrashes, MaxReplays

VARIABLES place, deaths, dlq, handled, running, opened, live, crashes, replays

queueVars == <<place, deaths, dlq, handled, running, opened, live, crashes, replays>>

Queue == INSTANCE WorkQueue WITH consumed <- live, cancels <- 0, MaxCancels <- 0

ASSUME QueueAssumption ==
    /\ MaxDeliveries \in Nat \ {0} /\ {MaxCrashes, MaxReplays} \subseteq Nat
    /\ Channels \cap Queue!Places = {} /\ ProcessOf \in [Channels -> Processes]
=============================================================================
