--------------------------- MODULE KafkaConsumer ---------------------------
(***************************************************************************)
(* A consumer group of one process on one partition of                     *)
(* moderation-completed-events, as KafkaConsumer                           *)
(* (libs/shared-messaging/src/lib/kafka-consumer.service.ts) runs it on    *)
(* kafkajs: the handler is awaited for each record, offsets are committed  *)
(* behind it, and a handler that throws makes kafkajs try the record again *)
(* and, in the end, crash the consumer.  The trends aggregator and the     *)
(* push of the notification service are two such groups; they share only   *)
(* the topic, so group says whose run a behaviour is.                      *)
(***************************************************************************)
EXTENDS Integers, Sequences

CONSTANTS
    Events,   \* ids of the events the relay publishes (messageId)
    Kind,     \* Kind[i]: "sound", "anonymous" (no authorId), "garbled" (not
              \* JSON), "future" (a version not supported) or "invalid"
    MaxLog,   \* bound: records appended to the topic
    MaxFaults \* bound: failed statements, crashes, lost connections

ASSUME KindAssumption ==
    Kind \in [Events -> {"sound", "anonymous", "garbled", "future", "invalid"}]
ASSUME TopicAssumption == MaxLog \in Nat /\ MaxFaults \in Nat

VARIABLES
    group,     \* "trends" or "push"
    log,       \* the partition: the events in the order they were appended
    state,     \* "down", "joining", "running", "crashed" or "stopped"
    pos,       \* records behind the consumer's position
    committed, \* the committed offset, NoOffset: none for this group id
    jumped,    \* offsets a join of "trends" with no committed offset went past
    faults     \* faults so far

NoOffset == -1

topicVars == <<group, log>>
consumerVars == <<state, pos, committed, jumped>>
kafkaVars == <<topicVars, consumerVars, faults>>

Fault == faults < MaxFaults /\ faults' = faults + 1

Min2(a, b) == IF a < b THEN a ELSE b

InitConsumer ==
    /\ group \in {"trends", "push"}
    /\ log = <<>>
    /\ state = "down" /\ pos = 0 /\ committed = NoOffset /\ jumped = {}
    /\ faults = 0

\* The outbox relay appends an event, possibly one it sent before.
Publish(i) ==
    /\ Len(log) < MaxLog
    /\ log' = Append(log, i)
    /\ UNCHANGED <<group, consumerVars, faults>>

\* onModuleInit() calls consume(): connect and subscribe.  The group id of the
\* push is made anew in every process, so no offset is committed for it.
Consume ==
    /\ state = "down"
    /\ state' = "joining"
    /\ committed' = IF group = "push" THEN NoOffset ELSE committed
    /\ UNCHANGED <<topicVars, pos, jumped, faults>>

\* The group is joined: at the committed offset or, fromBeginning being false,
\* at the end of the log.
Join ==
    /\ state = "joining"
    /\ state' = "running"
    /\ IF committed = NoOffset
       THEN /\ pos' = Len(log)
            /\ jumped' = IF group = "trends" THEN jumped \cup (pos + 1)..Len(log) ELSE {}
       ELSE pos' = committed /\ UNCHANGED jumped
    /\ UNCHANGED <<topicVars, committed, faults>>

Ready == state = "running" /\ pos < Len(log)

Current == log[pos + 1]

\* Not JSON, or an eventVersion this build does not support: a retry cannot help.
Unreadable(i) == Kind[i] \in {"garbled", "future"}

\* eachMessage returns: kafkajs resolves the offset.
Pass == Ready /\ pos' = pos + 1 /\ UNCHANGED <<topicVars, state, committed, jumped>>

\* eachMessage throws: kafkajs tries the record again, or gives up and crashes.
Throw ==
    /\ Ready
    /\ state' \in {"running", "crashed"}
    /\ UNCHANGED <<topicVars, pos, committed, jumped>>

\* kafkajs commits what it has resolved.
Commit ==
    /\ state = "running" /\ committed < pos
    /\ committed' = pos
    /\ UNCHANGED <<topicVars, state, pos, jumped, faults>>

\* After a crash kafkajs joins again, or stops for good (restart=false).
Recover ==
    /\ state = "crashed"
    /\ state' \in {"joining", "stopped"}
    /\ UNCHANGED <<topicVars, pos, committed, jumped, faults>>

\* The process ends, gracefully through onModuleDestroy or not: what was handled
\* since the last commit will be handled again.
Die ==
    /\ state # "down" /\ Fault
    /\ state' = "down"
    /\ UNCHANGED <<topicVars, pos, committed, jumped>>

ConsumerTypeOK ==
    /\ group \in {"trends", "push"}
    /\ log \in Seq(Events) /\ Len(log) <= MaxLog
    /\ state \in {"down", "joining", "running", "crashed", "stopped"}
    /\ pos \in 0..Len(log)
    /\ committed \in {NoOffset} \cup 0..Len(log)
    /\ jumped \subseteq 1..Len(log)
    /\ faults \in 0..MaxFaults
=============================================================================
