----------------------------- MODULE Dashboard -----------------------------
(***************************************************************************)
(* The dashboard and the gateway behind it.  Its parts meet in the session *)
(* alone: whether a request is let through is what GatewaySession and      *)
(* RateLimit say, and the other pages take it as an answer or a failure.   *)
(* A behaviour follows one part, named at the start.                       *)
(***************************************************************************)
EXTENDS GatewaySession, RateLimit, Trace, StatusPage

CONSTANTS
    TailServices, \* the services, the bounds and the cap of the stream in the
    TailLogs,     \* behaviours of the Logs page, where few entries must do to
    TailLength,   \* trim the stream: those of Trace follow one post through
    TailLost      \* all services

ASSUME TailAssumption == {TailLogs, TailLength, TailLost} \subseteq Nat

VARIABLE part \* "session", "limit", "logs", "trace" or "status"

vars == <<part, sessionVars, limitVars, traceVars, statusVars>>

LogsPage == INSTANCE LogStream
    WITH Services <- TailServices, MaxLogs <- TailLogs,
         MaxLength <- TailLength, MaxLost <- TailLost

Init ==
    /\ part \in {"session", "limit", "logs", "trace", "status"}
    /\ SessionInit
    /\ LimitInit /\ StatusInit
    /\ IF part = "logs" THEN LogsPage!LogInit /\ ChainInit ELSE TraceInit

SessionStep ==
    part = "session" /\ SessionNext /\ UNCHANGED <<limitVars, traceVars, statusVars>>
LimitStep ==
    part = "limit" /\ LimitNext /\ UNCHANGED <<sessionVars, traceVars, statusVars>>
LogsStep ==
    /\ part = "logs" /\ LogsPage!LogNext
    /\ UNCHANGED <<sessionVars, limitVars, chainVars, statusVars>>
TraceStep ==
    part = "trace" /\ TraceNext /\ UNCHANGED <<sessionVars, limitVars, statusVars>>
StatusStep ==
    part = "status" /\ StatusNext /\ UNCHANGED <<sessionVars, limitVars, traceVars>>

Next ==
    /\ SessionStep \/ LimitStep \/ LogsStep \/ TraceStep \/ StatusStep
    /\ UNCHANGED part

Spec == Init /\ [][Next]_vars

TypeOK ==
    /\ SessionTypeOK /\ LimitTypeOK /\ StatusTypeOK
    /\ IF part = "logs" THEN LogsPage!LogTypeOK ELSE LogTypeOK /\ TraceTypeOK
=============================================================================
