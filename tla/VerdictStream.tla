--------------------------- MODULE VerdictStream ---------------------------
(***************************************************************************)
(* Downstream of the outbox relay: the topic of verdicts, the trends that  *)
(* are counted from it and the pushes that are made of it.  A behaviour    *)
(* follows one of the two consumer groups, which meet in the topic only.   *)
(***************************************************************************)
EXTENDS Trends, ModerationPush

vars == <<kafkaVars, trendVars, pushVars>>

Init == InitConsumer /\ InitTrends /\ InitPush

ConsumerNext ==
    /\ \/ \E i \in Events : Publish(i)
       \/ Consume \/ Join \/ Commit \/ Recover
    /\ UNCHANGED <<trendVars, pushVars>>

TrendsNext ==
    /\ \/ Skip \/ Refuse \/ Count \/ SkipDuplicate \/ CountFails
       \/ NextDay \/ LoadTrends \/ LoadFails
       \/ group = "trends" /\ Die /\ UNCHANGED trendVars
    /\ UNCHANGED pushVars

Next == ConsumerNext \/ TrendsNext \/ (PushNext /\ UNCHANGED trendVars)

Spec == Init /\ [][Next]_vars

\* kafkajs joins, hands over records, and restarts or gives up after a crash.
FairSpec ==
    /\ Spec
    /\ WF_vars((Join \/ Recover) /\ UNCHANGED <<trendVars, pushVars>>)
    /\ WF_vars((Skip \/ Count \/ SkipDuplicate) /\ UNCHANGED pushVars)
----------------------------------------------------------------------------
TypeOK ==
    /\ ConsumerTypeOK
    /\ processed \subseteq Events /\ counts \in [Rows -> Nat] /\ today \in 0..MaxDay
    /\ page.status \in {"pending", "error", "success"}
    /\ \A x \in page.rows : x.row \in Rows /\ x.count > 0
    /\ basis.events \subseteq Events /\ basis.cutoff <= today
    /\ PushTypeOK

\* A countable event behind the consumer's position is counted, whatever failed
\* or was lost, unless a join without a committed offset went past it: that is
\* how events are missed that come before the first commit of the group.
MissedOnlyByLateJoin ==
    group = "trends" =>
        \A o \in 1..pos : Countable(log[o]) => log[o] \in processed \/ o \in jumped

\* What became of the record at o, or why nothing will.
Settled(o) ==
    /\ o <= Len(log)
    /\ \/ log[o] \in processed \/ o \in jumped
       \/ state \in {"down", "stopped"}
       \/ \E b \in 1..(o - 1) : Kind[log[b]] = "invalid"

\* A countable event is counted in the end, unless the service is down or kafkajs
\* has given up, or an event that fails validation blocks the partition before it.
VerdictsAreCounted ==
    \A o \in 1..MaxLog :
        group = "trends" /\ o <= Len(log) /\ Countable(log[o]) ~> Settled(o)

\* The charts agree with each other and with the events counted when the rows
\* were read: a day's bars add up to the tile, none is pending, and the tile
\* counts an event once for each of its categories, not once.
ChartsAgree ==
    View.screen = "charts" =>
        LET counted == {i \in basis.events : Fact[i].day >= basis.cutoff}
            bars == [d \in DOMAIN View.byDay |->
                        View.byDay[d].approved + View.byDay[d].rejected]
        IN  /\ View.totals.total = Sum(LAMBDA i : Len(Buckets(i)), counted)
            /\ View.totals.total = Sum(LAMBDA d : bars[d], DOMAIN bars)
            /\ \A d \in DOMAIN View.byDay : View.byDay[d].pending = 0
            /\ Sum(LAMBDA c : View.categories[c], DOMAIN View.categories)
                = Sum(LAMBDA i : Len(Fact[i].categories), counted)
=============================================================================
