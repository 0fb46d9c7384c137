---------------------- MODULE ContentModerationProofs ----------------------
(***************************************************************************)
(* Proofs about ContentModeration, for every set of posts, messages and    *)
(* channels and every bound.  The inductive invariant is ContentInv: a     *)
(* handler whose transaction has committed has a ProcessedMessage row, and *)
(* a post without a verdict has no row in the outbox.                      *)
(***************************************************************************)
EXTENDS ContentModeration, ServiceQueueProofs

USE PostAssumption, QueueAssumption

\* A handler is past its commit only if its verdict is applied.
CommittedApplied == \A v \in Messages, c \in Channels : <<c, v>> \in committed => v \in processed

\* No verdict, no outbox row.
SilentUntilVerdict ==
    \A i \in 1..Len(stream) : status[stream[i].post] \notin {"none", "pending"}

Database ==
    /\ OneRowPerVerdict
    /\ StatusMatchesStream
    /\ SilentUntilVerdict

ContentInv ==
    /\ TypeOK
    /\ Database
    /\ CommittedApplied
    /\ AckedVerdictsApplied

\* The initial state satisfies the invariant.
LEMMA InitInv == Init => ContentInv
<1> SUFFICES ASSUME Init PROVE ContentInv
  OBVIOUS
<1>1. Queue!TypeOK
  BY DEF Init, Queue!Init, Queue!TypeOK, Queue!Places
<1>2. TypeOK
  BY <1>1 DEF Init, Queue!Init, TypeOK, Verdicts
<1>3. Database
  BY DEF Init, Database, OneRowPerVerdict, StatusMatchesStream, SilentUntilVerdict, Verdicts
<1>4. CommittedApplied /\ AckedVerdictsApplied
  BY DEF Init, Queue!Init, CommittedApplied, AckedVerdictsApplied
<1> QED
  BY <1>2, <1>3, <1>4 DEF ContentInv

-----------------------------------------------------------------------------
(* The steps that write no row.                                            *)

\* A step of the queue that loses no verdict keeps the invariant.
LEMMA ForgetInv ==
    ASSUME ContentInv, Forget, Queue!TypeOK',
           \A w \in Messages : place'[w] = "gone" =>
               \/ w \in processed
               \/ dlq'[w] > 0
               \/ place[w] = "gone" /\ dlq'[w] = dlq[w]
    PROVE  ContentInv'
<1> USE DEF ContentInv, Forget, database, classifier
<1>1. TypeOK'
  BY DEF TypeOK
<1>2. Database'
  BY DEF Database, OneRowPerVerdict, StatusMatchesStream, LastRowOf, SilentUntilVerdict
<1>3. CommittedApplied'
  BY DEF CommittedApplied
<1>4. AckedVerdictsApplied'
  BY DEF AckedVerdictsApplied
<1> QED
  BY <1>1, <1>2, <1>3, <1>4

\* A step that removes nothing from the queue keeps the invariant.
LEMMA KeepsInv ==
    ASSUME ContentInv, Forget, Queue!TypeOK', Keeps
    PROVE  ContentInv'
BY ForgetInv DEF Keeps

\* Delivery and redelivery keep the invariant.
LEMMA InputsInv ==
    ASSUME ContentInv, NEW v \in Messages,
           ExpireRetry(v) \/ \E c \in Channels : Deliver(c, v)
    PROVE  ContentInv'
BY InputsTyped, KeepsInv DEF ContentInv, TypeOK, ExpireRetry, Deliver

\* Opening a channel keeps the invariant.
LEMMA OpenInv ==
    ASSUME ContentInv, OpenChannel
    PROVE  ContentInv'
<1>1. Forget
  BY DEF OpenChannel, Queue!OpenChannel, Forget, ContentInv, TypeOK
<1>2. PICK c \in Channels : Queue!OpenChannel(c)
  BY DEF OpenChannel
<1>3. CASE Messages = {}
  BY <1>1, <1>2, <1>3, ForgetInv DEF ContentInv, TypeOK, Queue!OpenChannel,
     Queue!TypeOK, Queue!boundVars
<1>4. CASE Messages # {}
  BY <1>1, <1>2, <1>4, InputsTyped, KeepsInv DEF ContentInv, TypeOK
<1> QED
  BY <1>3, <1>4

\* Lost channels and crashed processes keep the invariant.
LEMMA InterruptInv ==
    ASSUME ContentInv, Interrupt
    PROVE  ContentInv'
BY LossesTyped, KeepsInv DEF ContentInv, TypeOK, Interrupt

\* Dead-lettering and replay keep the invariant.
LEMMA DlqInv ==
    ASSUME ContentInv, NEW v \in Messages,
           Replay(v) \/ \E c \in Channels : DeadLetter(c, v)
    PROVE  ContentInv'
BY DlqTyped, ForgetInv DEF ContentInv, TypeOK, Replay, DeadLetter

\* A message whose verdict is applied may be let go.
LEMMA ResolveInv ==
    ASSUME ContentInv, NEW c \in Channels, NEW v \in Messages, Resolve(c, v),
           v \in processed
    PROVE  ContentInv'
<1>1. CASE Queue!Ack(c, v)
  BY <1>1, SettledTyped, ForgetInv DEF ContentInv, TypeOK, Resolve, Accounts
<1>2. CASE Queue!SettleTooLate(c, v)
  BY <1>2, LossesTyped, KeepsInv DEF ContentInv, TypeOK, Resolve
<1> QED
  BY <1>1, <1>2 DEF Resolve

\* A handler that ends without writing keeps the invariant.
LEMMA HandlerInv ==
    ASSUME ContentInv, NEW c \in Channels, NEW v \in Messages,
           Acknowledge(c, v) \/ SkipDuplicate(c, v) \/ TransactionFails(c, v)
    PROVE  ContentInv'
<1>1. CASE Acknowledge(c, v)
  BY <1>1, ResolveInv DEF Acknowledge, ContentInv, CommittedApplied
<1>2. CASE SkipDuplicate(c, v)
  BY <1>2, ResolveInv DEF SkipDuplicate
<1>3. CASE TransactionFails(c, v)
  BY <1>3, RejectedTyped, LossesTyped, KeepsInv
     DEF TransactionFails, Reject, ContentInv, TypeOK
<1> QED
  BY <1>1, <1>2, <1>3

\* A new verdict message touches no row.
LEMMA ClassifyInv ==
    ASSUME ContentInv, NEW v \in Messages, Classify(v)
    PROVE  ContentInv'
<1>1. Queue!TypeOK' /\ Keeps
  BY InputsTyped DEF Classify, ContentInv, TypeOK
<1>2. UNCHANGED <<database, committed, running>>
  BY DEF Classify, Queue!Publish
<1>3. /\ verdict' \in [Messages -> Verdicts]
      /\ cleared' \subseteq Posts \X (0..MaxEdits)
  BY DEF Classify, ContentInv, TypeOK
<1>4. TypeOK'
  BY <1>1, <1>2, <1>3 DEF ContentInv, TypeOK, database
<1>5. Database' /\ CommittedApplied' /\ AckedVerdictsApplied'
  BY <1>1, <1>2 DEF ContentInv, database, Database, OneRowPerVerdict,
     StatusMatchesStream, LastRowOf, SilentUntilVerdict, CommittedApplied,
     AckedVerdictsApplied, Keeps
<1> QED
  BY <1>4, <1>5 DEF ContentInv

-----------------------------------------------------------------------------
(* The steps that write rows.                                              *)

\* Every outbox row is about a post.
LEMMA RowsTyped ==
    stream \in Seq([id : Messages, post : Posts, verdict : Verdicts]) =>
        \A i \in 1..Len(stream) : stream[i].post \in Posts
<1> SUFFICES ASSUME stream \in Seq([id : Messages, post : Posts, verdict : Verdicts]),
                    NEW i \in 1..Len(stream)
             PROVE  stream[i].post \in Posts
  OBVIOUS
<1> DEFINE Row == [id : Messages, post : Posts, verdict : Verdicts]
<1> HIDE DEF Row
<1>1. stream[i] \in Row
  <2>1. stream \in Seq(Row)
    BY DEF Row
  <2> QED
    BY <2>1
<1> QED
  BY <1>1 DEF Row

\* Creating, editing and removing a post touch no verdict.
LEMMA PostStepInv ==
    ASSUME ContentInv, NEW p \in Posts, Create(p) \/ Update(p) \/ Remove(p)
    PROVE  ContentInv'
<1>1. UNCHANGED <<queueVars, processed, stream, verdict, cleared, committed>>
  BY DEF Create, Update, Remove, classifier
<1>2. Queue!TypeOK' /\ CommittedApplied' /\ AckedVerdictsApplied'
  BY <1>1 DEF queueVars, ContentInv, TypeOK, Queue!TypeOK, CommittedApplied,
     AckedVerdictsApplied
<1>3. TypeOK'
  <2>1. status' \in [Posts -> {"none", "pending", "removed"} \cup Verdicts]
    BY DEF Create, Update, Remove, ContentInv, TypeOK
  <2>2. revision' \in [Posts -> 0..MaxEdits]
    <3>1. CASE Update(p)
      <4>1. revision[p] + 1 \in 0..MaxEdits
        BY <3>1 DEF Update, ContentInv, TypeOK
      <4> QED
        BY <3>1, <4>1 DEF Update, ContentInv, TypeOK
    <3> QED
      BY <3>1 DEF Create, Remove, ContentInv, TypeOK
  <2> QED
    BY <1>1, <1>2, <2>1, <2>2 DEF queueVars, ContentInv, TypeOK
<1>4. stream \in Seq([id : Messages, post : Posts, verdict : Verdicts])
      /\ status \in [Posts -> {"none", "pending", "removed"} \cup Verdicts]
  BY DEF ContentInv, TypeOK
<1>5. \A i \in 1..Len(stream) : stream[i].post \in Posts
  BY <1>4, RowsTyped
<1>6. OneRowPerVerdict'
  BY <1>1 DEF ContentInv, Database, OneRowPerVerdict
<1>7. CASE Update(p)
  BY <1>1, <1>6, <1>2, <1>3, <1>7 DEF Update, ContentInv, Database, StatusMatchesStream,
     LastRowOf, SilentUntilVerdict
<1>8. CASE Create(p)
  <2>1. \A i \in 1..Len(stream) : stream[i].post # p
    BY <1>8 DEF Create, ContentInv, Database, SilentUntilVerdict
  <2>2. status' = [status EXCEPT ![p] = "pending"] /\ UNCHANGED stream
    BY <1>8 DEF Create
  <2>3. StatusMatchesStream' /\ SilentUntilVerdict'
    BY <2>1, <2>2, <1>4, <1>5 DEF ContentInv, Database, StatusMatchesStream, LastRowOf,
       SilentUntilVerdict, Verdicts
  <2> QED
    BY <1>2, <1>3, <1>6, <2>3 DEF ContentInv, Database
<1>9. CASE Remove(p)
  <2>1. status' = [status EXCEPT ![p] = "removed"] /\ UNCHANGED stream
    BY <1>9 DEF Remove
  <2>2. StatusMatchesStream' /\ SilentUntilVerdict'
    BY <2>1, <1>4, <1>5 DEF ContentInv, Database, StatusMatchesStream, LastRowOf,
       SilentUntilVerdict, Verdicts
  <2> QED
    BY <1>2, <1>3, <1>6, <2>2 DEF ContentInv, Database
<1> QED
  BY <1>7, <1>8, <1>9

\* One transaction writes the dedupe row, the status and the outbox row.
LEMMA ApplyDatabase ==
    ASSUME ContentInv, NEW v \in Messages, ApplyVerdict(v)
    PROVE  /\ Database'
           /\ processed' \subseteq Messages
           /\ status' \in [Posts -> {"none", "pending", "removed"} \cup Verdicts]
           /\ stream' \in Seq([id : Messages, post : Posts, verdict : Verdicts])
<1> DEFINE Row == [id : Messages, post : Posts, verdict : Verdicts]
           n == Len(stream)
           p == PostOf[v]
<1>1. /\ v \notin processed /\ status[p] \in {"pending"} \cup Verdicts
      /\ processed' = processed \cup {v}
      /\ status' = [status EXCEPT ![p] = verdict[v]]
      /\ stream' = Append(stream, OutboxRow(v))
  BY DEF ApplyVerdict, Present
<1>2. /\ stream \in Seq(Row) /\ processed \subseteq Messages
      /\ status \in [Posts -> {"none", "pending", "removed"} \cup Verdicts]
      /\ verdict[v] \in Verdicts /\ p \in Posts
  BY DEF ContentInv, TypeOK
<1>3. /\ OutboxRow(v) \in Row /\ OutboxRow(v).id = v /\ OutboxRow(v).post = p
      /\ OutboxRow(v).verdict = verdict[v]
  BY <1>2 DEF OutboxRow
<1>4. /\ stream' \in Seq(Row) /\ Len(stream') = n + 1 /\ n \in Nat
      /\ stream'[n + 1] = OutboxRow(v)
      /\ \A i \in 1..n : stream'[i] = stream[i]
  BY <1>1, <1>2, <1>3
<1>5. \A i \in 1..n : stream[i].post \in Posts
  BY <1>2, RowsTyped
<1> HIDE DEF n, p, Row
<1>6. OneRowPerVerdict'
  <2>1. /\ \A i, k \in 1..n : stream[i].id = stream[k].id => i = k
        /\ {stream[i].id : i \in 1..n} = processed
    BY DEF ContentInv, Database, OneRowPerVerdict, n
  <2>2. \A i \in 1..n : stream[i].id # v
    BY <2>1, <1>1
  <2>3. \A i \in 1..n + 1 : i \in 1..n \/ i = n + 1
    BY <1>4
  <2>4. \A i, k \in 1..n + 1 : stream'[i].id = stream'[k].id => i = k
    BY <2>1, <2>2, <2>3, <1>3, <1>4
  <2>5. {stream'[i].id : i \in 1..n + 1} = processed \cup {v}
    BY <2>1, <2>3, <1>3, <1>4
  <2> QED
    BY <2>4, <2>5, <1>1, <1>4 DEF OneRowPerVerdict
<1>7. StatusMatchesStream'
  <2>1. \A i \in 1..n + 1 : LastRowOf(i)' =>
           status'[stream'[i].post] \in {stream'[i].verdict, "removed"}
    <3> SUFFICES ASSUME NEW i \in 1..n + 1, LastRowOf(i)'
                 PROVE  status'[stream'[i].post] \in {stream'[i].verdict, "removed"}
      OBVIOUS
    <3>1. CASE i = n + 1
      BY <3>1, <1>1, <1>2, <1>3, <1>4
    <3>2. CASE i \in 1..n
      <4>1. stream'[i] = stream[i] /\ stream[i].post # p
        BY <3>2, <1>3, <1>4 DEF LastRowOf
      <4>2. LastRowOf(i)
        BY <3>2, <4>1, <1>4 DEF LastRowOf, n
      <4>3. status[stream[i].post] \in {stream[i].verdict, "removed"}
        BY <4>2, <3>2 DEF ContentInv, Database, StatusMatchesStream, n
      <4> QED
        BY <4>1, <4>3, <3>2, <1>1, <1>2, <1>5
    <3> QED
      BY <3>1, <3>2, <1>4
  <2>2. \A q \in Posts : status'[q] \in Verdicts =>
           \E i \in 1..n + 1 : stream'[i].post = q
    <3> SUFFICES ASSUME NEW q \in Posts, status'[q] \in Verdicts
                 PROVE  \E i \in 1..n + 1 : stream'[i].post = q
      OBVIOUS
    <3>1. CASE q = p
      BY <3>1, <1>3, <1>4
    <3>2. CASE q # p
      <4>1. PICK i \in 1..n : stream[i].post = q
        BY <3>2, <1>1, <1>2 DEF ContentInv, Database, StatusMatchesStream, n
      <4> QED
        BY <4>1, <1>4
    <3> QED
      BY <3>1, <3>2
  <2> QED
    BY <2>1, <2>2, <1>4 DEF StatusMatchesStream
<1>8. SilentUntilVerdict'
  <2> SUFFICES ASSUME NEW i \in 1..n + 1
               PROVE  status'[stream'[i].post] \notin {"none", "pending"}
    BY <1>4 DEF SilentUntilVerdict
  <2>1. CASE i = n + 1
    BY <2>1, <1>1, <1>2, <1>3, <1>4 DEF Verdicts
  <2>2. CASE i \in 1..n
    BY <2>2, <1>1, <1>2, <1>4, <1>5
       DEF ContentInv, Database, SilentUntilVerdict, Verdicts, n
  <2> QED
    BY <2>1, <2>2, <1>4
<1> QED
  BY <1>1, <1>2, <1>4, <1>6, <1>7, <1>8 DEF Database, Row

\* A committed transaction keeps the invariant, whether or not its reply arrives.
LEMMA CommitInv ==
    ASSUME ContentInv, NEW c \in Channels, NEW v \in Messages,
           Commit(c, v) \/ CommitReplyLost(c, v)
    PROVE  ContentInv'
<1>1. /\ ApplyVerdict(v) /\ processed' = processed \cup {v}
      /\ UNCHANGED <<revision, verdict, cleared>>
  BY DEF Commit, CommitReplyLost, ApplyVerdict, classifier
<1>2. <<c, v>> \in running \ committed
  BY DEF Commit, CommitReplyLost, Handling
<1>3. Queue!TypeOK' /\ Keeps /\ committed' \subseteq running'
      /\ committed' \subseteq committed \cup {<<c, v>>}
  <2>1. CASE Commit(c, v)
    BY <2>1, <1>2 DEF Commit, queueVars, ContentInv, TypeOK, Queue!TypeOK, Keeps
  <2>2. CASE CommitReplyLost(c, v)
    BY <2>2, <1>2, RejectedTyped DEF CommitReplyLost, ContentInv, TypeOK
  <2> QED
    BY <2>1, <2>2
<1>4. TypeOK'
  BY <1>1, <1>3, ApplyDatabase DEF ContentInv, TypeOK
<1>5. CommittedApplied'
  BY <1>1, <1>3 DEF ContentInv, CommittedApplied
<1>6. AckedVerdictsApplied'
  BY <1>1, <1>3 DEF ContentInv, AckedVerdictsApplied, Keeps
<1> QED
  BY <1>1, <1>4, <1>5, <1>6, ApplyDatabase DEF ContentInv

-----------------------------------------------------------------------------
\* Every step keeps the invariant.
LEMMA NextInv == ContentInv /\ [Next]_vars => ContentInv'
<1> SUFFICES ASSUME ContentInv, [Next]_vars PROVE ContentInv'
  OBVIOUS
<1>1. CASE UNCHANGED vars
  <2>1. Forget /\ UNCHANGED queueVars
    BY <1>1 DEF vars, Forget, queueVars, ContentInv, TypeOK
  <2>2. Queue!TypeOK' /\ Keeps
    BY <2>1 DEF queueVars, ContentInv, TypeOK, Queue!TypeOK, Keeps
  <2> QED
    BY <2>1, <2>2, KeepsInv
<1>2. CASE \E p \in Posts : Create(p) \/ Update(p) \/ Remove(p)
  BY <1>2, PostStepInv
<1>3. CASE OpenChannel \/ Interrupt
  BY <1>3, OpenInv, InterruptInv
<1>4. CASE \E v \in Messages : Classify(v) \/ ExpireRetry(v) \/ Replay(v)
  BY <1>4, ClassifyInv, InputsInv, DlqInv
<1>5. ASSUME NEW c \in Channels, NEW v \in Messages,
             Deliver(c, v) \/ HandlerStep(c, v) \/ CommitReplyLost(c, v)
      PROVE  ContentInv'
  BY <1>5, InputsInv, CommitInv, HandlerInv, DlqInv DEF HandlerStep
<1> QED
  BY <1>1, <1>2, <1>3, <1>4, <1>5 DEF Next

\* The database, the handlers that have committed and the queue stay in step.
THEOREM InvCorrect == Spec => []ContentInv
<1> QED
  BY InitInv, NextInv, PTL DEF Spec

\* The posts, the outbox and the queue of verdicts are always well typed.
THEOREM TypeCorrect == Spec => []TypeOK
<1>1. ContentInv => TypeOK
  BY DEF ContentInv
<1> QED
  BY <1>1, InvCorrect, PTL

\* The posts table and the outbox rows for Kafka always agree.
THEOREM StatusCorrect == Spec => []StatusMatchesStream
<1>1. ContentInv => StatusMatchesStream
  BY DEF ContentInv, Database
<1> QED
  BY <1>1, InvCorrect, PTL

\* A verdict message has effect once, however often it is delivered.
THEOREM RowsCorrect == Spec => []OneRowPerVerdict
<1>1. ContentInv => OneRowPerVerdict
  BY DEF ContentInv, Database
<1> QED
  BY <1>1, InvCorrect, PTL

\* The queue lets go of a verdict only when it is applied or in the DLQ.
THEOREM AckedCorrect == Spec => []AckedVerdictsApplied
<1>1. ContentInv => AckedVerdictsApplied
  BY DEF ContentInv
<1> QED
  BY <1>1, InvCorrect, PTL

\* A removed post stays removed, and no later outbox row is about it.
THEOREM RemovedCorrect == Spec => RemovedStaysSilent
<1> DEFINE Silent ==
      \A p \in Posts : status[p] = "removed" =>
          /\ status'[p] = "removed"
          /\ \A i \in 1..Len(stream') : stream'[i].post = p => i <= Len(stream)
<1>1. ASSUME ContentInv, Next PROVE Silent
  <2>1. CASE UNCHANGED <<status, stream>>
    BY <2>1, <1>1 DEF ContentInv, TypeOK
  <2>2. ASSUME NEW q \in Posts, Create(q) \/ Remove(q) PROVE Silent
    BY <2>2, <1>1 DEF Create, Remove, Present, Verdicts, ContentInv, TypeOK
  <2>3. ASSUME NEW v \in Messages, ApplyVerdict(v) PROVE Silent
    <3>1. PostOf[v] \in Posts /\ status[PostOf[v]] # "removed"
      BY <2>3, <1>1 DEF ApplyVerdict, Present, Verdicts
    <3>2. \A p \in Posts : status[p] = "removed" => status'[p] = "removed"
      BY <2>3, <1>1, <3>1 DEF ApplyVerdict, ContentInv, TypeOK
    <3>3. /\ Len(stream') = Len(stream) + 1 /\ Len(stream) \in Nat
          /\ stream'[Len(stream) + 1].post = PostOf[v]
      BY <2>3, <1>1 DEF ApplyVerdict, OutboxRow, ContentInv, TypeOK
    <3> QED
      BY <3>1, <3>2, <3>3
  <2> QED
    BY <1>1, <2>1, <2>2, <2>3 DEF Next, HandlerStep, Update, OpenChannel, Interrupt,
       Classify, ExpireRetry, Replay, Deliver, Commit, CommitReplyLost, Acknowledge,
       SkipDuplicate, TransactionFails, DeadLetter, Resolve, Reject, Forget, database
<1>2. ContentInv /\ [Next]_vars => [Silent]_vars
  BY <1>1
<1> QED
  BY <1>2, InvCorrect, PTL DEF Spec, RemovedStaysSilent

=============================================================================
