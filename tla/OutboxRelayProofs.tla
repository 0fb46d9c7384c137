------------------------- MODULE OutboxRelayProofs -------------------------
(***************************************************************************)
(* Proofs about OutboxRelay, for every set of rows, any number of relays   *)
(* and every bound.  The inductive invariant is RelayInv: a claimed row is *)
(* locked by one poll only, what that poll read of it is current, and a    *)
(* row the broker took once is either already published or marked by the   *)
(* open transaction that sent it.                                          *)
(***************************************************************************)
EXTENDS OutboxRelay, TLAPS

\* A poll's claimed rows are split between what is left, marked and failed; a
\* relay with no transaction holds nothing, and one whose transaction has
\* timed out holds only rows that are known to be disturbed.
PollShape ==
    \A r \in Relays :
        /\ marked[r] \cap todo[r] = {}
        /\ failed[r] \cap todo[r] = {}
        /\ marked[r] \cap failed[r] = {}
        /\ tx[r] # "open" => marked[r] = {} /\ failed[r] = {}
        /\ tx[r] = "none" => todo[r] = {}
        /\ tx[r] = "closed" => todo[r] \subseteq disturbed

\* A marked row is one the broker took, or one lost in an unflushed buffer.
MarkedWasReceived ==
    \A r \in Relays : \A m \in marked[r] : received[m] > 0 \/ m \in dropped

\* An undisturbed row that reached the broker was sent once, and the poll that
\* sent it has committed the mark or still holds it.
SentOnceAndMarked ==
    \A m \in Rows : m \notin disturbed =>
        /\ received[m] <= 1
        /\ received[m] = 1 => \/ m \in published
                              \/ \E r \in Relays : m \in marked[r]

RelayInv ==
    /\ TypeOK
    /\ ClaimsExclusive
    /\ ClaimReadsCurrent
    /\ PublishedWasReceived
    /\ PollShape
    /\ MarkedWasReceived
    /\ SentOnceAndMarked

----------------------------------------------------------------------------
\* The initial state satisfies the invariant: no row, no poll.
LEMMA InitInv == Init => RelayInv
  BY RouteAssumption, AttemptsAssumption, BudgetAssumption, FaultsAssumption
  DEF Init, RelayInv, TypeOK, ClaimsExclusive, ClaimReadsCurrent, Locked,
      PublishedWasReceived, PollShape, MarkedWasReceived, SentOnceAndMarked

\* The end of a poll releases its locks and touches no other poll's.
LEMMA EndPollLocks ==
  ASSUME TypeOK, NEW r \in Relays, EndPoll(r)
  PROVE  /\ Locked(r)' = {}
         /\ \A s \in Relays : s # r => Locked(s)' = Locked(s)
         /\ \A s \in Relays : s # r => /\ tx'[s] = tx[s] /\ todo'[s] = todo[s]
                                       /\ marked'[s] = marked[s]
                                       /\ failed'[s] = failed[s]
         /\ tx'[r] = "none" /\ todo'[r] = {} /\ marked'[r] = {} /\ failed'[r] = {}
  BY DEF TypeOK, EndPoll, Locked

\* Marking a row, or recording its failure, in an open transaction moves it
\* between the sets the poll holds: no lock changes hands.
LEMMA SameLocks ==
  ASSUME TypeOK, NEW r \in Relays, NEW m \in todo[r], tx[r] = "open", tx' = tx,
         todo' = [todo EXCEPT ![r] = @ \ {m}],
         \/ marked' = [marked EXCEPT ![r] = @ \cup {m}] /\ failed' = failed
         \/ failed' = [failed EXCEPT ![r] = @ \cup {m}] /\ marked' = marked
  PROVE  \A s \in Relays : Locked(s)' = Locked(s)
  BY ZenonT(40) DEF TypeOK, Locked

\* A step that ends a poll and leaves the table alone keeps the claims exclusive
\* and what the polls read current.
LEMMA EndPollClaims ==
  ASSUME RelayInv, NEW r \in Relays, EndPoll(r), UNCHANGED table
  PROVE  ClaimsExclusive' /\ ClaimReadsCurrent'
<1>1. /\ Locked(r)' = {}
      /\ \A s \in Relays : s # r => Locked(s)' = Locked(s)
  BY EndPollLocks DEF RelayInv
<1>2. Pending' = Pending /\ read' = read /\ attempts' = attempts
  BY DEF EndPoll, Pending, table
<1> QED BY <1>1, <1>2 DEF RelayInv, ClaimsExclusive, ClaimReadsCurrent

\* The same for a step that keeps every lock.
LEMMA SameLocksClaims ==
  ASSUME RelayInv, \A s \in Relays : Locked(s)' = Locked(s),
         UNCHANGED <<table, read>>
  PROVE  ClaimsExclusive' /\ ClaimReadsCurrent'
<1>1. Pending' = Pending
  BY DEF Pending, table
<1> QED BY <1>1 DEF RelayInv, ClaimsExclusive, ClaimReadsCurrent, table

----------------------------------------------------------------------------
\* One lemma per action: it preserves the invariant.
LEMMA InsertInv == ASSUME RelayInv, NEW m \in Rows, Insert(m) PROVE RelayInv'
<1> USE DEF RelayInv, Insert, poll, wire
<1>1. TypeOK'
  BY DEF TypeOK
<1>2. \A s \in Relays : Locked(s)' = Locked(s)
  BY DEF Locked
<1>3. Pending \subseteq Pending'
  BY DEF Pending
<1>4. ClaimsExclusive' /\ ClaimReadsCurrent'
  BY <1>2, <1>3 DEF ClaimsExclusive, ClaimReadsCurrent
<1>5. PublishedWasReceived' /\ PollShape' /\ MarkedWasReceived' /\ SentOnceAndMarked'
  BY DEF PublishedWasReceived, PollShape, MarkedWasReceived, SentOnceAndMarked
<1> QED BY <1>1, <1>4, <1>5

\* A replayed row is quarantined, so no poll holds it.
LEMMA ReplayInv == ASSUME RelayInv, NEW m \in Rows, Replay(m) PROVE RelayInv'
<1> USE DEF RelayInv, Replay, poll, wire
<1>1. TypeOK'
  BY AttemptsAssumption, FaultsAssumption DEF TypeOK
<1>2. \A s \in Relays : Locked(s)' = Locked(s)
  BY DEF Locked
<1>3. \A s \in Relays : m \notin Locked(s)
  BY AttemptsAssumption DEF ClaimReadsCurrent, Pending, TypeOK
<1>4. \A n \in Rows \ {m} : n \in Pending => n \in Pending' /\ attempts'[n] = attempts[n]
  BY DEF Pending, TypeOK
<1>5. \A s \in Relays : Locked(s) \subseteq Rows
  BY DEF Locked, TypeOK
<1>6. ClaimsExclusive'
  BY <1>2 DEF ClaimsExclusive
<1>7. ClaimReadsCurrent'
  BY <1>2, <1>3, <1>4, <1>5 DEF ClaimReadsCurrent, Pending
<1>8. PublishedWasReceived' /\ PollShape' /\ MarkedWasReceived' /\ SentOnceAndMarked'
  BY DEF PublishedWasReceived, PollShape, MarkedWasReceived, SentOnceAndMarked
<1> QED BY <1>1, <1>6, <1>7, <1>8

\* A claim takes only pending rows that nobody holds, and reads what is committed.
LEMMA ClaimInv == ASSUME RelayInv, NEW r \in Relays, Claim(r) PROVE RelayInv'
<1> USE DEF RelayInv, Claim, table, wire
<1>1. PICK B \in SUBSET Claimable : /\ todo' = [todo EXCEPT ![r] = B]
                                    /\ read' = [read EXCEPT ![r] = attempts]
  OBVIOUS
<1>2. B \subseteq Rows /\ B \subseteq Pending /\ B \cap AllLocked = {}
  BY DEF Claimable, Pending, TypeOK
<1>3. TypeOK'
  BY <1>1, <1>2 DEF TypeOK
<1>4. /\ Locked(r)' = B
      /\ \A s \in Relays : s # r => Locked(s)' = Locked(s)
  BY <1>1 DEF Locked, PollShape, TypeOK
<1>5. \A s \in Relays : Locked(s) \cap B = {}
  BY <1>2 DEF AllLocked
<1>6. ClaimsExclusive'
  BY <1>4, <1>5 DEF ClaimsExclusive
<1>7. Pending' = Pending /\ \A s \in Relays : s # r => read'[s] = read[s]
  BY <1>1 DEF Pending, TypeOK
<1>8. read'[r] = attempts
  BY <1>1 DEF TypeOK
<1>9. ClaimReadsCurrent'
  BY <1>2, <1>4, <1>7, <1>8 DEF ClaimReadsCurrent
<1>10. PollShape'
  BY <1>1 DEF PollShape, TypeOK
<1>11. PublishedWasReceived' /\ MarkedWasReceived' /\ SentOnceAndMarked'
  BY DEF PublishedWasReceived, MarkedWasReceived, SentOnceAndMarked
<1> QED BY <1>3, <1>6, <1>9, <1>10, <1>11

\* The types of the variables a poll owns.
PollTypes ==
    /\ tx \in [Relays -> {"none", "open", "closed"}]
    /\ todo \in [Relays -> SUBSET Rows]
    /\ marked \in [Relays -> SUBSET Rows]
    /\ failed \in [Relays -> SUBSET Rows]
    /\ read \in [Relays -> [Rows -> 0..MaxAttempts]]
    /\ spent \in [Relays -> 0..TxBudget]

\* What the end of a poll, or a settled row of an open transaction, keeps.
LEMMA EndPollKeeps ==
  ASSUME RelayInv, NEW r \in Relays, EndPoll(r), UNCHANGED table,
         disturbed \subseteq disturbed'
  PROVE  PollTypes' /\ PollShape' /\ ClaimsExclusive' /\ ClaimReadsCurrent'
<1>1. ClaimsExclusive' /\ ClaimReadsCurrent'
  BY EndPollClaims
<1>2. PollTypes'
  BY BudgetAssumption DEF RelayInv, TypeOK, EndPoll, PollTypes
<1>3. PollShape'
  BY EndPollLocks, ZenonT(40) DEF RelayInv, PollShape, EndPoll
<1> QED BY <1>1, <1>2, <1>3

\* Recording a failure keeps the parts of the invariant that do not mention received.
LEMMA FailureKeeps ==
  ASSUME RelayInv, NEW r \in Relays, NEW m \in todo[r], NEW cost \in {0, 1},
         recordFailure(r, m, cost), UNCHANGED table, disturbed \subseteq disturbed'
  PROVE  PollTypes' /\ PollShape' /\ ClaimsExclusive' /\ ClaimReadsCurrent'
<1>1. CASE EndPoll(r)
  BY <1>1, EndPollKeeps
<1>2. CASE ~EndPoll(r)
  <2>1. /\ tx[r] = "open" /\ InTime(r, cost) /\ UNCHANGED <<tx, marked, read>>
        /\ todo' = [todo EXCEPT ![r] = @ \ {m}]
        /\ failed' = [failed EXCEPT ![r] = @ \cup {m}]
        /\ spent' = [spent EXCEPT ![r] = @ + cost]
    BY <1>2 DEF recordFailure
  <2>2. \A s \in Relays : Locked(s)' = Locked(s)
    BY <2>1, SameLocks DEF RelayInv
  <2>3. ClaimsExclusive' /\ ClaimReadsCurrent'
    BY <2>1, <2>2, SameLocksClaims
  <2>4. PollTypes'
    BY <2>1, BudgetAssumption DEF RelayInv, TypeOK, InTime, PollTypes
  <2>5. PollShape'
    BY <2>1 DEF RelayInv, TypeOK, PollShape
  <2> QED BY <2>3, <2>4, <2>5
<1> QED BY <1>1, <1>2

\* Marking a row keeps the parts of the invariant that do not mention received.
LEMMA MarkKeeps ==
  ASSUME RelayInv, NEW r \in Relays, NEW m \in todo[r], NEW cost \in {0, 1},
         MarkPublished(r, m, cost), UNCHANGED table, disturbed \subseteq disturbed'
  PROVE  PollTypes' /\ PollShape' /\ ClaimsExclusive' /\ ClaimReadsCurrent'
<1>1. CASE EndPoll(r)
  BY <1>1, EndPollKeeps
<1>2. CASE ~EndPoll(r)
  <2>1. /\ tx[r] = "open" /\ InTime(r, cost) /\ UNCHANGED <<tx, failed, read>>
        /\ todo' = [todo EXCEPT ![r] = @ \ {m}]
        /\ marked' = [marked EXCEPT ![r] = @ \cup {m}]
        /\ spent' = [spent EXCEPT ![r] = @ + cost]
    BY <1>2 DEF MarkPublished
  <2>2. \A s \in Relays : Locked(s)' = Locked(s)
    BY <2>1, SameLocks DEF RelayInv
  <2>3. ClaimsExclusive' /\ ClaimReadsCurrent'
    BY <2>1, <2>2, SameLocksClaims
  <2>4. PollTypes'
    BY <2>1, BudgetAssumption DEF RelayInv, TypeOK, InTime, PollTypes
  <2>5. PollShape'
    BY <2>1 DEF RelayInv, TypeOK, PollShape
  <2> QED BY <2>3, <2>4, <2>5
<1> QED BY <1>1, <1>2

\* A row being sent is locked, hence stored, unpublished and below the limit;
\* if it is undisturbed, the broker has not had it yet.
LEMMA AtRowFresh ==
  ASSUME RelayInv, NEW r \in Relays, NEW m \in todo[r]
  PROVE  /\ m \in Rows
         /\ tx[r] = "open" => m \in Pending /\ m \notin published
         /\ m \notin disturbed => tx[r] = "open" /\ received[m] = 0
<1>1. m \in Rows
  BY DEF RelayInv, TypeOK
<1>2. tx[r] = "open" => m \in Locked(r)
  BY DEF Locked
<1>3. tx[r] = "open" => m \in Pending /\ m \notin published
  BY <1>2 DEF RelayInv, ClaimReadsCurrent, Pending
<1>4. ASSUME m \notin disturbed PROVE tx[r] = "open"
  BY <1>4 DEF RelayInv, PollShape, TypeOK
<1>5. ASSUME tx[r] = "open" PROVE \A s \in Relays : m \notin marked[s]
  <2>1. \A s \in Relays : m \in marked[s] => m \in Locked(s)
    BY DEF RelayInv, PollShape, TypeOK, Locked
  <2> QED BY <1>2, <1>5, <2>1 DEF RelayInv, ClaimsExclusive, PollShape
<1>6. ASSUME m \notin disturbed PROVE received[m] = 0
  BY <1>1, <1>3, <1>4, <1>5, <1>6 DEF RelayInv, SentOnceAndMarked, TypeOK
<1> QED BY <1>1, <1>3, <1>4, <1>6

\* A row without a route moves from the rows left to the failed ones.
LEMMA NoRouteInv ==
  ASSUME RelayInv, NEW r \in Relays, NEW m \in Rows, NoRoute(r, m) PROVE RelayInv'
<1> USE DEF NoRoute, AtRow, table, wire
<1>1. PollTypes' /\ PollShape' /\ ClaimsExclusive' /\ ClaimReadsCurrent'
  BY FailureKeeps
<1>2. TypeOK'
  BY <1>1 DEF RelayInv, TypeOK, PollTypes
<1>3. \A s \in Relays : marked'[s] = marked[s] \/ marked'[s] = {}
  BY DEF RelayInv, TypeOK, recordFailure, EndPoll
<1>4. \A s \in Relays : marked'[s] = marked[s]
  BY <1>3 DEF RelayInv, TypeOK, PollShape, recordFailure, EndPoll
<1>5. PublishedWasReceived' /\ MarkedWasReceived' /\ SentOnceAndMarked'
  BY <1>4 DEF RelayInv, PublishedWasReceived, MarkedWasReceived, SentOnceAndMarked
<1> QED BY <1>1, <1>2, <1>5 DEF RelayInv

\* A row the broker takes is marked, or was disturbed by the timeout before.
LEMMA PublishOkInv ==
  ASSUME RelayInv, NEW r \in Relays, NEW m \in Rows, PublishOk(r, m) PROVE RelayInv'
<1> USE DEF PublishOk, AtRow, table
<1>1. PICK cost \in {0, 1} : MarkPublished(r, m, cost)
  OBVIOUS
<1>2. PollTypes' /\ PollShape' /\ ClaimsExclusive' /\ ClaimReadsCurrent'
  BY <1>1, MarkKeeps
<1>3. /\ received'[m] = OnceMore(received[m]) /\ received'[m] > 0
      /\ \A n \in Rows \ {m} : received'[n] = received[n]
      /\ received' \in [Rows -> 0..2]
  BY DEF RelayInv, TypeOK, OnceMore
<1>4. TypeOK'
  BY <1>2, <1>3 DEF RelayInv, TypeOK, PollTypes
<1>5. PublishedWasReceived'
  BY <1>3 DEF RelayInv, TypeOK, PublishedWasReceived
<1>6. \A s \in Relays : marked'[s] \subseteq marked[s] \cup {m}
  BY <1>1 DEF RelayInv, TypeOK, MarkPublished, EndPoll
<1>7. MarkedWasReceived'
  BY <1>3, <1>6, <1>2 DEF RelayInv, MarkedWasReceived, PollTypes
<1>8. ASSUME NEW n \in Rows, n \notin disturbed
      PROVE  received'[n] <= 1 /\
             (received'[n] = 1 => n \in published \/ \E s \in Relays : n \in marked'[s])
  <2>1. \A s \in Relays : marked[s] \subseteq marked'[s]
    BY <1>1 DEF RelayInv, TypeOK, PollShape, MarkPublished, EndPoll
  <2>2. CASE n = m
    <3>1. tx[r] = "open" /\ received[m] = 0
      BY <1>8, <2>2, AtRowFresh
    <3>2. m \in marked'[r]
      BY <1>1, <3>1 DEF RelayInv, TypeOK, MarkPublished
    <3> QED BY <1>3, <2>2, <3>1, <3>2 DEF OnceMore
  <2>3. CASE n # m
    BY <1>3, <1>8, <2>1, <2>3 DEF RelayInv, SentOnceAndMarked
  <2> QED BY <2>2, <2>3
<1>9. SentOnceAndMarked'
  BY <1>8 DEF SentOnceAndMarked
<1> QED BY <1>2, <1>4, <1>5, <1>7, <1>9 DEF RelayInv

\* A row lost in the buffer is marked and counted as dropped.
LEMMA PublishUnflushedInv ==
  ASSUME RelayInv, NEW r \in Relays, NEW m \in Rows, PublishUnflushed(r, m)
  PROVE  RelayInv'
<1> USE DEF PublishUnflushed, AtRow, table
<1>1. PollTypes' /\ PollShape' /\ ClaimsExclusive' /\ ClaimReadsCurrent'
  BY MarkKeeps
<1>2. TypeOK'
  BY <1>1, FaultsAssumption DEF RelayInv, TypeOK, PollTypes
<1>3. \A s \in Relays : /\ marked'[s] \subseteq marked[s] \cup {m}
                        /\ marked[s] \subseteq marked'[s]
  BY DEF RelayInv, TypeOK, PollShape, MarkPublished, EndPoll
<1>4. PublishedWasReceived' /\ MarkedWasReceived' /\ SentOnceAndMarked'
  BY <1>3 DEF RelayInv, PublishedWasReceived, MarkedWasReceived, SentOnceAndMarked
<1> QED BY <1>1, <1>2, <1>4 DEF RelayInv

\* A rejected row is disturbed, whether or not the broker has it.
LEMMA PublishRejectedInv ==
  ASSUME RelayInv, NEW r \in Relays, NEW m \in Rows, PublishRejected(r, m)
  PROVE  RelayInv'
<1> USE DEF PublishRejected, AtRow, table
<1>1. PICK cost \in {0, 1} : recordFailure(r, m, cost)
  <2>1. recordFailure(r, m, 0) \/ recordFailure(r, m, 1)
    OBVIOUS
  <2> HIDE DEF PublishRejected
  <2> QED BY <2>1
<1>2. PollTypes' /\ PollShape' /\ ClaimsExclusive' /\ ClaimReadsCurrent'
  BY <1>1, FailureKeeps
<1>3. /\ received' \in [Rows -> 0..2]
      /\ \A n \in Rows : received[n] > 0 => received'[n] > 0
      /\ \A n \in Rows \ {m} : received'[n] = received[n]
  <2>1. CASE received' = received
    BY <2>1 DEF RelayInv, TypeOK
  <2>2. CASE received' = [received EXCEPT ![m] = OnceMore(@)]
    BY <2>2 DEF RelayInv, TypeOK, OnceMore
  <2> QED BY <2>1, <2>2
<1>4. TypeOK'
  BY <1>2, <1>3 DEF RelayInv, TypeOK, PollTypes
<1>5. \A s \in Relays : marked'[s] = marked[s]
  BY <1>1 DEF RelayInv, TypeOK, PollShape, recordFailure, EndPoll
<1>6. PublishedWasReceived' /\ MarkedWasReceived' /\ SentOnceAndMarked'
  BY <1>3, <1>5 DEF RelayInv, TypeOK, PublishedWasReceived, MarkedWasReceived,
                    SentOnceAndMarked
<1> QED BY <1>2, <1>4, <1>6 DEF RelayInv

\* A commit publishes the marked rows and counts the failed ones from a current read.
LEMMA CommitInv == ASSUME RelayInv, NEW r \in Relays, Commit(r) PROVE RelayInv'
<1> USE DEF Commit, wire
<1>1. \A m \in failed[r] : /\ m \in Locked(r) /\ m \in Rows /\ m \in Pending
                           /\ read[r][m] = attempts[m] /\ m \notin marked[r]
  BY DEF Locked, RelayInv, TypeOK, ClaimReadsCurrent, PollShape
<1>2. marked[r] \subseteq Locked(r) /\ marked[r] \subseteq stored
  BY DEF Locked, RelayInv, ClaimReadsCurrent, Pending
<1>3. /\ Locked(r)' = {}
      /\ \A s \in Relays : s # r => Locked(s)' = Locked(s)
  BY EndPollLocks DEF RelayInv
<1>4. \A m \in Rows : /\ m \in failed[r] => attempts'[m] = attempts[m] + 1
                      /\ m \notin failed[r] => attempts'[m] = attempts[m]
  BY <1>1
<1>5. attempts' \in [Rows -> 0..MaxAttempts]
  <2>1. \A m \in Rows : attempts'[m] \in 0..MaxAttempts
    BY <1>1, <1>4, AttemptsAssumption DEF RelayInv, TypeOK, Pending
  <2> QED BY <2>1
<1>6. TypeOK'
  BY <1>2, <1>5, BudgetAssumption DEF RelayInv, TypeOK, EndPoll
<1>7. ClaimsExclusive'
  BY <1>3 DEF RelayInv, ClaimsExclusive
<1>8. \A s \in Relays : s # r => Locked(s) \cap (marked[r] \cup failed[r]) = {}
  BY <1>1, <1>2 DEF RelayInv, ClaimsExclusive
<1>9. ASSUME NEW s \in Relays, s # r, NEW m \in Locked(s)
      PROVE  m \in Pending' /\ read'[s][m] = attempts'[m]
  <2>1. m \in Rows /\ m \in Pending /\ read[s][m] = attempts[m]
    BY <1>9 DEF RelayInv, TypeOK, ClaimReadsCurrent, Pending
  <2>2. m \notin marked[r] /\ attempts'[m] = attempts[m]
    BY <1>4, <1>8, <1>9, <2>1
  <2> QED BY <2>1, <2>2 DEF Pending, EndPoll
<1>10. ClaimReadsCurrent'
  BY <1>3, <1>9 DEF ClaimReadsCurrent
<1>11. PublishedWasReceived'
  BY DEF RelayInv, PublishedWasReceived, MarkedWasReceived
<1>12. PollShape' /\ MarkedWasReceived'
  BY EndPollLocks DEF RelayInv, PollShape, MarkedWasReceived
<1>13. \A s \in Relays : s # r => marked'[s] = marked[s]
  BY EndPollLocks DEF RelayInv
<1>14. SentOnceAndMarked'
  BY <1>13 DEF RelayInv, SentOnceAndMarked
<1> QED BY <1>6, <1>7, <1>10, <1>11, <1>12, <1>14 DEF RelayInv

\* A timeout releases the locks; all the poll held is disturbed.
LEMMA TimeoutInv == ASSUME RelayInv, NEW r \in Relays, Timeout(r) PROVE RelayInv'
<1> USE DEF Timeout, table
<1>1. /\ Locked(r)' = {}
      /\ \A s \in Relays : s # r => Locked(s)' = Locked(s)
  BY DEF RelayInv, TypeOK, Locked
<1>2. Pending' = Pending
  BY DEF Pending
<1>3. ClaimsExclusive' /\ ClaimReadsCurrent'
  BY <1>1, <1>2 DEF RelayInv, ClaimsExclusive, ClaimReadsCurrent
<1>4. Locked(r) \subseteq Rows
  BY DEF RelayInv, TypeOK, Locked
<1>5. TypeOK'
  BY <1>4 DEF RelayInv, TypeOK
<1>6. PollShape'
  BY DEF RelayInv, TypeOK, PollShape, Locked
<1>7. PublishedWasReceived' /\ MarkedWasReceived'
  BY DEF RelayInv, TypeOK, PublishedWasReceived, MarkedWasReceived
<1>8. marked[r] \subseteq disturbed' /\ \A s \in Relays \ {r} : marked'[s] = marked[s]
  BY DEF RelayInv, TypeOK, Locked
<1>9. SentOnceAndMarked'
  BY <1>8 DEF RelayInv, SentOnceAndMarked
<1> QED BY <1>3, <1>5, <1>6, <1>7, <1>9 DEF RelayInv

\* A rollback does the same and ends the poll.
LEMMA RollbackInv == ASSUME RelayInv, NEW r \in Relays, Rollback(r) PROVE RelayInv'
<1> USE DEF Rollback, table
<1>1. PollTypes' /\ PollShape' /\ ClaimsExclusive' /\ ClaimReadsCurrent'
  BY EndPollKeeps
<1>2. Locked(r) \subseteq Rows
  BY DEF RelayInv, TypeOK, Locked
<1>3. TypeOK'
  BY <1>1, <1>2, FaultsAssumption DEF RelayInv, TypeOK, PollTypes
<1>4. PublishedWasReceived' /\ MarkedWasReceived'
  BY EndPollLocks DEF RelayInv, PublishedWasReceived, MarkedWasReceived
<1>5. /\ marked[r] \subseteq disturbed'
      /\ \A s \in Relays \ {r} : marked'[s] = marked[s]
  BY EndPollLocks DEF RelayInv, TypeOK, PollShape, Locked
<1>6. SentOnceAndMarked'
  BY <1>5 DEF RelayInv, SentOnceAndMarked
<1> QED BY <1>1, <1>3, <1>4, <1>6 DEF RelayInv

----------------------------------------------------------------------------
\* The invariant is inductive.
LEMMA NextInv == RelayInv /\ [Next]_vars => RelayInv'
<1> SUFFICES ASSUME RelayInv, [Next]_vars PROVE RelayInv'
  OBVIOUS
<1>1. ASSUME NEW m \in Rows, Insert(m) \/ Replay(m) PROVE RelayInv'
  BY <1>1, InsertInv, ReplayInv
<1>2. ASSUME NEW r \in Relays, Claim(r) \/ Commit(r) \/ Timeout(r) \/ Rollback(r)
      PROVE  RelayInv'
  BY <1>2, ClaimInv, CommitInv, TimeoutInv, RollbackInv
<1>3. ASSUME NEW r \in Relays, NEW m \in Rows,
             NoRoute(r, m) \/ PublishOk(r, m) \/ PublishRejected(r, m)
             \/ PublishUnflushed(r, m)
      PROVE  RelayInv'
  BY <1>3, NoRouteInv, PublishOkInv, PublishRejectedInv, PublishUnflushedInv
<1>4. CASE UNCHANGED vars
  BY <1>4 DEF vars, table, poll, wire, RelayInv, TypeOK, ClaimsExclusive,
     ClaimReadsCurrent, Locked, Pending, PublishedWasReceived, PollShape,
     MarkedWasReceived, SentOnceAndMarked
<1> QED BY <1>1, <1>2, <1>3, <1>4 DEF Next, PollStep

\* RelayInv holds in every reachable state.
THEOREM Invariance == Spec => []RelayInv
  BY InitInv, NextInv, PTL DEF Spec

\* Type correctness (the committed attempts never pass OUTBOX_MAX_ATTEMPTS).
THEOREM TypeCorrect == Spec => []TypeOK
  BY Invariance, PTL DEF RelayInv

\* FOR UPDATE SKIP LOCKED: no row is in two open claim transactions.
THEOREM ExclusiveClaims == Spec => []ClaimsExclusive
  BY Invariance, PTL DEF RelayInv

\* The attempts recordFailure increments are the committed ones.
THEOREM CurrentReads == Spec => []ClaimReadsCurrent
  BY Invariance, PTL DEF RelayInv

\* A committed publishedAt means the broker took the row, or RabbitMQ's buffer
\* was lost before it was flushed.
THEOREM PublishedReceived == Spec => []PublishedWasReceived
  BY Invariance, PTL DEF RelayInv

\* Overlapping polls and competing instances never send a row twice on their own.
THEOREM SentOnce == Spec => []OnceUnlessDisturbed
<1>1. RelayInv => OnceUnlessDisturbed
  BY DEF RelayInv, TypeOK, SentOnceAndMarked, OnceUnlessDisturbed
<1> QED BY <1>1, Invariance, PTL

\* The committed outbox table only moves forward.
THEOREM ForwardOnly == Spec => RowsMoveForward
<1> DEFINE Forward ==
        /\ published \subseteq published'
        /\ \A m \in Rows : attempts'[m] # attempts[m] =>
             /\ m \notin published'
             /\ \/ attempts'[m] = attempts[m] + 1
                \/ attempts'[m] = 0 /\ attempts[m] = MaxAttempts
<1>1. RelayInv /\ [Next]_vars => [Forward]_vars
  <2> SUFFICES ASSUME RelayInv, Next PROVE Forward
    OBVIOUS
  <2>1. ASSUME NEW r \in Relays, Commit(r) PROVE Forward
    <3>1. \A m \in failed[r] : /\ read[r][m] = attempts[m] /\ m \notin published
                               /\ m \notin marked[r]
      BY <2>1 DEF Commit, RelayInv, ClaimReadsCurrent, Locked, Pending, PollShape
    <3>2. published' = published \cup marked[r]
      BY <2>1 DEF Commit
    <3>3. \A m \in Rows : /\ m \in failed[r] => attempts'[m] = attempts[m] + 1
                          /\ m \notin failed[r] => attempts'[m] = attempts[m]
      BY <2>1, <3>1 DEF Commit
    <3> QED BY <3>1, <3>2, <3>3
  <2>2. ASSUME NEW m \in Rows, Replay(m) PROVE Forward
    <3>1. m \in stored \ published /\ attempts[m] >= MaxAttempts /\ published' = published
      BY <2>2 DEF Replay
    <3>2. attempts[m] = MaxAttempts
      <4>1. attempts[m] \in 0..MaxAttempts
        BY DEF RelayInv, TypeOK
      <4> QED BY <3>1, <4>1, AttemptsAssumption
    <3>3. \A n \in Rows : attempts'[n] = IF n = m THEN 0 ELSE attempts[n]
      BY <2>2 DEF Replay, RelayInv, TypeOK
    <3> QED BY <3>1, <3>2, <3>3
  <2>3. ASSUME UNCHANGED <<published, attempts>> PROVE Forward
    BY <2>3
  <2>4. ASSUME NEW m \in Rows, Insert(m) PROVE UNCHANGED <<published, attempts>>
    BY <2>4 DEF Insert
  <2>5. ASSUME NEW r \in Relays, Claim(r) \/ Timeout(r) \/ Rollback(r)
        PROVE  UNCHANGED <<published, attempts>>
    BY <2>5 DEF Claim, Timeout, Rollback, table
  <2>6. ASSUME NEW r \in Relays, NEW m \in Rows,
               NoRoute(r, m) \/ PublishOk(r, m) \/ PublishRejected(r, m)
               \/ PublishUnflushed(r, m)
        PROVE  UNCHANGED <<published, attempts>>
    BY <2>6 DEF NoRoute, PublishOk, PublishRejected, PublishUnflushed, table
  <2> HIDE DEF Forward
  <2> QED BY <2>1, <2>2, <2>3, <2>4, <2>5, <2>6 DEF Next, PollStep
<1>2. Spec => [][Forward]_vars
  BY <1>1, Invariance, PTL DEF Spec
<1> QED BY <1>2 DEF RowsMoveForward
=============================================================================
