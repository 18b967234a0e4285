--------------------------- MODULE ContractProofs ---------------------------
(***************************************************************************)
(* What needs a database that refuses a write over a row that changed      *)
(* after the request's read view was taken: the approval ledger is exact,  *)
(* leases and results are orderly, a job has one lineage, and the          *)
(* Controller implements its contract with approvers and agents.           *)
(***************************************************************************)
EXTENDS OperationProofs

(***************************************************************************)
(* The inductive invariant.  The last conjunct is why the ledger is exact: *)
(* the approval rows that an open decision has seen are some of those      *)
(* there are, and the operation's row that it has seen counts exactly      *)
(* them.  If that row is still the operation's row when the decision       *)
(* commits, no row has been added meanwhile.                               *)
(***************************************************************************)
DecisionFresh(r) ==
    /\ r.seen.row.state # "absent"
    /\ r.seen.row.approval_status = "pending"
    /\ r.seen.decisions \subseteq decisions[r.op]
    /\ r.seen.row.approval_count = Cardinality(Approved(r.seen.decisions))

LedgerInv ==
    /\ \A o \in Operations : ~ Present(o) => decisions[o] = {}
    /\ LedgerAgrees
    /\ OneDecisionEach
    /\ \A o \in Operations : \A d \in decisions[o] : d.approver # Requester
    /\ \A w \in Workers :
          requests[w].kind = "decide" => DecisionFresh(requests[w])

(***************************************************************************)
(* Operations are never deleted, and agents report on operations there are.*)
(***************************************************************************)
ReportsKnown ==
    /\ \A d \in delivered : Present(d.op)
    /\ \A w \in Workers : requests[w].kind = "result" => Present(requests[w].op)

\* Initially nobody reports.
LEMMA ReportsInit == Init => ReportsKnown
BY DEF Init, ReportsKnown, Idle

\* Initially there is nothing to count.
LEMMA LedgerInit == Init => LedgerInv
BY DEF Init, LedgerInv, LedgerAgrees, OneDecisionEach, Present, AbsentRow, Idle

\* What a step that is no decision leaves alone.
LedgerUntouched ==
    /\ decisions' = decisions
    /\ \A o \in Operations :
          /\ ops'[o].approval_count = ops[o].approval_count
          /\ ops'[o].approval_status = ops[o].approval_status
          /\ ops'[o].state = "absent" <=> ops[o].state = "absent"
    /\ \A w \in Workers :
          requests'[w].kind = "decide" => requests'[w] = requests[w]

\* Such a step keeps the invariant.
LEMMA LedgerKept ==
    ASSUME TypeOK, LedgerInv, LedgerUntouched
    PROVE  LedgerInv'
<1>1. (\A o \in Operations : ~ Present(o) => decisions[o] = {})'
  BY DEF LedgerInv, LedgerUntouched, Present
<1>2. LedgerAgrees'
  BY DEF LedgerInv, LedgerUntouched, LedgerAgrees, LedgerStatus, Present
<1>3. OneDecisionEach'
  BY DEF LedgerInv, LedgerUntouched, OneDecisionEach
<1>4. (\A o \in Operations : \A d \in decisions[o] : d.approver # Requester)'
  BY DEF LedgerInv, LedgerUntouched
<1>5. (\A w \in Workers :
          requests[w].kind = "decide" => DecisionFresh(requests[w]))'
  BY DEF LedgerInv, LedgerUntouched, DecisionFresh
<1> QED
  BY <1>1, <1>2, <1>3, <1>4, <1>5 DEF LedgerInv

\* A decision that may write has seen every approval row.
LEMMA SeenAll ==
    ASSUME TypeOK, LedgerInv, SnapshotIsolation, NEW w \in Workers,
           CommitDecide(w)
    PROVE  LET r == requests[w]
           IN  /\ r \in DecideRequest
               /\ r.op \in Operations
               /\ Present(r.op)
               /\ ops[r.op].approval_status = "pending"
               /\ Required[r.op] # 0
               /\ ~ HasRejection(decisions[r.op])
               /\ r.seen.decisions = decisions[r.op]
<1> DEFINE r == requests[w]
           all == decisions[r.op]
           seen == r.seen.decisions
<1>1. r \in DecideRequest /\ r.op \in Operations
  BY RequestKinds DEF TypeOK, CommitDecide, DecideRequest
<1>2. DecisionFresh(r)
  BY DEF LedgerInv, CommitDecide
<1>3. r.seen.row = ops[r.op]
  BY DEF CommitDecide, Writable
<1>4. Present(r.op) /\ ops[r.op].approval_status = "pending"
  BY <1>2, <1>3 DEF DecisionFresh, Present
<1>5. LedgerStatus(r.op) = "pending"
  BY <1>1, <1>4 DEF LedgerInv, LedgerAgrees
<1>6. Required[r.op] # 0 /\ ~ HasRejection(all)
  BY <1>5 DEF LedgerStatus
<1>7. all \in SUBSET Approval /\ seen \in SUBSET all
  BY <1>1, <1>2 DEF TypeOK, DecisionFresh
<1>8. Cardinality(Approved(all)) = Cardinality(Approved(seen))
  BY <1>1, <1>2, <1>3, <1>4 DEF LedgerInv, LedgerAgrees, DecisionFresh
<1>9. Approved(all) = Approved(seen)
  BY <1>7, <1>8, SameApprovals
<1>10. all = Approved(all) /\ seen = Approved(seen)
  BY <1>6, <1>7 DEF HasRejection, Approved, Approval
<1>11. seen = all
  BY <1>9, <1>10
<1> QED
  BY <1>1, <1>4, <1>6, <1>11

\* The commit of a decision.
LEMMA LedgerDecide ==
    ASSUME TypeOK, LedgerInv, SnapshotIsolation, NEW w \in Workers,
           CommitDecide(w)
    PROVE  LedgerInv'
<1> DEFINE r == requests[w]
<1>0. PICK p \in Operations : p = r.op
  BY SeenAll
<1> DEFINE all == decisions[p]
           row == [by |-> w, approver |-> r.actor, decision |-> r.decision]
           count == Cardinality(Approved(all \cup {row}))
<1>1. /\ r \in DecideRequest /\ p \in Operations /\ Present(p)
      /\ ops[p].approval_status = "pending"
      /\ Required[p] # 0 /\ ~ HasRejection(all)
      /\ r.seen.decisions = all
  BY SeenAll, <1>0
<1>2. /\ row \in Approval
      /\ r.actor # Requester
      /\ r.decision \in {"approved", "rejected"}
  BY <1>1 DEF DecideRequest, Approval
<1>3. all \in SUBSET Approval /\ ops[p] \in Row
  BY <1>1 DEF TypeOK
<1>4. \A d \in all : d.approver # r.actor
  BY <1>1, <1>0 DEF CommitDecide, MayDecide
<1>5. row \notin all
  BY <1>4
<1>6. decisions' = [decisions EXCEPT ![p] = all \cup {row}]
  BY <1>0 DEF CommitDecide
<1>7. ops' = [ops EXCEPT ![p] = Decided(p, r.decision, count)]
  BY <1>1, <1>0 DEF CommitDecide
<1>8. requests' = [requests EXCEPT ![w] = Idle]
  BY DEF CommitDecide, Close
<1>9. /\ ops'[p] = Decided(p, r.decision, count)
      /\ decisions'[p] = all \cup {row}
      /\ \A o \in Operations \ {p} :
            ops'[o] = ops[o] /\ decisions'[o] = decisions[o]
  BY <1>1, <1>6, <1>7 DEF TypeOK
<1>10. count = IF r.decision = "approved" THEN ops[p].approval_count + 1
               ELSE ops[p].approval_count
  BY <1>1, <1>2, <1>3, <1>5, OneMore DEF LedgerInv, LedgerAgrees
<1>11. count \in Nat /\ Required[p] \in Nat
  BY <1>2, <1>3, CountIsNat, <1>1, OperationsAssumption DEF Approved
<1> HIDE DEF count
<1>12. (\A o \in Operations : ~ Present(o) => decisions[o] = {})'
  <2>1. ops'[p].state = ops[p].state
    BY <1>3, <1>9 DEF Decided, Row
  <2> QED
    BY <2>1, <1>1, <1>9 DEF LedgerInv, Present
<1>13. LedgerAgrees'
  <2>1. ASSUME NEW o \in Operations \ {p}, Present(o)'
        PROVE  (/\ ops[o].approval_count = Cardinality(Approved(decisions[o]))
                /\ ops[o].approval_status = LedgerStatus(o))'
    BY <2>1, <1>9 DEF LedgerInv, LedgerAgrees, LedgerStatus, Present
  <2>2. CASE r.decision = "rejected"
    <3>1. ops'[p].approval_count = count /\ ops'[p].approval_status = "rejected"
      BY <2>2, <1>3, <1>9, <1>10 DEF Decided, Row
    <3>2. row \in decisions'[p] /\ row.decision = "rejected"
      BY <2>2, <1>9
    <3>3. HasRejection(decisions'[p])
      BY <3>2, Zenon DEF HasRejection
    <3>4. LedgerStatus(p)' = "rejected"
      BY <3>3, <1>1, Zenon DEF LedgerStatus
    <3>5. count = Cardinality(Approved(decisions'[p]))
      BY <1>9 DEF count
    <3> QED
      BY <3>1, <3>4, <3>5, <2>1, Zenon DEF LedgerAgrees
  <2>3. CASE r.decision = "approved"
    <3>1. /\ ops'[p].approval_count = count
          /\ ops'[p].approval_status =
                IF count >= Required[p] THEN "approved" ELSE "pending"
      BY <2>3, <1>1, <1>3, <1>9, <1>11 DEF Decided, Row
    <3>2. ~ HasRejection(decisions'[p])
      BY <2>3, <1>1, <1>9 DEF HasRejection
    <3>3. count = Cardinality(Approved(decisions'[p]))
      BY <1>9 DEF count
    <3>4. LedgerStatus(p)' =
             IF count >= Required[p] THEN "approved" ELSE "pending"
      BY <3>2, <3>3, <1>1, Zenon DEF LedgerStatus
    <3> QED
      BY <3>1, <3>3, <3>4, <2>1, Zenon DEF LedgerAgrees
  <2> QED
    BY <2>2, <2>3, <1>2
<1>14. OneDecisionEach'
  <2>1. \A d, e \in decisions'[p] : d.approver = e.approver => d = e
    BY <1>1, <1>4, <1>9 DEF LedgerInv, OneDecisionEach
  <2>2. \A o \in Operations \ {p} : \A d, e \in decisions'[o] :
           d.approver = e.approver => d = e
    BY <1>9 DEF LedgerInv, OneDecisionEach
  <2> QED
    BY <2>1, <2>2 DEF OneDecisionEach
<1>15. (\A o \in Operations : \A d \in decisions[o] : d.approver # Requester)'
  BY <1>2, <1>9 DEF LedgerInv
<1>16. ASSUME NEW v \in Workers, requests'[v].kind = "decide"
       PROVE  DecisionFresh(requests[v])'
  <2>1. requests'[v] = requests[v] /\ requests[v].op \in Operations
    BY <1>8, <1>16, RequestKinds DEF TypeOK, Idle, DecideRequest
  <2>2. DecisionFresh(requests[v])
    BY <2>1, <1>16 DEF LedgerInv
  <2>3. decisions[requests[v].op] \subseteq decisions'[requests[v].op]
    BY <2>1, <1>9, <1>1
  <2> QED
    BY <2>1, <2>2, <2>3 DEF DecisionFresh
<1> QED
  BY <1>12, <1>13, <1>14, <1>15, <1>16 DEF LedgerInv

\* A new operation has no approvals yet.
LEMMA LedgerNew ==
    ASSUME TypeOK, LedgerInv, NEW o \in Operations, NEW source, ~ Present(o),
           ops' = [ops EXCEPT ![o] = NewRow(o, source)],
           decisions' = decisions,
           \A w \in Workers :
              requests'[w].kind = "decide" => requests'[w] = requests[w]
    PROVE  LedgerInv'
<1>1. decisions[o] = {} /\ Required[o] \in Nat
  BY OperationsAssumption DEF LedgerInv
<1>2. Cardinality(Approved(decisions[o])) = 0 /\ ~ HasRejection(decisions[o])
  BY <1>1, FS_EmptySet DEF Approved, HasRejection
<1>3. /\ ops'[o].state # "absent"
      /\ ops'[o].approval_count = 0
      /\ ops'[o].approval_status =
            IF Required[o] = 0 THEN "not_required" ELSE "pending"
      /\ \A x \in Operations \ {o} : ops'[x] = ops[x]
  BY DEF TypeOK, NewRow, AbsentRow
<1>4. (\A x \in Operations : ~ Present(x) => decisions[x] = {})'
  BY <1>3 DEF LedgerInv, Present
<1>5. LedgerStatus(o)' = IF Required[o] = 0 THEN "not_required" ELSE "pending"
  BY <1>1, <1>2 DEF LedgerStatus
<1>6. LedgerAgrees'
  BY <1>2, <1>3, <1>5 DEF LedgerInv, LedgerAgrees, LedgerStatus, Present
<1>7. OneDecisionEach'
  BY DEF LedgerInv, OneDecisionEach
<1>8. (\A x \in Operations : \A d \in decisions[x] : d.approver # Requester)'
  BY DEF LedgerInv
<1>9. (\A w \in Workers :
          requests[w].kind = "decide" => DecisionFresh(requests[w]))'
  BY DEF LedgerInv, DecisionFresh
<1> QED
  BY <1>4, <1>6, <1>7, <1>8, <1>9 DEF LedgerInv

\* Opening a decision copies the ledger as it is.
LEMMA LedgerOpen ==
    ASSUME TypeOK, LedgerInv, NEW w \in Workers, NEW o \in Operations,
           NEW u, NEW d, OpenDecide(w, o, u, d)
    PROVE  LedgerInv'
<1> DEFINE r == [kind |-> "decide", op |-> o, actor |-> u, decision |-> d,
                 seen |-> See(o)]
<1>1. DecisionFresh(r)
  BY DEF DecisionFresh, OpenDecide, See, LedgerInv, LedgerAgrees, Present
<1>2. requests' = [requests EXCEPT ![w] = r]
  BY DEF OpenDecide, Open
<1>3. UNCHANGED <<ops, decisions>>
  BY DEF OpenDecide
<1>4. \A x : DecisionFresh(x) => DecisionFresh(x)'
  BY <1>3 DEF DecisionFresh
<1>5. (\A v \in Workers :
          requests[v].kind = "decide" => DecisionFresh(requests[v]))'
  <2> HIDE DEF r
  <2>1. ASSUME NEW v \in Workers, requests'[v].kind = "decide"
        PROVE  DecisionFresh(requests'[v])
    BY <1>1, <1>2, <2>1 DEF LedgerInv, TypeOK
  <2> QED
    BY <2>1, <1>3 DEF DecisionFresh
<1> QED
  BY <1>3, <1>5 DEF LedgerInv, LedgerAgrees, LedgerStatus, OneDecisionEach, Present

\* Reports are on commands that a poll has delivered.
LEMMA ReportsStep == TypeOK /\ ReportsKnown /\ [Next]_vars => ReportsKnown'
<1> SUFFICES ASSUME TypeOK, ReportsKnown, [Next]_vars
             PROVE  ReportsKnown'
  OBVIOUS
<1>1. ASSUME NEW d \in delivered'
      PROVE  Present(d.op)'
  <2>1. CASE d \in delivered
    BY <2>1, PresentStays DEF ReportsKnown, TypeOK
  <2>2. CASE d \notin delivered
    <3>1. PICK w \in Workers, c \in SUBSET Operations, o \in Operations :
             CommitLease(w, c, o) /\ d.op = o
      BY <2>2, DeliveredBy
    <3>2. Present(o)
      BY <3>1 DEF CommitLease, PollCandidates, Leasable, Present
    <3> QED
      BY <3>1, <3>2, PresentStays
  <2> QED
    BY <2>1, <2>2
<1>2. ASSUME NEW w \in Workers, requests'[w].kind = "result"
      PROVE  Present(requests[w].op)'
  <2>1. CASE requests'[w] = requests[w]
    <3>1. requests[w].op \in Operations /\ Present(requests[w].op)
      BY <1>2, <2>1, RequestKinds DEF TypeOK, ReportsKnown, ResultRequest
    <3>2. PICK o \in Operations : o = requests[w].op
      BY <3>1
    <3>3. Present(o)'
      BY <3>1, <3>2, PresentStays
    <3> QED
      BY <2>1, <3>2, <3>3 DEF Present
  <2>2. CASE requests'[w] = Idle
    BY <1>2, <2>2 DEF Idle
  <2>3. CASE Opens(w)
    <3>1. PICK o \in Operations, body \in Bodies : OpenResult(w, o, body)
      BY <1>2, <2>3 DEF Opens, OpenPoll, OpenStart, OpenCredential, OpenConsume,
                        OpenDecide, OpenRetry, Open, TypeOK
    <3>2. Present(o) /\ requests'[w].op = o
      BY <3>1 DEF OpenResult, Open, ReportsKnown, TypeOK
    <3>3. Present(o)'
      BY <3>2, PresentStays
    <3> QED
      BY <3>2, <3>3 DEF Present
  <2> QED
    BY <2>1, <2>2, <2>3, RequestStep
<1> QED
  BY <1>1, <1>2 DEF ReportsKnown

\* Requests that are no decision and no authoring leave the ledger alone.  A
\* credential saves the document as it has seen it, which is as it is.
LEMMA LedgerOthers ==
    ASSUME TypeOK, ReportsKnown, SnapshotIsolation, NEW w \in Workers,
           \/ Abort(w) \/ ReplayResult(w)
           \/ CommitStart(w) \/ CommitResult(w) \/ CommitCredential(w)
           \/ CommitConsume(w)
           \/ \E c \in SUBSET Operations :
                 \/ CommitNoCommand(w, c)
                 \/ \E o \in Operations : CommitLease(w, c, o)
    PROVE  LedgerUntouched
<1> DEFINE Alike(x, y) == /\ x.approval_count = y.approval_count
                          /\ x.approval_status = y.approval_status
                          /\ x.state = "absent" <=> y.state = "absent"
<1>1. ASSUME Close(w), decisions' = decisions,
             \A o \in Operations : Alike(ops'[o], ops[o])
      PROVE  LedgerUntouched
  BY <1>1 DEF Close, Idle, TypeOK, LedgerUntouched
<1>2. CASE Abort(w) \/ ReplayResult(w)
  BY <1>1, <1>2 DEF Abort, ReplayResult
<1>3. CASE CommitStart(w)
  <2>1. PICK o \in Operations : o = requests[w].op
    BY <1>3, RequestKinds DEF TypeOK, CommitStart, StartRequest
  <2>2. ops[o].state # "absent"
    BY <1>3, <2>1 DEF CommitStart, Dispatchable, Lockable, See
  <2>3. Alike(ops'[o], ops[o])
    BY <1>3, <2>1, <2>2 DEF CommitStart, TypeOK, Row
  <2>4. \A x \in Operations \ {o} : ops'[x] = ops[x]
    BY <1>3, <2>1 DEF CommitStart, TypeOK
  <2> QED
    BY <1>1, <1>3, <2>3, <2>4 DEF CommitStart
<1>4. CASE CommitResult(w)
  <2>1. PICK o \in Operations : o = requests[w].op
    BY <1>4, RequestKinds DEF TypeOK, CommitResult, ResultRequest
  <2>2. PICK body \in Bodies : body = requests[w].body
    BY <1>4, RequestKinds DEF TypeOK, CommitResult, ResultRequest
  <2>3. ops[o].state # "absent" /\ body.status # "absent"
    BY <1>4, <2>1, <2>2, ProtocolAssumption
       DEF CommitResult, ReportsKnown, Present, Body, ResultStates, Terminal
  <2>4. Alike(WithResult(o, body), ops[o])
    BY <2>3 DEF WithResult, TypeOK, Row
  <2>5. ops' = [ops EXCEPT ![o] = WithResult(o, body)]
    BY <1>4, <2>1, <2>2 DEF CommitResult
  <2> QED
    BY <1>1, <1>4, <2>4, <2>5 DEF CommitResult, TypeOK
<1>5. CASE CommitCredential(w) \/ CommitConsume(w)
  <2>1. PICK o \in Operations : o = requests[w].op
    BY <1>5, RequestKinds DEF TypeOK, CommitCredential, CommitConsume, CredentialRequest
  <2>2. requests[w].seen.row = ops[o] /\ ops[o] \in Row
    BY <1>5, <2>1 DEF CommitCredential, CommitConsume, SaveOperation, Writable, TypeOK
  <2>3. PICK changed : SaveOperation(w, changed) /\ Alike(changed, ops[o])
    BY <1>5, <2>2 DEF CommitCredential, CommitConsume, Row
  <2> QED
    BY <1>1, <2>1, <2>3 DEF SaveOperation, TypeOK
<1>6. ASSUME NEW c \in SUBSET Operations,
             \/ CommitNoCommand(w, c)
             \/ \E o \in Operations : CommitLease(w, c, o)
      PROVE  LedgerUntouched
  <2>1. \A x \in Operations :
           \/ ops'[x] \in {Quarantined(ops[x]), ops[x]}
           \/ ops'[x] = Leased(x)
    BY <1>6 DEF CommitNoCommand, CommitLease
  <2>2. \A x \in Operations :
           ops'[x] # ops[x] => ops[x].state # "absent"
    BY <1>6 DEF CommitNoCommand, CommitLease, PollCandidates, Leasable, Before
  <2>3. \A x \in Operations : ops[x].state # "absent" =>
           Alike(Quarantined(ops[x]), ops[x]) /\ Alike(Leased(x), ops[x])
    BY DEF Quarantined, Leased, TypeOK, Row
  <2>4. \A x \in Operations : Alike(ops'[x], ops[x])
    <3> HIDE DEF Alike
    <3>1. \A x : Alike(ops[x], ops[x])
      BY DEF Alike
    <3> QED
      BY <2>1, <2>2, <2>3, <3>1
  <2> QED
    BY <1>1, <1>6, <2>4 DEF CommitNoCommand, CommitLease
<1> QED
  BY <1>2, <1>3, <1>4, <1>5, <1>6

\* Opening a request that is no decision.
LEMMA LedgerOtherOpen ==
    ASSUME TypeOK, NEW w \in Workers, Opens(w),
           ~ \E o \in Operations, u \in Users, d \in {"approved", "rejected"} :
                OpenDecide(w, o, u, d)
    PROVE  LedgerUntouched
<1>1. ASSUME NEW r, r.kind # "decide", Open(w, r), UNCHANGED <<ops, decisions>>
      PROVE  LedgerUntouched
  BY <1>1 DEF Open, LedgerUntouched, TypeOK
<1>2. ASSUME NEW a \in Agents, OpenPoll(w, a)
      PROVE  LedgerUntouched
  BY <1>1, <1>2 DEF OpenPoll
<1>3. ASSUME NEW o \in Operations, OpenStart(w, o)
      PROVE  LedgerUntouched
  BY <1>1, <1>3 DEF OpenStart
<1>4. ASSUME NEW o \in Operations, OpenCredential(w, o) \/ OpenConsume(w, o)
      PROVE  LedgerUntouched
  BY <1>1, <1>4 DEF OpenCredential, OpenConsume
<1>5. ASSUME NEW o \in Operations, NEW body \in Bodies, OpenResult(w, o, body)
      PROVE  LedgerUntouched
  BY <1>1, <1>5 DEF OpenResult
<1>6. ASSUME NEW o \in Operations, NEW s \in Operations, OpenRetry(w, o, s)
      PROVE  LedgerUntouched
  BY <1>1, <1>6 DEF OpenRetry
<1> QED
  BY <1>2, <1>3, <1>4, <1>5, <1>6 DEF Opens

\* Every step keeps the invariant of the ledger.
LEMMA LedgerStep ==
    TypeOK /\ ReportsKnown /\ LedgerInv /\ SnapshotIsolation /\ [Next]_vars
        => LedgerInv'
<1> SUFFICES ASSUME TypeOK, ReportsKnown, LedgerInv, SnapshotIsolation,
                    [Next]_vars
             PROVE  LedgerInv'
  OBVIOUS
<1>1. ASSUME NEW o \in Operations, Author(o)
      PROVE  LedgerInv'
  BY <1>1, LedgerNew DEF Author, MayAuthor
<1>2. ASSUME NEW w \in Workers, CommitRetry(w)
      PROVE  LedgerInv'
  <2>1. PICK s \in Operations : s = requests[w].successor
    BY <1>2, RequestKinds DEF TypeOK, CommitRetry, RetryRequest
  <2>2. \A v \in Workers :
           requests'[v].kind = "decide" => requests'[v] = requests[v]
    BY <1>2 DEF CommitRetry, Close, Idle, TypeOK
  <2> QED
    BY <1>2, <2>1, <2>2, LedgerNew DEF CommitRetry, MayAuthor
<1>3. ASSUME NEW w \in Workers, NEW o \in Operations, NEW u \in Users,
             NEW d \in {"approved", "rejected"}, OpenDecide(w, o, u, d)
      PROVE  LedgerInv'
  BY <1>3, LedgerOpen
<1>4. CASE UNCHANGED <<ops, decisions, requests>>
  BY <1>4, LedgerKept DEF LedgerUntouched
<1>5. ASSUME NEW o \in Operations, LeaseExpires(o)
      PROVE  LedgerInv'
  BY <1>4, <1>5 DEF LeaseExpires
<1>6. ASSUME NEW a \in Agents,
             ToggleEnabled(a) \/ ToggleDrain(a) \/ ReportInventory(a)
      PROVE  LedgerInv'
  BY <1>4, <1>6 DEF ToggleEnabled, ToggleDrain, ReportInventory, SetAgent
<1>7. CASE UNCHANGED vars
  BY <1>4, <1>7 DEF vars
<1> QED
  BY <1>1, <1>2, <1>3, <1>5, <1>6, <1>7, LedgerDecide, LedgerOthers,
     LedgerOtherOpen, LedgerKept
     DEF Next, Opens

\* The invariant of a database with snapshot isolation.
THEOREM LedgerInvariant ==
    ASSUME SnapshotIsolation
    PROVE  Spec => [](TypeOK /\ ReportsKnown /\ LedgerInv)
<1>1. Init => TypeOK /\ ReportsKnown /\ LedgerInv
  BY InitType, ReportsInit, LedgerInit
<1>2. TypeOK /\ ReportsKnown /\ LedgerInv /\ [Next]_vars
         => (TypeOK /\ ReportsKnown /\ LedgerInv)'
  BY StepType, ReportsStep, LedgerStep
<1> QED
  BY <1>1, <1>2, PTL DEF Spec

\* approval_count and approval_status always agree with the approval rows, for
\* every number of approvers and of concurrent requests: OperationApproval's
\* count of what its read view shows loses no approval and no rejection.
THEOREM LedgerExact ==
    ASSUME SnapshotIsolation
    PROVE  Spec => []LedgerAgrees
<1>1. Spec => [](TypeOK /\ ReportsKnown /\ LedgerInv)
  BY LedgerInvariant
<1>2. LedgerInv => LedgerAgrees
  BY DEF LedgerInv
<1> QED
  BY <1>1, <1>2, PTL

\* No two concurrent requests of one approver both record a decision, although
\* the check for an earlier decision locks nothing.
THEOREM DecidesOnce ==
    ASSUME SnapshotIsolation
    PROVE  Spec => []OneDecisionEach
<1>1. Spec => [](TypeOK /\ ReportsKnown /\ LedgerInv)
  BY LedgerInvariant
<1>2. LedgerInv => OneDecisionEach
  BY DEF LedgerInv
<1> QED
  BY <1>1, <1>2, PTL

-----------------------------------------------------------------------------
(***************************************************************************)
(* Dispatch, delivery and results.  An operation that has been queued is   *)
(* bound to a command that its approval rows still grant; its stored       *)
(* result tells its state; and what has reached an agent is the command of *)
(* an operation that is held, runs or has finished.                        *)
(***************************************************************************)
Bound(o) ==
    /\ ops[o].dispatched <=> ops[o].state \notin {"absent", "awaiting_approval"}
    /\ ops[o].dispatched =>
          /\ ApprovalVerdict(o, ops[o], decisions[o]) = "granted"
          /\ ops[o].claims = ClaimsOf(o, decisions[o])

Reported(o) ==
    /\ ops[o].state \in {"absent", "awaiting_approval", "queued"} =>
          ops[o].result = NoResult
    /\ ops[o].result.status \in {"none", "queued"} =>
          ops[o].state \in {"absent", "awaiting_approval", "queued", "leased"}
    /\ ops[o].result.status = "running" => ops[o].state = "running"
    /\ ops[o].result.status \in Terminal => ops[o].state \in Terminal

DispatchInv ==
    /\ \A o \in Operations : Bound(o) /\ Reported(o)
    /\ \A d \in delivered :
          /\ ops[d.op].state \in {"leased", "running"} \cup Terminal
          /\ d.claims = ops[d.op].claims
    /\ \A w \in Workers : requests[w].kind = "result" =>
          \E d \in delivered : d.op = requests[w].op
-----------------------------------------------------------------------------
\* What a request may do to the operations.

\* All that dispatch, polling and reporting read of o is as it was.
Kept(o) ==
    /\ ops'[o].state = ops[o].state
    /\ ops'[o].dispatched = ops[o].dispatched
    /\ ops'[o].claims = ops[o].claims
    /\ ops'[o].lease = ops[o].lease
    /\ ops'[o].result = ops[o].result
    /\ ops'[o].retry_of = ops[o].retry_of
    /\ ops[o].dispatched =>
          /\ ops'[o].approval_status = ops[o].approval_status
          /\ ops'[o].approval_count = ops[o].approval_count
          /\ decisions'[o] = decisions[o]

Quiet == (\A o \in Operations : Kept(o)) /\ delivered' = delivered

Births(o, source) ==
    /\ ~ Present(o)
    /\ \/ source = NoOperation
       \/ /\ source \in Operations
          /\ ops[source].state \in RETRY_STATES
          /\ HasNoRetry(source)
    /\ ops' = [ops EXCEPT ![o] = NewRow(o, source)]
    /\ UNCHANGED <<decisions, delivered>>

Queues(o) ==
    /\ Dispatchable(ops[o])
    /\ ApprovalVerdict(o, ops[o], decisions[o]) = "granted"
    /\ ops' = [ops EXCEPT ![o].state = "queued",
                          ![o].dispatched = TRUE,
                          ![o].claims = ClaimsOf(o, decisions[o])]
    /\ UNCHANGED <<decisions, delivered>>

Leases(o) ==
    /\ Leasable(o)
    /\ ops' = [ops EXCEPT ![o] = Leased(o)]
    /\ delivered' \in {delivered,
                       delivered \cup {[op |-> o, claims |-> ops[o].claims]}}
    /\ UNCHANGED decisions

Reports(o, body) ==
    /\ \E d \in delivered : d.op = o
    /\ MayFollow(ops[o].result, body)
    /\ ops' = [ops EXCEPT ![o] = WithResult(o, body)]
    /\ UNCHANGED <<decisions, delivered>>

Effects ==
    \/ Quiet
    \/ \E o \in Operations :
          \/ \E source \in Operations \cup {NoOperation} : Births(o, source)
          \/ Queues(o) \/ Leases(o)
          \/ \E body \in Bodies : Reports(o, body)

\* Initially nothing is dispatched.
LEMMA DispatchInit == Init => DispatchInv
BY DEF Init, DispatchInv, Bound, Reported, AbsentRow, NoResult, Idle, Terminal

\* Every candidate of a poll is valid: what the poll has seen of it is what is
\* there, and a dispatched operation keeps the approvals its command was bound to.
LEMMA CandidatesAreValid ==
    ASSUME TypeOK, DispatchInv, SnapshotIsolation, NEW w \in Workers,
           NEW c \in SUBSET Operations, PollCandidates(w, c), NEW o \in c
    PROVE  /\ Leasable(o)
           /\ PersistedVerdict(o, requests[w].seen[o]) = "granted"
<1>1. Leasable(o) /\ requests[w].seen[o].row = ops[o]
  <2>1. c \subseteq {x \in Allowed : AgentOf[x] = requests[w].agent /\ Leasable(x)}
    BY DEF PollCandidates
  <2>2. requests[w].seen[o] = See(o)
    BY DEF PollCandidates, Lockable
  <2> QED
    BY <2>1, <2>2 DEF See
<1>2. ops[o].state # "absent" /\ ops[o].dispatched
  BY <1>1 DEF Leasable
<1>3. /\ ApprovalVerdict(o, ops[o], decisions[o]) = "granted"
      /\ ops[o].claims = ClaimsOf(o, decisions[o])
  BY <1>2 DEF DispatchInv, Bound
<1> QED
  BY <1>1, <1>2, <1>3 DEF PersistedVerdict

\* So a poll leases its first candidate, and one without a candidate does nothing.
LEMMA PollEffects ==
    ASSUME TypeOK, DispatchInv, SnapshotIsolation, NEW w \in Workers,
           NEW c \in SUBSET Operations
    PROVE  /\ CommitNoCommand(w, c) => Quiet
           /\ \A o \in Operations : CommitLease(w, c, o) => Leases(o)
<1>1. ASSUME CommitNoCommand(w, c)
      PROVE  Quiet
  <2>1. c = {}
    BY <1>1, CandidatesAreValid DEF CommitNoCommand
  <2>2. \A x \in Operations : ops'[x] = ops[x]
    BY <1>1, <2>1 DEF CommitNoCommand
  <2> QED
    BY <1>1, <2>2 DEF CommitNoCommand, Quiet, Kept
<1>2. ASSUME NEW o \in Operations, CommitLease(w, c, o)
      PROVE  Leases(o)
  <2>1. Before(o, c) = {} /\ Leasable(o)
    BY <1>2, CandidatesAreValid DEF CommitLease, Before
  <2>2. ops' = [ops EXCEPT ![o] = Leased(o)]
    BY <1>2, <2>1 DEF CommitLease, TypeOK
  <2> QED
    BY <1>2, <2>1, <2>2 DEF CommitLease, Leases
<1> QED
  BY <1>1, <1>2

\* An approver's decision reaches only an operation that is not dispatched.
LEMMA DecideEffects ==
    ASSUME TypeOK, LedgerInv, DispatchInv, SnapshotIsolation, NEW w \in Workers,
           CommitDecide(w)
    PROVE  Quiet
<1>1. PICK o \in Operations : o = requests[w].op
  BY SeenAll
<1>2. ops[o].approval_status = "pending"
  BY <1>1, SeenAll
<1>3. ~ ops[o].dispatched
  BY <1>2 DEF DispatchInv, Bound, ApprovalVerdict
<1>4. PICK n : ops' = [ops EXCEPT ![o] = Decided(o, requests[w].decision, n)]
  BY <1>1 DEF CommitDecide
<1>5. \A x \in Operations \ {o} : ops'[x] = ops[x] /\ decisions'[x] = decisions[x]
  BY <1>1, <1>4 DEF CommitDecide, TypeOK
<1>6. Kept(o)
  BY <1>3, <1>4 DEF Kept, Decided, TypeOK, Row
<1> QED
  BY <1>5, <1>6 DEF Quiet, Kept, CommitDecide

\* A saved credential changes nothing else: the row was saved as it is.
LEMMA SaveEffects ==
    ASSUME TypeOK, SnapshotIsolation, NEW w \in Workers,
           CommitCredential(w) \/ CommitConsume(w)
    PROVE  Quiet
<1>1. PICK o \in Operations : o = requests[w].op
  BY RequestKinds DEF TypeOK, CommitCredential, CommitConsume, CredentialRequest
<1>2. requests[w].seen.row = ops[o] /\ ops[o] \in Row
  BY <1>1 DEF CommitCredential, CommitConsume, SaveOperation, Writable, TypeOK
<1>3. \/ ops' = [ops EXCEPT ![o] = [ops[o] EXCEPT !.credential = TRUE]]
      \/ ops' = [ops EXCEPT ![o] = [ops[o] EXCEPT !.consumed = TRUE]]
  BY <1>1, <1>2 DEF CommitCredential, CommitConsume, SaveOperation
<1>4. \A x \in Operations \ {o} : ops'[x] = ops[x]
  BY <1>3 DEF TypeOK
<1>5. UNCHANGED <<decisions, delivered>>
  BY DEF CommitCredential, CommitConsume, SaveOperation
<1>6. Kept(o)
  BY <1>2, <1>3, <1>5 DEF Kept, Row, TypeOK
<1> QED
  BY <1>4, <1>5, <1>6 DEF Quiet, Kept

\* The effects of every step.
LEMMA StepEffects ==
    ASSUME TypeOK, LedgerInv, DispatchInv, SnapshotIsolation, [Next]_vars
    PROVE  Effects
<1>1. CASE UNCHANGED <<ops, decisions, delivered>>
  BY <1>1 DEF Effects, Quiet, Kept
<1>2. ASSUME NEW o \in Operations, Author(o)
      PROVE  Births(o, NoOperation)
  BY <1>2 DEF Author, MayAuthor, Births
<1>3. ASSUME NEW w \in Workers, CommitRetry(w)
      PROVE  \E o, s \in Operations : Births(s, o)
  <2>1. PICK o \in Operations, s \in Operations :
           o = requests[w].op /\ s = requests[w].successor
    BY <1>3, RequestKinds DEF TypeOK, CommitRetry, RetryRequest
  <2>2. requests[w].seen.row = ops[o]
    BY <1>3, <2>1 DEF CommitRetry, Writable
  <2>3. Births(s, o)
    BY <1>3, <2>1, <2>2 DEF CommitRetry, MayAuthor, Births
  <2> QED
    BY <2>3
<1>4. ASSUME NEW w \in Workers, CommitStart(w)
      PROVE  \E o \in Operations : Queues(o)
  <2>1. PICK o \in Operations : o = requests[w].op
    BY <1>4, RequestKinds DEF TypeOK, CommitStart, StartRequest
  <2>2. requests[w].seen.row = ops[o]
    BY <1>4, <2>1 DEF CommitStart, Lockable, See
  <2>3. Queues(o)
    BY <1>4, <2>1, <2>2 DEF CommitStart, Queues
  <2> QED
    BY <2>3
<1>5. ASSUME NEW w \in Workers, CommitResult(w)
      PROVE  \E o \in Operations, body \in Bodies : Reports(o, body)
  <2>1. PICK o \in Operations, body \in Bodies :
           o = requests[w].op /\ body = requests[w].body
    BY <1>5, RequestKinds DEF TypeOK, CommitResult, ResultRequest
  <2>2. \E d \in delivered : d.op = o
    BY <1>5, <2>1 DEF CommitResult, DispatchInv
  <2>3. Reports(o, body)
    BY <1>5, <2>1, <2>2 DEF CommitResult, Reports
  <2> QED
    BY <2>3
<1>6. ASSUME NEW w \in Workers, Opens(w) \/ Abort(w) \/ ReplayResult(w)
      PROVE  UNCHANGED <<ops, decisions, delivered>>
  BY <1>6 DEF Opens, OpenPoll, OpenStart, OpenCredential, OpenConsume, OpenDecide,
              OpenResult, OpenRetry, Abort, ReplayResult
<1>7. ASSUME NEW o \in Operations, LeaseExpires(o)
      PROVE  UNCHANGED <<ops, decisions, delivered>>
  BY <1>7 DEF LeaseExpires
<1>8. ASSUME NEW a \in Agents, ToggleEnabled(a) \/ ToggleDrain(a) \/ ReportInventory(a)
      PROVE  UNCHANGED <<ops, decisions, delivered>>
  BY <1>8 DEF ToggleEnabled, ToggleDrain, ReportInventory, SetAgent
<1>9. CASE UNCHANGED vars
  BY <1>1, <1>9 DEF vars
<1>10. ASSUME NEW w \in Workers, CommitDecide(w) \/ CommitCredential(w) \/ CommitConsume(w)
       PROVE  Quiet
  BY <1>10, DecideEffects, SaveEffects
<1>11. ASSUME NEW w \in Workers, NEW c \in SUBSET Operations,
              CommitNoCommand(w, c) \/ \E o \in Operations : CommitLease(w, c, o)
       PROVE  Quiet \/ \E o \in Operations : Leases(o)
  BY <1>11, PollEffects
<1> QED
  BY <1>1, <1>2, <1>3, <1>4, <1>5, <1>6, <1>7, <1>8, <1>9, <1>10, <1>11
     DEF Next, Opens, Effects

\* Every step keeps it.
LEMMA DispatchQuiet ==
    ASSUME DispatchInv, Quiet,
           \A w \in Workers : requests'[w].kind = "result" =>
              \E d \in delivered' : d.op = requests'[w].op,
           TypeOK
    PROVE  DispatchInv'
<1>1. ASSUME NEW o \in Operations
      PROVE  Bound(o)' /\ Reported(o)'
  BY DEF Quiet, Kept, DispatchInv, Bound, Reported, ApprovalVerdict, ClaimsOf
<1>2. ASSUME NEW d \in delivered'
      PROVE  (/\ ops[d.op].state \in {"leased", "running"} \cup Terminal
              /\ d.claims = ops[d.op].claims)'
  <2>1. d \in delivered /\ d.op \in Operations
    BY DEF Quiet, TypeOK
  <2> QED
    BY <2>1 DEF Quiet, Kept, DispatchInv
<1> QED
  BY <1>1, <1>2 DEF DispatchInv

\* Who reports has been sent a command.
LEMMA ReportersStep ==
    ASSUME TypeOK, DispatchInv, [Next]_vars, delivered \subseteq delivered'
    PROVE  \A w \in Workers : requests'[w].kind = "result" =>
              \E d \in delivered' : d.op = requests'[w].op
<1> SUFFICES ASSUME NEW w \in Workers, requests'[w].kind = "result"
             PROVE  \E d \in delivered' : d.op = requests'[w].op
  OBVIOUS
<1>1. CASE requests'[w] = requests[w]
  BY <1>1 DEF DispatchInv
<1>2. CASE requests'[w] = Idle
  BY <1>2 DEF Idle
<1>3. CASE Opens(w)
  <2>1. PICK o \in Operations, body \in Bodies : OpenResult(w, o, body)
    BY <1>3 DEF Opens, OpenPoll, OpenStart, OpenCredential, OpenConsume,
                OpenDecide, OpenRetry, Open, TypeOK
  <2> QED
    BY <2>1 DEF OpenResult, Open, TypeOK
<1> QED
  BY <1>1, <1>2, <1>3, RequestStep

\* Authoring: an operation that needs no approval is bound to the empty claims.
LEMMA DispatchBirth ==
    ASSUME TypeOK, LedgerInv, DispatchInv, NEW o \in Operations, NEW source,
           Births(o, source)
    PROVE  /\ \A x \in Operations : Bound(x)' /\ Reported(x)'
           /\ \A d \in delivered' :
                 /\ ops'[d.op].state \in {"leased", "running"} \cup Terminal
                 /\ d.claims = ops'[d.op].claims
<1>1. \A x \in Operations \ {o} : ops'[x] = ops[x] /\ decisions'[x] = decisions[x]
  BY DEF Births, TypeOK
<1>2. decisions[o] = {} /\ decisions'[o] = {}
  BY DEF Births, LedgerInv
<1>3. /\ ops'[o].state = IF Required[o] = 0 THEN "queued" ELSE "awaiting_approval"
      /\ ops'[o].approval_status =
            IF Required[o] = 0 THEN "not_required" ELSE "pending"
      /\ ops'[o].dispatched <=> Required[o] = 0
      /\ ops'[o].claims = {}
      /\ ops'[o].result = NoResult
  BY DEF Births, TypeOK, NewRow, AbsentRow
<1>4. Bound(o)' /\ Reported(o)'
  BY <1>2, <1>3 DEF Bound, Reported, ApprovalVerdict, ClaimsOf, HasRejection,
                    NoResult, Terminal
<1>5. \A x \in Operations \ {o} : Bound(x)' /\ Reported(x)'
  BY <1>1 DEF DispatchInv, Bound, Reported
<1>6. \A d \in delivered : d.op \in Operations \ {o}
  BY DEF DispatchInv, Births, Present, Terminal, TypeOK
<1> QED
  BY <1>1, <1>4, <1>5, <1>6 DEF DispatchInv, Births

\* Queueing binds the approvals that were just judged.
LEMMA DispatchQueue ==
    ASSUME TypeOK, DispatchInv, NEW o \in Operations, Queues(o)
    PROVE  /\ \A x \in Operations : Bound(x)' /\ Reported(x)'
           /\ \A d \in delivered' :
                 /\ ops'[d.op].state \in {"leased", "running"} \cup Terminal
                 /\ d.claims = ops'[d.op].claims
<1>1. \A x \in Operations \ {o} : ops'[x] = ops[x] /\ decisions'[x] = decisions[x]
  BY DEF Queues, TypeOK
<1>2. /\ ops'[o].state = "queued" /\ ops'[o].dispatched
      /\ ops'[o].claims = ClaimsOf(o, decisions[o])
      /\ ops'[o].approval_status = ops[o].approval_status
      /\ ops'[o].approval_count = ops[o].approval_count
      /\ ops'[o].result = ops[o].result
      /\ decisions'[o] = decisions[o]
  BY DEF Queues, TypeOK, Row
<1>3. ops[o].state = "awaiting_approval" /\ ops[o].result = NoResult
  BY DEF Queues, Dispatchable, DispatchInv, Reported
<1>4. Bound(o)' /\ Reported(o)'
  BY <1>2, <1>3 DEF Queues, Bound, Reported, ApprovalVerdict, NoResult, Terminal
<1>5. \A x \in Operations \ {o} : Bound(x)' /\ Reported(x)'
  BY <1>1 DEF DispatchInv, Bound, Reported
<1>6. \A d \in delivered : d.op \in Operations \ {o}
  BY <1>3 DEF DispatchInv, Terminal, TypeOK
<1> QED
  BY <1>1, <1>4, <1>5, <1>6 DEF DispatchInv, Queues

\* A lease sends the command the operation is bound to.
LEMMA DispatchLease ==
    ASSUME TypeOK, DispatchInv, NEW o \in Operations, Leases(o)
    PROVE  /\ \A x \in Operations : Bound(x)' /\ Reported(x)'
           /\ \A d \in delivered' :
                 /\ ops'[d.op].state \in {"leased", "running"} \cup Terminal
                 /\ d.claims = ops'[d.op].claims
<1>1. \A x \in Operations \ {o} : ops'[x] = ops[x] /\ decisions'[x] = decisions[x]
  BY DEF Leases, TypeOK
<1>2. /\ ops'[o].state = "leased"
      /\ ops'[o].dispatched = ops[o].dispatched
      /\ ops'[o].claims = ops[o].claims
      /\ ops'[o].approval_status = ops[o].approval_status
      /\ ops'[o].approval_count = ops[o].approval_count
      /\ ops'[o].result = ops[o].result
      /\ decisions'[o] = decisions[o]
  BY DEF Leases, Leased, TypeOK, Row
<1>3. ops[o].state \in {"queued", "leased"} /\ ops[o].dispatched
  BY DEF Leases, Leasable
<1>4. Bound(o)' /\ Reported(o)'
  <2>1. ops[o].result.status \notin {"running"} \cup Terminal
    BY <1>3 DEF DispatchInv, Reported, Terminal, NoResult
  <2> QED
    BY <1>2, <1>3, <2>1 DEF DispatchInv, Bound, Reported, ApprovalVerdict, Terminal
<1>5. \A x \in Operations \ {o} : Bound(x)' /\ Reported(x)'
  BY <1>1 DEF DispatchInv, Bound, Reported
<1>6. ASSUME NEW d \in delivered'
      PROVE  /\ ops'[d.op].state \in {"leased", "running"} \cup Terminal
             /\ d.claims = ops'[d.op].claims
  <2>1. CASE d.op = o
    BY <1>2, <2>1 DEF DispatchInv, Leases
  <2>2. CASE d.op # o
    BY <1>1, <2>2 DEF DispatchInv, Leases, TypeOK
  <2> QED
    BY <2>1, <2>2
<1> QED
  BY <1>4, <1>5, <1>6

\* A report moves an operation that its agent holds or runs; one that has finished
\* accepts no report.
LEMMA ReportMoves ==
    ASSUME TypeOK, DispatchInv, NEW o \in Operations, NEW body \in Bodies,
           Reports(o, body)
    PROVE  /\ ops[o].state \in {"leased", "running"}
           /\ body.status = "queued" => ops[o].state = "leased"
           /\ ops[o].state = "running" => body.status \in Terminal
           /\ Rank(body) > Rank(ops[o].result)
<1>1. ops[o].state \in {"leased", "running"} \cup Terminal
  BY DEF Reports, DispatchInv
<1>2. body.status \in ResultStates
  BY ProtocolAssumption DEF Body
<1>3. Reported(o) /\ MayFollow(ops[o].result, body)
  BY DEF DispatchInv, Reports
<1>4. CASE ops[o].result = NoResult
  <2>1. ops[o].state = "leased"
    BY <1>1, <1>3, <1>4 DEF Reported, NoResult, Terminal
  <2>2. Rank(ops[o].result) = 0 /\ Rank(body) \in {1, 2, 3}
    BY <1>2, <1>4 DEF Rank, NoResult, ResultStates, Terminal
  <2> QED
    BY <2>1, <2>2
<1>5. CASE ops[o].result.status = "queued" /\ body.status # "queued"
  <2>1. ops[o].state = "leased"
    BY <1>1, <1>3, <1>5 DEF Reported, Terminal
  <2>2. Rank(ops[o].result) = 1 /\ Rank(body) \in {2, 3}
    BY <1>2, <1>5 DEF Rank, ResultStates, Terminal
  <2> QED
    BY <1>5, <2>1, <2>2
<1>6. CASE ops[o].result.status = "running" /\ body.status \in Terminal
  <2>1. ops[o].state = "running"
    BY <1>1, <1>3, <1>6 DEF Reported, Terminal
  <2>2. Rank(ops[o].result) = 2 /\ Rank(body) = 3
    BY <1>6 DEF Rank, Terminal
  <2> QED
    BY <1>6, <2>1, <2>2 DEF Terminal
<1> QED
  BY <1>3, <1>4, <1>5, <1>6 DEF MayFollow

\* What a report makes of the row.
LEMMA ReportedRow ==
    ASSUME TypeOK, DispatchInv, NEW o \in Operations, NEW body \in Bodies,
           Reports(o, body)
    PROVE  /\ \A x \in Operations \ {o} : ops'[x] = ops[x]
           /\ ops'[o].result = body
           /\ ops'[o].dispatched = ops[o].dispatched
           /\ ops'[o].claims = ops[o].claims
           /\ ops'[o].approval_status = ops[o].approval_status
           /\ ops'[o].approval_count = ops[o].approval_count
           /\ ops'[o].retry_of = ops[o].retry_of
           /\ body.status = "queued" =>
                 ops'[o].state = "leased" /\ ops'[o].lease = ops[o].lease
           /\ body.status = "running" => ops'[o].state = "running"
           /\ body.status \in Terminal => ops'[o].state \in Terminal
           /\ body.status # "queued" => ops'[o].lease = 0
<1>1. ops'[o] = WithResult(o, body) /\ \A x \in Operations \ {o} : ops'[x] = ops[x]
  BY DEF Reports, TypeOK
<1>2. ops[o] \in Row
  BY DEF TypeOK
<1>3. CASE body.status = "queued"
  <2>1. ops'[o] = [ops[o] EXCEPT !.result = body]
    BY <1>1, <1>3 DEF WithResult
  <2> QED
    BY <1>1, <1>2, <1>3, <2>1, ReportMoves DEF Row, Terminal
<1>4. CASE body.status # "queued"
  <2>1. PICK s \in {"needs_intervention", body.status} :
           /\ ops'[o] = [ops[o] EXCEPT !.result = body, !.lease = 0, !.state = s]
           /\ body.status # "succeeded" => s = body.status
    BY <1>1, <1>4 DEF WithResult, Unverified
  <2> QED
    BY <1>1, <1>2, <1>4, <2>1 DEF Row, Terminal
<1> QED
  BY <1>3, <1>4

\* A report.
LEMMA DispatchReport ==
    ASSUME TypeOK, DispatchInv, NEW o \in Operations, NEW body \in Bodies,
           Reports(o, body)
    PROVE  /\ \A x \in Operations : Bound(x)' /\ Reported(x)'
           /\ \A d \in delivered' :
                 /\ ops'[d.op].state \in {"leased", "running"} \cup Terminal
                 /\ d.claims = ops'[d.op].claims
<1>1. UNCHANGED <<decisions, delivered>>
  BY DEF Reports
<1>2. body.status \in ResultStates
  BY ProtocolAssumption DEF Body
<1>3. ops[o].state \in {"leased", "running"} /\ ops[o].dispatched
  BY ReportMoves DEF DispatchInv, Bound
<1>4. ops'[o].state \in {"leased", "running"} \cup Terminal
  BY <1>2, ReportedRow DEF ResultStates, Terminal
<1>5. Bound(o)'
  BY <1>1, <1>3, <1>4, ReportedRow DEF DispatchInv, Bound, ApprovalVerdict, Terminal
<1>6. Reported(o)'
  BY <1>2, <1>4, ReportedRow DEF Reported, ResultStates, Terminal
<1>7. \A x \in Operations \ {o} : Bound(x)' /\ Reported(x)'
  BY <1>1, ReportedRow DEF DispatchInv, Bound, Reported
<1>8. ASSUME NEW d \in delivered'
      PROVE  /\ ops'[d.op].state \in {"leased", "running"} \cup Terminal
             /\ d.claims = ops'[d.op].claims
  <2>1. d \in delivered /\ d.op \in Operations
    BY <1>1 DEF TypeOK
  <2>2. d.claims = ops[d.op].claims
    BY <2>1 DEF DispatchInv
  <2>3. CASE d.op = o
    BY <1>4, <2>2, <2>3, ReportedRow
  <2>4. CASE d.op # o
    BY <2>1, <2>4, ReportedRow DEF DispatchInv
  <2> QED
    BY <2>3, <2>4
<1> QED
  BY <1>5, <1>6, <1>7, <1>8

\* Every step keeps the invariant of dispatches; StepEffects sorts the steps.
LEMMA DispatchStep ==
    ASSUME TypeOK, LedgerInv, DispatchInv, SnapshotIsolation, [Next]_vars
    PROVE  DispatchInv'
<1>1. Effects
  BY StepEffects
<1>2. delivered \subseteq delivered'
  BY <1>1 DEF Effects, Quiet, Births, Queues, Leases, Reports
<1>3. \A w \in Workers : requests'[w].kind = "result" =>
         \E d \in delivered' : d.op = requests'[w].op
  BY <1>2, ReportersStep
<1>4. ASSUME \A x \in Operations : Bound(x)' /\ Reported(x)',
             \A d \in delivered' :
                 /\ ops'[d.op].state \in {"leased", "running"} \cup Terminal
                 /\ d.claims = ops'[d.op].claims
      PROVE  DispatchInv'
  BY <1>3, <1>4 DEF DispatchInv
<1> QED
  BY <1>1, <1>3, <1>4, DispatchQuiet, DispatchBirth, DispatchQueue, DispatchLease,
     DispatchReport DEF Effects

\* The invariant of dispatch, in a database with snapshot isolation.
THEOREM DispatchInvariant ==
    ASSUME SnapshotIsolation
    PROVE  Spec => [](TypeOK /\ LedgerInv /\ DispatchInv)
<1>1. Spec => [](TypeOK /\ ReportsKnown /\ LedgerInv)
  BY LedgerInvariant
<1>2. TypeOK /\ LedgerInv /\ DispatchInv /\ [Next]_vars => DispatchInv'
  BY DispatchStep
<1> QED
  BY <1>1, <1>2, DispatchInit, PTL DEF Spec

-----------------------------------------------------------------------------
\* Queueing and leasing touch neither the result nor the lineage.
LEMMA RowsLeft ==
    ASSUME TypeOK, NEW o \in Operations, Queues(o) \/ Leases(o), NEW x \in Operations
    PROVE  /\ ops'[x].result = ops[x].result
           /\ ops'[x].retry_of = ops[x].retry_of
<1>1. CASE x # o
  BY <1>1 DEF Queues, Leases, TypeOK
<1>2. CASE x = o /\ Queues(o)
  BY <1>2 DEF Queues, TypeOK, Row
<1>3. CASE x = o /\ Leases(o)
  BY <1>3 DEF Leases, Leased, TypeOK, Row
<1> QED
  BY <1>1, <1>2, <1>3

\* What it implies for leases and results.

\* Whatever the requests do at the same time, a lease that the clock has not
\* passed is neither queued again nor leased again.
THEOREM LeaseIsExclusive ==
    ASSUME SnapshotIsolation
    PROVE  Spec => LeaseHolds
<1> DEFINE Holds == \A o \in Operations :
                       ops[o].state = "leased" /\ ops[o].lease > lapsed[o] =>
                          /\ ops'[o].state # "queued"
                          /\ ops'[o].state = "leased" => ops'[o].lease = ops[o].lease
<1>1. ASSUME TypeOK, LedgerInv, DispatchInv, [Next]_vars
      PROVE  Holds
  <2> SUFFICES ASSUME NEW o \in Operations, ops[o].state = "leased",
                      ops[o].lease > lapsed[o]
               PROVE  /\ ops'[o].state # "queued"
                      /\ ops'[o].state = "leased" => ops'[o].lease = ops[o].lease
    OBVIOUS
  <2>1. CASE Quiet
    BY <2>1 DEF Quiet, Kept
  <2>2. ASSUME NEW x \in Operations, ops'[x] # ops[x], x = o,
               Queues(x) \/ Leases(x) \/ \E source : Births(x, source)
        PROVE  FALSE
    <3>1. ~ Queues(o) /\ ~ \E source : Births(o, source)
      BY DEF Queues, Dispatchable, Births, Present
    <3>2. ops[o].lease \in Nat /\ lapsed[o] \in Nat
      BY <1>1, ProtocolAssumption DEF TypeOK, Row
    <3>3. ~ Leases(o)
      BY <3>2 DEF Leases, Leasable
    <3> QED
      BY <2>2, <3>1, <3>3
  <2>3. ASSUME NEW x \in Operations, NEW body \in Bodies, Reports(x, body)
        PROVE  /\ ops'[o].state # "queued"
               /\ ops'[o].state = "leased" => ops'[o].lease = ops[o].lease
    <3>1. body.status \in ResultStates
      BY ProtocolAssumption DEF Body
    <3> QED
      BY <1>1, <2>3, <3>1, ReportedRow DEF ResultStates, Terminal
  <2>4. ASSUME NEW x \in Operations, x # o,
               Queues(x) \/ Leases(x) \/ \E source : Births(x, source)
        PROVE  ops'[o] = ops[o]
    BY <1>1, <2>4 DEF Queues, Leases, Births, TypeOK
  <2>5. Effects
    BY <1>1, StepEffects
  <2> QED
    BY <2>1, <2>2, <2>3, <2>4, <2>5 DEF Effects
<1>2. TypeOK /\ LedgerInv /\ DispatchInv /\ [Next]_vars => [Holds]_vars
  BY <1>1
<1> QED
  BY <1>2, DispatchInvariant, PTL DEF Spec, LeaseHolds

\* Duplicated, delayed and reordered reports never take a stored result back.
THEOREM ResultsAdvance ==
    ASSUME SnapshotIsolation
    PROVE  Spec => ResultAdvances
<1> DEFINE Advances == \A o \in Operations :
                          \/ ops'[o].result = ops[o].result
                          \/ Rank(ops'[o].result) > Rank(ops[o].result)
<1>1. ASSUME TypeOK, LedgerInv, DispatchInv, [Next]_vars
      PROVE  Advances
  <2> SUFFICES ASSUME NEW o \in Operations
               PROVE  \/ ops'[o].result = ops[o].result
                      \/ Rank(ops'[o].result) > Rank(ops[o].result)
    OBVIOUS
  <2>1. CASE Quiet
    BY <2>1 DEF Quiet, Kept
  <2>2. ASSUME NEW x \in Operations, NEW source, Births(x, source)
        PROVE  ops'[o].result = ops[o].result
    <3>1. ops[x].result = NoResult
      BY <1>1, <2>2 DEF Births, Present, DispatchInv, Reported
    <3> QED
      BY <1>1, <2>2, <3>1 DEF Births, NewRow, AbsentRow, TypeOK
  <2>3. ASSUME NEW x \in Operations, Queues(x) \/ Leases(x)
        PROVE  ops'[o].result = ops[o].result
    BY <1>1, <2>3, RowsLeft
  <2>4. ASSUME NEW x \in Operations, NEW body \in Bodies, Reports(x, body)
        PROVE  \/ ops'[o].result = ops[o].result
               \/ Rank(ops'[o].result) > Rank(ops[o].result)
    BY <1>1, <2>4, ReportMoves, ReportedRow
  <2>5. Effects
    BY <1>1, StepEffects
  <2> QED
    BY <2>1, <2>2, <2>3, <2>4, <2>5 DEF Effects
<1>2. TypeOK /\ LedgerInv /\ DispatchInv /\ [Next]_vars => [Advances]_vars
  BY <1>1
<1> QED
  BY <1>2, DispatchInvariant, PTL DEF Spec, ResultAdvances

(***************************************************************************)
(* Retries.  A row that is not there retries nothing; what is retried has  *)
(* finished, and a finished operation leaves its state no more.            *)
(***************************************************************************)
LineageInv ==
    /\ OneLineage
    /\ \A o \in Operations : ~ Present(o) => ops[o].retry_of = NoOperation

\* No commit gives an operation a second retry, and what is retried stays as it is.
LEMMA LineageStep ==
    ASSUME TypeOK, LedgerInv, DispatchInv, LineageInv, SnapshotIsolation, [Next]_vars
    PROVE  LineageInv'
<1> USE DEF Present
<1>1. \A o \in Operations : ops[o].state \in RETRY_STATES => ops'[o].state \in RETRY_STATES
  <2> SUFFICES ASSUME NEW o \in Operations, ops[o].state \in RETRY_STATES
               PROVE  ops'[o].state \in RETRY_STATES
    OBVIOUS
  <2>1. CASE Quiet
    BY <2>1 DEF Quiet, Kept
  <2>2. ASSUME NEW x \in Operations,
               \/ \E source : Births(x, source)
               \/ Queues(x) \/ Leases(x)
               \/ \E body \in Bodies : Reports(x, body)
        PROVE  x # o /\ ops'[o] = ops[o]
    <3>1. x # o
      BY <2>2, ReportMoves DEF Births, Queues, Dispatchable, Leases, Leasable,
                               RETRY_STATES, Terminal
    <3> QED
      BY <2>2, <3>1 DEF Births, Queues, Leases, Reports, TypeOK
  <2> QED
    BY <2>1, <2>2, StepEffects DEF Effects
<1>2. ASSUME \A o \in Operations : ops'[o].retry_of = ops[o].retry_of
      PROVE  LineageInv'
  BY <1>1, <1>2, PresentStays, OperationsAssumption
     DEF LineageInv, OneLineage
<1>3. ASSUME NEW o \in Operations, NEW source \in Operations \cup {NoOperation},
             Births(o, source)
      PROVE  LineageInv'
  <2>1. /\ ops'[o].retry_of = source /\ ops'[o].state # "absent"
        /\ \A x \in Operations \ {o} : ops'[x] = ops[x]
    BY <1>3 DEF Births, NewRow, AbsentRow, TypeOK
  <2>2. ops[o].retry_of = NoOperation /\ NoOperation \notin Operations
    BY <1>3, OperationsAssumption DEF LineageInv, Births
  <2>3. source # o
    BY <1>3, <2>2 DEF Births, RETRY_STATES, Terminal
  <2> QED
    BY <1>1, <1>3, <2>1, <2>2 DEF LineageInv, OneLineage, Births, HasNoRetry
<1>4. ASSUME NEW o \in Operations,
             Queues(o) \/ Leases(o) \/ \E body \in Bodies : Reports(o, body)
      PROVE  \A x \in Operations : ops'[x].retry_of = ops[x].retry_of
  BY <1>4, ReportedRow, RowsLeft
<1> QED
  BY <1>2, <1>3, <1>4, StepEffects DEF Effects, Quiet, Kept

\* However often and however concurrently a job is retried, it has one lineage.
THEOREM LineageIsOne ==
    ASSUME SnapshotIsolation
    PROVE  Spec => []OneLineage
<1>1. Init => LineageInv
  BY OperationsAssumption DEF Init, LineageInv, OneLineage, AbsentRow, Present
<1>2. TypeOK /\ LedgerInv /\ DispatchInv /\ LineageInv /\ [Next]_vars => LineageInv'
  BY LineageStep
<1>3. LineageInv => OneLineage
  BY DEF LineageInv
<1> QED
  BY <1>1, <1>2, <1>3, DispatchInvariant, PTL DEF Spec

-----------------------------------------------------------------------------
(***************************************************************************)
(* The contract.  Each effect of a request is one step of OperationContract*)
(* or leaves its variables alone.                                          *)
(***************************************************************************)
Commands == SUBSET [by: Workers, approver: Users \ {Requester},
                    decision: {"approved"}]
StageOf == [o \in Operations |-> Stage(ops[o])]
CommandOf == [o \in Operations |->
                 IF ops[o].dispatched THEN ops[o].claims ELSE NoOperation]

\* The claims that a start binds a command to name approvers other than the
\* requester.
LEMMA ClaimsAreCommands ==
    ASSUME TypeOK, LedgerInv, NEW o \in Operations
    PROVE  ClaimsOf(o, decisions[o]) \in Commands
<1>1. decisions[o] \in SUBSET Approval
  BY DEF TypeOK
<1>2. \A d \in decisions[o] : d.approver # Requester
  BY DEF LedgerInv
<1> QED
  BY <1>1, <1>2 DEF ClaimsOf, Approved, Approval, Commands

\* An agent that reports has been sent the operation's command.
LEMMA ReporterWasSent ==
    ASSUME TypeOK, LedgerInv, DispatchInv, NEW o \in Operations,
           \E d \in delivered : d.op = o
    PROVE  \E c \in Commands : [op |-> o, claims |-> c] \in delivered
<1>1. PICK d \in delivered : d.op = o
  OBVIOUS
<1>2. d = [op |-> o, claims |-> d.claims]
  BY <1>1 DEF TypeOK
<1>3. d.claims = ops[o].claims /\ ops[o].dispatched
  BY <1>1 DEF DispatchInv, Bound, Terminal
<1>4. d.claims \in Commands
  BY <1>3, ClaimsAreCommands DEF DispatchInv, Bound
<1> QED
  BY <1>1, <1>2, <1>4

\* A step on one row changes one stage and one command.
LEMMA OneStage ==
    ASSUME TypeOK, NEW o \in Operations, NEW row, ops' = [ops EXCEPT ![o] = row]
    PROVE  /\ StageOf' = [StageOf EXCEPT ![o] = Stage(row)]
           /\ CommandOf' = [CommandOf EXCEPT ![o] =
                               IF row.dispatched THEN row.claims ELSE NoOperation]
<1> DEFINE Command(r) == IF r.dispatched THEN r.claims ELSE NoOperation
<1>1. ops'[o] = row /\ \A x \in Operations \ {o} : ops'[x] = ops[x]
  BY DEF TypeOK
<1>2. /\ StageOf = [x \in Operations |-> Stage(ops[x])]
      /\ StageOf' = [x \in Operations |-> Stage(ops'[x])]
  BY DEF StageOf, Stage
<1>3. StageOf' = [StageOf EXCEPT ![o] = Stage(row)]
  BY <1>1, <1>2
<1>4. CommandOf' = [CommandOf EXCEPT ![o] = Command(row)]
  <2>1. /\ CommandOf = [x \in Operations |-> Command(ops[x])]
        /\ CommandOf' = [x \in Operations |-> Command(ops'[x])]
    BY DEF CommandOf
  <2> HIDE DEF Command
  <2> QED
    BY <1>1, <2>1
<1> QED
  BY <1>3, <1>4

\* Authoring proposes a command, or one that needs no approval is queued at once.
LEMMA ContractBirth ==
    ASSUME TypeOK, LedgerInv, DispatchInv, NEW o \in Operations, NEW source,
           Births(o, source)
    PROVE  Contract!Next
<1> DEFINE row == NewRow(o, source)
<1>1. /\ row.state = IF Required[o] = 0 THEN "queued" ELSE "awaiting_approval"
      /\ row.dispatched <=> Required[o] = 0
      /\ row.claims = {}
  BY DEF NewRow, AbsentRow
<1>2. StageOf[o] = "absent" /\ CommandOf[o] = NoOperation
  BY DEF Births, Present, StageOf, Stage, CommandOf, DispatchInv, Bound
<1>3. /\ StageOf' = [StageOf EXCEPT ![o] = Stage(row)]
      /\ CommandOf' = [CommandOf EXCEPT ![o] =
                          IF row.dispatched THEN row.claims ELSE NoOperation]
  BY OneStage DEF Births
<1> HIDE DEF row
<1>4. CASE Required[o] = 0
  <2>1. Stage(row) = "queued" /\ {} \in Commands
    BY <1>1, <1>4 DEF Stage, Commands
  <2>2. Contract!AuthorQueued(o, {})
    BY <1>1, <1>2, <1>3, <1>4, <2>1
       DEF Contract!AuthorQueued, Contract!Become, Contract!Bind, Births,
           StageOf, CommandOf
  <2> QED
    BY <2>1, <2>2 DEF Contract!Next, Commands
<1>5. CASE Required[o] # 0
  <2>1. Stage(row) = "authored"
    BY <1>1, <1>5 DEF Stage
  <2>2. CommandOf' = CommandOf
    BY <1>1, <1>2, <1>3, <1>5 DEF CommandOf
  <2>3. Contract!Author(o)
    BY <1>2, <1>3, <2>1, <2>2
       DEF Contract!Author, Contract!Become, Births, StageOf, CommandOf
  <2> QED
    BY <2>3 DEF Contract!Next
<1> QED
  BY <1>4, <1>5

\* The last approval queues the command and binds it to its approvers.
LEMMA ContractQueue ==
    ASSUME TypeOK, LedgerInv, DispatchInv, NEW o \in Operations, Queues(o)
    PROVE  Contract!Next
<1> DEFINE claims == ClaimsOf(o, decisions[o])
           row == [ops[o] EXCEPT !.state = "queued", !.dispatched = TRUE,
                                 !.claims = claims]
<1>1. row.state = "queued" /\ row.dispatched /\ row.claims = claims
  BY DEF TypeOK, Row
<1>2. StageOf[o] = "authored"
  BY DEF Queues, Dispatchable, StageOf, Stage
<1>3. ops' = [ops EXCEPT ![o] = row]
  BY DEF Queues, TypeOK
<1> HIDE DEF row
<1>4. /\ StageOf' = [StageOf EXCEPT ![o] = Stage(row)]
      /\ CommandOf' = [CommandOf EXCEPT ![o] =
                          IF row.dispatched THEN row.claims ELSE NoOperation]
  BY <1>3, OneStage
<1>5. Stage(row) = "queued" /\ claims \in Commands
  BY <1>1, ClaimsAreCommands DEF Stage
<1> HIDE DEF claims
<1>6. Contract!Queue(o, claims)
  BY <1>1, <1>2, <1>4, <1>5
     DEF Contract!Queue, Contract!Become, Contract!Bind, Queues, StageOf, CommandOf
<1> QED
  BY <1>5, <1>6 DEF Contract!Next, Commands

\* A lease sends what is queued, or sends again what is held and undecided.
LEMMA ContractLease ==
    ASSUME TypeOK, LedgerInv, DispatchInv, NEW o \in Operations, Leases(o)
    PROVE  Contract!Next
<1> DEFINE row == Leased(o)
<1>1. /\ row.state = "leased" /\ row.dispatched = ops[o].dispatched
      /\ row.claims = ops[o].claims
  BY DEF Leased, TypeOK, Row
<1>2. ops[o].dispatched /\ StageOf[o] \in {"queued", "held"}
  BY DEF Leases, Leasable, StageOf, Stage
<1>3. CommandOf[o] = ops[o].claims
  BY <1>2 DEF CommandOf
<1>4. /\ StageOf' = [StageOf EXCEPT ![o] = Stage(row)]
      /\ CommandOf' = [CommandOf EXCEPT ![o] =
                          IF row.dispatched THEN row.claims ELSE NoOperation]
  BY OneStage DEF Leases
<1> HIDE DEF row
<1>5. Stage(row) = "held"
  BY <1>1 DEF Stage
<1>6. CommandOf' = CommandOf
  BY <1>1, <1>2, <1>3, <1>4 DEF CommandOf
<1>7. delivered' \in {delivered, delivered \cup {[op |-> o, claims |-> CommandOf[o]]}}
  BY <1>3 DEF Leases
<1>8. Contract!Send(o)
  BY <1>2, <1>4, <1>5, <1>6, <1>7
     DEF Contract!Send, Contract!Become, StageOf, CommandOf
<1> QED
  BY <1>8 DEF Contract!Next

\* A result advances the command, ends it, or changes nothing that it promises.
LEMMA ContractReport ==
    ASSUME TypeOK, LedgerInv, DispatchInv, NEW o \in Operations, NEW body \in Bodies,
           Reports(o, body)
    PROVE  Contract!Next \/ UNCHANGED <<StageOf, CommandOf, delivered>>
<1> DEFINE row == WithResult(o, body)
<1>1. row = ops'[o]
  BY DEF Reports, TypeOK
<1>2. row.dispatched = ops[o].dispatched /\ row.claims = ops[o].claims
  BY <1>1, ReportedRow
<1>3. /\ StageOf' = [StageOf EXCEPT ![o] = Stage(row)]
      /\ CommandOf' = [CommandOf EXCEPT ![o] =
                          IF row.dispatched THEN row.claims ELSE NoOperation]
  BY OneStage DEF Reports
<1>4. body.status \in ResultStates
  BY ProtocolAssumption DEF Body
<1> HIDE DEF row
<1>5. CommandOf' = CommandOf /\ delivered' = delivered
  BY <1>2, <1>3 DEF CommandOf, Reports
<1>6. StageOf[o] \in {"held", "running"}
  BY ReportMoves DEF StageOf, Stage
<1>7. \E c \in Commands : [op |-> o, claims |-> c] \in delivered
  BY ReporterWasSent DEF Reports
<1>8. CASE body.status = "queued"
  <2>1. Stage(row) = "held" /\ StageOf[o] = "held"
    BY <1>1, <1>8, ReportedRow, ReportMoves DEF Stage, StageOf
  <2> QED
    BY <1>3, <1>5, <2>1 DEF StageOf
<1>9. CASE body.status = "running"
  <2>1. Stage(row) = "running" /\ StageOf[o] = "held"
    BY <1>1, <1>9, ReportedRow, ReportMoves DEF Stage, StageOf, Terminal
  <2>2. Contract!Run(o)
    BY <1>3, <1>5, <1>7, <2>1
       DEF Contract!Run, Contract!Become, Contract!Sent, StageOf, CommandOf, Commands
  <2> QED
    BY <2>2 DEF Contract!Next
<1>10. CASE body.status \in Terminal
  <2>1. Stage(row) = row.state /\ row.state \in Terminal
    BY <1>1, <1>10, ReportedRow DEF Stage, Terminal
  <2>2. Contract!Finish(o, row.state)
    BY <1>3, <1>5, <1>6, <1>7, <2>1
       DEF Contract!Finish, Contract!Become, Contract!Sent, StageOf, CommandOf, Commands
  <2> QED
    BY <2>1, <2>2 DEF Contract!Next
<1> QED
  BY <1>4, <1>8, <1>9, <1>10 DEF ResultStates

\* Every step of the Controller is a step of its contract, or one the contract
\* does not see.
LEMMA ContractStep ==
    ASSUME TypeOK, LedgerInv, DispatchInv, SnapshotIsolation, [Next]_vars
    PROVE  [Contract!Next]_(Contract!vars)
<1>1. CASE Quiet
  <2>1. StageOf' = StageOf /\ CommandOf' = CommandOf
    BY <1>1 DEF Quiet, Kept, StageOf, Stage, CommandOf
  <2> QED
    BY <1>1, <2>1 DEF Quiet, Contract!vars, StageOf, CommandOf
<1>2. CASE UNCHANGED <<StageOf, CommandOf, delivered>>
  BY <1>2 DEF Contract!vars, StageOf, CommandOf
<1> QED
  BY <1>1, <1>2, StepEffects, ContractBirth, ContractQueue, ContractLease,
     ContractReport DEF Effects

\* The Controller's requests, however they interleave, implement the contract with
\* approvers and agents.
THEOREM KeepsContract ==
    ASSUME SnapshotIsolation
    PROVE  Spec => ImplementsContract
<1>1. Init => Contract!Init
  <2> SUFFICES ASSUME Init PROVE Contract!Init
    OBVIOUS
  <2>1. /\ StageOf = [o \in Operations |-> "absent"]
        /\ CommandOf = [o \in Operations |-> NoOperation]
        /\ delivered = {}
    BY DEF Init, AbsentRow, StageOf, Stage, CommandOf
  <2> QED
    BY <2>1 DEF Contract!Init, StageOf, CommandOf
<1>2. TypeOK /\ LedgerInv /\ DispatchInv /\ [Next]_vars
         => [Contract!Next]_(Contract!vars)
  BY ContractStep
<1> QED
  BY <1>1, <1>2, DispatchInvariant, PTL
     DEF Spec, ImplementsContract, Contract!Spec
=============================================================================
