-------------------------- MODULE StaleViewProofs ---------------------------
(***************************************************************************)
(* What holds whatever the database does with writes over rows newer than  *)
(* a read view: a poll leases only what is approved, a created site        *)
(* succeeds only with its handover complete, and its secret is given out   *)
(* once.                                                                   *)
(***************************************************************************)
EXTENDS OperationProofs

(***************************************************************************)
(* Which command is sent, whatever the database makes of stale reads.      *)
(*                                                                         *)
(* Approval rows are only added, and an operation that is no longer        *)
(* pending never is again: so the decisions that are still open when a     *)
(* command is first sent have seen fewer approvals than it claims.  If one *)
(* of them commits, the approvals outnumber every approval_count there is, *)
(* stored or seen, or there is a rejection: nothing is granted any more.   *)
(***************************************************************************)
Sent(o) == \E d \in delivered : d.op = o
Count(o) == Cardinality(Approved(decisions[o]))

Decider(w, o) == requests[w].kind = "decide" /\ requests[w].op = o
Poller(w) == requests[w].kind = "poll"
Saver(w, o) == requests[w].kind \in {"credential", "consume"} /\ requests[w].op = o

\* What an open decision on o has seen.
DecisionView(w, o) ==
    LET seen == requests[w].seen.decisions
    IN  /\ Present(o)
        /\ seen \subseteq decisions[o]
        /\ \A d \in decisions[o] : d.by = w => d \in seen
        /\ \/ ops[o].approval_status = "pending"
           \/ HasRejection(decisions[o])
           \/ Approved(seen) # Approved(decisions[o])

\* What an open poll has seen.
PollView(w, o) ==
    LET row == requests[w].seen[o].row
    IN  row.state # "absent" /\ row.approval_status # "pending" =>
            Present(o) /\ ops[o].approval_status # "pending"

\* No row that a request judges or writes back counts more than n approvals.
CountsUpTo(o, n) ==
    /\ ops[o].approval_count <= n
    /\ \A w \in Workers :
          /\ Poller(w) => requests[w].seen[o].row.approval_count <= n
          /\ Saver(w, o) => requests[w].seen.row.approval_count <= n

ViewOK(o) ==
    /\ \A w \in Workers :
          /\ Decider(w, o) => DecisionView(w, o)
          /\ Poller(w) => PollView(w, o)
          /\ Saver(w, o) => Sent(o)
    /\ ops[o].credential => Sent(o)
    /\ CountsUpTo(o, Count(o))
    /\ Required[o] = 0 => ops[o].claims = {}

\* An operation whose command has been sent.
Settled(o) ==
    /\ Present(o)
    /\ ops[o].approval_status # "pending"
    /\ \A w \in Workers :
          Saver(w, o) => requests[w].seen.row.approval_status # "pending"
    /\ Required[o] # 0 =>
          /\ ops[o].claims \subseteq Approved(decisions[o])
          /\ \A w \in Workers : Decider(w, o) =>
                /\ Approved(requests[w].seen.decisions) \subseteq ops[o].claims
                /\ Approved(requests[w].seen.decisions) # ops[o].claims
          /\ \/ ops[o].claims = Approved(decisions[o])
             \/ HasRejection(decisions[o])
             \/ CountsUpTo(o, Count(o) - 1)

SentInv ==
    /\ \A o \in Operations : ViewOK(o) /\ (Sent(o) => Settled(o))
    /\ \A d \in delivered : d.claims = ops[d.op].claims

\* Initially nothing is seen or sent.
LEMMA SentInit == Init => SentInv
<1> SUFFICES ASSUME Init, NEW o \in Operations
             PROVE  ViewOK(o)
  BY DEF Init, SentInv, Sent
<1>1. Count(o) = 0
  <2>1. Approved(decisions[o]) = {}
    BY DEF Init, Approved
  <2> QED
    BY <2>1, FS_EmptySet DEF Count
<1> QED
  BY <1>1 DEF Init, ViewOK, Sent, CountsUpTo, Decider, Poller, Saver, AbsentRow, Idle

\* The approvals can be counted.
LEMMA CountType ==
    ASSUME TypeOK, NEW o \in Operations
    PROVE  Count(o) \in Nat
BY CountIsNat DEF TypeOK, Approved, Count

-----------------------------------------------------------------------------
\* Steps that leave an operation's approvals, claims and counts alone.

\* No request is opened that decides, polls or saves.
NoView ==
    \A w \in Workers :
        \/ requests'[w] = requests[w]
        \/ requests'[w].kind \notin {"decide", "poll", "credential", "consume"}

SameRow(o) ==
    /\ decisions'[o] = decisions[o]
    /\ ops'[o].approval_count = ops[o].approval_count
    /\ ops'[o].approval_status = ops[o].approval_status
    /\ ops'[o].credential = ops[o].credential
    /\ Present(o) => Present(o)'

\* A step that leaves a row's decisions alone and opens no new view of it.
LEMMA ViewKept ==
    ASSUME NoView, NEW o \in Operations, SameRow(o), ViewOK(o),
           delivered \subseteq delivered', Required[o] = 0 => ops'[o].claims = {}
    PROVE  ViewOK(o)'
<1>1. Count(o)' = Count(o) /\ (Sent(o) => Sent(o)')
  BY DEF SameRow, Count, Sent
<1>2. CountsUpTo(o, Count(o))'
  BY <1>1 DEF NoView, SameRow, ViewOK, CountsUpTo, Poller, Saver
<1>3. ASSUME NEW w \in Workers
      PROVE  (/\ Decider(w, o) => DecisionView(w, o)
              /\ Poller(w) => PollView(w, o)
              /\ Saver(w, o) => Sent(o))'
  <2>1. CASE requests'[w] = requests[w]
    BY <1>1, <2>1 DEF SameRow, ViewOK, Decider, Poller, Saver, DecisionView, PollView
  <2>2. CASE requests'[w].kind \notin {"decide", "poll", "credential", "consume"}
    BY <2>2 DEF Decider, Poller, Saver
  <2> QED
    BY <2>1, <2>2 DEF NoView
<1> QED
  BY <1>1, <1>2, <1>3 DEF ViewOK, SameRow

\* The same of a row on which the approvals are settled.
LEMMA SettledKept ==
    ASSUME NoView, NEW o \in Operations, SameRow(o), Settled(o),
           ops'[o].claims = ops[o].claims
    PROVE  Settled(o)'
<1>1. Count(o)' = Count(o)
  BY DEF SameRow, Count
<1>2. CountsUpTo(o, Count(o) - 1) => CountsUpTo(o, Count(o) - 1)'
  BY <1>1 DEF NoView, SameRow, CountsUpTo, Poller, Saver
<1>3. ASSUME NEW w \in Workers
      PROVE  /\ Saver(w, o)' => Saver(w, o) /\ requests'[w] = requests[w]
             /\ Decider(w, o)' => Decider(w, o) /\ requests'[w] = requests[w]
  BY DEF NoView, Saver, Decider
<1> QED
  BY <1>2, <1>3 DEF Settled, SameRow

\* A step that keeps every row so far keeps the invariant.
LEMMA SentKept ==
    ASSUME TypeOK, SentInv, NoView, delivered' = delivered,
           \A o \in Operations : SameRow(o) /\ ops'[o].claims = ops[o].claims
    PROVE  SentInv'
<1>1. \A o \in Operations : ViewOK(o)'
  BY ViewKept DEF SentInv, ViewOK
<1>2. \A o \in Operations : Sent(o)' => Settled(o)'
  BY SettledKept DEF SentInv, Sent
<1>3. \A d \in delivered' : d.claims = ops'[d.op].claims
  BY DEF SentInv, TypeOK
<1> QED
  BY <1>1, <1>2, <1>3 DEF SentInv

\* A request that ends.
LEMMA CloseNoView ==
    ASSUME TypeOK, NEW w \in Workers, Close(w)
    PROVE  NoView
BY DEF TypeOK, Close, NoView, Idle

\* What a step other than a decision, an authoring or a start, a lease or a save
\* does to the rows.
LEMMA SentOthers ==
    ASSUME TypeOK, SentInv, [Next]_vars, NEW w \in Workers,
           \/ Abort(w) \/ ReplayResult(w) \/ CommitResult(w)
           \/ \E c \in SUBSET Operations : CommitNoCommand(w, c)
    PROVE  SentInv'
<1> DEFINE Alike(o) == /\ decisions'[o] = decisions[o]
                       /\ ops'[o].approval_count = ops[o].approval_count
                       /\ ops'[o].approval_status = ops[o].approval_status
                       /\ ops'[o].credential = ops[o].credential
                       /\ ops'[o].claims = ops[o].claims
<1>1. ASSUME \A o \in Operations : Alike(o), Close(w), delivered' = delivered
      PROVE  SentInv'
  <2>1. \A o \in Operations : SameRow(o)
    BY <1>1, PresentStays DEF SameRow
  <2> QED
    BY <1>1, <2>1, CloseNoView, SentKept
<1>2. CASE Abort(w) \/ ReplayResult(w)
  BY <1>1, <1>2 DEF Abort, ReplayResult
<1>3. CASE CommitResult(w)
  <2>1. PICK o \in Operations, body \in Bodies :
           o = requests[w].op /\ body = requests[w].body
    BY <1>3, RequestKinds DEF TypeOK, CommitResult, ResultRequest
  <2>2. ops' = [ops EXCEPT ![o] = WithResult(o, body)]
    BY <1>3, <2>1 DEF CommitResult
  <2>3. \A x \in Operations \ {o} : ops'[x] = ops[x]
    BY <2>2 DEF TypeOK
  <2>4. Alike(o)
    BY <1>3, <2>2 DEF CommitResult, WithResult, TypeOK, Row
  <2> QED
    BY <1>1, <1>3, <2>3, <2>4 DEF CommitResult
<1>4. ASSUME NEW c \in SUBSET Operations, CommitNoCommand(w, c)
      PROVE  SentInv'
  <2>1. \A x \in Operations : ops'[x] \in {Quarantined(ops[x]), ops[x]}
    BY <1>4 DEF CommitNoCommand
  <2>2. \A x \in Operations : Alike(x)
    BY <1>4, <2>1 DEF CommitNoCommand, Quarantined, TypeOK, Row
  <2> QED
    BY <1>1, <1>4, <2>2 DEF CommitNoCommand
<1> QED
  BY <1>2, <1>3, <1>4

-----------------------------------------------------------------------------
\* Opening a request.

\* The invariant after w has opened a request, in terms of what it opened.
LEMMA SentOpen ==
    ASSUME TypeOK, SentInv, NEW w \in Workers, NEW r, Open(w, r),
           UNCHANGED <<ops, decisions, delivered>>,
           \A o \in Operations :
              /\ Decider(w, o)' => DecisionView(w, o)' /\ ~ Sent(o)
              /\ Poller(w)' => PollView(w, o)' /\ r.seen[o].row = ops[o]
              /\ Saver(w, o)' => Sent(o) /\ r.seen.row = ops[o]
    PROVE  SentInv'
<1>1. requests'[w] = r /\ \A v \in Workers \ {w} : requests'[v] = requests[v]
  BY DEF Open, TypeOK
<1>2. ASSUME NEW o \in Operations
      PROVE  ViewOK(o)' /\ (Sent(o)' => Settled(o)')
  <2>1. ASSUME NEW n, CountsUpTo(o, n)
        PROVE  CountsUpTo(o, n)'
    BY <1>1, <2>1 DEF CountsUpTo, Poller, Saver
  <2>2. Count(o)' = Count(o) /\ (Sent(o)' <=> Sent(o)) /\ (Present(o)' <=> Present(o))
    BY DEF Count, Sent, Present
  <2>3. ViewOK(o) /\ (Sent(o) => Settled(o))
    BY DEF SentInv
  <2>4. CountsUpTo(o, Count(o))' /\ (CountsUpTo(o, Count(o) - 1) => CountsUpTo(o, Count(o) - 1)')
    BY <2>1, <2>2, <2>3 DEF ViewOK, CountsUpTo
  <2>5. ASSUME NEW v \in Workers
        PROVE  (/\ Decider(v, o) => DecisionView(v, o)
                /\ Poller(v) => PollView(v, o)
                /\ Saver(v, o) => Sent(o))'
    <3>1. CASE v = w
      BY <3>1, <2>2
    <3>2. CASE v # w
      BY <1>1, <2>2, <2>3, <3>2
         DEF ViewOK, Decider, Poller, Saver, DecisionView, PollView
    <3> QED
      BY <3>1, <3>2
  <2>6. ViewOK(o)'
    BY <2>2, <2>3, <2>4, <2>5 DEF ViewOK
  <2>7. ASSUME Sent(o)
        PROVE  Settled(o)'
    <3>1. \A v \in Workers :
             /\ Saver(v, o)' =>
                   \/ requests'[v].seen.row = ops[o]
                   \/ Saver(v, o) /\ requests'[v] = requests[v]
             /\ Decider(v, o)' => Decider(v, o) /\ requests'[v] = requests[v]
      BY <1>1, <2>7 DEF Saver, Decider
    <3> QED
      BY <2>2, <2>3, <2>4, <2>7, <3>1 DEF Settled
  <2> QED
    BY <2>2, <2>6, <2>7
<1>3. \A d \in delivered' : d.claims = ops'[d.op].claims
  BY DEF SentInv
<1> QED
  BY <1>2, <1>3 DEF SentInv

\* The requests that open.
LEMMA SentOpens ==
    ASSUME TypeOK, SentInv, NEW w \in Workers, Opens(w)
    PROVE  SentInv'
<1>0. \A r : Open(w, r) => requests'[w] = r
  BY DEF Open, TypeOK
<1> USE DEF Decider, Poller, Saver
<1>1. ASSUME NEW a \in Agents, OpenPoll(w, a)
      PROVE  SentInv'
  <2> DEFINE r == [kind |-> "poll", agent |-> a,
                   seen |-> [x \in Operations |-> See(x)]]
  <2>1. Open(w, r) /\ UNCHANGED <<ops, decisions, delivered>>
    BY <1>1 DEF OpenPoll
  <2>2. \A o \in Operations : r.seen[o].row = ops[o]
    BY DEF See
  <2>3. r.kind = "poll"
    OBVIOUS
  <2> HIDE DEF r
  <2>4. requests'[w] = r
    BY <1>0, <2>1
  <2>5. \A o \in Operations : PollView(w, o)'
    BY <2>1, <2>2, <2>4 DEF PollView, Present
  <2> QED
    BY <2>1, <2>2, <2>3, <2>4, <2>5, SentOpen
<1>2. ASSUME NEW o \in Operations, OpenCredential(w, o) \/ OpenConsume(w, o)
      PROVE  SentInv'
  <2>1. PICK r : /\ Open(w, r) /\ r.kind \in {"credential", "consume"} /\ r.op = o
                 /\ r.seen.row = ops[o]
    BY <1>2 DEF OpenCredential, OpenConsume, See
  <2>2. Sent(o) /\ UNCHANGED <<ops, decisions, delivered>>
    BY <1>2 DEF OpenCredential, OpenConsume, SentInv, ViewOK, Sent
  <2> QED
    BY <1>0, <2>1, <2>2, SentOpen
<1>3. ASSUME NEW o \in Operations, NEW u \in Users, NEW d \in {"approved", "rejected"},
             OpenDecide(w, o, u, d)
      PROVE  SentInv'
  <2> DEFINE r == [kind |-> "decide", op |-> o, actor |-> u, decision |-> d,
                   seen |-> See(o)]
  <2>1. Open(w, r) /\ UNCHANGED <<ops, decisions, delivered>>
    BY <1>3 DEF OpenDecide
  <2>2. r.kind = "decide" /\ r.op = o /\ r.seen.decisions = decisions[o]
    BY DEF See
  <2> HIDE DEF r
  <2>3. requests'[w] = r
    BY <1>0, <2>1
  <2>4. Present(o) /\ ops[o].approval_status = "pending"
    BY <1>3 DEF OpenDecide
  <2>5. DecisionView(w, o)' /\ ~ Sent(o)
    BY <2>1, <2>2, <2>3, <2>4 DEF DecisionView, Present, SentInv, Settled
  <2> QED
    BY <2>1, <2>2, <2>3, <2>5, SentOpen
<1>4. ASSUME NEW r, Open(w, r), r.kind \in {"start", "result", "retry"},
             UNCHANGED <<ops, decisions, delivered>>
      PROVE  SentInv'
  BY <1>0, <1>4, SentOpen
<1>5. ASSUME NEW o \in Operations, OpenStart(w, o)
      PROVE  SentInv'
  BY <1>4, <1>5 DEF OpenStart
<1>6. ASSUME NEW o \in Operations, NEW body \in Bodies, OpenResult(w, o, body)
      PROVE  SentInv'
  BY <1>4, <1>6 DEF OpenResult
<1>7. ASSUME NEW o \in Operations, NEW s \in Operations, OpenRetry(w, o, s)
      PROVE  SentInv'
  BY <1>4, <1>7 DEF OpenRetry
<1> QED
  BY <1>1, <1>2, <1>3, <1>5, <1>6, <1>7 DEF Opens

-----------------------------------------------------------------------------
\* The commits that write approvals, claims and whole documents.

\* A new operation has been seen by nobody.
LEMMA SentBirth ==
    ASSUME TypeOK, SentInv, [Next]_vars, NEW o \in Operations, NEW source,
           ~ Present(o), ops' = [ops EXCEPT ![o] = NewRow(o, source)],
           UNCHANGED <<decisions, delivered>>, NoView
    PROVE  SentInv'
<1>1. /\ ops'[o].approval_count = 0 /\ ops'[o].claims = {}
      /\ ~ ops'[o].credential
      /\ \A x \in Operations \ {o} : ops'[x] = ops[x]
  BY DEF NewRow, AbsentRow, TypeOK
<1>2. ViewOK(o) /\ ~ Sent(o)
  BY DEF SentInv, Settled
<1>3. \A x \in Operations \ {o} : SameRow(x) /\ ops'[x].claims = ops[x].claims
  BY <1>1 DEF SameRow, Present
<1>4. ASSUME NEW x \in Operations \ {o}
      PROVE  ViewOK(x)' /\ (Sent(x)' => Settled(x)')
  BY <1>3, ViewKept, SettledKept DEF SentInv, ViewOK, Sent
<1>5. ViewOK(o)'
  <2>1. Count(o)' = Count(o) /\ Count(o) \in Nat /\ (Sent(o)' <=> Sent(o))
    BY CountType DEF Count, Sent
  <2>2. CountsUpTo(o, Count(o))'
    BY <1>1, <1>2, <2>1 DEF NoView, ViewOK, CountsUpTo, Poller, Saver
  <2>3. ASSUME NEW v \in Workers
        PROVE  (/\ Decider(v, o) => DecisionView(v, o)
                /\ Poller(v) => PollView(v, o)
                /\ Saver(v, o) => Sent(o))'
    <3>1. CASE requests'[v] = requests[v]
      BY <1>2, <2>1, <3>1 DEF ViewOK, Decider, Poller, Saver, DecisionView, PollView
    <3>2. CASE requests'[v].kind \notin {"decide", "poll", "credential", "consume"}
      BY <3>2 DEF Decider, Poller, Saver
    <3> QED
      BY <3>1, <3>2 DEF NoView
  <2> QED
    BY <1>1, <2>2, <2>3 DEF ViewOK
<1>6. ~ Sent(o)'
  BY <1>2 DEF Sent
<1>7. \A d \in delivered' : d.claims = ops'[d.op].claims
  <2>1. \A d \in delivered : d.op \in Operations \ {o}
    BY <1>2 DEF Sent, TypeOK
  <2> QED
    BY <1>1, <2>1 DEF SentInv
<1> QED
  BY <1>4, <1>5, <1>6, <1>7 DEF SentInv

\* A bound on the counts can be relaxed.
LEMMA CountsGrow ==
    ASSUME TypeOK, NEW o \in Operations, NEW m \in Nat, CountsUpTo(o, m),
           NEW n \in Nat, m <= n
    PROVE  CountsUpTo(o, n)
<1>1. \A row \in Row : row.approval_count <= m => row.approval_count <= n
  BY DEF Row
<1>2. ops[o] \in Row
  BY DEF TypeOK
<1>3. ASSUME NEW w \in Workers, Poller(w)
      PROVE  requests[w].seen[o].row \in Row
  BY <1>3, RequestKinds DEF Poller, TypeOK, PollRequest, RowView
<1>4. ASSUME NEW w \in Workers, Saver(w, o)
      PROVE  requests[w].seen.row \in Row
  BY <1>4, RequestKinds DEF Saver, TypeOK, CredentialRequest, RowView
<1> QED
  BY <1>1, <1>2, <1>3, <1>4 DEF CountsUpTo

\* A decision's approval row is new: its approver has seen no earlier one, and
\* an earlier row of the same worker would have been seen.
LEMMA DecisionIsNew ==
    ASSUME TypeOK, SentInv, NEW w \in Workers, CommitDecide(w)
    PROVE  LET r == requests[w]
               row == [by |-> w, approver |-> r.actor, decision |-> r.decision]
           IN  /\ r.op \in Operations
               /\ row \in Approval
               /\ row \notin decisions[r.op]
               /\ Decider(w, r.op) /\ DecisionView(w, r.op)
<1> DEFINE r == requests[w]
           row == [by |-> w, approver |-> r.actor, decision |-> r.decision]
<1>1. r \in DecideRequest
  BY RequestKinds DEF TypeOK, CommitDecide
<1>2. r.op \in Operations /\ row \in Approval
  BY <1>1 DEF DecideRequest, Approval
<1>3. Decider(w, r.op)
  BY <1>1 DEF Decider, DecideRequest
<1>4. DecisionView(w, r.op)
  BY <1>2, <1>3 DEF SentInv, ViewOK
<1>5. row \notin r.seen.decisions
  BY DEF CommitDecide, MayDecide
<1>6. row \notin decisions[r.op]
  BY <1>4, <1>5 DEF DecisionView
<1> QED
  BY <1>2, <1>3, <1>4, <1>6

\* The commit of a decision.
LEMMA SentDecide ==
    ASSUME TypeOK, SentInv, NEW w \in Workers, CommitDecide(w)
    PROVE  SentInv'
<1> DEFINE r == requests[w]
           row == [by |-> w, approver |-> r.actor, decision |-> r.decision]
<1>0. PICK o \in Operations : o = r.op
  BY DecisionIsNew
<1> DEFINE all == decisions[o]
           seen == r.seen.decisions
           count == Cardinality(Approved(seen \cup {row}))
<1>1. /\ row \in Approval /\ row \notin all
      /\ Decider(w, o) /\ DecisionView(w, o)
  BY <1>0, DecisionIsNew
<1>2. all \in SUBSET Approval /\ seen \in SUBSET all /\ row \notin seen
  BY <1>1 DEF TypeOK, DecisionView
<1>3. /\ decisions' = [decisions EXCEPT ![o] = all \cup {row}]
      /\ ops' = [ops EXCEPT ![o] = Decided(o, r.decision, count)]
      /\ Close(w) /\ delivered' = delivered
  BY <1>0 DEF CommitDecide
<1>4. decisions'[o] = all \cup {row}
  BY <1>3 DEF TypeOK
<1>5. NoView
  BY <1>3, CloseNoView
<1>6. row.decision = r.decision /\ row.by = w
  OBVIOUS
<1>7. /\ Count(o) = Cardinality(Approved(all)) /\ Count(o)' = Cardinality(Approved(all \cup {row}))
      /\ Count(o) \in Nat
  BY <1>4, CountType DEF Count
<1>8. IsFiniteSet(Approved(all)) /\ Approved(seen) \in SUBSET Approved(all)
  BY <1>2, ApprovalsAreFinite DEF Approved
<1>9. /\ Cardinality(Approved(seen)) \in Nat
      /\ Cardinality(Approved(seen)) <= Count(o)
      /\ Cardinality(Approved(seen)) = Count(o) => Approved(seen) = Approved(all)
  BY <1>7, <1>8, FS_Subset, FS_CardinalityType
<1> HIDE DEF row, all, seen
<1>10. Count(o)' = IF r.decision = "approved" THEN Count(o) + 1 ELSE Count(o)
  BY <1>1, <1>2, <1>6, <1>7, OneMore
<1>11. r.decision = "approved" => count = Cardinality(Approved(seen)) + 1
  BY <1>1, <1>2, <1>6, OneMore, SMT
<1> HIDE DEF count
<1>12. r.decision \in {"approved", "rejected"}
  BY <1>1, <1>6 DEF Approval
<1>13. /\ ops'[o].state = ops[o].state
       /\ ops'[o].claims = ops[o].claims
       /\ ops'[o].credential = ops[o].credential
       /\ r.decision = "rejected" => /\ ops'[o].approval_count = ops[o].approval_count
                                     /\ ops'[o].approval_status = "rejected"
       /\ r.decision = "approved" => ops'[o].approval_count = count
       /\ ops'[o].approval_status \in {ops[o].approval_status, "approved", "rejected"}
  BY <1>3, <1>12 DEF Decided, TypeOK, Row
<1>14. \A x \in Operations \ {o} : ops'[x] = ops[x] /\ decisions'[x] = decisions[x]
  BY <1>3 DEF TypeOK
<1>15. \A x \in Operations : Sent(x)' <=> Sent(x)
  BY <1>3 DEF Sent
<1>16. ASSUME NEW x \in Operations \ {o}
       PROVE  ViewOK(x)' /\ (Sent(x)' => Settled(x)')
  <2>1. SameRow(x) /\ ops'[x].claims = ops[x].claims
    BY <1>14 DEF SameRow, Present
  <2>2. ViewOK(x) /\ (Sent(x) => Settled(x))
    BY DEF SentInv
  <2>3. ViewOK(x)'
    BY <1>3, <1>5, <2>1, <2>2, ViewKept DEF ViewOK
  <2> QED
    BY <1>5, <1>15, <2>1, <2>2, <2>3, SettledKept
<1>17. ViewOK(o) /\ (Sent(o) => Settled(o))
  BY DEF SentInv
<1>18. HasRejection(all) => HasRejection(all \cup {row})
  BY DEF HasRejection
<1>19. r.decision = "rejected" => HasRejection(decisions'[o])
  BY <1>4, <1>6 DEF HasRejection
<1>20. r.decision = "approved" => row \in Approved(decisions'[o])
  BY <1>4, <1>6 DEF Approved
<1>21. Approved(all) \subseteq Approved(decisions'[o])
  BY <1>4 DEF Approved
<1>22. ASSUME NEW n \in Nat, CountsUpTo(o, n),
              r.decision = "approved" => count <= n
       PROVE  CountsUpTo(o, n)'
  BY <1>5, <1>12, <1>13, <1>22 DEF NoView, CountsUpTo, Poller, Saver
<1>23. ASSUME NEW v \in Workers, Decider(v, o)'
       PROVE  /\ v # w /\ requests'[v] = requests[v] /\ Decider(v, o)
              /\ DecisionView(v, o)'
  <2>1. v # w /\ requests'[v] = requests[v] /\ Decider(v, o) /\ DecisionView(v, o)
    BY <1>3, <1>17, <1>23 DEF Close, Idle, Decider, TypeOK, ViewOK
  <2>2. row \notin requests[v].seen.decisions
    BY <1>1, <2>1 DEF DecisionView, all
  <2>3. \A d \in decisions'[o] : d.by = v => d \in requests[v].seen.decisions
    BY <1>4, <1>6, <2>1 DEF DecisionView, all
  <2>4. r.decision = "approved" =>
           Approved(requests[v].seen.decisions) # Approved(decisions'[o])
    BY <1>20, <2>2 DEF Approved
  <2>5. Present(o)' /\ requests[v].seen.decisions \subseteq decisions'[o]
    BY <1>4, <1>13, <2>1 DEF Present, DecisionView, all
  <2> QED
    BY <1>12, <1>19, <2>1, <2>3, <2>4, <2>5 DEF DecisionView
<1>24. ViewOK(o)'
  <2>1. CountsUpTo(o, Count(o)')
    BY <1>7, <1>10, <1>12, <1>17, CountsGrow DEF ViewOK
  <2>2. CountsUpTo(o, Count(o))'
    BY <1>7, <1>9, <1>10, <1>11, <1>12, <1>22, <2>1
  <2>3. ASSUME NEW v \in Workers
        PROVE  (Poller(v) => PollView(v, o))' /\ (Saver(v, o)' => Sent(o)')
    BY <1>5, <1>13, <1>15, <1>17 DEF NoView, Poller, Saver, ViewOK, PollView, Present
  <2> QED
    BY <1>13, <1>15, <1>17, <1>23, <2>2, <2>3 DEF ViewOK
<1>25. ASSUME Sent(o)
       PROVE  Settled(o)'
  <2>1. Settled(o)
    BY <1>17, <1>25
  <2>2. /\ Present(o)' /\ ops'[o].approval_status # "pending"
        /\ \A v \in Workers : Saver(v, o)' =>
              requests'[v].seen.row.approval_status # "pending"
    BY <1>5, <1>13, <2>1 DEF NoView, Saver, Settled, Present
  <2>3. ASSUME Required[o] # 0, r.decision = "approved"
        PROVE  CountsUpTo(o, Count(o) - 1)'
    <3>1. Approved(seen) # Approved(all)
      BY <1>1, <2>1, <2>3 DEF Settled, all, seen
    <3>2. count <= Count(o)
      BY <1>7, <1>9, <1>11, <2>3, <3>1
    <3>3. CountsUpTo(o, Count(o))
      BY <1>17 DEF ViewOK
    <3>4. Count(o)' - 1 = Count(o)
      BY <1>7, <1>10, <2>3
    <3> QED
      BY <1>7, <1>22, <3>2, <3>3, <3>4
  <2>4. ASSUME Required[o] # 0
        PROVE  ops'[o].claims \subseteq Approved(decisions'[o])
    BY <1>13, <1>21, <2>1, <2>4 DEF Settled, all
  <2>5. ASSUME Required[o] # 0, NEW v \in Workers, Decider(v, o)'
        PROVE  /\ Approved(requests'[v].seen.decisions) \subseteq ops'[o].claims
               /\ Approved(requests'[v].seen.decisions) # ops'[o].claims
    BY <1>13, <1>23, <2>1, <2>5 DEF Settled
  <2> QED
    BY <1>12, <1>19, <2>2, <2>3, <2>4, <2>5 DEF Settled
<1>26. \A d \in delivered' : d.claims = ops'[d.op].claims
  BY <1>3, <1>13, <1>14 DEF SentInv, TypeOK
<1> QED
  BY <1>15, <1>16, <1>24, <1>25, <1>26 DEF SentInv

\* A start that is granted binds the approvals there are: for a command that has
\* been sent, the ones that it was sent with.
LEMMA SentStart ==
    ASSUME TypeOK, SentInv, [Next]_vars, NEW w \in Workers, CommitStart(w)
    PROVE  SentInv'
<1>1. PICK o \in Operations : o = requests[w].op
  BY RequestKinds DEF TypeOK, CommitStart, StartRequest
<1>2. /\ ApprovalVerdict(o, ops[o], decisions[o]) = "granted"
      /\ ops' = [ops EXCEPT ![o].state = "queued", ![o].dispatched = TRUE,
                            ![o].claims = ClaimsOf(o, decisions[o])]
      /\ Close(w) /\ UNCHANGED <<decisions, delivered>>
  BY <1>1 DEF CommitStart
<1>3. /\ ops'[o].approval_count = ops[o].approval_count
      /\ ops'[o].approval_status = ops[o].approval_status
      /\ ops'[o].credential = ops[o].credential
      /\ ops'[o].claims = ClaimsOf(o, decisions[o])
  BY <1>2 DEF TypeOK, Row
<1>4. \A x \in Operations \ {o} : ops'[x] = ops[x]
  BY <1>2 DEF TypeOK
<1>5. \A x \in Operations : SameRow(x)
  BY <1>2, <1>3, <1>4, PresentStays DEF SameRow
<1>6. ViewOK(o) /\ (Sent(o) => Settled(o))
  BY DEF SentInv
<1>7. ASSUME Sent(o)
      PROVE  ops'[o].claims = ops[o].claims
  <2>1. CASE Required[o] = 0
    BY <1>3, <1>6, <2>1 DEF ViewOK, ClaimsOf
  <2>2. CASE Required[o] # 0
    <3>1. ~ HasRejection(decisions[o]) /\ ops[o].approval_count = Count(o)
      BY <1>2, <2>2 DEF ApprovalVerdict, Count
    <3>2. ~ CountsUpTo(o, Count(o) - 1)
      BY <3>1, CountType DEF CountsUpTo
    <3>3. ops[o].claims = Approved(decisions[o])
      BY <1>6, <1>7, <2>2, <3>1, <3>2 DEF Settled
    <3> QED
      BY <1>3, <2>2, <3>3 DEF ClaimsOf
  <2> QED
    BY <2>1, <2>2
<1>8. NoView
  BY <1>2, CloseNoView
<1>9. ASSUME NEW x \in Operations
      PROVE  ViewOK(x)' /\ (Sent(x)' => Settled(x)')
  <2>1. Required[x] = 0 => ops'[x].claims = {}
    BY <1>3, <1>4 DEF ClaimsOf, SentInv, ViewOK
  <2>2. ViewOK(x)'
    BY <1>2, <1>5, <1>8, <2>1, ViewKept DEF SentInv
  <2>3. Sent(x)' => Sent(x)
    BY <1>2 DEF Sent
  <2>4. Sent(x) => ops'[x].claims = ops[x].claims
    BY <1>4, <1>7
  <2> QED
    BY <1>5, <1>8, <2>2, <2>3, <2>4, SettledKept DEF SentInv
<1>10. \A d \in delivered' : d.claims = ops'[d.op].claims
  BY <1>2, <1>4, <1>7 DEF SentInv, Sent, TypeOK
<1> QED
  BY <1>9, <1>10 DEF SentInv

\* What a poll has judged when it leases o.
LEMMA LeaseJudged ==
    ASSUME TypeOK, NEW w \in Workers, NEW c \in SUBSET Operations,
           NEW o \in Operations, CommitLease(w, c, o)
    PROVE  LET row == requests[w].seen[o].row
           IN  /\ Poller(w)
               /\ Present(o)
               /\ row.state # "absent"
               /\ ApprovalVerdict(o, row, decisions[o]) = "granted"
               /\ ops[o].claims = ClaimsOf(o, decisions[o])
<1>1. PollCandidates(w, c) /\ o \in c /\ PersistedVerdict(o, requests[w].seen[o]) = "granted"
  BY DEF CommitLease
<1>2. c \subseteq {x \in Allowed : AgentOf[x] = requests[w].agent /\ Leasable(x)}
  BY <1>1 DEF PollCandidates
<1>3. Present(o)
  BY <1>1, <1>2 DEF Leasable, Present
<1> QED
  BY <1>1, <1>3 DEF PollCandidates, Poller, PersistedVerdict

\* The commit of a poll that leases a command.
LEMMA SentLease ==
    ASSUME TypeOK, SentInv, [Next]_vars, NEW w \in Workers,
           NEW c \in SUBSET Operations, NEW o \in Operations, CommitLease(w, c, o)
    PROVE  SentInv'
<1> DEFINE row == requests[w].seen[o].row
<1>1. /\ Close(w) /\ decisions' = decisions
      /\ \/ delivered' = delivered
         \/ delivered' = delivered \cup {[op |-> o, claims |-> ops[o].claims]}
      /\ \A x \in Operations : ops'[x] \in {Leased(x), Quarantined(ops[x]), ops[x]}
  BY DEF CommitLease
<1>2. \A x \in Operations :
         /\ ops'[x].approval_count = ops[x].approval_count
         /\ ops'[x].approval_status = ops[x].approval_status
         /\ ops'[x].credential = ops[x].credential
         /\ ops'[x].claims = ops[x].claims
  BY <1>1 DEF Leased, Quarantined, TypeOK, Row
<1>3. NoView /\ \A x \in Operations : SameRow(x)
  BY <1>1, <1>2, CloseNoView, PresentStays DEF SameRow
<1>4. \A x \in Operations : ViewOK(x)'
  BY <1>1, <1>2, <1>3, ViewKept DEF SentInv, ViewOK
<1>5. \A x \in Operations : Settled(x) => Settled(x)'
  BY <1>2, <1>3, SettledKept
<1>6. ViewOK(o) /\ (Sent(o) => Settled(o))
  BY DEF SentInv
<1>7. ASSUME ~ Sent(o)
      PROVE  Settled(o)
  <2>1. /\ Poller(w) /\ Present(o) /\ row.state # "absent"
        /\ ApprovalVerdict(o, row, decisions[o]) = "granted"
        /\ ops[o].claims = ClaimsOf(o, decisions[o])
    BY LeaseJudged
  <2>2. row.approval_status # "pending" /\ ~ HasRejection(decisions[o])
    BY <2>1 DEF ApprovalVerdict
  <2>3. ops[o].approval_status # "pending"
    BY <1>6, <2>1, <2>2 DEF ViewOK, PollView
  <2>4. \A v \in Workers : ~ Saver(v, o)
    BY <1>6, <1>7 DEF ViewOK
  <2>5. ASSUME Required[o] # 0
        PROVE  /\ ops[o].claims = Approved(decisions[o])
               /\ \A v \in Workers : Decider(v, o) =>
                     /\ Approved(requests[v].seen.decisions) \subseteq Approved(decisions[o])
                     /\ Approved(requests[v].seen.decisions) # Approved(decisions[o])
    BY <1>6, <2>1, <2>2, <2>3, <2>5 DEF ClaimsOf, ViewOK, DecisionView, Approved
  <2> QED
    BY <2>1, <2>3, <2>4, <2>5 DEF Settled
<1>8. \A x \in Operations : Sent(x)' => Sent(x) \/ x = o
  BY <1>1 DEF Sent
<1>9. \A x \in Operations : Sent(x)' => Settled(x)'
  BY <1>5, <1>6, <1>7, <1>8 DEF SentInv
<1>10. \A d \in delivered' : d.claims = ops'[d.op].claims
  BY <1>1, <1>2 DEF SentInv, TypeOK
<1> QED
  BY <1>4, <1>9, <1>10 DEF SentInv

\* The whole-document save of a row as it was loaded.
LEMMA SentSave ==
    ASSUME TypeOK, SentInv, [Next]_vars, NEW w \in Workers,
           CommitCredential(w) \/ CommitConsume(w)
    PROVE  SentInv'
<1> DEFINE row == requests[w].seen.row
<1>1. PICK o \in Operations : o = requests[w].op /\ Saver(w, o)
  BY RequestKinds
     DEF TypeOK, CommitCredential, CommitConsume, CredentialRequest, Saver
<1>2. row \in Row
  BY <1>1, RequestKinds DEF TypeOK, Saver, CredentialRequest, RowView
<1>3. ViewOK(o) /\ Sent(o) /\ Settled(o)
  BY <1>1 DEF SentInv, ViewOK
<1>4. /\ row.claims = ops[o].claims
      /\ Close(w) /\ UNCHANGED <<decisions, delivered>>
      /\ \/ ops' = [ops EXCEPT ![o] = [row EXCEPT !.credential = TRUE]]
         \/ ops' = [ops EXCEPT ![o] = [row EXCEPT !.consumed = TRUE]]
  BY <1>1 DEF CommitCredential, CommitConsume, SaveOperation
<1>5. /\ ops'[o].approval_count = row.approval_count
      /\ ops'[o].approval_status = row.approval_status
      /\ ops'[o].claims = ops[o].claims
      /\ \A x \in Operations \ {o} : ops'[x] = ops[x]
  BY <1>2, <1>4 DEF TypeOK, Row
<1>6. row.approval_status # "pending" /\ Present(o)'
  BY <1>1, <1>3, PresentStays DEF Settled
<1>7. NoView
  BY <1>4, CloseNoView
<1>8. Count(o)' = Count(o) /\ \A x \in Operations : Sent(x)' <=> Sent(x)
  BY <1>4 DEF Count, Sent
<1>9. ASSUME NEW n, CountsUpTo(o, n)
      PROVE  CountsUpTo(o, n)'
  BY <1>1, <1>5, <1>7, <1>9 DEF NoView, CountsUpTo, Poller, Saver
<1>10. CountsUpTo(o, Count(o))' /\ (CountsUpTo(o, Count(o) - 1) => CountsUpTo(o, Count(o) - 1)')
  BY <1>3, <1>8, <1>9 DEF ViewOK, CountsUpTo
<1>11. ASSUME NEW v \in Workers
       PROVE  (/\ Decider(v, o) => DecisionView(v, o)
               /\ Poller(v) => PollView(v, o)
               /\ Saver(v, o) => Sent(o))'
  <2>1. CASE requests'[v] = requests[v]
    <3>1. Decider(v, o) => \/ HasRejection(decisions[o])
                           \/ Approved(requests[v].seen.decisions) # Approved(decisions[o])
      BY <1>3 DEF ViewOK, Settled, DecisionView
    <3>2. (Decider(v, o) => DecisionView(v, o))'
      BY <1>3, <1>4, <1>6, <2>1, <3>1 DEF ViewOK, Decider, DecisionView
    <3>3. (Poller(v) => PollView(v, o))'
      BY <1>5, <1>6, <2>1 DEF PollView
    <3> QED
      BY <1>3, <1>8, <3>2, <3>3
  <2>2. CASE requests'[v].kind \notin {"decide", "poll", "credential", "consume"}
    BY <2>2 DEF Decider, Poller, Saver
  <2> QED
    BY <1>7, <2>1, <2>2 DEF NoView
<1>12. ViewOK(o)'
  BY <1>3, <1>5, <1>8, <1>10, <1>11 DEF ViewOK
<1>13. Settled(o)'
  <2>1. \A v \in Workers :
           /\ Saver(v, o)' => Saver(v, o) /\ requests'[v] = requests[v]
           /\ Decider(v, o)' => Decider(v, o) /\ requests'[v] = requests[v]
    BY <1>7 DEF NoView, Saver, Decider
  <2> QED
    BY <1>3, <1>4, <1>5, <1>6, <1>10, <2>1 DEF Settled
<1>14. ASSUME NEW x \in Operations \ {o}
       PROVE  ViewOK(x)' /\ (Sent(x)' => Settled(x)')
  <2>1. SameRow(x) /\ ops'[x].claims = ops[x].claims
    BY <1>4, <1>5 DEF SameRow, Present
  <2> QED
    BY <1>4, <1>7, <1>8, <2>1, ViewKept, SettledKept DEF SentInv, ViewOK
<1>15. \A d \in delivered' : d.claims = ops'[d.op].claims
  BY <1>4, <1>5 DEF SentInv, TypeOK
<1> QED
  BY <1>12, <1>13, <1>14, <1>15 DEF SentInv

\* Every step keeps the invariant, with or without snapshot isolation.
LEMMA SentStep == TypeOK /\ SentInv /\ [Next]_vars => SentInv'
<1> SUFFICES ASSUME TypeOK, SentInv, [Next]_vars
             PROVE  SentInv'
  OBVIOUS
<1>1. ASSUME NEW o \in Operations, Author(o)
      PROVE  SentInv'
  <2>1. NoView /\ UNCHANGED <<decisions, delivered>>
    BY <1>1 DEF Author, NoView
  <2> QED
    BY <1>1, <2>1, SentBirth DEF Author, MayAuthor
<1>2. ASSUME NEW w \in Workers, CommitRetry(w)
      PROVE  SentInv'
  <2>1. PICK s \in Operations : s = requests[w].successor
    BY <1>2, RequestKinds DEF TypeOK, CommitRetry, RetryRequest
  <2>2. NoView
    BY <1>2, CloseNoView DEF CommitRetry
  <2> QED
    BY <1>2, <2>1, <2>2, SentBirth DEF CommitRetry, MayAuthor
<1>3. CASE UNCHANGED <<ops, decisions, requests, delivered>>
  BY <1>3, SentKept DEF NoView, SameRow, Present
<1>4. ASSUME NEW o \in Operations, LeaseExpires(o)
      PROVE  SentInv'
  BY <1>3, <1>4 DEF LeaseExpires
<1>5. ASSUME NEW a \in Agents,
             ToggleEnabled(a) \/ ToggleDrain(a) \/ ReportInventory(a)
      PROVE  SentInv'
  BY <1>3, <1>5 DEF ToggleEnabled, ToggleDrain, ReportInventory, SetAgent
<1>6. CASE UNCHANGED vars
  BY <1>3, <1>6 DEF vars
<1> QED
  BY <1>1, <1>2, <1>4, <1>5, <1>6, SentOpens, SentOthers, SentDecide, SentStart,
     SentLease, SentSave
     DEF Next, Opens

\* Whether or not the database refuses writes over stale reads, a poll leases only
\* what is approved as the policy asks, and every delivery of an operation carries
\* the claims of the first one.
THEOREM LeasesApproved == Spec => LeasesOnlyApproved
<1> DEFINE Judged(o) ==
       /\ ~ HasRejection(decisions[o])
       /\ ops[o].claims \subseteq Approved(decisions[o])
       /\ Cardinality(Approvers(ops[o].claims)) >= Required[o]
       /\ Requester \notin Approvers(ops[o].claims)
       /\ \A d \in delivered : d.op = o => d.claims = ops[o].claims
<1>1. ASSUME TypeOK, SentInv, NEW w \in Workers, NEW c \in SUBSET Operations,
             NEW o \in Operations, CommitLease(w, c, o)
      PROVE  Judged(o)
  <2> DEFINE row == requests[w].seen[o].row
             rows == decisions[o]
  <2>1. ApprovalVerdict(o, row, rows) = "granted" /\ ops[o].claims = ClaimsOf(o, rows)
    BY <1>1, LeaseJudged
  <2> HIDE DEF row
  <2>2. ~ HasRejection(rows)
    BY <2>1 DEF ApprovalVerdict
  <2>3. \A d \in delivered : d.op = o => d.claims = ops[o].claims
    BY <1>1 DEF SentInv
  <2>4. CASE Required[o] = 0
    <3>1. ops[o].claims = {} /\ Approvers(ops[o].claims) = {}
      BY <2>1, <2>4 DEF ClaimsOf, Approvers, Approved
    <3>2. Cardinality(Approvers(ops[o].claims)) = 0
      BY <3>1, FS_EmptySet
    <3> QED
      BY <2>2, <2>3, <2>4, <3>1, <3>2
  <2>5. CASE Required[o] # 0
    <3>1. ops[o].claims = Approved(rows)
      BY <2>1, <2>5 DEF ClaimsOf
    <3>2. Approvers(ops[o].claims) = Approvers(rows)
      BY <3>1 DEF Approvers, Approved
    <3>3. /\ ~ (Cardinality(Approved(rows)) < Required[o])
          /\ Requester \notin Approvers(rows)
          /\ Cardinality(Approvers(rows)) = Cardinality(Approved(rows))
      BY <2>1, <2>5 DEF ApprovalVerdict
    <3>4. Cardinality(Approved(rows)) \in Nat /\ Required[o] \in Nat
      BY <1>1, CountType, OperationsAssumption DEF Count
    <3> QED
      BY <2>2, <2>3, <3>1, <3>2, <3>3, <3>4
  <2> QED
    BY <2>4, <2>5
<1>2. TypeOK /\ SentInv /\ [Next]_vars =>
        [\A o \in Operations :
            (\E w \in Workers, c \in SUBSET Operations : CommitLease(w, c, o)) =>
                Judged(o)]_vars
  BY <1>1
<1> QED
  BY <1>2, SentInit, SentStep, TypeCorrect, PTL DEF Spec, LeasesOnlyApproved

-----------------------------------------------------------------------------
(***************************************************************************)
(* The handover of a created site.                                         *)
(***************************************************************************)
\* The rows that requests for a credential have seen are saved again later: they
\* have to be as good as the stored ones.
HandedOver(row) ==
    row.state = "succeeded" => row.credential /\ row.result.evidence = "complete"
HandoverInv ==
    /\ \A o \in Creations : HandedOver(ops[o])
    /\ \A w \in Workers :
          requests[w].kind \in {"credential", "consume"} /\ requests[w].op \in Creations
              => HandedOver(requests[w].seen.row)

\* Initially no site is created.
LEMMA HandoverInit == Init => HandoverInv
BY OperationsAssumption DEF Init, HandoverInv, HandedOver, AbsentRow, Idle

\* A step that leaves no credential request in place of another request only
\* has to answer for the rows.
LEMMA HandoverKept ==
    ASSUME HandoverInv,
           \A o \in Creations : HandedOver(ops'[o]),
           NEW w \in Workers, requests' = [requests EXCEPT ![w] = Idle],
           TypeOK
    PROVE  HandoverInv'
BY DEF HandoverInv, HandedOver, Idle, TypeOK

\* The commit of a report.
LEMMA HandoverResult ==
    ASSUME TypeOK, HandoverInv, NEW w \in Workers, CommitResult(w)
    PROVE  HandoverInv'
<1> DEFINE o == requests[w].op
           body == requests[w].body
<1>1. o \in Operations /\ body \in Bodies
  BY RequestKinds DEF TypeOK, CommitResult, ResultRequest
<1>2. ops' = [ops EXCEPT ![o] = WithResult(o, body)]
  BY DEF CommitResult
<1>3. body.status = "queued" => ops[o].result = NoResult
  <2>1. MayFollow(ops[o].result, body)
    BY DEF CommitResult
  <2> QED
    BY <2>1 DEF MayFollow, Terminal
<1>4. o \in Creations => HandedOver(WithResult(o, body))
  <2>1. ops[o] \in Row
    BY <1>1 DEF TypeOK
  <2>2. CASE body.status = "queued"
    BY <1>3, <2>1, <2>2 DEF HandoverInv, HandedOver, WithResult, NoResult, Row
  <2>3. CASE body.status # "queued"
    BY <2>1, <2>3 DEF HandedOver, WithResult, Unverified, HandoverReady, Row
  <2> QED
    BY <2>2, <2>3
<1>5. \A x \in Creations : HandedOver(ops'[x])
  BY <1>1, <1>2, <1>4, OperationsAssumption DEF HandoverInv, TypeOK
<1> QED
  BY <1>5, HandoverKept DEF CommitResult, Close

\* The whole-document save of a credential, or of its consumption.
LEMMA HandoverCredential ==
    ASSUME TypeOK, HandoverInv, NEW w \in Workers,
           CommitCredential(w) \/ CommitConsume(w)
    PROVE  HandoverInv'
<1> DEFINE o == requests[w].op
           row == requests[w].seen.row
<1>1. requests[w] \in CredentialRequest /\ requests[w].kind \in {"credential", "consume"}
  BY RequestKinds DEF TypeOK, CommitCredential, CommitConsume
<1>2. o \in Operations /\ row \in Row
  BY <1>1 DEF CredentialRequest, RowView
<1>3. o \in Creations => HandedOver(row)
  BY <1>1 DEF HandoverInv
<1>4. PICK changed : /\ SaveOperation(w, changed)
                     /\ o \in Creations => HandedOver(changed)
  BY <1>2, <1>3 DEF CommitCredential, CommitConsume, HandedOver, Row
<1>5. \A x \in Creations : HandedOver(ops'[x])
  BY <1>2, <1>4, OperationsAssumption DEF SaveOperation, HandoverInv, TypeOK
<1> QED
  BY <1>4, <1>5, HandoverKept DEF SaveOperation, Close

\* No other request writes "succeeded", a credential or a result.
LEMMA HandoverOthers ==
    ASSUME TypeOK, HandoverInv, NEW w \in Workers,
           \/ Abort(w) \/ ReplayResult(w)
           \/ CommitDecide(w) \/ CommitStart(w) \/ CommitRetry(w)
           \/ \E c \in SUBSET Operations :
                 \/ CommitNoCommand(w, c)
                 \/ \E o \in Operations : CommitLease(w, c, o)
    PROVE  HandoverInv'
<1> USE OperationsAssumption
<1>1. CASE Abort(w) \/ ReplayResult(w)
  BY <1>1, HandoverKept DEF Abort, ReplayResult, Close, HandoverInv
<1>2. CASE CommitDecide(w)
  <2>1. requests[w].op \in Operations
    BY <1>2, RequestKinds DEF TypeOK, CommitDecide, DecideRequest
  <2>2. ASSUME NEW d, NEW n, NEW o \in Creations
        PROVE  HandedOver(Decided(o, d, n))
    BY DEF HandoverInv, HandedOver, Decided, TypeOK, Row
  <2>3. PICK n : ops' = [ops EXCEPT ![requests[w].op] =
                            Decided(requests[w].op, requests[w].decision, n)]
    BY <1>2 DEF CommitDecide
  <2>4. \A o \in Creations : HandedOver(ops'[o])
    BY <2>1, <2>2, <2>3 DEF HandoverInv, TypeOK
  <2> QED
    BY <1>2, <2>4, HandoverKept DEF CommitDecide, Close
<1>3. CASE CommitStart(w)
  <2>1. \A o \in Creations : HandedOver(ops'[o])
    BY <1>3 DEF CommitStart, HandoverInv, HandedOver, TypeOK, Row
  <2> QED
    BY <1>3, <2>1, HandoverKept DEF CommitStart, Close
<1>4. CASE CommitRetry(w)
  <2>1. ASSUME NEW o, NEW s
        PROVE  NewRow(o, s).state # "succeeded"
    BY DEF NewRow, AbsentRow
  <2>2. \A o \in Creations : HandedOver(ops'[o])
    BY <1>4, <2>1 DEF CommitRetry, HandoverInv, HandedOver, TypeOK
  <2> QED
    BY <1>4, <2>2, HandoverKept DEF CommitRetry, Close
<1>5. ASSUME NEW c \in SUBSET Operations, CommitNoCommand(w, c)
      PROVE  HandoverInv'
  <2>1. \A o \in Creations : HandedOver(ops'[o])
    BY <1>5 DEF CommitNoCommand, HandoverInv, HandedOver, Quarantined, TypeOK, Row
  <2> QED
    BY <1>5, <2>1, HandoverKept DEF CommitNoCommand, Close
<1>6. ASSUME NEW c \in SUBSET Operations, NEW o \in Operations,
             CommitLease(w, c, o)
      PROVE  HandoverInv'
  <2>1. \A x \in Creations :
           ops'[x] \in {Leased(x), Quarantined(ops[x]), ops[x]}
    BY <1>6 DEF CommitLease
  <2>2. \A x \in Creations :
           /\ HandedOver(Leased(x))
           /\ HandedOver(Quarantined(ops[x]))
           /\ HandedOver(ops[x])
    BY DEF HandoverInv, HandedOver, Quarantined, Leased, TypeOK, Row
  <2>3. \A x \in Creations : HandedOver(ops'[x])
    BY <2>1, <2>2
  <2> QED
    BY <1>6, <2>3, HandoverKept DEF CommitLease, Close
<1> QED
  BY <1>1, <1>2, <1>3, <1>4, <1>5, <1>6

\* Opening a credential request copies a row that is as good as the stored one.
LEMMA HandoverOpen ==
    ASSUME TypeOK, HandoverInv, NEW w \in Workers, Opens(w)
    PROVE  HandoverInv'
<1>1. ASSUME NEW o \in Operations, OpenCredential(w, o) \/ OpenConsume(w, o)
      PROVE  HandoverInv'
  BY <1>1 DEF OpenCredential, OpenConsume, Open, See, HandoverInv, HandedOver, TypeOK
<1>2. ASSUME NEW r, r.kind \notin {"credential", "consume"}, Open(w, r), UNCHANGED ops
      PROVE  HandoverInv'
  BY <1>2 DEF Open, HandoverInv, HandedOver, TypeOK
<1>3. ASSUME NEW a \in Agents, OpenPoll(w, a)
      PROVE  HandoverInv'
  BY <1>2, <1>3 DEF OpenPoll
<1>4. ASSUME NEW o \in Operations, OpenStart(w, o)
      PROVE  HandoverInv'
  BY <1>2, <1>4 DEF OpenStart
<1>5. ASSUME NEW o \in Operations, NEW u \in Users,
             NEW d \in {"approved", "rejected"}, OpenDecide(w, o, u, d)
      PROVE  HandoverInv'
  BY <1>2, <1>5 DEF OpenDecide
<1>6. ASSUME NEW o \in Operations, NEW body \in Bodies, OpenResult(w, o, body)
      PROVE  HandoverInv'
  BY <1>2, <1>6 DEF OpenResult
<1>7. ASSUME NEW o \in Operations, NEW s \in Operations, OpenRetry(w, o, s)
      PROVE  HandoverInv'
  BY <1>2, <1>7 DEF OpenRetry
<1> QED
  BY <1>1, <1>3, <1>4, <1>5, <1>6, <1>7 DEF Opens

\* Every step keeps the invariant.
LEMMA HandoverStep == TypeOK /\ HandoverInv /\ [Next]_vars => HandoverInv'
<1> SUFFICES ASSUME TypeOK, HandoverInv, [Next]_vars
             PROVE  HandoverInv'
  OBVIOUS
<1>1. ASSUME NEW o \in Operations, Author(o)
      PROVE  HandoverInv'
  <2>1. NewRow(o, NoOperation).state # "succeeded"
    BY DEF NewRow, AbsentRow
  <2> QED
    BY <1>1, <2>1, OperationsAssumption
       DEF Author, HandoverInv, HandedOver, TypeOK
<1>2. CASE UNCHANGED <<ops, requests>>
  BY <1>2 DEF HandoverInv, HandedOver
<1>3. ASSUME NEW o \in Operations, LeaseExpires(o)
      PROVE  HandoverInv'
  BY <1>2, <1>3 DEF LeaseExpires
<1>4. ASSUME NEW a \in Agents,
             ToggleEnabled(a) \/ ToggleDrain(a) \/ ReportInventory(a)
      PROVE  HandoverInv'
  BY <1>2, <1>4 DEF ToggleEnabled, ToggleDrain, ReportInventory, SetAgent
<1>5. CASE UNCHANGED vars
  BY <1>2, <1>5 DEF vars
<1> QED
  BY <1>1, <1>3, <1>4, <1>5, HandoverOpen, HandoverOthers, HandoverResult,
     HandoverCredential
     DEF Next, Opens

\* A created site is reported as succeeded only with verified evidence and with
\* its credential stored, in whatever order results and credentials arrive and
\* whatever older rows credential requests save.
THEOREM HandoverSafe == Spec => []HandoverComplete
<1>1. HandoverInv => HandoverComplete
  BY DEF HandoverInv, HandedOver, HandoverComplete
<1> QED
  BY <1>1, HandoverInit, HandoverStep, TypeCorrect, PTL DEF Spec

(***************************************************************************)
(* The one-time secret.                                                    *)
(***************************************************************************)
Saves(w) == CommitCredential(w) \/ CommitConsume(w)

SecretInv ==
    /\ \A d \in delivered : Present(d.op)
    /\ \A o \in Operations : ops[o].credential \/ ops[o].consumed => Present(o)
    /\ \A w \in Workers : requests[w].kind \in {"credential", "consume"} =>
          Present(requests[w].op)
    /\ \A w \in Workers : requests[w].kind = "consume" =>
          ~ requests[w].seen.row.consumed

\* The secret's columns change only when a row is authored or saved.
LEMMA SecretStep ==
    ASSUME TypeOK, [Next]_vars, NEW o \in Operations
    PROVE  \/ /\ ops'[o].credential = ops[o].credential
              /\ ops'[o].consumed = ops[o].consumed
           \/ ~ ops'[o].credential /\ ~ ops'[o].consumed /\ ~ Present(o)
           \/ \E w \in Workers : requests[w].op = o /\ Saves(w)
<1> DEFINE Same == /\ ops'[o].credential = ops[o].credential
                   /\ ops'[o].consumed = ops[o].consumed
           New == ~ ops'[o].credential /\ ~ ops'[o].consumed /\ ~ Present(o)
<1>1. ops[o] \in Row
  BY DEF TypeOK
<1>2. CASE UNCHANGED ops
  BY <1>2
<1>3. ASSUME NEW x \in Operations, Author(x) PROVE Same \/ New
  BY <1>3 DEF Author, MayAuthor, NewRow, AbsentRow, TypeOK
<1>4. ASSUME NEW w \in Workers, CommitRetry(w) PROVE Same \/ New
  <2>1. requests[w].successor \in Operations
    BY <1>4, RequestKinds DEF TypeOK, CommitRetry, RetryRequest
  <2> QED
    BY <1>4, <2>1 DEF CommitRetry, MayAuthor, NewRow, AbsentRow, TypeOK
<1>5. ASSUME NEW w \in Workers, CommitDecide(w) PROVE Same
  <2>1. PICK n : ops' = [ops EXCEPT ![requests[w].op] =
                            Decided(requests[w].op, requests[w].decision, n)]
    BY <1>5 DEF CommitDecide
  <2>2. /\ Decided(o, requests[w].decision, n).credential = ops[o].credential
        /\ Decided(o, requests[w].decision, n).consumed = ops[o].consumed
    BY <1>1 DEF Decided, Row
  <2> QED
    BY <2>1, <2>2 DEF TypeOK
<1>6. ASSUME NEW w \in Workers, CommitStart(w) PROVE Same
  BY <1>1, <1>6 DEF CommitStart, TypeOK, Row
<1>7. ASSUME NEW w \in Workers, CommitResult(w) PROVE Same
  BY <1>1, <1>7 DEF CommitResult, WithResult, TypeOK, Row
<1>8. ASSUME NEW w \in Workers, NEW c \in SUBSET Operations,
             CommitNoCommand(w, c) \/ \E x \in Operations : CommitLease(w, c, x)
      PROVE  Same
  <2>1. ops'[o] \in {Leased(o), Quarantined(ops[o]), ops[o]}
    BY <1>8 DEF CommitNoCommand, CommitLease
  <2> QED
    BY <1>1, <2>1 DEF Leased, Quarantined, Row
<1>9. ASSUME NEW w \in Workers, Saves(w), requests[w].op # o PROVE Same
  BY <1>9 DEF Saves, CommitCredential, CommitConsume, SaveOperation, TypeOK
<1>10. ASSUME NEW w \in Workers, Opens(w) \/ Abort(w) \/ ReplayResult(w)
       PROVE  UNCHANGED ops
  BY <1>10 DEF Opens, OpenPoll, OpenStart, OpenCredential, OpenConsume, OpenDecide,
               OpenResult, OpenRetry, Abort, ReplayResult
<1>11. ASSUME NEW x \in Operations, LeaseExpires(x) PROVE UNCHANGED ops
  BY <1>11 DEF LeaseExpires
<1>12. ASSUME NEW a \in Agents, ToggleEnabled(a) \/ ToggleDrain(a) \/ ReportInventory(a)
       PROVE  UNCHANGED ops
  BY <1>12 DEF ToggleEnabled, ToggleDrain, ReportInventory, SetAgent
<1>13. CASE UNCHANGED vars
  BY <1>2, <1>13 DEF vars
<1> QED
  BY <1>2, <1>3, <1>4, <1>5, <1>6, <1>7, <1>8, <1>9, <1>10, <1>11, <1>12, <1>13
     DEF Next, Opens, Saves

\* Every step keeps the invariant: an operation with a secret is there, and who is
\* about to give the secret out has seen it as not given out.
LEMMA SecretKeeps == TypeOK /\ SecretInv /\ [Next]_vars => SecretInv'
<1> SUFFICES ASSUME TypeOK, SecretInv, [Next]_vars
             PROVE  SecretInv'
  OBVIOUS
<1>1. ASSUME NEW d \in delivered' PROVE Present(d.op)'
  <2>1. d.op \in Operations /\ Present(d.op)
    <3>1. CASE d \in delivered
      BY <3>1 DEF SecretInv, TypeOK
    <3>2. ASSUME NEW w \in Workers, NEW c \in SUBSET Operations, NEW o \in Operations,
                 CommitLease(w, c, o), d = [op |-> o, claims |-> ops[o].claims]
          PROVE  d.op \in Operations /\ Present(d.op)
      <4>1. Leasable(o)
        BY <3>2 DEF CommitLease, PollCandidates
      <4> QED
        BY <3>2, <4>1 DEF Leasable, Present
    <3> QED
      BY <3>1, <3>2, DeliveredBy
  <2> QED
    BY <2>1, PresentStays
<1>2. ASSUME NEW o \in Operations, ops'[o].credential \/ ops'[o].consumed
      PROVE  Present(o)'
  <2>1. Present(o)
    <3>1. CASE \E w \in Workers : requests[w].op = o /\ Saves(w)
      BY <3>1 DEF Saves, CommitCredential, CommitConsume, SecretInv
    <3> QED
      BY <1>2, <3>1, SecretStep DEF SecretInv
  <2> QED
    BY <2>1, PresentStays
<1>3. ASSUME NEW w \in Workers, requests'[w].kind \in {"credential", "consume"}
      PROVE  /\ Present(requests[w].op)'
             /\ requests'[w].kind = "consume" => ~ requests'[w].seen.row.consumed
  <2> DEFINE Kept == /\ Present(requests[w].op)'
                     /\ requests'[w].kind = "consume" => ~ requests'[w].seen.row.consumed
  <2>1. CASE requests'[w] = requests[w]
    <3>1. PICK o \in Operations : o = requests[w].op
      BY <1>3, <2>1, RequestKinds DEF TypeOK, CredentialRequest
    <3>2. Present(o)'
      BY <1>3, <2>1, <3>1, PresentStays DEF SecretInv
    <3> QED
      BY <1>3, <2>1, <3>1, <3>2 DEF SecretInv, Present
  <2>2. CASE requests'[w] = Idle
    BY <1>3, <2>2 DEF Idle
  <2>3. ASSUME NEW o \in Operations, OpenCredential(w, o) PROVE Kept
    <3>1. Present(o)
      BY <2>3 DEF OpenCredential, SecretInv
    <3>2. Present(o)'
      BY <3>1, PresentStays
    <3> QED
      BY <2>3, <3>2 DEF OpenCredential, Open, TypeOK, Present
  <2>4. ASSUME NEW o \in Operations, OpenConsume(w, o) PROVE Kept
    <3>1. Present(o)
      BY <2>4 DEF OpenConsume, SecretInv
    <3>2. Present(o)'
      BY <3>1, PresentStays
    <3> QED
      BY <2>4, <3>2 DEF OpenConsume, Open, See, TypeOK, Present
  <2>5. CASE Opens(w)
    BY <1>3, <2>3, <2>4, <2>5
       DEF Opens, OpenPoll, OpenStart, OpenDecide, OpenResult, OpenRetry, Open, TypeOK
  <2> QED
    BY <2>1, <2>2, <2>5, RequestStep
<1> QED
  BY <1>1, <1>2, <1>3 DEF SecretInv

\* A secret is given out once and not restored, whatever older documents the two
\* credential routes save (store_credential_route, consume_operation_credential).
THEOREM SecretGivenOnce == Spec => SecretOnce
<1>1. Init => SecretInv
  BY DEF Init, SecretInv, AbsentRow, Idle
<1>2. ASSUME TypeOK, SecretInv, [Next]_vars, NEW o \in Operations, ops[o].consumed
      PROVE  /\ ops'[o].consumed
             /\ ~ \E w \in Workers : CommitConsume(w) /\ requests[w].op = o
  <2>1. ASSUME NEW w \in Workers, CommitConsume(w), requests[w].op = o PROVE FALSE
    BY <1>2, <2>1 DEF CommitConsume, SaveOperation, Latest, SecretInv
  <2>2. ASSUME NEW w \in Workers, CommitCredential(w), requests[w].op = o
        PROVE  ops'[o].consumed
    <3>1. requests[w].seen.row \in Row
      BY <1>2, <2>2, RequestKinds DEF TypeOK, CommitCredential, CredentialRequest, RowView
    <3>2. requests[w].seen.row.consumed
      BY <1>2, <2>2 DEF CommitCredential, SaveOperation, Latest
    <3> QED
      BY <1>2, <2>2, <3>1, <3>2 DEF CommitCredential, SaveOperation, TypeOK, Row
  <2>3. Present(o)
    BY <1>2 DEF SecretInv
  <2> QED
    BY <1>2, <2>1, <2>2, <2>3, SecretStep DEF Saves
<1>3. TypeOK /\ SecretInv /\ [Next]_vars =>
        [\A o \in Creations : ops[o].consumed =>
            /\ ops'[o].consumed
            /\ ~ \E w \in Workers : CommitConsume(w) /\ requests[w].op = o]_vars
  BY <1>2, OperationsAssumption
<1> QED
  BY <1>1, <1>3, SecretKeeps, TypeCorrect, PTL DEF Spec, SecretOnce
=============================================================================
