-------------------------- MODULE OperationProofs --------------------------
(***************************************************************************)
(* Type correctness of OperationLifecycle, for every number of operations, *)
(* agents, users and workers, and with either behaviour of the database.   *)
(***************************************************************************)
EXTENDS OperationProperties, FiniteSetTheorems, TLAPS

\* The approval rows of an operation are finitely many: one worker's request
\* writes one, and a worker can write one row per approver and decision.
LEMMA ApprovalsAreFinite == \A rows \in SUBSET Approval : IsFiniteSet(rows)
PROOF
<1> DEFINE D == {"approved", "rejected"}
           P == Workers \X (Users \X D)
           f == [p \in P |-> [by |-> p[1], approver |-> p[2][1],
                              decision |-> p[2][2]]]
<1>1. IsFiniteSet(D)
  <2>1. IsFiniteSet({"approved"})
    BY FS_Singleton
  <2>2. D = {"approved"} \cup {"rejected"}
    OBVIOUS
  <2> QED
    BY <2>1, <2>2, FS_AddElement
<1>2. IsFiniteSet(Users \X D)
  BY <1>1, FS_Product, UsersAssumption
<1>3. IsFiniteSet(P)
  BY <1>2, FS_Product, UsersAssumption
<1>4. f \in Surjection(P, Approval)
  <2>1. f \in [P -> Approval]
    BY DEF Approval
  <2>2. ASSUME NEW r \in Approval
        PROVE  \E p \in P : f[p] = r
    <3>1. <<r.by, <<r.approver, r.decision>>>> \in P
      BY DEF Approval
    <3>2. f[<<r.by, <<r.approver, r.decision>>>>] = r
      BY <3>1 DEF Approval
    <3> QED
      BY <3>1, <3>2
  <2> QED
    BY <2>1, <2>2 DEF Surjection
<1>5. IsFiniteSet(Approval)
  BY <1>3, <1>4, FS_Surjection
<1> QED
  BY <1>5, FS_Subset

\* So they can be counted.
LEMMA CountIsNat == \A rows \in SUBSET Approval : Cardinality(rows) \in Nat
BY ApprovalsAreFinite, FS_CardinalityType

\* Two sets of approval rows, one within the other, that count the same number
\* of approvals contain the same approvals.
LEMMA SameApprovals ==
    ASSUME NEW S \in SUBSET Approval, NEW T \in SUBSET S,
           Cardinality(Approved(S)) = Cardinality(Approved(T))
    PROVE  Approved(S) = Approved(T)
<1>1. IsFiniteSet(Approved(S))
  BY ApprovalsAreFinite DEF Approved
<1>2. Approved(T) \in SUBSET Approved(S)
  BY DEF Approved
<1> QED
  BY <1>1, <1>2, FS_Subset

\* A new row adds one to the count of approvals, if it is an approval.
LEMMA OneMore ==
    ASSUME NEW S \in SUBSET Approval, NEW d \in Approval, d \notin S
    PROVE  Cardinality(Approved(S \cup {d})) =
              IF d.decision = "approved"
              THEN Cardinality(Approved(S)) + 1 ELSE Cardinality(Approved(S))
<1>1. IsFiniteSet(Approved(S)) /\ d \notin Approved(S)
  BY ApprovalsAreFinite DEF Approved
<1>2. CASE d.decision = "approved"
  <2>1. Approved(S \cup {d}) = Approved(S) \cup {d}
    BY <1>2 DEF Approved
  <2> QED
    BY <1>1, <1>2, <2>1, FS_AddElement
<1>3. CASE d.decision # "approved"
  <2>1. Approved(S \cup {d}) = Approved(S)
    BY <1>3 DEF Approved
  <2> QED
    BY <1>3, <2>1
<1> QED
  BY <1>2, <1>3

\* A read view of well-typed tables is well-typed.
LEMMA SeeType ==
    ASSUME TypeOK, NEW o \in Operations
    PROVE  See(o) \in RowView
BY OperationsAssumption DEF TypeOK, See, RowView

\* The initial rows are well-typed.
LEMMA InitType == Init => TypeOK
<1> SUFFICES ASSUME Init PROVE TypeOK
  OBVIOUS
<1>1. AbsentRow \in Row
  BY ProtocolAssumption DEF AbsentRow, Row, States
<1>2. ops \in [Operations -> Row]
  BY <1>1 DEF Init
<1>3. agents \in [Agents -> AgentRow]
  BY ProtocolAssumption DEF Init, AgentRow
<1>4. lapsed \in [Operations -> 0..MaxLeases]
  BY ProtocolAssumption DEF Init
<1>5. requests \in [Workers -> Request]
  BY DEF Init, Request
<1> QED
  BY <1>2, <1>3, <1>4, <1>5 DEF TypeOK, Init

\* Opening a request stores a well-typed request.
LEMMA OpenType ==
    ASSUME TypeOK, NEW w \in Workers, NEW r \in Request, Open(w, r),
           UNCHANGED <<ops, decisions, agents, lapsed, delivered>>
    PROVE  TypeOK'
BY DEF TypeOK, Open

\* Closing a request.
LEMMA CloseType ==
    ASSUME TypeOK, NEW w \in Workers, Close(w)
    PROVE  requests' \in [Workers -> Request]
BY DEF TypeOK, Close, Request, Idle

\* The kind of a request tells its fields.
LEMMA RequestKinds ==
    ASSUME NEW r \in Request
    PROVE  /\ r.kind = "decide" => r \in DecideRequest
           /\ r.kind = "start" => r \in StartRequest
           /\ r.kind = "poll" => r \in PollRequest
           /\ r.kind = "result" => r \in ResultRequest
           /\ r.kind = "retry" => r \in RetryRequest
           /\ r.kind \in {"credential", "consume"} => r \in CredentialRequest
BY DEF Request, Idle, DecideRequest, StartRequest, PollRequest, ResultRequest,
       RetryRequest, CredentialRequest

\* A freshly authored row, whoever authors it.
LEMMA NewRowType ==
    ASSUME TypeOK, NEW o \in Operations, NEW source \in Operations \cup {NoOperation}
    PROVE  NewRow(o, source) \in Row
<1> DEFINE next == Cardinality({x \in Operations : Present(x)}) + 1
<1>1. next \in Nat
  BY OperationsAssumption, FS_Subset, FS_CardinalityType
<1>2. Agent(o).inventory \in 0..MaxInventory
  BY OperationsAssumption, ProtocolAssumption DEF TypeOK, Agent, AgentRow
<1>3. AbsentRow \in Row
  BY ProtocolAssumption DEF AbsentRow, Row, States
<1> HIDE DEF next
<1>4. CASE Required[o] = 0
  <2>1. ASSUME NEW row \in Row, NEW c \in Nat, NEW i \in 0..MaxInventory
        PROVE  [row EXCEPT !.state = "queued", !.approval_status = "not_required",
                           !.creation = c, !.dispatched = TRUE,
                           !.inventory = i, !.retry_of = source] \in Row
    BY DEF Row, States, Active
  <2>2. [AbsentRow EXCEPT
            !.state = "queued", !.approval_status = "not_required",
            !.creation = next, !.dispatched = TRUE,
            !.inventory = Agent(o).inventory, !.retry_of = source] \in Row
    BY <2>1, <1>1, <1>2, <1>3, Zenon
  <2> QED
    BY <2>2, <1>4, Zenon DEF NewRow, next
<1>5. CASE Required[o] # 0
  <2>1. ASSUME NEW row \in Row, NEW c \in Nat, NEW i \in 0..MaxInventory
        PROVE  [row EXCEPT !.state = "awaiting_approval",
                           !.approval_status = "pending",
                           !.creation = c, !.dispatched = FALSE,
                           !.inventory = i, !.retry_of = source] \in Row
    BY DEF Row, States
  <2>2. [AbsentRow EXCEPT
            !.state = "awaiting_approval", !.approval_status = "pending",
            !.creation = next, !.dispatched = FALSE,
            !.inventory = Agent(o).inventory, !.retry_of = source] \in Row
    BY <2>1, <1>1, <1>2, <1>3, Zenon
  <2> QED
    BY <2>2, <1>5, Zenon DEF NewRow, next
<1> QED
  BY <1>4, <1>5

\* What a poll writes into the rows it quarantines and leases.
LEMMA PollRowType ==
    ASSUME TypeOK, NEW o \in Operations
    PROVE  /\ Quarantined(ops[o]) \in Row
           /\ NextLease(o) <= MaxLeases => Leased(o) \in Row
<1>1. ops[o] \in Row
  BY DEF TypeOK
<1>2. Quarantined(ops[o]) \in Row
  BY <1>1 DEF Quarantined, Row, States, Terminal
<1>3. ASSUME NextLease(o) <= MaxLeases
      PROVE  Leased(o) \in Row
  <2>1. ops[o].lease \in 0..MaxLeases /\ lapsed[o] \in 0..MaxLeases
    BY <1>1 DEF TypeOK, Row
  <2>2. NextLease(o) \in 0..MaxLeases
    BY <1>3, <2>1, ProtocolAssumption DEF NextLease
  <2> QED
    BY <1>1, <2>2 DEF Leased, Row, States, Active
<1> QED
  BY <1>2, <1>3

\* What a report writes into its operation's row.
LEMMA ResultRowType ==
    ASSUME TypeOK, NEW o \in Operations, NEW body \in Bodies
    PROVE  WithResult(o, body) \in Row
<1>1. ops[o] \in Row
  BY DEF TypeOK
<1>2. body.status \in ResultStates
  BY ProtocolAssumption DEF Body
<1>3. body.status \in States /\ "needs_intervention" \in States
  BY <1>2 DEF ResultStates, States, Active, Terminal
<1>4. body \in Bodies \cup {NoResult} /\ 0 \in 0..MaxLeases
  BY ProtocolAssumption
<1>5. ASSUME NEW s \in States
      PROVE  [ops[o] EXCEPT !.result = body, !.lease = 0, !.state = s] \in Row
  BY <1>1, <1>4 DEF Row
<1>6. [ops[o] EXCEPT !.result = body] \in Row
  BY <1>1, <1>4 DEF Row
<1>7. (IF Unverified(o, body) THEN "needs_intervention" ELSE body.status) \in States
  BY <1>3
<1> QED
  BY <1>5, <1>6, <1>7, Zenon DEF WithResult

\* Opening a request of any kind.
Opens(w) ==
    \/ \E a \in Agents : OpenPoll(w, a)
    \/ \E o \in Operations :
           OpenStart(w, o) \/ OpenCredential(w, o) \/ OpenConsume(w, o)
    \/ \E o \in Operations, u \in Users, d \in {"approved", "rejected"} :
           OpenDecide(w, o, u, d)
    \/ \E o \in Operations, body \in Bodies : OpenResult(w, o, body)
    \/ \E o, s \in Operations : OpenRetry(w, o, s)

\* The opening of any request.
LEMMA OpenStepType ==
    ASSUME TypeOK, NEW w \in Workers, Opens(w)
    PROVE  TypeOK'
<1>1. ASSUME NEW a \in Agents, OpenPoll(w, a)
      PROVE  TypeOK'
  <2> DEFINE r == [kind |-> "poll", agent |-> a,
                   seen |-> [o \in Operations |-> See(o)]]
  <2>1. r \in Request
    BY SeeType DEF Request, PollRequest
  <2> QED
    BY <1>1, <2>1, OpenType DEF OpenPoll
<1>2. ASSUME NEW o \in Operations, OpenStart(w, o)
      PROVE  TypeOK'
  <2> DEFINE r == [kind |-> "start", op |-> o, seen |-> See(o)]
  <2>1. r \in Request
    BY SeeType DEF Request, StartRequest
  <2> QED
    BY <1>2, <2>1, OpenType DEF OpenStart
<1>3. ASSUME NEW o \in Operations, OpenCredential(w, o) \/ OpenConsume(w, o)
      PROVE  TypeOK'
  <2> DEFINE r(k) == [kind |-> k, op |-> o, seen |-> See(o),
                      source_state |-> SourceState(o)]
  <2>1. SourceState(o) \in States
    BY DEF SourceState, TypeOK, Row, States
  <2>2. r("credential") \in Request /\ r("consume") \in Request
    BY <2>1, SeeType DEF Request, CredentialRequest
  <2> QED
    BY <1>3, <2>2, OpenType DEF OpenCredential, OpenConsume
<1>4. ASSUME NEW o \in Operations, NEW u \in Users,
             NEW d \in {"approved", "rejected"}, OpenDecide(w, o, u, d)
      PROVE  TypeOK'
  <2> DEFINE r == [kind |-> "decide", op |-> o, actor |-> u, decision |-> d,
                   seen |-> See(o)]
  <2>1. r \in Request
    BY <1>4, SeeType DEF Request, DecideRequest, OpenDecide
  <2> QED
    BY <1>4, <2>1, OpenType DEF OpenDecide
<1>5. ASSUME NEW o \in Operations, NEW body \in Bodies, OpenResult(w, o, body)
      PROVE  TypeOK'
  <2> DEFINE r == [kind |-> "result", op |-> o, body |-> body, seen |-> See(o)]
  <2>1. r \in Request
    BY SeeType DEF Request, ResultRequest
  <2> QED
    BY <1>5, <2>1, OpenType DEF OpenResult
<1>6. ASSUME NEW o \in Operations, NEW s \in Operations, OpenRetry(w, o, s)
      PROVE  TypeOK'
  <2> DEFINE r == [kind |-> "retry", op |-> o, successor |-> s, seen |-> See(o)]
  <2>1. r \in Request
    BY SeeType DEF Request, RetryRequest
  <2> QED
    BY <1>6, <2>1, OpenType DEF OpenRetry
<1> QED
  BY <1>1, <1>2, <1>3, <1>4, <1>5, <1>6 DEF Opens

\* The commit of an approver's decision.
LEMMA DecideStepType ==
    ASSUME TypeOK, NEW w \in Workers, CommitDecide(w)
    PROVE  TypeOK'
<1> DEFINE r == requests[w]
           row == [by |-> w, approver |-> r.actor, decision |-> r.decision]
           count == Cardinality(Approved(r.seen.decisions \cup {row}))
<1>1. r \in DecideRequest
  BY RequestKinds DEF TypeOK, CommitDecide
<1>2. r.op \in Operations /\ r.seen.decisions \in SUBSET Approval
  BY <1>1 DEF DecideRequest, RowView
<1>3. row \in Approval
  BY <1>1 DEF DecideRequest, Approval
<1>4. count \in Nat
  BY <1>2, <1>3, CountIsNat DEF Approved
<1>5. decisions' \in [Operations -> SUBSET Approval]
  <2>1. decisions' = [decisions EXCEPT ![r.op] = @ \cup {row}]
    BY DEF CommitDecide
  <2> QED
    BY <2>1, <1>2, <1>3 DEF TypeOK
<1>6. ops' \in [Operations -> Row]
  <2>1. ops[r.op] \in Row
    BY <1>2 DEF TypeOK
  <2>2. ASSUME NEW c \in Nat
        PROVE  Decided(r.op, r.decision, c) \in Row
    BY <2>1 DEF Decided, Row
  <2>3. ops' = [ops EXCEPT ![r.op] = Decided(r.op, r.decision, count)]
    BY DEF CommitDecide
  <2> HIDE DEF count
  <2> QED
    BY <2>2, <2>3, <1>2, <1>4 DEF TypeOK
<1> QED
  BY <1>5, <1>6, CloseType DEF TypeOK, CommitDecide

\* The commit of a start.
LEMMA StartStepType ==
    ASSUME TypeOK, NEW w \in Workers, CommitStart(w)
    PROVE  TypeOK'
<1> DEFINE o == requests[w].op
<1>1. o \in Operations
  BY RequestKinds DEF TypeOK, CommitStart, StartRequest
<1>2. ops[o] \in Row /\ ClaimsOf(o, decisions[o]) \in SUBSET Approval
  BY <1>1 DEF TypeOK, ClaimsOf, Approved
<1>3. ops' \in [Operations -> Row]
  <2>1. ASSUME NEW c \in SUBSET Approval
        PROVE  [ops[o] EXCEPT !.state = "queued", !.dispatched = TRUE,
                              !.claims = c] \in Row
    BY <1>2 DEF Row, States, Active
  <2>2. ops' = [ops EXCEPT ![o] =
                   [ops[o] EXCEPT !.state = "queued", !.dispatched = TRUE,
                                  !.claims = ClaimsOf(o, decisions[o])]]
    BY <1>1 DEF CommitStart, TypeOK
  <2> QED
    BY <2>1, <2>2, <1>1, <1>2 DEF TypeOK
<1> QED
  BY <1>3, CloseType DEF TypeOK, CommitStart

\* The commit of a poll that leases a command.
LEMMA LeaseStepType ==
    ASSUME TypeOK, NEW w \in Workers, NEW c \in SUBSET Operations,
           NEW o \in Operations, CommitLease(w, c, o)
    PROVE  TypeOK'
<1>1. ops' \in [Operations -> Row]
  BY PollRowType DEF CommitLease, TypeOK
<1>2. [op |-> o, claims |-> ops[o].claims]
         \in [op: Operations, claims: SUBSET Approval]
  BY DEF TypeOK, Row
<1>3. delivered' \subseteq [op: Operations, claims: SUBSET Approval]
  BY <1>2 DEF CommitLease, TypeOK
<1> QED
  BY <1>1, <1>3, CloseType DEF TypeOK, CommitLease

\* The commit of a poll that finds no command.
LEMMA NoCommandStepType ==
    ASSUME TypeOK, NEW w \in Workers, NEW c \in SUBSET Operations,
           CommitNoCommand(w, c)
    PROVE  TypeOK'
<1>1. ops' \in [Operations -> Row]
  BY PollRowType DEF CommitNoCommand, TypeOK
<1> QED
  BY <1>1, CloseType DEF TypeOK, CommitNoCommand

\* The commit of a report.
LEMMA ResultStepType ==
    ASSUME TypeOK, NEW w \in Workers, CommitResult(w)
    PROVE  TypeOK'
<1>1. requests[w] \in ResultRequest
  BY RequestKinds DEF TypeOK, CommitResult
<1>2. requests[w].op \in Operations /\ requests[w].body \in Bodies
  BY <1>1 DEF ResultRequest
<1>3. ops' \in [Operations -> Row]
  BY <1>2, ResultRowType DEF CommitResult, TypeOK
<1> QED
  BY <1>3, CloseType DEF TypeOK, CommitResult

\* The whole-document save of a row as it was loaded, changed.
LEMMA SaveStepType ==
    ASSUME TypeOK, NEW w \in Workers, requests[w].op \in Operations,
           NEW changed \in Row, SaveOperation(w, changed)
    PROVE  TypeOK'
<1>1. ops' \in [Operations -> Row]
  BY DEF SaveOperation, TypeOK
<1> QED
  BY <1>1, CloseType DEF TypeOK, SaveOperation

\* Saving a credential, or its consumption.
LEMMA CredentialStepType ==
    ASSUME TypeOK, NEW w \in Workers, CommitCredential(w) \/ CommitConsume(w)
    PROVE  TypeOK'
<1>1. requests[w] \in CredentialRequest
  BY RequestKinds DEF TypeOK, CommitCredential, CommitConsume
<1>2. requests[w].op \in Operations /\ requests[w].seen.row \in Row
  BY <1>1 DEF CredentialRequest, RowView
<1>3. /\ [requests[w].seen.row EXCEPT !.credential = TRUE] \in Row
      /\ [requests[w].seen.row EXCEPT !.consumed = TRUE] \in Row
  BY <1>2 DEF Row
<1> QED
  BY <1>2, <1>3, SaveStepType DEF CommitCredential, CommitConsume

\* The commit of a retry.
LEMMA RetryStepType ==
    ASSUME TypeOK, NEW w \in Workers, CommitRetry(w)
    PROVE  TypeOK'
<1>1. requests[w] \in RetryRequest
  BY RequestKinds DEF TypeOK, CommitRetry
<1>2. requests[w].op \in Operations /\ requests[w].successor \in Operations
  BY <1>1 DEF RetryRequest
<1>3. NewRow(requests[w].successor, requests[w].op) \in Row
  BY <1>2, NewRowType
<1>4. ops' \in [Operations -> Row]
  BY <1>2, <1>3 DEF CommitRetry, TypeOK
<1> QED
  BY <1>4, CloseType DEF TypeOK, CommitRetry

\* Operators and heartbeats change the agent's row.
LEMMA AgentStepType ==
    ASSUME TypeOK, NEW a \in Agents,
           ToggleEnabled(a) \/ ToggleDrain(a) \/ ReportInventory(a)
    PROVE  TypeOK'
<1>1. ASSUME NEW row \in AgentRow, SetAgent(a, row)
      PROVE  TypeOK'
  BY <1>1 DEF SetAgent, TypeOK
<1>2. agents[a] \in AgentRow
  BY DEF TypeOK
<1>3. /\ [agents[a] EXCEPT !.enabled = ~ @] \in AgentRow
      /\ [agents[a] EXCEPT !.draining = ~ @] \in AgentRow
      /\ \A i \in 1..MaxInventory :
            [agents[a] EXCEPT !.inventory = i] \in AgentRow
  BY <1>2 DEF AgentRow
<1> QED
  BY <1>1, <1>3 DEF ToggleEnabled, ToggleDrain, ReportInventory

\* Every step keeps every table and every open request well-typed.
LEMMA StepType == TypeOK /\ [Next]_vars => TypeOK'
<1> SUFFICES ASSUME TypeOK, [Next]_vars
             PROVE  TypeOK'
  OBVIOUS
<1>1. ASSUME NEW o \in Operations, Author(o)
      PROVE  TypeOK'
  BY <1>1, NewRowType DEF Author, TypeOK
<1>2. ASSUME NEW o \in Operations, LeaseExpires(o)
      PROVE  TypeOK'
  BY <1>2 DEF LeaseExpires, TypeOK, Row
<1>3. ASSUME NEW w \in Workers, Abort(w) \/ ReplayResult(w)
      PROVE  TypeOK'
  BY <1>3, CloseType DEF Abort, ReplayResult, TypeOK
<1>4. CASE UNCHANGED vars
  BY <1>4 DEF vars, TypeOK
<1> QED
  BY <1>1, <1>2, <1>3, <1>4, AgentStepType, OpenStepType, DecideStepType,
     StartStepType, LeaseStepType, NoCommandStepType, ResultStepType,
     CredentialStepType, RetryStepType
     DEF Next, Opens

\* Every reachable state of the Controller's tables and of its open requests is
\* well-typed: no handler writes a state, a status, a lease number or a claim
\* that the doctype does not have, however requests interleave.
THEOREM TypeCorrect == Spec => []TypeOK
<1> QED
  BY InitType, StepType, PTL DEF Spec

-----------------------------------------------------------------------------
\* What a step may do to requests, deliveries and rows.

\* A request changes only by opening or by ending.
LEMMA RequestStep ==
    ASSUME TypeOK, [Next]_vars, NEW w \in Workers
    PROVE  requests'[w] = requests[w] \/ requests'[w] = Idle \/ Opens(w)
<1>1. ASSUME NEW v \in Workers, Close(v)
      PROVE  requests'[w] = requests[w] \/ requests'[w] = Idle
  BY <1>1 DEF Close, TypeOK
<1>2. ASSUME NEW v \in Workers, NEW r, Open(v, r), v # w
      PROVE  requests'[w] = requests[w]
  BY <1>2 DEF Open, TypeOK
<1>3. ASSUME NEW v \in Workers, Opens(v)
      PROVE  requests'[w] = requests[w] \/ Opens(w)
  BY <1>2, <1>3 DEF Opens, OpenPoll, OpenStart, OpenCredential, OpenConsume, OpenDecide,
                    OpenResult, OpenRetry
<1>4. ASSUME NEW v \in Workers,
             \/ Abort(v) \/ CommitDecide(v) \/ CommitStart(v) \/ CommitResult(v)
             \/ ReplayResult(v) \/ CommitRetry(v) \/ CommitCredential(v)
             \/ CommitConsume(v)
             \/ \E c \in SUBSET Operations :
                   \/ CommitNoCommand(v, c)
                   \/ \E o \in Operations : CommitLease(v, c, o)
      PROVE  Close(v)
  BY <1>4 DEF Abort, CommitDecide, CommitStart, CommitResult, ReplayResult,
              CommitRetry, CommitCredential, CommitConsume, SaveOperation,
              CommitNoCommand, CommitLease
<1>5. ASSUME NEW o \in Operations, Author(o) \/ LeaseExpires(o)
      PROVE  UNCHANGED requests
  BY <1>5 DEF Author, LeaseExpires
<1>6. ASSUME NEW a \in Agents,
             ToggleEnabled(a) \/ ToggleDrain(a) \/ ReportInventory(a)
      PROVE  UNCHANGED requests
  BY <1>6 DEF ToggleEnabled, ToggleDrain, ReportInventory, SetAgent
<1>7. CASE UNCHANGED vars
  BY <1>7 DEF vars
<1> QED
  BY <1>1, <1>3, <1>4, <1>5, <1>6, <1>7 DEF Next, Opens

\* Only a poll delivers, and what it delivers is the command it leases.
LEMMA DeliveredBy ==
    ASSUME [Next]_vars
    PROVE  \/ delivered' = delivered
           \/ \E w \in Workers, c \in SUBSET Operations, o \in Operations :
                 /\ CommitLease(w, c, o)
                 /\ delivered' =
                       delivered \cup {[op |-> o, claims |-> ops[o].claims]}
<1>1. ASSUME NEW w \in Workers,
             \/ Opens(w)
             \/ Abort(w) \/ CommitDecide(w) \/ CommitStart(w) \/ CommitResult(w)
             \/ ReplayResult(w) \/ CommitRetry(w) \/ CommitCredential(w)
             \/ CommitConsume(w)
             \/ \E c \in SUBSET Operations : CommitNoCommand(w, c)
      PROVE  delivered' = delivered
  BY <1>1 DEF Opens, OpenPoll, OpenStart, OpenCredential, OpenConsume, OpenDecide,
              OpenResult, OpenRetry, Abort, CommitDecide, CommitStart,
              CommitResult, ReplayResult, CommitRetry, CommitCredential,
              CommitConsume, SaveOperation, CommitNoCommand
<1>2. ASSUME NEW w \in Workers, NEW c \in SUBSET Operations,
             NEW o \in Operations, CommitLease(w, c, o)
      PROVE  \/ delivered' = delivered
             \/ delivered' = delivered \cup {[op |-> o, claims |-> ops[o].claims]}
  BY <1>2 DEF CommitLease
<1>3. ASSUME NEW o \in Operations, Author(o) \/ LeaseExpires(o)
      PROVE  delivered' = delivered
  BY <1>3 DEF Author, LeaseExpires
<1>4. ASSUME NEW a \in Agents,
             ToggleEnabled(a) \/ ToggleDrain(a) \/ ReportInventory(a)
      PROVE  delivered' = delivered
  BY <1>4 DEF ToggleEnabled, ToggleDrain, ReportInventory, SetAgent
<1>5. CASE UNCHANGED vars
  BY <1>5 DEF vars
<1> QED
  BY <1>1, <1>2, <1>3, <1>4, <1>5 DEF Next, Opens

\* A row that is there stays there.
LEMMA PresentStays ==
    ASSUME TypeOK, [Next]_vars, NEW o \in Operations, Present(o)
    PROVE  Present(o)'
<1> USE DEF Present
<1>1. CASE UNCHANGED ops
  BY <1>1
<1>2. ASSUME NEW x \in Operations, Author(x)
      PROVE  Present(o)'
  BY <1>2 DEF Author, MayAuthor, TypeOK
<1>3. ASSUME NEW w \in Workers, CommitDecide(w)
      PROVE  Present(o)'
  <2>1. PICK n : ops' = [ops EXCEPT ![requests[w].op] =
                            Decided(requests[w].op, requests[w].decision, n)]
    BY <1>3 DEF CommitDecide
  <2>2. Decided(o, requests[w].decision, n).state = ops[o].state
    BY DEF Decided, TypeOK, Row
  <2> QED
    BY <2>1, <2>2 DEF TypeOK
<1>4. ASSUME NEW w \in Workers, CommitStart(w)
      PROVE  Present(o)'
  BY <1>4 DEF CommitStart, TypeOK, Row
<1>5. ASSUME NEW w \in Workers, CommitResult(w)
      PROVE  Present(o)'
  <2>1. requests[w].body \in Bodies
    BY <1>5, RequestKinds DEF TypeOK, CommitResult, ResultRequest
  <2>2. requests[w].body.status # "absent"
    BY <2>1, ProtocolAssumption DEF Body, ResultStates, Terminal
  <2>3. WithResult(o, requests[w].body).state # "absent"
    BY <2>2 DEF WithResult, TypeOK, Row
  <2> QED
    BY <1>5, <2>3 DEF CommitResult, TypeOK
<1>6. ASSUME NEW w \in Workers, CommitCredential(w) \/ CommitConsume(w)
      PROVE  Present(o)'
  <2>1. requests[w].seen.row \in Row
    BY <1>6, RequestKinds
       DEF TypeOK, CommitCredential, CommitConsume, CredentialRequest, RowView
  <2>2. \A s \in States : "absent" \notin Transitions[s]
    BY DEF Transitions, Terminal
  <2>3. ops[o].state \in States
    BY DEF TypeOK, Row
  <2>4. PICK changed : /\ SaveOperation(w, changed)
                       /\ changed.state = requests[w].seen.row.state
    BY <1>6, <2>1 DEF CommitCredential, CommitConsume, Row
  <2>5. CASE requests[w].op = o
    BY <2>2, <2>3, <2>4, <2>5 DEF SaveOperation, TypeOK
  <2>6. CASE requests[w].op # o
    BY <2>4, <2>6 DEF SaveOperation, TypeOK
  <2> QED
    BY <2>5, <2>6
<1>7. ASSUME NEW w \in Workers, CommitRetry(w)
      PROVE  Present(o)'
  BY <1>7 DEF CommitRetry, MayAuthor, TypeOK
<1>8. ASSUME NEW w \in Workers, NEW c \in SUBSET Operations, CommitNoCommand(w, c)
      PROVE  Present(o)'
  BY <1>8 DEF CommitNoCommand, Quarantined, TypeOK, Row
<1>9. ASSUME NEW w \in Workers, NEW c \in SUBSET Operations,
             NEW x \in Operations, CommitLease(w, c, x)
      PROVE  Present(o)'
  <2>1. ops'[o] \in {Leased(o), Quarantined(ops[o]), ops[o]}
    BY <1>9 DEF CommitLease
  <2> QED
    BY <2>1 DEF Leased, Quarantined, TypeOK, Row
<1>10. ASSUME NEW x \in Operations, LeaseExpires(x)
       PROVE  Present(o)'
  BY <1>10, <1>1 DEF LeaseExpires
<1>11. ASSUME NEW a \in Agents,
              ToggleEnabled(a) \/ ToggleDrain(a) \/ ReportInventory(a)
       PROVE  Present(o)'
  BY <1>11, <1>1 DEF ToggleEnabled, ToggleDrain, ReportInventory, SetAgent
<1>12. ASSUME NEW w \in Workers, Abort(w) \/ ReplayResult(w)
       PROVE  Present(o)'
  BY <1>12, <1>1 DEF Abort, ReplayResult
<1>13. ASSUME NEW w \in Workers, Opens(w)
       PROVE  Present(o)'
  BY <1>13, <1>1 DEF Opens, OpenPoll, OpenStart, OpenCredential, OpenConsume, OpenDecide,
                     OpenResult, OpenRetry
<1>14. CASE UNCHANGED vars
  BY <1>14, <1>1 DEF vars
<1> QED
  BY <1>2, <1>3, <1>4, <1>5, <1>6, <1>7, <1>8, <1>9, <1>10, <1>11, <1>12,
     <1>13, <1>14
     DEF Next, Opens
=============================================================================
