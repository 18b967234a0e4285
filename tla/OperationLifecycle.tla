------------------------- MODULE OperationLifecycle -------------------------
(***************************************************************************)
(* The life of a Controller Operation that is not a bulk child: authored,  *)
(* approved, dispatched, leased to its agent, reported on and retried.     *)
(*                                                                         *)
(* Every HTTP request is one database transaction.  Its first plain SELECT *)
(* opens a read view (REPEATABLE READ, the isolation level Frappe runs     *)
(* with), later plain SELECTs read that view, SELECT ... FOR UPDATE and    *)
(* UPDATE read and lock the rows as they are now, and the request ends in  *)
(* a commit or a rollback.  A request is therefore two actions: Open...,   *)
(* which takes the read view, and the action that locks, checks, writes    *)
(* and commits.  Abort is every way a request ends without a commit: an    *)
(* exception of a check, a database error, a worker that dies.             *)
(*                                                                         *)
(* SnapshotIsolation tells what the database does when a locking read or   *)
(* an UPDATE meets a row that changed after the read view was taken: TRUE, *)
(* the statement fails and the request rolls back (MariaDB with            *)
(* innodb_snapshot_isolation=ON); FALSE, the statement works on the        *)
(* current row while plain reads keep returning the old one (OFF).         *)
(***************************************************************************)
EXTENDS Naturals, FiniteSets

CONSTANTS
    Operations,         \* operation ids
    Agents,             \* Server Agent rows
    Users,              \* users holding the Approver role, and the requester
    Workers,            \* web workers, each serving one request at a time
    Requester,          \* requested_by of every operation
    AgentOf,            \* server_agent of each operation
    Required,           \* required_approvals of each operation (its policy)
    Creations,          \* operations of the site.create family
    Allowed,            \* operations whose type the feature flags enable
    Bodies,             \* result bodies an agent may submit
    MaxInventory,       \* bound: inventory digests are 1..MaxInventory
    MaxLeases,          \* bound: leases of one operation
    SnapshotIsolation,  \* see above
    NoOperation         \* the null of retry_of

Terminal == {"succeeded", "failed", "cancelled", "timed_out",
             "needs_intervention", "dead_letter", "rejected"}
ResultStates == {"queued", "running"} \cup Terminal
Active == {"queued", "leased", "running"}
RETRY_STATES == Terminal \ {"succeeded"}
States == {"absent", "awaiting_approval"} \cup Active \cup Terminal

\* What a result body says of a creation's handover: evidence that the apps
\* and public HTTPS were verified; none at all (an agent of an older release);
\* or evidence that falls short.
Evidence == {"complete", "legacy", "short"}
Body == [status: ResultStates, evidence: Evidence]
NoResult == [status |-> "none", evidence |-> "legacy"]

ASSUME OperationsAssumption ==
    /\ NoOperation \notin Operations
    /\ IsFiniteSet(Operations)
    /\ AgentOf \in [Operations -> Agents]
    /\ Required \in [Operations -> Nat]
    /\ Creations \subseteq Operations
    /\ Allowed \subseteq Operations
ASSUME UsersAssumption ==
    /\ IsFiniteSet(Users)
    /\ IsFiniteSet(Workers)
    /\ Requester \in Users
ASSUME ProtocolAssumption ==
    /\ Bodies \subseteq Body
    /\ MaxInventory \in Nat \ {0}
    /\ MaxLeases \in Nat
    /\ SnapshotIsolation \in BOOLEAN

VARIABLES
    ops,        \* Controller Operation with its one Operation Target
    decisions,  \* Operation Approval rows of each operation
    agents,     \* Server Agent rows
    lapsed,     \* how many leases of each operation the clock has passed
    requests,   \* the request each worker is serving
    delivered   \* commands that have reached an agent

vars == <<ops, decisions, agents, lapsed, requests, delivered>>

(***************************************************************************)
(* Rows.  command_json and command_hash are a function of the immutable    *)
(* fields and of the approval claims, so they are kept as dispatched       *)
(* (command_hash is not null) and claims.  lease numbers the values that   *)
(* lease_expires_at has had; 0 is null.  An approval row is named by the   *)
(* worker that inserted it: no key makes (operation, approver) unique.     *)
(*                                                                         *)
(* Operators named Faulty... are wrong on purpose: each is the operator    *)
(* after it with a plausible bug, for showing that a property notices.     *)
(***************************************************************************)
Approval == [by: Workers, approver: Users, decision: {"approved", "rejected"}]

Row == [state: States,
        approval_status: {"not_required", "pending", "approved", "rejected"},
        approval_count: Nat,
        creation: Nat,
        dispatched: BOOLEAN,
        claims: SUBSET Approval,
        lease: 0..MaxLeases,
        inventory: 0..MaxInventory,
        result: Bodies \cup {NoResult},
        credential: BOOLEAN,
        consumed: BOOLEAN,
        retry_of: Operations \cup {NoOperation}]

AbsentRow == [state |-> "absent", approval_status |-> "not_required",
              approval_count |-> 0, creation |-> 0, dispatched |-> FALSE,
              claims |-> {}, lease |-> 0, inventory |-> 0,
              result |-> NoResult, credential |-> FALSE, consumed |-> FALSE,
              retry_of |-> NoOperation]

AgentRow == [enabled: BOOLEAN, draining: BOOLEAN, inventory: 1..MaxInventory]

\* What a read view shows of an operation.
RowView == [row: Row, decisions: SUBSET Approval, agent: AgentRow]
See(o) == [row |-> ops[o], decisions |-> decisions[o],
           agent |-> agents[AgentOf[o]]]

Idle == [kind |-> "idle"]
DecideRequest == [kind: {"decide"}, op: Operations, actor: Users \ {Requester},
                  decision: {"approved", "rejected"}, seen: RowView]
StartRequest == [kind: {"start"}, op: Operations, seen: RowView]
PollRequest == [kind: {"poll"}, agent: Agents, seen: [Operations -> RowView]]
ResultRequest == [kind: {"result"}, op: Operations, body: Bodies, seen: RowView]
RetryRequest == [kind: {"retry"}, op: Operations, successor: Operations,
                 seen: RowView]
CredentialRequest == [kind: {"credential", "consume"}, op: Operations,
                      seen: RowView, source_state: States]
Request == {Idle} \cup DecideRequest \cup StartRequest \cup PollRequest
               \cup ResultRequest \cup RetryRequest \cup CredentialRequest

TypeOK ==
    /\ ops \in [Operations -> Row]
    /\ decisions \in [Operations -> SUBSET Approval]
    /\ agents \in [Agents -> AgentRow]
    /\ lapsed \in [Operations -> 0..MaxLeases]
    /\ requests \in [Workers -> Request]
    /\ delivered \subseteq [op: Operations, claims: SUBSET Approval]

Init ==
    /\ ops = [o \in Operations |-> AbsentRow]
    /\ decisions = [o \in Operations |-> {}]
    /\ agents = [a \in Agents |->
                    [enabled |-> TRUE, draining |-> FALSE, inventory |-> 1]]
    /\ lapsed = [o \in Operations |-> 0]
    /\ requests = [w \in Workers |-> Idle]
    /\ delivered = {}

-----------------------------------------------------------------------------
\* Requests.

Open(w, request) ==
    /\ requests[w] = Idle
    /\ requests' = [requests EXCEPT ![w] = request]

Close(w) == requests' = [requests EXCEPT ![w] = Idle]

\* A locking read or an UPDATE of o's row, or of o's row joined with its
\* agent's, succeeds for a request that saw them as "seen".  (The agent row
\* also holds the stamp of its last request; that only adds rollbacks.)
Writable(seen, o) == SnapshotIsolation => seen.row = ops[o]
Lockable(seen, o) == SnapshotIsolation => seen = See(o)

\* Any exception, database error or worker death: rollback, nothing written.
Abort(w) ==
    /\ requests[w] # Idle
    /\ Close(w)
    /\ UNCHANGED <<ops, decisions, agents, lapsed, delivered>>

Present(o) == ops[o].state # "absent"
Agent(o) == agents[AgentOf[o]]

-----------------------------------------------------------------------------
\* Approvals.

Approved(rows) == {r \in rows : r.decision = "approved"}
Approvers(rows) == {r.approver : r \in Approved(rows)}
HasRejection(rows) == \E r \in rows : r.decision = "rejected"

(***************************************************************************)
(* ApprovalBoundDispatcher._approval_claims: the operation's own columns   *)
(* are "row", its approval rows are "rows"; the outcome is one of          *)
(*   "refused"   ApprovalNotSatisfied is raised,                           *)
(*   "conflict"  DispatchConflict is raised,                               *)
(*   "granted"   the claims are ClaimsOf(o, rows).                         *)
(***************************************************************************)
FaultyApprovalVerdict(o, row, rows) ==
    IF Required[o] = 0 \/ row.approval_status = "approved"
    THEN "granted" ELSE "refused"

ApprovalVerdict(o, row, rows) ==
    IF HasRejection(rows) THEN "refused"
    ELSE IF Required[o] = 0
    THEN IF row.approval_status = "not_required" THEN "granted" ELSE "refused"
    ELSE IF \/ row.approval_status # "approved"
            \/ Cardinality(Approved(rows)) < Required[o]
    THEN "refused"
    ELSE IF \/ row.approval_count # Cardinality(Approved(rows))
            \/ Requester \in Approvers(rows)
            \/ Cardinality(Approvers(rows)) # Cardinality(Approved(rows))
    THEN "conflict"
    ELSE "granted"

ClaimsOf(o, rows) == IF Required[o] = 0 THEN {} ELSE Approved(rows)

OpenDecide(w, o, actor, decision) ==
    /\ Present(o)
    /\ ops[o].approval_status = "pending"
    /\ actor # Requester
    /\ Open(w, [kind |-> "decide", op |-> o, actor |-> actor,
                decision |-> decision, seen |-> See(o)])
    /\ UNCHANGED <<ops, decisions, agents, lapsed, delivered>>

\* "Each approver may decide only once", as far as the read view shows.
FaultyMayDecide(seen, actor) == TRUE
MayDecide(seen, actor) == \A d \in seen.decisions : d.approver # actor

\* after_insert's UPDATE of the operation, for the approvals it has counted.
FaultyDecided(o, decision, count) ==
    IF decision = "rejected"
    THEN [ops[o] EXCEPT !.approval_status = "rejected"]
    ELSE IF count > Required[o]
    THEN [ops[o] EXCEPT !.approval_count = count, !.approval_status = "approved"]
    ELSE [ops[o] EXCEPT !.approval_count = count]

Decided(o, decision, count) ==
    IF decision = "rejected"
    THEN [ops[o] EXCEPT !.approval_status = "rejected"]
    ELSE IF count >= Required[o]
    THEN [ops[o] EXCEPT !.approval_count = count, !.approval_status = "approved"]
    ELSE [ops[o] EXCEPT !.approval_count = count]

\* decide_operation with OperationApproval.validate and after_insert.  Nothing
\* locks the operation before the final UPDATE: the duplicate check and the
\* count read the request's view and its own new row.
CommitDecide(w) ==
    LET r == requests[w]
        row == [by |-> w, approver |-> r.actor, decision |-> r.decision]
        count == Cardinality(Approved(r.seen.decisions \cup {row}))
    IN  /\ r.kind = "decide"
        /\ Writable(r.seen, r.op)
        /\ r.op \in Allowed
        /\ MayDecide(r.seen, r.actor)
        /\ decisions' = [decisions EXCEPT ![r.op] = @ \cup {row}]
        /\ ops' = [ops EXCEPT ![r.op] = Decided(r.op, r.decision, count)]
        /\ Close(w)
        /\ UNCHANGED <<agents, lapsed, delivered>>

-----------------------------------------------------------------------------
\* Authoring and dispatch.

\* The checks of ApprovalBoundDispatcher.envelope on the locked agent row.
AgentAccepts(o, inventory) ==
    /\ Agent(o).enabled
    /\ ~ Agent(o).draining
    /\ inventory = Agent(o).inventory

\* OperationAuthoringService.author and FrappeOperationAuthoringRepository
\* .create; an operation that needs no approval is queued in the same request.
NewRow(o, source) ==
    [AbsentRow EXCEPT
        !.state = IF Required[o] = 0 THEN "queued" ELSE "awaiting_approval",
        !.approval_status = IF Required[o] = 0 THEN "not_required" ELSE "pending",
        !.creation = Cardinality({x \in Operations : Present(x)}) + 1,
        !.dispatched = (Required[o] = 0),
        !.inventory = Agent(o).inventory,
        !.retry_of = source]

MayAuthor(o) ==
    /\ ~ Present(o)
    /\ o \in Allowed
    /\ Agent(o).enabled
    /\ Required[o] = 0 => AgentAccepts(o, Agent(o).inventory)

Author(o) ==
    /\ MayAuthor(o)
    /\ ops' = [ops EXCEPT ![o] = NewRow(o, NoOperation)]
    /\ UNCHANGED <<decisions, agents, lapsed, requests, delivered>>

OpenStart(w, o) ==
    /\ Present(o)
    /\ o \in Allowed
    /\ ops[o].state # "queued"
    /\ ops[o].approval_status \in {"approved", "not_required"}
    /\ Open(w, [kind |-> "start", op |-> o, seen |-> See(o)])
    /\ UNCHANGED <<ops, decisions, agents, lapsed, delivered>>

\* What dispatch asks of the row it reads without a lock.
FaultyDispatchable(row) == row.state # "queued"
Dispatchable(row) == row.state = "awaiting_approval" /\ ~ row.dispatched

(***************************************************************************)
(* start_operation, ending in ApprovalBoundDispatcher.dispatch.  envelope  *)
(* locks the operation, target, agent and approval rows and judges them as *)
(* they are; dispatch then reads state and command_hash again without a    *)
(* lock, that is from the request's view.                                  *)
(***************************************************************************)
CommitStart(w) ==
    LET r == requests[w]
        o == r.op
    IN  /\ r.kind = "start"
        /\ Lockable(r.seen, o)
        /\ AgentAccepts(o, ops[o].inventory)
        /\ ApprovalVerdict(o, ops[o], decisions[o]) = "granted"
        /\ Dispatchable(r.seen.row)
        /\ ops' = [ops EXCEPT ![o].state = "queued",
                              ![o].dispatched = TRUE,
                              ![o].claims = ClaimsOf(o, decisions[o])]
        /\ Close(w)
        /\ UNCHANGED <<decisions, agents, lapsed, delivered>>

-----------------------------------------------------------------------------
\* Polling.

\* The signature check commits the request sequence; authenticate_peer then
\* reads the agent without a lock and so opens the read view.
OpenPoll(w, a) ==
    /\ agents[a].enabled
    /\ Open(w, [kind |-> "poll", agent |-> a,
                seen |-> [o \in Operations |-> See(o)]])
    /\ UNCHANGED <<ops, decisions, agents, lapsed, delivered>>

\* The candidate query of lease_command.
FaultyLeasable(o) ==
    /\ Agent(o).enabled
    /\ ~ Agent(o).draining
    /\ ops[o].dispatched
    /\ ops[o].state = "queued"

Leasable(o) ==
    /\ Agent(o).enabled
    /\ ~ Agent(o).draining
    /\ ops[o].dispatched
    /\ \/ ops[o].state = "queued"
       \/ ops[o].state = "leased" /\ ops[o].lease <= lapsed[o]

\* Another open request may hold o's row or its agent's locked: SKIP LOCKED
\* passes over o.
LockedByOthers(w, o) ==
    \E v \in Workers \ {w} :
        \/ /\ requests[v].kind = "poll"
           /\ requests[v].agent = AgentOf[o]
        \/ /\ requests[v].kind \in {"start", "result"}
           /\ AgentOf[requests[v].op] = AgentOf[o]
        \/ /\ requests[v].kind \in {"decide", "retry", "credential", "consume"}
           /\ requests[v].op = o

\* validate_persisted: the operation's columns come from the view, the
\* command from the locked candidate, the approval rows are locked.
PersistedVerdict(o, seen) ==
    IF seen.row.state = "absent" THEN "conflict"
    ELSE IF /\ ApprovalVerdict(o, seen.row, decisions[o]) = "granted"
            /\ ClaimsOf(o, decisions[o]) # ops[o].claims
    THEN "conflict"
    ELSE ApprovalVerdict(o, seen.row, decisions[o])

FaultyQuarantined(row) == [row EXCEPT !.state = "conflict"]
Quarantined(row) == [row EXCEPT !.state = "failed"]
NextLease(o) == 1 + IF ops[o].lease > lapsed[o] THEN ops[o].lease ELSE lapsed[o]
Leased(o) == [ops[o] EXCEPT !.state = "leased", !.lease = NextLease(o)]

\* The candidates of a poll in the order of o.creation: those before the first
\* that is not in conflict are quarantined.
Before(o, candidates) == {x \in candidates : ops[x].creation < ops[o].creation}

PollCandidates(w, candidates) ==
    LET r == requests[w]
        eligible == {o \in Allowed : AgentOf[o] = r.agent /\ Leasable(o)}
    IN  /\ r.kind = "poll"
        /\ candidates \subseteq eligible
        /\ \A o \in eligible \ candidates : LockedByOthers(w, o)
        /\ \A o \in candidates : Lockable(r.seen[o], o)

\* lease_command returns a command: the first candidate not in conflict is
\* valid.  The lease commits before the response, which may be lost.
CommitLease(w, candidates, o) ==
    LET seen == requests[w].seen
    IN  /\ PollCandidates(w, candidates)
        /\ o \in candidates
        /\ PersistedVerdict(o, seen[o]) = "granted"
        /\ NextLease(o) <= MaxLeases
        /\ \A x \in Before(o, candidates) :
               PersistedVerdict(x, seen[x]) = "conflict"
        /\ ops' = [x \in Operations |->
                      IF x = o THEN Leased(x)
                      ELSE IF x \in Before(o, candidates)
                      THEN Quarantined(ops[x]) ELSE ops[x]]
        /\ \/ delivered' = delivered \cup {[op |-> o, claims |-> ops[o].claims]}
           \/ UNCHANGED delivered
        /\ Close(w)
        /\ UNCHANGED <<decisions, agents, lapsed>>

\* lease_command returns None: every candidate, if any, is in conflict.
CommitNoCommand(w, candidates) ==
    /\ PollCandidates(w, candidates)
    /\ \A x \in candidates :
           PersistedVerdict(x, requests[w].seen[x]) = "conflict"
    /\ ops' = [x \in Operations |->
                  IF x \in candidates THEN Quarantined(ops[x]) ELSE ops[x]]
    /\ Close(w)
    /\ UNCHANGED <<decisions, agents, lapsed, delivered>>

\* Time passes the lease and its clock-skew allowance; the last one modelled
\* never ends.
LeaseExpires(o) ==
    /\ ops[o].state = "leased"
    /\ ops[o].lease > lapsed[o]
    /\ ops[o].lease < MaxLeases
    /\ lapsed' = [lapsed EXCEPT ![o] = ops[o].lease]
    /\ UNCHANGED <<ops, decisions, agents, requests, delivered>>

-----------------------------------------------------------------------------
\* Results.

\* An agent reports on a command it has received: in any order, repeatedly.
OpenResult(w, o, body) ==
    /\ \E d \in delivered : d.op = o
    /\ Agent(o).enabled
    /\ Open(w, [kind |-> "result", op |-> o, body |-> body, seen |-> See(o)])
    /\ UNCHANGED <<ops, decisions, agents, lapsed, delivered>>

\* ControllerIngestionService.ingest_result: which body may follow which.
FaultyMayFollow(stored, body) ==
    stored = NoResult \/ body.status # "queued"

MayFollow(stored, body) ==
    \/ stored = NoResult
    \/ stored.status = "queued" /\ body.status # "queued"
    \/ stored.status = "running" /\ body.status \in Terminal

\* creation_handover_ready, for the row as commit_result has locked it.
FaultyHandoverReady(o, body) == body.evidence = "complete"
HandoverReady(o, body) == body.evidence = "complete" /\ ops[o].credential
Unverified(o, body) ==
    body.status = "succeeded" /\ o \in Creations /\ ~ HandoverReady(o, body)

\* commit_result: success of a creation that an old agent cannot substantiate
\* becomes needs_intervention; a queued acknowledgement keeps the lease.
FaultyWithResult(o, body) ==
    [ops[o] EXCEPT !.result = body, !.lease = 0, !.state = body.status]

WithResult(o, body) ==
    IF body.status = "queued"
    THEN [ops[o] EXCEPT !.result = body]
    ELSE [ops[o] EXCEPT
             !.result = body, !.lease = 0,
             !.state = IF Unverified(o, body)
                       THEN "needs_intervention" ELSE body.status]

CommitResult(w) ==
    LET r == requests[w]
        o == r.op
        stored == r.seen.row.result
    IN  /\ r.kind = "result"
        /\ stored # r.body
        /\ MayFollow(stored, r.body)
        /\ Lockable(r.seen, o)
        /\ ops[o].result = stored
        /\ Unverified(o, r.body) => r.body.evidence = "legacy"
        /\ ops' = [ops EXCEPT ![o] = WithResult(o, r.body)]
        /\ Close(w)
        /\ UNCHANGED <<decisions, agents, lapsed, delivered>>

\* A replay of the stored body is accepted and changes nothing.
ReplayResult(w) ==
    LET r == requests[w]
    IN  /\ r.kind = "result"
        /\ \/ r.seen.row.result = r.body
           \/ /\ MayFollow(r.seen.row.result, r.body)
              /\ Lockable(r.seen, r.op)
              /\ ops[r.op].result = r.body
        /\ Close(w)
        /\ UNCHANGED <<ops, decisions, agents, lapsed, delivered>>

-----------------------------------------------------------------------------
\* The one-time credential of a created site.

SourceState(o) ==
    IF ops[o].retry_of = NoOperation THEN "absent" ELSE ops[ops[o].retry_of].state

OpenCredential(w, o) ==
    /\ \E d \in delivered : d.op = o
    /\ o \in Creations
    /\ Agent(o).enabled
    /\ Open(w, [kind |-> "credential", op |-> o, seen |-> See(o),
                source_state |-> SourceState(o)])
    /\ UNCHANGED <<ops, decisions, agents, lapsed, delivered>>

\* The requester, or an administrator, asks for it; what the view does not show
\* is refused.
OpenConsume(w, o) ==
    /\ ops[o].credential /\ ~ ops[o].consumed
    /\ Open(w, [kind |-> "consume", op |-> o, seen |-> See(o),
                source_state |-> SourceState(o)])
    /\ UNCHANGED <<ops, decisions, agents, lapsed, delivered>>

\* The transitions ControllerOperation.validate accepts (_TRANSITIONS).
Transitions ==
    [s \in States |->
        CASE s = "absent" -> {"awaiting_approval"}
          [] s = "awaiting_approval" -> {"queued", "cancelled"}
          [] s = "queued" -> {"leased", "failed", "cancelled", "timed_out"}
          [] s = "leased" -> {"queued", "running", "cancelled", "timed_out"}
          [] s = "running" -> {"queued"} \cup Terminal
          [] OTHER -> {}]

\* check_if_latest: nobody has saved the document since it was loaded.  Only the
\* two routes below save it; all others write past its modified stamp.
FaultyLatest(row, o) == TRUE
Latest(row, o) == row.credential = ops[o].credential /\ row.consumed = ops[o].consumed

\* Both routes lock the row, load the document from the read view and save all of
\* it, changed; validate compares it with the row as it is now, and a retry's
\* source must still be retryable.
SaveOperation(w, changed) ==
    LET r == requests[w]
        o == r.op
        row == r.seen.row
    IN  /\ Writable(r.seen, o)
        /\ Latest(row, o)
        /\ row.claims = ops[o].claims
        /\ row.state = ops[o].state \/ row.state \in Transitions[ops[o].state]
        /\ row.retry_of # NoOperation => r.source_state \in RETRY_STATES
        /\ row.state \in {"queued", "leased"} =>
              row.approval_status \in {"approved", "not_required"}
        /\ ops' = [ops EXCEPT ![o] = changed]
        /\ Close(w)
        /\ UNCHANGED <<decisions, agents, lapsed, delivered>>

\* store_credential_route; one that has been stored already is not stored again.
CommitCredential(w) ==
    LET row == requests[w].seen.row
    IN  /\ requests[w].kind = "credential"
        /\ ~ row.credential
        /\ SaveOperation(w, [row EXCEPT !.credential = TRUE])

\* consume_operation_credential: its answer has the secret, which is then gone.
CommitConsume(w) ==
    /\ requests[w].kind = "consume"
    /\ SaveOperation(w, [requests[w].seen.row EXCEPT !.consumed = TRUE])

-----------------------------------------------------------------------------
\* Retry.

OpenRetry(w, o, successor) ==
    /\ ops[o].state \in RETRY_STATES
    /\ AgentOf[successor] = AgentOf[o]
    /\ ~ Present(successor)
    /\ Open(w, [kind |-> "retry", op |-> o, successor |-> successor,
                seen |-> See(o)])
    /\ UNCHANGED <<ops, decisions, agents, lapsed, delivered>>

\* The locking read that looks for an earlier retry of o.
FaultyHasNoRetry(o) ==
    \A x \in Operations : ops[x].retry_of = o => ops[x].state \in RETRY_STATES
HasNoRetry(o) == \A x \in Operations : ops[x].retry_of # o

\* retry_operation locks the original, reloads it with a plain read, looks for
\* a successor with a locking read and authors one if there is none.
CommitRetry(w) ==
    LET r == requests[w]
    IN  /\ r.kind = "retry"
        /\ Writable(r.seen, r.op)
        /\ r.seen.row.state \in RETRY_STATES
        /\ HasNoRetry(r.op)
        /\ MayAuthor(r.successor)
        /\ ops' = [ops EXCEPT ![r.successor] = NewRow(r.successor, r.op)]
        /\ Close(w)
        /\ UNCHANGED <<decisions, agents, lapsed, delivered>>

-----------------------------------------------------------------------------
\* The Server Agent row: operators and heartbeats.

SetAgent(a, row) ==
    /\ agents[a] # row
    /\ agents' = [agents EXCEPT ![a] = row]
    /\ UNCHANGED <<ops, decisions, lapsed, requests, delivered>>

\* An operator enables or disables the agent.
ToggleEnabled(a) == SetAgent(a, [agents[a] EXCEPT !.enabled = ~ @])
\* An upgrade requests the drain, or ends and clears it.
ToggleDrain(a) == SetAgent(a, [agents[a] EXCEPT !.draining = ~ @])
\* A heartbeat reports a changed inventory.
ReportInventory(a) ==
    /\ agents[a].enabled
    /\ \E i \in 1..MaxInventory : SetAgent(a, [agents[a] EXCEPT !.inventory = i])

-----------------------------------------------------------------------------
Next ==
    \/ \E o \in Operations : Author(o) \/ LeaseExpires(o)
    \/ \E a \in Agents : ToggleEnabled(a) \/ ToggleDrain(a) \/ ReportInventory(a)
    \/ \E w \in Workers :
          \/ Abort(w)
          \/ CommitDecide(w)
          \/ CommitStart(w)
          \/ CommitResult(w)
          \/ ReplayResult(w)
          \/ CommitRetry(w)
          \/ CommitCredential(w)
          \/ CommitConsume(w)
          \/ \E a \in Agents : OpenPoll(w, a)
          \/ \E o \in Operations :
                 OpenStart(w, o) \/ OpenCredential(w, o) \/ OpenConsume(w, o)
          \/ \E o \in Operations, u \in Users, d \in {"approved", "rejected"} :
                 OpenDecide(w, o, u, d)
          \/ \E o \in Operations, body \in Bodies : OpenResult(w, o, body)
          \/ \E o, s \in Operations : OpenRetry(w, o, s)
          \/ \E c \in SUBSET Operations :
                \/ CommitNoCommand(w, c)
                \/ \E o \in Operations : CommitLease(w, c, o)

Spec == Init /\ [][Next]_vars
=============================================================================
