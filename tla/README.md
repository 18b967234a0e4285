# Frappe Controller: verification project

Frappe Controller is the control plane of a fleet of server agents. Operators
author operations ("create this site", "update these records"), approvers
decide on them, an agent polls for the commands meant for it, executes them and
reports events and results. The Controller is a Frappe application: every HTTP
request is one database transaction served by one of several web workers, and a
scheduler job runs every minute. There is no other coordination than the rows
and their locks.

This directory holds TLA+ models of that program, the TLC configurations that
check them, and the theorems TLAPS proves about them.

## 1. Inventory

| Component | State it keeps | Operations | Talks to |
| --- | --- | --- | --- |
| Authoring and retry (`operation_service.py`, `api/operations.py`) | Controller Operation, Operation Target | create, start, retry | policies, dispatcher |
| Approvals (`api/approvals.py`, `operation_approval.py`) | Operation Approval; `approval_count`, `approval_status` | decide | operation row |
| Dispatch (`dispatcher.py`) | `command_json`, `command_hash`, state `queued` | envelope, dispatch, validate_persisted | operation, target, approvals, agent (locked) |
| Queue (`frappe_store.py`) | `state`, `lease_expires_at` | lease_command | dispatcher, agent's poll |
| Ingestion (`ingestion.py`, `frappe_repository.py`) | `result_json`, `state`; Operation Event, `last_event_sequence` | ingest_result, ingest_events | agent |
| Inventory (`inventory.py`, `frappe_repository.py`) | Bench, Managed Site, the inventory columns of Server Agent | reconcile, replace_inventory | agent's heartbeat, dispatch, customer sites |
| Credential handover (`credential_routes.py`, `creation_readiness.py`) | `credential_received_at`, `credential_consumed_at` | store, consume | site creation |
| Bulk (`bulk*.py`, `frappe_bulk_*.py`, `api/bulk_operations.py`) | Bulk Operation, Target, Approval | create, decide, pause, resume, cancel, retry, reconcile (scheduler) | authoring, dispatcher |
| Agent upgrades (`api/upgrades.py`, `agent_upgrade_routes.py`) | `drain_requested`, `upgrade_state` | request, refresh, deploy, verify, roll back, cancel | queue |
| Customer sites (`api/customer_sites.py`) | Customer's links, scan cursor | create, reconcile (scheduler) | authoring, inventory |
| Source data (`api/source_data.py`, `api/data_updates.py`) | Integration Request log, cache locks | add, edit, remove | external API |
| Agent authentication (`agent_request_auth.py`, `frappe_security_store.py`, `pki.py`, `api/enrollment.py`) | last signed request, token, Agent Certificate | authenticate, enroll, rotate, revoke | every agent route |
| Stand-alone store (`controller_store.py`) | SQLite tables | enqueue, lease, event, result | - |
| Pure algorithms | none | approval-rule selection, bulk selection, protocol negotiation, aggregate, failure budget | - |

What is hard about it:

- **Stale reads.** A request's plain SELECTs keep returning its first snapshot,
  its locking reads and updates return and change the current row. Several
  handlers mix the two (deciding, starting, polling, retrying, saving a whole
  document). What the database does when they disagree is a setting:
  MariaDB with `innodb_snapshot_isolation=ON` makes the later statement fail,
  with `OFF` it proceeds. The program does not pin it, so both are modelled.
- **Delivery.** A lease commits before its response is received; responses are
  lost, reports come twice, late and out of order; a lease passes while its
  command still executes.
- **Partial knowledge.** The agent may be drained, disabled or re-inventoried at
  any point between authoring and delivery.
- **Batch jobs.** One scheduler transaction handles all bulk parents.

What makes each component correct, in a sentence: the ledger equals the rows it
summarises and nobody counts twice (approvals); nothing is leased that was not
approved as it is (dispatch); a command is delivered until somebody reports on
it and not afterwards (queue); results only advance (ingestion); a job has one
lineage (retry); success of a creation means evidence and credential (handover);
limits, budget and stop requests are honoured by every reconciliation and one
bad parent does not stop the others (bulk); nothing is active while an agent is
replaced, and every upgrade can end (upgrades); the history of an operation has
every event once and in order (events); rows say what their agents reported, and
nothing passes to another owner (inventory); a customer has one creation, a true
link and no endless wait (customer sites); an external write happens at most once
per request, and its user is told the truth (source data); a request is handled
once, a token buys one key and one certificate, and a revocation is final
(authentication).

`PROJECT.json` lists the hazards at the line where each bites, with the property
that covers it or the reason why none does.

## 2. The modules

| Module | Role |
| --- | --- |
| `Controller` | what all transactions share: the workers and the database's mode |
| `OperationLifecycle` | the detailed model: rows, read views, one action per handler |
| `OperationContract` | the abstract specification of a single operation |
| `OperationProperties` | properties of the lifecycle; the refinement mapping to the contract; fairness |
| `MCOperationLifecycle` | small instances for TLC |
| `OperationProofs` | type correctness, and what any step may do to requests, deliveries and rows |
| `ContractProofs` | in a database that refuses stale writes: the approval ledger, dispatch, leases, results, retries and the contract, proved |
| `StaleViewProofs` | whatever the database does with stale writes: leases, the handover of created sites and of their secrets, proved |
| `BulkOrchestration` | bulk parents, their targets and commands, the reconciliation job |
| `BulkProperties` | properties of bulk orchestration |
| `MCBulk` | small instances for TLC |
| `BulkProofs` | its safety, proved |
| `AgentUpgrade` | the replacement of an agent: drain, deployment, verification, rollback |
| `UpgradeProperties` | its properties |
| `UpgradeProofs` | its safety, proved |
| `EventLog` | the event history of an operation under overlapping batches |
| `AgentAccess` | tokens, signing keys, certificates, and the sequence of signed requests |
| `AgentRequests`, `MCAgentRequests` | the two composed: events that arrive in signed requests; its instance |
| `RequestProofs` | both parts and their composition: keys, requests, certificates, revocations, and the event history, proved |
| `SourceChanges`, `MCSourceChanges` | changes of an external catalogue, and the page that shows it; its instance |
| `SourceProofs` | its safety, proved |
| `Inventory` | benches and sites as agents report them in heartbeats |
| `CustomerSites`, `MCCustomerSites` | creations, retries and links of customers' sites over the inventory; its instance |
| `SiteProofs` | types, rows, owners, creations and links, proved |

`AgentRequests` is `AgentAccess` with `EventLog`, `CustomerSites` is `Inventory`
with the customers and their operations; each joins the actions that are one
transaction in the code and leaves the other part unchanged otherwise. The
remaining modules meet only in a few columns (who drains, what is leased, which
inventory an operation was bound to), which the module that does not own them
lets change at any time: each is checked for everything the others could do.

### OperationLifecycle

Variables and the rows they stand for:

| Variable | Code |
| --- | --- |
| `ops` | Controller Operation joined with its one Operation Target. The immutable fields (agent, policy, type, requester) are the constants `AgentOf`, `Required`, `Creations`, `Allowed`, `Requester`; `dispatched` and `claims` stand for `command_hash`/`command_json`, `lease` for `lease_expires_at` |
| `decisions` | Operation Approval rows |
| `agents` | Server Agent: enabled, drain_requested, inventory_digest |
| `lapsed` | how far the clock has passed an operation's leases |
| `requests` | the request each web worker serves, with what its read view shows |
| `delivered` | the commands whose response an agent received |

A request is two actions: `Open...` opens the read view (the first plain SELECT)
and makes the checks that come before any lock; `Commit...` locks, checks,
writes and commits. Between the two, any other request may run. Requests that
conflict on locks are serialised by the database, so a commit is one atomic
action: after the first lock is held, the rows it needs do not change. `Abort`
is every rollback: a failed check, a database error (deadlock victim, lock wait
timeout), a worker that dies. Requests whose only read comes after their first
lock (authoring) are one action.

| Handler | Actions |
| --- | --- |
| `create_operation` | `Author` |
| `decide_operation`, `OperationApproval.validate`/`after_insert` | `OpenDecide`, `CommitDecide` |
| `start_operation`, `dispatch` | `OpenStart`, `CommitStart` |
| agent poll, `lease_command`, `validate_persisted` | `OpenPoll`, `CommitLease`, `CommitNoCommand` |
| the lease's clock | `LeaseExpires` |
| `submit_result`, `ingest_result`, `commit_result` | `OpenResult`, `CommitResult`, `ReplayResult` |
| `store_credential_route` | `OpenCredential`, `CommitCredential` |
| `consume_operation_credential` | `OpenConsume`, `CommitConsume` |
| `retry_operation` | `OpenRetry`, `CommitRetry` |
| upgrades, operators, heartbeats on the agent row | `ToggleEnabled`, `ToggleDrain`, `ReportInventory` |
| any failed request | `Abort` |

Abstractions: payloads, hashes and signatures are intact (the code's hash checks
guard against corrupted rows, which no handler produces); roles are respected;
the 1001 candidates of a poll's batch are all of them (instances have fewer); lock
waits are not represented, only `SKIP LOCKED`, where another open request may
make a candidate invisible (`LockedByOthers`, which covers every request that
may hold a lock).

Operators whose names start with `Faulty` or `Greedy` are deliberately wrong
variants of the operator they precede. No action uses them; they show that
properties notice such a bug.

### OperationContract

What approvers and the agent are promised: an operation is bound to one command
when it is queued, is queued once, is sent only while queued or held, is never
sent again once the agent has reported that it runs, and only an agent that got
the command makes it run or finish; a finished operation stays as it is. The
mapping (`Contract` in `OperationProperties`) reads `stage` from the state,
`command` from the dispatched claims, `sent` from `delivered`, and allows only
commands whose claims are approvals by users other than the requester.

### BulkOrchestration

A bulk parent snapshots its targets, is approved once, and a scheduler job
creates one child operation per target. The children use the queue and the
ingestion of the lifecycle, here with each request as one action: the races
between those requests are `OperationLifecycle`'s subject, the races between
them and the long job are this module's.

| Variable | Code |
| --- | --- |
| `parents` | Bulk Operation joined with its approvals: state, pause and cancel requests, retry source |
| `targets` | Bulk Operation Target: state, inventory digest at preview |
| `commands` | Controller Operation rows: the child of a target, and the `operation.cancel` that asks the agent to stop it |
| `queue` | each agent's operations that have not been reported on, by creation |
| `agents` | Server Agent: accepting (enabled, not draining), inventory digest |
| `job` | the running job: the view it read, and that view with its own writes |

| Handler | Actions and operators |
| --- | --- |
| `create_bulk_data_update`, `retry_failed_targets` | `Create`, `RetryFailed`, both through `Insert` |
| `decide_bulk_operation`, approval document | `Decide` |
| `pause_bulk_operation`, `resume_...`, `cancel_...` | `Pause`, `Resume`, `Cancel` |
| `reconcile_bulk_operations` | `OpenJob`, `CommitJob`, `AbortJob`; `Outcome` is its loop |
| `BulkOrchestrator.reconcile`, `_update` | `Reconcile` (with `Advance`, `Stop`), `Update` |
| `create_child`, `request_child_cancel`, `update_parent` | `WithChildren`, `WithCancellations`, `Save` |
| agent poll, the lease's clock, `submit_result` | `Poll`, `LeaseExpires`, `Report` |
| upgrades and operators; heartbeats | `SetAccepting`; `NewInventory` |

`OpenJob` computes the whole job, because all that it reads without a lock comes
from one snapshot; `CommitJob` demands that what it locked or wrote is still as
the snapshot shows it, since the database refuses stale writes (only the ON
setting is modelled). Two kinds of failure are kept apart, as in the code: a
`BulkOrchestrationError` fails one parent closed (`FailClosed`), any other
exception leaves the loop and rolls the job back for all parents (`Raise`).
`Resume` reads the canaries without locks, and may therefore see them unfinished.

Abstractions: the concurrency limits count only bulk commands, operations from
elsewhere are absent; the preview's hashes and evidence are the inventory digest;
disabled policies, feature flags, and the job's batch of 100 parents are not
represented; agents report a child cancelled only after they have been asked to
cancel it.

Two things the model makes visible that no property states, because nothing in
the repository promises otherwise. A parent whose state has no transition to
what its targets add up to (paused when all succeeded; cancelling when all
succeeded), or whose agent drains or changes its inventory before a child or a
cancellation is created, raises an exception that is not the orchestrator's own:
the job then rolls back for *every* parent, each minute, until an operator
intervenes; `Finishes` holds only under `Calm` for that reason. And the budget of
the targets that are not canaries is read after new children have been started,
so that a parent that pauses because of a failure may just have started more.

### AgentUpgrade

An administrator requests an upgrade, which drains the agent; when none of its
commands is leased or running, somebody outside (the updater on the agent's
host, or the administrator) replaces its image and confirms that; a heartbeat of
the new generation verifies it, or it is rolled back the same way. The
administrators' API and the updater's route are two sets of handlers over one
state machine, and both read, decide and save the Server Agent document. The
module composes with the queue only through what both use: the row's
`drain_requested`, and which commands are leased or running.

| Variable | Code |
| --- | --- |
| `row` | Server Agent: enabled, drain, upgrade columns; what heartbeats write, as `version`, `ready` (Online and ready) and `recent` (`last_seen >= upgrade_deployed_at`) |
| `commands` | the state of each of the agent's Controller Operations |
| `delivered` | the commands whose response the agent received |
| `running`, `told` | the host: which image runs, which one it was last told to deploy |
| `requests` | the row each open request is going to save |
| `alive` | history: who has sent a healthy heartbeat since the last confirmation |

| Handler | Actions |
| --- | --- |
| `request_agent_upgrade` | `RequestUpgrade` |
| `refresh_agent_drain`; the updater's `poll` | `Refresh`; `Register`, `Refresh`, `Instruct` |
| `confirm_agent_deployment`, `confirm_agent_rollback`; `deployed` | `Deployed` |
| `request_agent_rollback`; `failed` | `Failed` |
| `cancel_agent_upgrade` | `Cancel` |
| `verify_agent_deployment`; `verify` | `Verify` |
| the end of each of these | `Commit`, `Abort` |
| inventory heartbeat; start; poll; result | `Heartbeat`; `Dispatch`; `Lease`; `Report` |
| an operator's edit of the document; the host | `ToggleEnabled`; `Replace` |

A handler reads the row and counts the commands in one read view and saves the
whole row, so its action computes that row when the view is taken. `Commit`
writes it unless another save came between (Frappe compares the `modified`
stamp); heartbeats do not touch the stamp, so a save may put their columns back,
which is a case with the database OFF and impossible with it ON: the module has
the behaviours of both. `ServerAgent.validate` is `Valid`.

What the model shows beside its properties: a lease whose response was lost is
not delivered again while the agent drains, so such a drain ends only by
cancellation (`DrainEnds` assumes that what is leased has arrived); after a
cancellation the host may still follow an instruction it was given before, with
commands running; and an agent whose last upgrade succeeded but which has since
reported another version cannot be saved any more, not even to disable it,
because the document demands that the version of a closed upgrade is the running
one.

### EventLog

| Variable | Code |
| --- | --- |
| `table` | the rows of Operation Event in the order of their insertion, and `last_event_sequence` |
| `batches` | the batch each worker serves, with the read view it was compared with |
| `told` | history: the events of answered batches, which the agent may forget |

| Handler | Actions and operators |
| --- | --- |
| `ingest_events` | `Read`, with `Known`, `Pending`, `Fits`; `AnswerKnown` |
| `append_events`, `OperationEvent` | `AppendEvents` (`Current`, `Addition`), `AnswerReplay` (`Replayed`) |
| a conflict or a failed request | `DropBatch` |

One operation is modelled: batches of different operations share nothing. A
batch is a function from its sequence numbers to bodies, so that the order in
which the code demands them is the order of the numbers.

### AgentAccess and AgentRequests

| Variable | Code |
| --- | --- |
| `account` | Server Agent: enabled, signing key, expected key, last request sequence, token columns |
| `certificates` | Agent Certificate: status, validity, what it was issued for |
| `minted`, `now`, `authority` | tokens made so far; the clock; is a certificate authority configured |
| `wire` | the signed requests that exist; each may arrive again at any time |
| `sessions` | what a worker is in the middle of, between two of its transactions |
| `enrolled`, `handled`, `pinned` | history |

| Handler | Actions |
| --- | --- |
| `create_enrollment_token` | `CreateToken` |
| `complete_signing_key_enrollment` | `EnrollKey` |
| `trusted_peer_and_route_from_frappe_request` | `Accept` |
| `authenticate_peer` on a signed request | `Serve` (`ServeEvents`, `RefuseEvents`) |
| `enroll_agent`: `claim_enrollment_token`, `complete_enrollment` | `Claim`, `CompleteEnrollment` |
| `rotate_certificate`: authentication, the store's part | `Rotate`, `CompleteRotation` |
| `revoke_certificate`; an administrator | `Revoke`; `SetEnabled` |
| the agent; the clock; a worker that dies | `Sign`; `Tick`; `Fail` |

Every one of these transactions locks the row before it reads anything, so it is
one action; the races are between the transactions of a session. The signature
and the certificate chain are abstract: a request is signed by a key or is not, a
certificate has a key, an origin and an end. A request's sequence is the time at
which it is signed. The sequence starts over with each enrollment of a key,
so `HandledOnce` speaks of one enrollment: what
a former enrollment of the same key had signed may be served again within its
window. `enroll_agent` and `rotate_certificate` are modelled although no route
of this commit registers them.

### SourceChanges

| Variable | Code |
| --- | --- |
| `source`, `late`, `outside` | the external catalogue, the writes that it may still apply, and how many others made |
| `journal` | Integration Request: no row, the intent, or the outcome |
| `sessions`, `locks` | the changes at work, and the locks in the cache with who took them |
| `reviewed`, `told`, `users` | what each user looked at, was answered, and which users come |
| `cache`, `browser` | the cached page of the current generation, and a user's page |
| `attempts`, `applied`, `owed`, `exposed`, `clobbered` | history |

| Handler | Actions |
| --- | --- |
| `_change`: locks and intent; a known request id | `Start`; `Repeat` |
| `add_record`, `edit_record`, `delete_record`: the check; `_write` | `Check`; `Sent` |
| `_change`: outcome, new generation, release | `Record`, `Finish` |
| an unexpected exception, a dead worker; a lock's 120 seconds | `Break`; `Lapse` |
| `browse`; its cache | `Browse`, `Fetch`; `Expire` |
| the catalogue, and others who write it | `ApplyLate`; `WriteOutside` |

A record is one value, and a page is known by the changes that it shows; paging,
fields and their validation are left out. So is the retention of Integration
Request logs: `AtMostOnce` and `ToldTruly` are about as long as a request's log is
kept (`src/README.md:161`), and need neither locks nor a catalogue of one's own.

What a user reviewed may be replaced between the last read and the write. The
locks keep away only a change that holds its own and takes the same one.
`exposed` remembers the requests that somebody else reached in that interval, by
writing the very record: an outsider (`src/README.md:144` and `153` say that this
cannot be prevented), a write without an answer that arrives late, one of two
changes whose record lock has lapsed, or an edit that makes of its record what is
being added, since an edit locks the id and an addition the fields
(`api/source_data.py:246`). The last needs no fault at all: the catalogue then has
the record twice. `NothingClobbered` promises that nothing else does it.

A new generation of the cache is written after the outcome is committed, and only
by the worker that made the change. If it dies in between, or its locks lapse,
the repeated request is answered from the log with success while the page of
before stays cached for up to 60 seconds, although `src/README.md:168` says
"Successful or uncertain mutations invalidate the browsing cache": the model has
`Record`, then `Break` or `Lapse`, then `Repeat`, which writes no generation.
`PagesAreFresh` is what does hold: from the new generation on, also where it came
and the answer did not. It makes no promise about an answer that came from the log.

### Inventory and CustomerSites

| Variable | Code |
| --- | --- |
| `benches`, `sites` | Bench and Managed Site: owner, bench, enabled or status |
| `servers` | Server Agent: inventory digest and revision |
| `heartbeats` | what each worker reconciles, with its read view |
| `operations` | Controller Operation rows of type `site.create_blank` |
| `customers` | Customer: `controller_operation`, `managed_site` |
| `requests`, `job`, `cursor` | open submissions and retries; the running job; its cursor in the cache |
| `hosts` | what is really installed |
| `visitors`, `asks`, `faults`, `moves`, `reports` | bounds of an instance: what may still happen |

| Handler | Actions and operators |
| --- | --- |
| `InventoryReconciliationService.reconcile`; `replace_inventory` | `Reconcile` (`Claimable`); `ReplaceInventory` (`Current`, `Insertable`, `Replaced`), `DropHeartbeat` |
| `create_production_site`, `check_creation_readiness` | `OpenCreate` (`Ready`), `CommitCreate` |
| `retry_operation` on a creation | `OpenRetry`, `CommitRetry` |
| `reconcile_customer_sites` | `OpenRun`, `FinishRun`, `FailRun`; `Batch`, `NextCursor`, `ReadyOnes` |
| a lost cache; the agent; others on the host | `LoseCursor`; `CreateSite`, `Report`; `Move` |

A snapshot is a function from benches to sets of sites and stands for its digest.
The execution of an operation is `OperationLifecycle`'s subject; here a creation
is open until it ends one way or the other. Creations that succeeded before
evidence of the handover was kept have none, and occupy places in the job's batches
for ever: `EligibleIsLinked` is about the customers behind them.

What these models show beside their properties. Two creations of one domain on
benches of different agents may both be authored, since each checks readiness in
its own read view; both sites get created, the first heartbeat wins the row,
and from then on every heartbeat of the other agent is refused, because its
whole inventory is. A site that moves between two benches of one
agent is refused for the same reason. And a Customer that cannot be saved
(invalid for reasons of its own) makes each run of the job that reaches it fail
for all customers of that batch: `faults` bounds such runs.

## 3. Runs

| Run | Database | Instance | Checks |
| --- | --- | --- | --- |
| `approvals` | ON | 1 operation needing 2 approvals, approvers u1 and u2, 2 workers, 2 inventories, 2 leases | `LedgerAgrees`, `OneDecisionEach`, `LeaseHolds`, `ResultAdvances`, `ImplementsContract` |
| `retries` | ON | 3 operations of one agent, no approvals, 2 workers, bodies succeeded/failed, 1 lease | `OneLineage`, `ImplementsContract` |
| `stale_views` | OFF | 1 site creation needing 1 approval, approvers u1 and u2, 2 workers, 4 bodies with and without evidence | `TypeOK`, `HandoverComplete`, `LeasesOnlyApproved`, `SecretOnce` |
| `delivery` | OFF | 2 operations, 1 worker, fairness | `WaitingIsLeased` |
| `bulk` | ON | 1 parent of 3 targets, 1 agent, 2 benches, 2 inventories | `TypeOK`, `CanariesFirst`, `OutcomeIsTrue`, `StartsAsApproved` |
| `bulk_rivals` | ON | 2 parents that select the same site, fairness | `WithinLimits`, `Finishes` |
| `bulk_queue` | ON | 1 parent of 1 target, fairness | `QueueMoves`: violated |
| `upgrades` | both | 2 releases, 1 command, 2 workers, a site in UTC, fairness | `TypeOK`, `NothingActive`, `VerifiedByDeployed`, `DrainEnds` |
| `upgrade_zone` | both | 2 releases, 1 command, 1 worker, a site behind UTC | `VerifiedByDeployed`: violated |
| `agent_requests` | OFF | 2 keys, 2 tokens, 3 certificates, 2 workers, 2 signed requests, batches of 2 sequences and 2 bodies, clock 0..2 | `TypeOK`, `HandledOnce`, `OneKeyPerToken`, `OneCertificateEach`, `RevokedForGood`, `Gapless`, `AnsweredIsStored` |
| `source_changes` | - | any two of an edit, a deletion and two additions of what the edit writes, 2 records, 2 workers, 1 write by others or a user who browses | `TypeOK`, `AtMostOnce`, `ToldTruly`, `NothingClobbered`, `PagesAreFresh` |
| `customer_sites` | OFF | 2 agents, 2 benches, 2 domains, 3 customers, batches of 1, four scenes, fairness | `TypeOK`, `RowsMatch`, `OwnersStay`, `OneCreation`, `LinkIsTrue`, `EligibleIsLinked` |

Every behaviour with the database ON is one with OFF, so what `stale_views`
checks holds for both; so do `agent_requests` and `customer_sites`, whose
transactions are guarded by the program's own comparisons. `LedgerAgrees`,
`OneDecisionEach`, `LeaseHolds` and `OneLineage` fail with OFF, and that is the
dependency on the database's setting that the project brings out: a decision
that read before another committed counts one vote less, two starts or two
retries of one operation each believe to be the first, and a handover that saves
the row as it saw it puts back the columns of a lease.

**Bounds.** Two workers suffice for every race between two transactions, the
only kind the properties distinguish: a commit is atomic, and a race needs one
stale view and one commit that overtakes it. Two approvers with a threshold of
two are the smallest ledger that can lose a count. Two operations on one agent
are the smallest queue with an order and a head to block; three are an original
and two rivals for its retry. Two leases are one redelivery; the last lease does
not lapse, so that nothing depends on the bound. Inventories are compared only
for equality; two values give every comparison. `MaxInventory`, `MaxLeases` and
`Bodies` are the only bounds; the workers' read views are the reason the
instances stay small.

For source data any two of the four requests are every pair of rivals: for a record
(edit and deletion), for a value (the additions, and the edit and an addition), or
for nothing in common; a third could only repeat one of these conflicts. Nobody has a
page open once others have written the catalogue (`MCNext`): a page changes nothing
for the changes, and is compared with the Controller's changes only. One write by
others is enough, since it falls into every interval between a check and a write.

Three things an instance does not show. In `delivery` no command is refused, so
that a head that blocks the queue is `bulk_queue`'s question. `bulk_rivals` meets
the limit of a bench only; that those of an agent and of the fleet hold across
parents is proved (`KeepsLimits`). In `customer_sites` two agents race for a free
domain, not for a free bench; `OwnersAreFinal` covers both.

For bulk operations three targets are a canary and two more that share a bench:
the smallest parent in which the canary phase, the limit of a bench and the
limit of an agent all decide something. Two parents on one site are the smallest
contention for a bench, and the second can be the retry of the first. The limits
are 2, 2 and 1 (the code's are 10, 2 and 1, and it caps them by the parent's
size, which is 3 at most here). One approver approves: counting approvals is the
`approvals` run's question.

For upgrades two releases are an old and a new one (and the old one again after a
rollback, then the new one once more); one command is enough because only
whether some command is active decides anything; two workers are one request
that overtakes another.

For agent requests two keys are two hosts that hold the same token, two tokens a
re-enrollment, and three certificates a rotation with a rival for its place. The clock
passes the end of each window once (`Age`, `Future`, `Lifetime`, `Validity` are
1, 1, 2, 2). Two requests in flight are enough for one that repeats, extends or
overtakes the other; sequences up to 2 give every relation of two batches
(equal, overlapping, following, with a gap), and `RequestProofs` has the rest.

For customer sites two agents with one bench each compete for one free domain,
beside an old creation without evidence that blocks the job's batch of one. The
four scenes of `MCCustomerSites` divide what may happen beside the job: only
hosts that change under four overlapping heartbeats (the inventory's question);
one customer with three submissions or retries and a failed run or lost cursor;
one customer while a host changes; two customers that want the same domain.
Their product is beyond exhaustive search.

**Symmetry.** Workers, approvers and (in `retries`, where all have the same agent and
policy) operations are interchangeable; nothing chooses among them. So are keys,
tokens, certificates and bodies in `agent_requests`, and the two additions in
`source_changes`. Runs that check liveness use none.

**Fairness** (`FairSpec`): each worker ends its request (`WF` on any step that
returns it to idle: a web worker has a request timeout, so it commits or rolls
back); each agent keeps polling (`SF` on `OpenPoll`: the agent's loop, which
finds a free worker again and again); and a worker whose polls keep finding a
command does not fail all of them (`SF` on the leasing step: rollbacks are
deadlock victims and lost connections, which do not persist). No fairness is
assumed of approvers, requesters, operators, of the agent's reports, nor of the
clock. `WaitingIsLeased` additionally assumes that the agent ends up enabled
and not draining.

For bulk (`FairSpec` of `BulkOrchestration`): the cron starts the job again and
again (`WF` on `OpenJob`), each of its transactions ends (`WF` on `AbortJob`),
and among those that could commit not all are refused (`SF` on `CommitJob`, which
other requests disable now and then by touching its rows); agents poll in a loop
(`WF` on `Poll`) and report an outcome of what they run (`WF` on the reports of
terminal states). Nothing is assumed of users, operators or the clock.

For upgrades: every request ends (`WF` on commit or abort); the updater polls in
a loop, and neither finding a free worker nor saving fails for ever (`SF`); the
agent reports the outcome of what it has received (`WF`). Nothing is assumed of
administrators, heartbeats or the host.

For customer sites: the cron starts the job every minute (`WF` on `OpenRun`), and
a worker finishes it (`WF` on `FinishRun`) unless it fails, which it does a
bounded number of times (`MaxFaults`). Nothing is assumed of customers, agents
or heartbeats.

**Violations.** `bulk_queue`: `lease_command` inspects a batch "so one invalid
persisted command cannot remain at the head of the queue and prevent every later
command from leasing", but a child whose parent has been cancelled raises an
exception that the loop does not catch: the poll ends in an error each time, and
the cancellation queued behind the child is never leased. `upgrade_zone`:
`upgrades.py:75` demands "a healthy inventory heartbeat produced by the deployed
generation", but compares `upgrade_deployed_at`, local time, with `last_seen`,
UTC; behind UTC a heartbeat from before the deployment passes.

**Differences** between a table in the code and what the code does, which no run
needs to show because both sides are in plain view. `_TRANSITIONS` in
`controller_operation.py:13-19` lets a leased operation become running, queued,
cancelled or timed out, while `commit_result`, which does not save through the
document, closes it with whatever outcome is reported: an agent whose `running`
report was lost reports `succeeded`. And `bulk_operation.py:29` has no
transition from `paused` to `needs_intervention`, while the reconciliation
writes it: when a failure has paused a parent by its state only, the next job
starts its remaining targets, finds that a paused parent may not, and fails
closed past that table.

## 4. Proofs

For every value of the constants that satisfies the assumptions of
`OperationLifecycle` (the fixed columns are functions on finite sets of
operations; users and workers are finite):

- **`TypeCorrect`** (`OperationProofs`): `Spec => []TypeOK`, with the database
  ON or OFF. `TypeOK` is inductive as it stands. The lemmas give one fact per
  kind of row that is written (`NewRowType`, `PollRowType`, `ResultRowType`),
  one per commit, and `ApprovalsAreFinite`: approval rows are finitely many, so
  that counting them means something.
- **`HandoverSafe`** (`StaleViewProofs`):
  `Spec => []HandoverComplete`, with the database ON or OFF. The property is not
  inductive, because storing a credential saves the whole row as an open request
  saw it: with OFF that row may be old. `HandoverInv` therefore says the same of
  the rows that open credential requests hold. A report closes a creation as
  succeeded only past `Unverified` (`HandoverResult`); a save writes a row that
  is in `HandoverInv` already (`HandoverCredential`); opening copies a stored
  row (`HandoverOpen`); nothing else writes the columns concerned
  (`HandoverOthers`).
- **`SecretGivenOnce`** (`StaleViewProofs`): `Spec => SecretOnce`, with the
  database ON or OFF. What carries it is not the row lock but the `modified`
  stamp: only the two credential routes save the document (everybody else writes
  with `update_modified=False`), so a document whose secret has changed hands
  since it was loaded is not the latest (`Latest`), while one that is may still
  be old in every other column. `SecretInv` adds that an open consumption has
  seen the secret as not given out; `SecretStep` says that nothing but a save or
  the authoring of the row writes the two columns.
- **`LedgerExact`, `DecidesOnce`** (`ContractProofs`):
  `[]LedgerAgrees` and `[]OneDecisionEach`, assuming `SnapshotIsolation`. (The
  assumption is needed: with the database OFF two requests of one approver both
  pass the duplicate check, which takes no lock, and both insert.) The invariant
  adds `DecisionFresh`: an open decision has seen some of the approval rows, and
  a row whose count is exactly the number of approvals among those it has seen.
  When it commits, `Writable` says that the stored row is still the one seen, so
  the count of the stored row (exact, by `LedgerAgrees`) and the count seen are
  the same number; a subset with the same number of approvals contains all of
  them (`SameApprovals`), and there is no rejection since the status is still
  pending, so the decision has seen every row (`SeenAll`). Its duplicate check
  and its count are then right (`LedgerDecide`, `OneMore`). `ReportsKnown`, that
  nobody reports on an operation that is not there, closes the case of a report
  that would otherwise create one.

- **`DispatchInvariant`, `LeaseIsExclusive`, `ResultsAdvance`, `LineageIsOne`**
  (`ContractProofs`): `LeaseHolds`, `ResultAdvances` and `[]OneLineage`, assuming
  `SnapshotIsolation`. Fourteen handlers do only five things to what dispatch,
  polls and reports read: nothing (`Quiet`), author a row, queue it, lease it, or
  store a report (`Effects`); `StepEffects` shows it once and for all, and every
  proof after it has five cases. `DispatchInv` adds to the ledger that whatever
  has been queued is bound to the claims that its approval rows still grant
  (`Bound`), that the stored result tells the state (`Reported`), and that what
  was delivered is held, runs or has finished. From `Reported`, a result can only
  go forward together with the state (`ReportMoves`); a retried operation has
  finished and stays so, which keeps `LineageInv`.
- **`KeepsContract`** (`ContractProofs`): `Spec => ImplementsContract`, assuming
  `SnapshotIsolation`: the refinement of `OperationContract`. The initial states
  map to its initial state, and each of the five effects maps to a step of it or
  to a stutter (`ContractBirth`, `ContractQueue`, `ContractLease`,
  `ContractReport`). That the claims bound are approvals by users other than the
  requester comes from the ledger (`ClaimsAreCommands`), that a report comes from
  an agent that was sent the command from `DispatchInv` (`ReporterWasSent`).
- **`LeasesApproved`** (`StaleViewProofs`): `Spec => LeasesOnlyApproved`, with the
  database ON or OFF. With OFF the ledger is wrong and a poll may judge an approval
  count that is not the stored one, so the argument is another one. Approval rows are
  only added, and a decision that is still open when a command is first sent has seen
  fewer approvals than the command claims (`Settled`). If such a decision commits,
  either there is a rejection, or the approval rows outnumber every count that is
  stored or that an open request has seen (`CountsUpTo`), and the poll's comparison of
  count and rows refuses everything from then on (`LeaseJudged`). The attempt to prove
  it for a longer property showed its limit: with OFF, and from four workers on, a
  credential request that saves the row as it saw it may put an older lease back, so
  that leases need not grow. The property therefore says what is promised of a lease,
  and `LeaseHolds` is proved for ON.

- **`UpgradeTypeCorrect`, `ReplacedWhenIdle`, `ClosesVerified`**
  (`UpgradeProofs`): `[]TypeOK`, `[]NothingActive`, and `VerifiedByDeployed`
  assuming that the site's zone is UTC; any number of releases, commands and
  concurrent requests. A request decides on one state and writes in a later one,
  so the invariant says of every open request what remains true until it commits
  (`Promise`): if it is going to leave the agent replaceable, the row drains and
  no command is active, and since no command can be leased while the row drains,
  none will be; if it is going to close an upgrade, the deployed release has
  sent its heartbeat, and only a save could forget that. `BeginsWithPromise`
  shows that each handler starts with its promise, `CommitKeepsIInv` that a save
  makes the promise true of the row, and a save ends all other requests, whose
  promises it might have broken.

- **`HistoryIsGapless`, `AnswersAreStored`** (`RequestProofs`): `EventsSpec =>
  []Gapless` and `=> []AnsweredIsStored`, with the database ON or OFF, for any
  number of workers and any highest sequence. Neither is inductive: an append
  trusts the comparison that was made with an older view. `EInv` adds that every
  view that is held is a prefix of the table (rows are only appended) and that
  the batch fits that view (`Holds`). `AdditionFollows` says that what a batch
  adds to such a view continues its numbers without a gap; if the cursor is
  still the view's, the prefix is the whole table (`AppendKeeps`). For an
  answer, the events the view knew are rows of the prefix, and the others were
  just appended or were found in the table by the comparison of a replay
  (`BatchStored`, `EndKeeps`).

- **`AccessTypeCorrect`, `OneKey`, `NoReplay`, `OneCertificate`,
  `RevocationFinal`** (`RequestProofs`): `[]AccessTypeOK`, `[]OneKeyPerToken`,
  `[]HandledOnce`, `[]OneCertificateEach` and `RevokedForGood`, for any keys,
  tokens, serials, requests and windows; tokens and serials are assumed to be
  different things. `StepKinds` sorts the steps by what they write. For keys the
  invariant adds that a token that is not consumed has given access to no key
  (`KeyInv`); for requests, that every handled one of the present enrollment is
  at most the account's last (`RequestInv`); for certificates, that nothing has
  been issued yet for an active one (`NoSuccessorYet`), nor for a token whose
  enrollment is not complete (`CertificateInv`). A rotation authenticates in one
  transaction and issues in another, so `RotatingOnes` carries what the first
  has found to the second, which looks at the certificate's status again under
  its lock.

- **`ReportsAreEvents`, `ReportsAreRequests`, `ReportsTypeCorrect`,
  `ReportsSafe`** (`RequestProofs`): `AgentRequests` implements both of its
  parts. Each of its steps is a step of the part or leaves it alone
  (`ReportParts`, `Parts`), and so every theorem about a part holds of the
  composition, for any mix of agents' repetitions, enrollments and workers.
  Assumed: what the agent signs are batches.

- **`RowsAreReported`, `OwnersAreFinal`, `CreationsDoNotMultiply`,
  `LinksAreTrue`** (`SiteProofs`): `[]RowsMatch`, `OwnersStay`, `[]OneCreation`
  and `[]LinkIsTrue`, for any agents, benches, domains, customers, old creations
  and batch sizes, with the database ON or OFF. A heartbeat writes what it
  compared in an older view and locks one row only. What stays true of it
  (`Sound`): rows that its view showed still exist, and those of them that it
  reports are its agent's. If the agent's row is still the view's and no
  reported row has come into being, nothing it writes belongs to another
  (`ReplaceKeepsOwners`, `ReplaceKeepsRows`). For the customers, `Lineage` says
  that a creation without a retry has its customer's link and one with a retry
  has failed; a commit is safe although its request was opened earlier, since it
  finds the customer unlinked or the original not retried (`AuthorKeeps`,
  `RetriesFailed`). `Links` says the same of a linked customer and of one that
  the running job is about to link: its creation has succeeded with the
  credential, and the row is its agent's and bench's. Nothing of this is undone,
  because what has ended stays as it is (`Persist`) and rows keep their owners,
  so that what a run read in its view is still so when it writes
  (`LinkableStays`).
- **`SitesTypeCorrect`** (`SiteProofs`): `[]TypeOK`. What is hard about it is the
  job's cursor, the greatest customer of a batch: `GreatestNumber` shows that a
  finite set of numbers has one, namely the number with the fewest above it,
  which the least-number principle provides.

- **`TypeCorrect`, `SubmitsOnce`, `TellsTruth`, `ReplacesReviewed`,
  `FreshPages`** (`SourceProofs`): `[]TypeOK`, `[]AtMostOnce`, `[]ToldTruly`,
  `[]NothingClobbered` and `[]PagesAreFresh`, for any users, records, requests
  and workers, with locks that lapse, workers that die, writes that come late and
  others who write the catalogue.
  Nothing in the first three rests on the locks, since they may lapse: `TruthInv`
  says that a request has one session at most, that until that session has sent
  its write nothing of the request is applied or under way (`Unsent`), and that
  what is written in the journal or has been told is `Honest`: "done" only once
  it is applied, "failed" only when it never will be. `LockInv` says that no lock
  has two owners and that a change about to write still finds what its user
  reviewed unless it was exposed. `SparedApart` is its core: of two changes that
  both hold their record's lock, the locks' names differ, and therefore the
  records do, so that neither write touches what the other's user reviewed; a
  write by anybody else exposes whom it reaches (`LockPut`). `FreshInv` says that
  neither the cache nor a fetch of the current generation lacks a change that is
  owed.

- **`BulkSound`, `BulkTypeCorrect`, `KeepsLimits`, `CanariesAreFirst`,
  `OutcomesAreTrue`, `StartsApproved`** (`BulkProofs`): `[]TypeOK`,
  `[]WithinLimits`, `[]CanariesFirst`, `[]OutcomeIsTrue` and `StartsAsApproved`,
  for any fleet, any number of parents and targets in any order, and any policy.
  The job is a loop over parents around a loop over targets, and its rules are
  inductions over both. The library's induction theorems cannot be instantiated,
  but their content can be had for sets: `LeastNumber` cites the well-foundedness
  of `<` on the natural numbers, `LoopInduction` says that a set which contains 0
  and is closed under the turns of a loop contains all of them, and `Recursion`
  that a loop on a set has its results, so that the recursive functions of the
  model are what their definitions say (`FilterLoop`, `StartedLoop`, `JobLoop`).
  Within one parent, `StartedFacts` counts: each target is started while the
  limits that it comes under have room for it, so that those in flight and those
  started stay within them. `Sound` says what a job that has reconciled the first
  parents makes of its view: children only of targets that `MayBegin`, limits
  that hold of everything in flight (`Bounded`), rows that only go from planned
  to queued or cancelled, and parents whose state is the view's or is true of
  their targets; `ReconcileSound` keeps it for the next parent, `OutcomeSound`
  concludes for the job. The invariant `BulkInv` states `SoundOrRaised` of the job
  that is open, with what agents may have done to its view in the meantime
  (`Standing`: children may end, nothing that has ended begins again). When the
  job commits, what it locked or wrote is still the view's (`CommitFacts`), so
  that its view's truths are the rows' (`CommitKeeps`). Two things the proof
  showed: the type of the job's rows cannot be had alone, since a child created
  twice would be queued twice and only the other conjuncts exclude it; and agents
  must be assumed to report only states a target may have (`ReportsAssumption`:
  an acknowledgement changes none).

Every invariant and every action property of the passing runs is stated by a
theorem. Only model-checked is liveness (`WaitingIsLeased`, `Finishes`,
`DrainEnds`, `EligibleIsLinked`), since the prover handles neither fairness nor
ENABLED. What the theorems assume besides the named assumptions on the constants
is stated in them: `SnapshotIsolation` for those of `ContractProofs`, and a site
in UTC for `ClosesVerified`.

## 5. Plan

Done, with the safety proved and the liveness model-checked: the core
(lifecycle and contract), bulk orchestration, event ingestion, agent upgrades,
inventory and customer sites, source-data changes, and enrollment, certificates
and the request sequence, alone and with the events that signed requests carry.

What is left:

1. **SQLite store** as a second implementation of the queue's contract, by a
   refinement of the leases, events and results that `OperationContract` names.
2. **Pure algorithms** against reference definitions: approval-rule selection,
   protocol negotiation, aggregate, failure budget with a positive number of
   failures, bulk selection.
3. **Contract of the children**: that a bulk child's command in
   `BulkOrchestration` is an operation of `OperationContract`, as
   `ImplementsContract` says of the single operations.
4. **Approvals of bulk parents** with a read view and a commit each, as those of
   single operations have.

## 6. Not modelled

- DNS and S3 routes, site actions, metrics, reports and deployment scripts call
  external services or only read; they keep no state whose interleavings matter.
- Payloads: their parsing, validation and preview binding (`data_updates.py`,
  `source_data.py`'s fields), X.509 checks (`pki.py`), and hashes are taken as
  intact or refused. Feature flags and settings are constants of an instance.
- `agent_projection` only reads.
- Saves of a whole Server Agent, Bench or Managed Site from the Desk, outside the
  upgrade handlers, may put back columns that `set_value` moved without touching
  the `modified` stamp; they are framework code on fields that the form shows.
- The SQLite store of the stand-alone controller, bulk selection and protocol
  negotiation are on the plan.
