------------------------ MODULE OperationProperties ------------------------
(***************************************************************************)
(* What the life of an operation (OperationLifecycle) promises.            *)
(***************************************************************************)
EXTENDS OperationLifecycle

\* The status that an operation's approval rows give it.
LedgerStatus(o) ==
    IF Required[o] = 0 THEN "not_required"
    ELSE IF HasRejection(decisions[o]) THEN "rejected"
    ELSE IF Cardinality(Approved(decisions[o])) >= Required[o] THEN "approved"
    ELSE "pending"

\* OperationApproval.after_insert keeps approval_count and approval_status on
\* the operation in step with the approval rows, whichever approvers decide at
\* the same time: no approval is lost, no rejection overwritten.
LedgerAgrees ==
    \A o \in Operations : Present(o) =>
        /\ ops[o].approval_count = Cardinality(Approved(decisions[o]))
        /\ ops[o].approval_status = LedgerStatus(o)

\* "Each approver may decide only once" (operation_approval.py:92).
OneDecisionEach ==
    \A o \in Operations : \A d, e \in decisions[o] :
        d.approver = e.approver => d = e

\* A poll leases a command only while its operation has no rejection and is
\* approved by enough distinct users, none of them the requester; its claims are
\* these approvals, and a redelivery carries the claims of the first delivery.
\* No approver, starter or poll that works from an old read view gets past it.
\* (That lease_expires_at grows is not the same: where the database lets a stale
\* read write, a saved credential can put back the lease it has seen.)
LeasesOnlyApproved ==
    [][\A o \in Operations :
          (\E w \in Workers, c \in SUBSET Operations : CommitLease(w, c, o)) =>
              /\ ~ HasRejection(decisions[o])
              /\ ops[o].claims \subseteq Approved(decisions[o])
              /\ Cardinality(Approvers(ops[o].claims)) >= Required[o]
              /\ Requester \notin Approvers(ops[o].claims)
              /\ \A d \in delivered : d.op = o => d.claims = ops[o].claims]_vars

\* A lease holds until the clock passes it: meanwhile the operation is neither
\* queued again nor leased again (the comment on commit_result's queued
\* acknowledgement, frappe_repository.py:426).
LeaseHolds ==
    [][\A o \in Operations :
          ops[o].state = "leased" /\ ops[o].lease > lapsed[o] =>
              /\ ops'[o].state # "queued"
              /\ ops'[o].state = "leased" => ops'[o].lease = ops[o].lease]_vars

\* The order in which results may replace each other.
Rank(result) ==
    CASE result.status = "none" -> 0
      [] result.status = "queued" -> 1
      [] result.status = "running" -> 2
      [] OTHER -> 3

\* A stored result is only replaced by a later one, whatever order duplicated
\* and delayed reports arrive in, and no other request loses it.
ResultAdvances ==
    [][\A o \in Operations :
          \/ ops'[o].result = ops[o].result
          \/ Rank(ops'[o].result) > Rank(ops[o].result)]_vars

\* A job has one lineage: at most one retry of each operation, and while a
\* retry exists the operation it retries stays finished and unsuccessful.
OneLineage ==
    \A o, s \in Operations :
        Present(s) /\ ops[s].retry_of = o =>
            /\ ops[o].state \in RETRY_STATES
            /\ \A t \in Operations : ops[t].retry_of = o => t = s

\* A created site counts as succeeded only with verified evidence and with its
\* administrator credential in the Controller's hands, in whichever order the
\* agent's result and its credential arrive.
HandoverComplete ==
    \A o \in Creations : ops[o].state = "succeeded" =>
        ops[o].credential /\ ops[o].result.evidence = "complete"

\* The one-time secret of a site is given out once: a request that has loaded the
\* document before another one gave the secret out neither gives it out again nor
\* restores it ("Do not restore the consumed secret", credential_routes.py:62).
SecretOnce ==
    [][\A o \in Creations : ops[o].consumed =>
          /\ ops'[o].consumed
          /\ ~ \E w \in Workers : CommitConsume(w) /\ requests[w].op = o]_vars

\* The Controller keeps its contract with approvers and agents
\* (OperationContract), whatever the requests' interleaving.
Stage(row) == CASE row.state = "awaiting_approval" -> "authored"
                [] row.state = "leased" -> "held"
                [] OTHER -> row.state

Contract ==
    INSTANCE OperationContract WITH
        Commands <- SUBSET [by: Workers, approver: Users \ {Requester},
                            decision: {"approved"}],
        Outcomes <- Terminal,
        None <- NoOperation,
        stage <- [o \in Operations |-> Stage(ops[o])],
        command <- [o \in Operations |->
                       IF ops[o].dispatched THEN ops[o].claims ELSE NoOperation],
        sent <- delivered

ImplementsContract == Contract!Spec

\* A command waits for its agent: it is queued, or leased under a lease that
\* has passed without a report.
Waiting(o) ==
    \/ ops[o].state = "queued"
    \/ ops[o].state = "leased" /\ ops[o].lease <= lapsed[o]

\* Every worker answers its request in the end, agents keep polling, and the
\* polls of an agent that has a command waiting do not all fail.
PollLeases(w) == \E c \in SUBSET Operations, o \in Operations : CommitLease(w, c, o)
Ends(w) == requests[w] # Idle /\ requests'[w] = Idle
FairSpec ==
    /\ Spec
    /\ \A w \in Workers :
          /\ WF_vars(Next /\ Ends(w))
          /\ SF_vars(PollLeases(w))
          /\ \A a \in Agents : SF_vars(OpenPoll(w, a))

\* No command waits for ever while its agent stays enabled and undrained, and
\* a lost response is made good by a redelivery: nothing at the head of the
\* queue keeps a later command from leasing (frappe_store.py:92).
WaitingIsLeased ==
    \A o \in Allowed :
        <>[](Agent(o).enabled /\ ~ Agent(o).draining)
            => (Waiting(o) ~> ~ Waiting(o))
=============================================================================
