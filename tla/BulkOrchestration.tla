-------------------------- MODULE BulkOrchestration --------------------------
(***************************************************************************)
(* Bulk operations: a parent with a snapshot of targets is approved once,  *)
(* and a scheduler job fans it out into one Controller Operation per       *)
(* target (the child), a few at a time, the canaries first.                *)
(*                                                                         *)
(* The job is one database transaction for all parents: OpenJob is all     *)
(* that it does with its read view, CommitJob its locks, its writes and    *)
(* the commit, AbortJob every other end.  The database refuses stale       *)
(* writes (innodb_snapshot_isolation=ON), so CommitJob needs the rows that *)
(* it locks or writes to be as its view shows them.  Requests of users and *)
(* agents are single actions here; OperationLifecycle is about their       *)
(* interleavings.                                                          *)
(*                                                                         *)
(* Operators named Faulty... are wrong on purpose: each is the operator    *)
(* after it with a plausible bug, for showing that a property notices.     *)
(***************************************************************************)
EXTENDS Naturals, Sequences, FiniteSets

CONSTANTS
    Sites,              \* Managed Site rows
    Benches,
    Agents,
    Approvers,          \* approvers that are not the requester
    BenchOf,            \* bench of a site
    AgentOf,            \* server_agent of a bench
    Selections,         \* Selections[p]: the sites parent p selects, in order
    RequiredApprovals,
    CanarySize,         \* 1 in the code
    GlobalConcurrency,  \* 10 in the code
    AgentConcurrency,   \* 2 in the code
    BenchConcurrency,   \* 1 in the code
    Reports,            \* statuses agents report
    MaxInventory        \* bound: inventory digests are 1..MaxInventory

ASSUME FleetAssumption ==
    /\ IsFiniteSet(Sites)
    /\ BenchOf \in [Sites -> Benches]
    /\ AgentOf \in [Benches -> Agents]
    /\ Selections \in Seq(Seq(Sites) \ {<<>>})
ASSUME PolicyAssumption ==
    /\ {RequiredApprovals, CanarySize, GlobalConcurrency, AgentConcurrency,
        BenchConcurrency, MaxInventory} \subseteq Nat \ {0}
    /\ IsFiniteSet(Approvers)

\* Parents are numbered in the order of their creation; a target is its
\* parent and its ordinal.
Parents == DOMAIN Selections
Targets == UNION {{p} \X DOMAIN Selections[p] : p \in Parents}
TargetsOf(p) == {t \in Targets : t[1] = p}
Site(t) == Selections[t[1]][t[2]]
Bench(t) == BenchOf[Site(t)]
Agent(t) == AgentOf[Bench(t)]

\* Two kinds of command exist for a target: the child operation, and the
\* operation.cancel that asks the agent to stop the child.
Commands == {"child", "cancel"} \X Targets

\* The elements of s in chosen, in their order (SelectSeq, whose definition
\* proofs cannot use).
Filter(s, chosen) ==
    LET F[i \in 0..Len(s)] ==
            IF i = 0 THEN <<>>
            ELSE IF s[i] \in chosen THEN Append(F[i - 1], s[i])
            ELSE F[i - 1]
    IN  F[Len(s)]

Failing == {"failed", "timed_out", "dead_letter", "needs_intervention",
            "rejected"}
Terminal == Failing \cup {"succeeded", "cancelled"}
TargetStates == {"absent", "planned", "queued", "running"} \cup Terminal
CommandStates == {"absent", "queued", "leased", "expired", "running"}
                     \cup Terminal
\* An acknowledgement of the receipt, "queued", changes no state.
ASSUME ReportsAssumption == Reports \subseteq {"running"} \cup Terminal
FaultyInFlight == CommandStates \ {"absent"}
InFlight == {"queued", "leased", "expired", "running"}

ParentTerminal == {"succeeded", "partial", "failed", "cancelled",
                   "needs_intervention", "rejected"}
Reconciled == {"approved", "canary", "running", "paused", "cancelling"}
ParentStates == {"absent", "awaiting_approval"} \cup Reconciled
                    \cup ParentTerminal
Transitions ==
    [s \in ParentStates |->
        CASE s = "awaiting_approval" -> {"approved", "rejected", "cancelled"}
          [] s = "approved" -> {"canary", "running", "paused", "cancelling",
                                "cancelled", "needs_intervention"}
          [] s = "canary" -> {"running", "paused", "cancelling"}
                                 \cup ParentTerminal
          [] s = "running" -> {"paused", "cancelling"} \cup ParentTerminal
          [] s = "paused" -> {"canary", "running", "cancelling", "cancelled"}
          [] s = "cancelling" -> {"cancelled", "partial", "needs_intervention"}
          [] OTHER -> {}]

VARIABLES
    parents,   \* Bulk Operation rows
    targets,   \* Bulk Operation Target rows
    commands,  \* Controller Operation rows of children and cancellations
    queue,     \* each agent's commands not yet running, in creation order
    agents,    \* Server Agent rows
    job        \* what the running job has seen and done, or NoJob

vars == <<parents, targets, commands, queue, agents, job>>

ParentRow == [state: ParentStates, approvals: SUBSET Approvers,
              pause: BOOLEAN, cancel: BOOLEAN, retry_of: {0} \cup Parents]
TargetRow == [state: TargetStates, inventory: 0..MaxInventory]
AgentRow == [accepting: BOOLEAN, inventory: 1..MaxInventory]

\* What a transaction sees, and has written so far: of the commands, those in
\* flight and the targets linked to a cancellation.  new lists the commands it
\* has created; raised tells that an exception ends it.
View == [parents: [Parents -> ParentRow], targets: [Targets -> TargetRow],
         agents: [Agents -> AgentRow], inflight: SUBSET Commands,
         cancelling: SUBSET Targets, new: Seq(Commands), raised: BOOLEAN]
NoJob == [seen |-> <<>>]

TypeOK ==
    /\ parents \in [Parents -> ParentRow]
    /\ targets \in [Targets -> TargetRow]
    /\ commands \in [Commands -> CommandStates]
    /\ queue \in [Agents -> Seq(Commands)]
    /\ agents \in [Agents -> AgentRow]
    /\ job \in [seen: View, done: View] \cup {NoJob}

Init ==
    /\ parents = [p \in Parents |->
           [state |-> "absent", approvals |-> {}, pause |-> FALSE,
            cancel |-> FALSE, retry_of |-> 0]]
    /\ targets = [t \in Targets |-> [state |-> "absent", inventory |-> 0]]
    /\ commands = [c \in Commands |-> "absent"]
    /\ queue = [a \in Agents |-> <<>>]
    /\ agents = [a \in Agents |-> [accepting |-> TRUE, inventory |-> 1]]
    /\ job = NoJob

(***************************************************************************)
(* Requests of users.                                                      *)
(***************************************************************************)
Insert(p, source) ==
    /\ parents[p].state = "absent"
    /\ \A q \in Parents : q < p => parents[q].state # "absent"
    /\ parents' = [parents EXCEPT ![p].state = "awaiting_approval",
                                  ![p].retry_of = source]
    /\ targets' = [t \in Targets |->
           IF t[1] = p
           THEN [state |-> "planned", inventory |-> agents[Agent(t)].inventory]
           ELSE targets[t]]
    /\ UNCHANGED <<commands, queue, agents, job>>

Create(p) == Insert(p, 0)

\* The sites of the failed targets of a parent are what a retry must select.
FailedSites(p) ==
    {Site(t) : t \in {u \in TargetsOf(p) : targets[u].state \in Failing}}
Selected(p) == {Selections[p][i] : i \in DOMAIN Selections[p]}

RetryFailed(p, source) ==
    /\ parents[source].state \in
           {"partial", "failed", "paused", "needs_intervention"}
    /\ FailedSites(source) = Selected(p)
    /\ \A q \in Parents : parents[q].retry_of = source =>
           Selected(q) \cap FailedSites(source) = {}
    /\ Insert(p, source)

Decide(p, user, decision) ==
    /\ parents[p].state = "awaiting_approval"
    /\ user \notin parents[p].approvals
    /\ IF decision = "rejected"
       THEN parents' = [parents EXCEPT ![p].state = "rejected"]
       ELSE LET approvals == parents[p].approvals \cup {user}
            IN parents' = [parents EXCEPT
                   ![p].approvals = approvals,
                   ![p].state = IF Cardinality(approvals) >= RequiredApprovals
                                THEN "approved" ELSE @]
    /\ UNCHANGED <<targets, commands, queue, agents, job>>

Pause(p) ==
    /\ parents[p].state \in {"approved", "canary", "running"}
    /\ parents' = [parents EXCEPT ![p].pause = TRUE]
    /\ UNCHANGED <<targets, commands, queue, agents, job>>

Canaries(p) == {t \in TargetsOf(p) : t[2] <= CanarySize}

\* The canaries' states are read without a lock, so that a request may see
\* them unfinished after they have finished.
Resume(p) ==
    /\ parents[p].state = "paused"
    /\ \E state \in {"canary", "running"} :
           /\ state = "running" =>
                  \A t \in Canaries(p) : targets[t].state \in Terminal
           /\ parents' = [parents EXCEPT ![p].state = state,
                                         ![p].pause = FALSE]
    /\ UNCHANGED <<targets, commands, queue, agents, job>>

Cancel(p) ==
    /\ parents[p].state \in {"approved", "canary", "running", "paused"}
    /\ parents' = [parents EXCEPT ![p].cancel = TRUE]
    /\ UNCHANGED <<targets, commands, queue, agents, job>>

(***************************************************************************)
(* Reconciliation of one parent in the transaction d.                      *)
(***************************************************************************)
Raise(d) == [d EXCEPT !.raised = TRUE]
FaultyFailClosed(d, p) == [d EXCEPT !.parents[p].state = "dead_letter"]
FailClosed(d, p) == [d EXCEPT !.parents[p].state = "needs_intervention"]

\* update_parent saves the parent's document, whose validation refuses a
\* state that its table of transitions does not have.
Save(d, p, state) ==
    IF state \in {d.parents[p].state} \cup Transitions[d.parents[p].state]
    THEN [d EXCEPT !.parents[p].state = state]
    ELSE Raise(d)

FaultyUpdate(d, p, active) ==
    LET states == {d.targets[t].state : t \in TargetsOf(p)} \ {"planned"}
    IN Save(d, p, IF ~ states \subseteq Terminal THEN active
                  ELSE IF states \subseteq {"succeeded"} THEN "succeeded"
                  ELSE IF states \subseteq {"cancelled"} THEN "cancelled"
                  ELSE "partial")

Update(d, p, active) ==
    LET states == {d.targets[t].state : t \in TargetsOf(p)}
    IN Save(d, p, IF ~ states \subseteq Terminal THEN active
                  ELSE IF states \subseteq {"succeeded"} THEN "succeeded"
                  ELSE IF states \subseteq {"cancelled"} THEN "cancelled"
                  ELSE "partial")

\* maximum_failures is 0: one failure exhausts the budget.
FaultyBudgetExhausted(d, ts) ==
    Cardinality({t \in ts : d.targets[t].state \in Failing}) > 1
BudgetExhausted(d, ts) == \E t \in ts : d.targets[t].state \in Failing
CanaryTerminal(d, p) == \A t \in Canaries(p) : d.targets[t].state \in Terminal

InOrder(p, chosen) ==
    Filter([i \in DOMAIN Selections[p] |-> <<p, i>>], chosen)
FaultyEnqueue(d, kind, ts) ==
    [d EXCEPT !.new = @ \o [i \in DOMAIN ts |-> <<kind, ts[i]>>]]
Enqueue(d, kind, ts) ==
    LET created == [i \in DOMAIN ts |-> <<kind, ts[i]>>]
    IN [d EXCEPT !.inflight = @ \cup {created[i] : i \in DOMAIN ts},
                 !.new = @ \o created]

\* The operations the limits count among ts, with those just started.
InFlightOn(d, started, ts) ==
    Cardinality({c \in d.inflight : c[2] \in ts})
        + Cardinality(started \cap ts)
Least(m, n) == IF m < n THEN m ELSE n
BelowLimits(d, started, t) ==
    LET total == Len(Selections[t[1]])
        onAgent == {u \in Targets : Agent(u) = Agent(t)}
        onBench == {u \in Targets : Bench(u) = Bench(t)}
    IN /\ InFlightOn(d, started, Targets) < Least(GlobalConcurrency, total)
       /\ InFlightOn(d, started, onAgent) < Least(AgentConcurrency, total)
       /\ InFlightOn(d, started, onBench) < BenchConcurrency

\* The planned targets that the loop over the eligible ones starts.
Started(d, p) ==
    LET eligible == IF CanaryTerminal(d, p) THEN TargetsOf(p) ELSE Canaries(p)
        S[i \in 0..Len(Selections[p])] ==
            IF i = 0 THEN {}
            ELSE LET t == <<p, i>>
                 IN IF /\ t \in eligible
                       /\ d.targets[t].state = "planned"
                       /\ d.agents[Agent(t)].accepting
                       /\ BelowLimits(d, S[i - 1], t)
                    THEN S[i - 1] \cup {t}
                    ELSE S[i - 1]
    IN S[Len(Selections[p])]

\* create_child fails closed when the parent may not start children, and the
\* dispatcher raises when the inventory is no longer the previewed one.
WithChildren(d, p) ==
    LET started == Started(d, p)
        queued == [d EXCEPT !.targets = [t \in Targets |->
                      IF t \in started
                      THEN [d.targets[t] EXCEPT !.state = "queued"]
                      ELSE d.targets[t]]]
    IN IF \E t \in started :
              d.targets[t].inventory # d.agents[Agent(t)].inventory
       THEN Raise(d)
       ELSE Enqueue(queued, "child", InOrder(p, started))

MayStart(d, p) == d.parents[p].state \in {"approved", "canary", "running"}

Advance(d, p) ==
    LET e == WithChildren(d, p)
        active == IF CanaryTerminal(d, p) THEN "running" ELSE "canary"
    IN IF Started(d, p) # {} /\ ~ MayStart(d, p) THEN FailClosed(d, p)
       ELSE IF e.raised THEN e
       ELSE Update(e, p, IF BudgetExhausted(e, TargetsOf(p)) THEN "paused"
                         ELSE active)

\* Targets that never started are cancelled in place; the agent is asked to
\* stop the others, once, which the dispatcher refuses for a draining agent.
WithCancellations(d, p) ==
    LET asked == {t \in TargetsOf(p) :
                     /\ d.targets[t].state \notin Terminal \cup {"planned"}
                     /\ t \notin d.cancelling}
        marked == [d EXCEPT !.targets = [t \in Targets |->
                      IF t \in TargetsOf(p) /\ d.targets[t].state = "planned"
                      THEN [d.targets[t] EXCEPT !.state = "cancelled"]
                      ELSE d.targets[t]]]
    IN IF \E t \in asked : ~ d.agents[Agent(t)].accepting
       THEN Raise(d)
       ELSE Enqueue(marked, "cancel", InOrder(p, asked))

Stop(d, p) ==
    LET e == WithCancellations(d, p)
    IN IF e.raised THEN e ELSE Update(e, p, "cancelling")

Reconcile(d, p) ==
    IF d.parents[p].cancel THEN Stop(d, p)
    ELSE IF d.parents[p].pause THEN Update(d, p, "paused")
    ELSE IF CanaryTerminal(d, p) /\ BudgetExhausted(d, Canaries(p))
         THEN Update(d, p, "paused")
    ELSE Advance(d, p)

(***************************************************************************)
(* The scheduler job.                                                      *)
(***************************************************************************)
Listed(d) == {p \in Parents : d.parents[p].state \in Reconciled}

\* An exception other than the orchestrator's own leaves the loop.
Outcome(d) ==
    LET after[n \in 0..Len(Selections)] ==
            IF n = 0 THEN d
            ELSE IF n \notin Listed(d) \/ after[n - 1].raised THEN after[n - 1]
            ELSE Reconcile(after[n - 1], n)
    IN after[Len(Selections)]

ReadView ==
    [parents |-> parents, targets |-> targets, agents |-> agents,
     inflight |-> {c \in Commands : commands[c] \in InFlight},
     cancelling |-> {t \in Targets : commands[<<"cancel", t>>] # "absent"},
     new |-> <<>>, raised |-> FALSE]

OpenJob ==
    /\ job = NoJob
    /\ job' = [seen |-> ReadView, done |-> Outcome(ReadView)]
    /\ UNCHANGED <<parents, targets, commands, queue, agents>>

\* The rows that the job has locked or written.
Created == {job.done.new[i] : i \in DOMAIN job.done.new}
Written == {t \in Targets : \/ job.done.targets[t] # job.seen.targets[t]
                            \/ \E c \in Created : c[2] = t}
FaultyUnchanged == \A t \in Written : targets[t] = job.seen.targets[t]
Unchanged ==
    /\ \A p \in Listed(job.seen) : parents[p] = job.seen.parents[p]
    /\ \A t \in Written : targets[t] = job.seen.targets[t]
    /\ \A c \in Created :
           agents[Agent(c[2])] = job.seen.agents[Agent(c[2])]

CommitJob ==
    /\ job # NoJob
    /\ ~ job.done.raised
    /\ Unchanged
    /\ parents' = [p \in Parents |->
           IF p \in Listed(job.seen) THEN job.done.parents[p] ELSE parents[p]]
    /\ targets' = [t \in Targets |->
           IF t \in Written THEN job.done.targets[t] ELSE targets[t]]
    /\ commands' = [c \in Commands |->
           IF c \in Created THEN "queued" ELSE commands[c]]
    /\ queue' = [a \in Agents |->
           queue[a] \o Filter(job.done.new, {c \in Commands : Agent(c[2]) = a})]
    /\ job' = NoJob
    /\ UNCHANGED agents

AbortJob ==
    /\ job # NoJob
    /\ job' = NoJob
    /\ UNCHANGED <<parents, targets, commands, queue, agents>>

(***************************************************************************)
(* Agents: polls, leases and reports; inventory and drain.                 *)
(***************************************************************************)
Pollable(a) ==
    Filter(queue[a], {c \in Commands : commands[c] \in {"queued", "expired"}})

\* The approval of a child is that of its parent, and is checked again at
\* every lease.  When it does not hold the poll ends in an error.
Authorised(c) ==
    c[1] = "child" =>
        parents[c[2][1]].state \in {"approved", "canary", "running", "paused"}

Poll(a) ==
    /\ agents[a].accepting
    /\ Pollable(a) # <<>>
    /\ LET c == Head(Pollable(a))
       IN /\ Authorised(c)
          /\ commands' = [commands EXCEPT ![c] = "leased"]
    /\ UNCHANGED <<parents, targets, queue, agents, job>>

LeaseExpires(c) ==
    /\ commands[c] = "leased"
    /\ commands' = [commands EXCEPT ![c] = "expired"]
    /\ UNCHANGED <<parents, targets, queue, agents, job>>

\* An agent reports on what it has received, and reports a child cancelled
\* only when it has received the request to cancel it.
MayReport(c, status) ==
    /\ commands[c] \in {"leased", "expired", "running"}
    /\ status # commands[c]
    /\ status = "cancelled" =>
           /\ c[1] = "child"
           /\ commands[<<"cancel", c[2]>>] \notin {"absent", "queued"}

Report(c, status) ==
    /\ MayReport(c, status)
    /\ commands' = [commands EXCEPT ![c] = status]
    /\ targets' = IF c[1] = "child"
                  THEN [targets EXCEPT ![c[2]].state = status] ELSE targets
    /\ queue' = [queue EXCEPT ![Agent(c[2])] = Filter(@, Commands \ {c})]
    /\ UNCHANGED <<parents, agents, job>>

NewInventory(a) ==
    /\ agents[a].inventory < MaxInventory
    /\ agents' = [agents EXCEPT ![a].inventory = @ + 1]
    /\ UNCHANGED <<parents, targets, commands, queue, job>>

SetAccepting(a, accepting) ==
    /\ agents[a].accepting # accepting
    /\ agents' = [agents EXCEPT ![a].accepting = accepting]
    /\ UNCHANGED <<parents, targets, commands, queue, job>>

Next ==
    \/ \E p \in Parents :
        \/ Create(p) \/ Pause(p) \/ Resume(p) \/ Cancel(p)
        \/ \E source \in Parents : RetryFailed(p, source)
        \/ \E u \in Approvers, decision \in {"approved", "rejected"} :
               Decide(p, u, decision)
    \/ OpenJob \/ CommitJob \/ AbortJob
    \/ \E a \in Agents :
        \/ Poll(a)
        \/ NewInventory(a)
        \/ \E accepting \in BOOLEAN : SetAccepting(a, accepting)
    \/ \E c \in Commands :
        \/ LeaseExpires(c)
        \/ \E status \in Reports : Report(c, status)

\* The job runs every minute, each of its transactions ends, and the database
\* does not refuse every one; agents poll in a loop, and report an outcome of
\* what they run.
Fairness ==
    /\ WF_vars(OpenJob)
    /\ WF_vars(AbortJob)
    /\ SF_vars(CommitJob)
    /\ \A a \in Agents : WF_vars(Poll(a))
    /\ \A c \in Commands :
           WF_vars(\E status \in Reports \cap Terminal : Report(c, status))

Spec == Init /\ [][Next]_vars
FairSpec == Spec /\ Fairness
=============================================================================
