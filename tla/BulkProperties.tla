--------------------------- MODULE BulkProperties ---------------------------
(* What makes bulk orchestration correct. *)
EXTENDS BulkOrchestration

Live(ts) == {t \in ts : commands[<<"child", t>>] \in InFlight}

(***************************************************************************)
(* A child is created only under the full approval of its parent, for an   *)
(* agent that accepts work and has the inventory that was previewed, and   *)
(* not after a pause or a cancellation has been requested, although any of *)
(* these may change while the job runs (create_child).                     *)
(***************************************************************************)
StartsAsApproved ==
    [][\A t \in Targets :
          commands[<<"child", t>>] = "absent"
              /\ commands'[<<"child", t>>] # "absent" =>
                  LET parent == parents[t[1]]
                      agent == agents[Agent(t)]
                  IN /\ Cardinality(parent.approvals) >= RequiredApprovals
                     /\ parent.state \in {"approved", "canary", "running"}
                     /\ ~ parent.pause /\ ~ parent.cancel
                     /\ agent.accepting
                     /\ agent.inventory = targets[t].inventory]_vars

(***************************************************************************)
(* However parents share agents and benches, no more children are live at  *)
(* once than the concurrency policy says; in particular a bench runs one   *)
(* at a time (reconcile, inflight_counts).                                 *)
(***************************************************************************)
WithinLimits ==
    /\ Cardinality(Live(Targets)) <= GlobalConcurrency
    /\ \A a \in Agents :
           Cardinality(Live({t \in Targets : Agent(t) = a}))
               <= AgentConcurrency
    /\ \A b \in Benches :
           Cardinality(Live({t \in Targets : Bench(t) = b}))
               <= BenchConcurrency

(***************************************************************************)
(* Nothing but the canaries has been tried until every canary has ended    *)
(* without failure, whatever is paused and resumed (reconcile).            *)
(***************************************************************************)
CanariesFirst ==
    \A t \in Targets :
        t \notin Canaries(t[1]) /\ commands[<<"child", t>>] # "absent" =>
            \A u \in Canaries(t[1]) : targets[u].state \in Terminal \ Failing

(***************************************************************************)
(* The outcome a parent shows is that of its targets, although the job     *)
(* computes it from rows that agents go on changing (aggregate_child_      *)
(* states, _update).                                                       *)
(***************************************************************************)
OutcomeIsTrue ==
    \A p \in Parents :
        LET states == {targets[t].state : t \in TargetsOf(p)}
        IN /\ parents[p].state = "succeeded" => states = {"succeeded"}
           /\ parents[p].state = "cancelled" => states = {"cancelled"}
           /\ parents[p].state = "partial" =>
                  /\ states \subseteq Terminal
                  /\ states \notin {{"succeeded"}, {"cancelled"}}

(***************************************************************************)
(* An approved parent ends in success if from then on nobody pauses or     *)
(* cancels anything, no child fails, and no agent drains or changes its    *)
(* inventory: no interplay of limits, leases and canaries leaves a target  *)
(* planned or a command queued for ever (reconcile_bulk_operations).       *)
(***************************************************************************)
Calm ==
    /\ \A p \in Parents : ~ parents[p].pause /\ ~ parents[p].cancel
    /\ \A t \in Targets : targets[t].state \notin Failing \cup {"cancelled"}
    /\ \A a \in Agents : agents[a].accepting
    /\ \A t \in Targets : targets[t].inventory
                              \in {0, agents[Agent(t)].inventory}
Finishes ==
    \A p \in Parents :
        parents[p].state = "approved" /\ []Calm ~> parents[p].state = "succeeded"

(***************************************************************************)
(* "Inspect a bounded batch so one invalid persisted command cannot remain *)
(* at the head of the queue and prevent every later command from leasing"  *)
(* (frappe_store.py:92): a cancellation queued for an agent that goes on   *)
(* polling is leased in the end.                                           *)
(***************************************************************************)
QueueMoves ==
    \A t \in Targets :
        commands[<<"cancel", t>>] = "queued"
            /\ [](agents[Agent(t)].accepting)
            ~> commands[<<"cancel", t>>] # "queued"
=============================================================================
