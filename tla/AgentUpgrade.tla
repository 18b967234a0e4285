---------------------------- MODULE AgentUpgrade ----------------------------
(***************************************************************************)
(* Replacing the software of one agent: an administrator requests the      *)
(* upgrade, which drains the agent; when none of its commands is leased or *)
(* running, the new release is deployed from outside, confirmed, and       *)
(* verified by a heartbeat, or rolled back.  Administrators and the        *)
(* agent's updater drive the same state machine at the same time.          *)
(*                                                                         *)
(* A request reads the agent's row and counts its commands in one read     *)
(* view, and then saves the whole row, so that what it will write is       *)
(* settled when it takes the view: it is an action named after its         *)
(* handler, which does that, and Commit or Abort.  The save compares the   *)
(* row's modified stamp with the view's, and fails when another save came  *)
(* between: a save ends all the other requests.  Heartbeats do not change  *)
(* the stamp, so that their columns may be overwritten; a database that    *)
(* refuses stale writes (innodb_snapshot_isolation=ON) has fewer           *)
(* behaviours than this module.                                            *)
(*                                                                         *)
(* A release stands for an agent version and the digest of its image.      *)
(*                                                                         *)
(* Operators named Faulty... are wrong on purpose: each is the operator    *)
(* after it with a plausible bug, for showing that a property notices.     *)
(***************************************************************************)
EXTENDS Naturals, FiniteSets

CONSTANTS
    Releases,
    Commands,  \* the operations of this agent
    Workers,   \* web workers, each serving one request at a time
    Zone,      \* the site's time zone: "utc", or "ahead" or "behind" of it
    None       \* the null of a release

ASSUME UpgradeAssumption ==
    /\ None \notin Releases
    /\ Zone \in {"utc", "ahead", "behind"}

Stable == {"none", "succeeded", "rolled_back", "cancelled"}
PreDeployment == {"planned", "draining", "ready_to_deploy"}
UpgradeStates == Stable \cup PreDeployment
                     \cup {"verifying", "rollback_required", "rollback_verifying"}
Transitions ==
    [s \in UpgradeStates |->
        CASE s \in Stable -> {"planned"}
          [] s = "planned" -> {"draining", "ready_to_deploy", "cancelled"}
          [] s = "draining" -> {"ready_to_deploy", "cancelled"}
          [] s = "ready_to_deploy" ->
                 {"draining", "verifying", "rollback_required", "cancelled"}
          [] s = "verifying" -> {"succeeded", "rollback_required"}
          [] s = "rollback_required" -> {"rollback_verifying"}
          [] s = "rollback_verifying" -> {"rolled_back"}]

(***************************************************************************)
(* The Server Agent row.  version, ready and recent are what heartbeats    *)
(* write: the release that runs, whether the agent is online and well, and *)
(* whether last_seen is at or after upgrade_deployed_at, which has a       *)
(* meaning from the confirmation of a deployment on.                       *)
(***************************************************************************)
Row == [enabled: BOOLEAN, drain_requested: BOOLEAN,
        upgrade_state: UpgradeStates,
        desired: Releases \cup {None}, previous: Releases \cup {None},
        observed: Releases \cup {None},
        version: Releases, ready: BOOLEAN, recent: BOOLEAN]

VARIABLES
    row,        \* the Server Agent row
    commands,   \* state of each Controller Operation
    delivered,  \* the commands that have reached the agent
    running,    \* the release on the agent's host
    told,       \* the release that the last answer received says to deploy
    requests,   \* the row that the request each worker serves is going to save,
                \* as a set that is empty when there is none
    alive       \* history: the releases whose heartbeats have said that they
                \* are well since a deployment was last confirmed

vars == <<row, commands, delivered, running, told, requests, alive>>

TypeOK ==
    /\ row \in Row
    /\ commands \in [Commands -> {"absent", "queued", "leased", "running", "done"}]
    /\ delivered \subseteq Commands
    /\ running \in Releases
    /\ told \in Releases \cup {None}
    /\ requests \in [Workers -> SUBSET Row]
    /\ alive \subseteq Releases

Init ==
    /\ running \in Releases
    /\ row = [enabled |-> TRUE, drain_requested |-> FALSE,
              upgrade_state |-> "none", desired |-> None, previous |-> None,
              observed |-> None, version |-> running, ready |-> TRUE,
              recent |-> FALSE]
    /\ commands = [c \in Commands |-> "absent"]
    /\ delivered = {}
    /\ told = None
    /\ requests = [w \in Workers |-> {}]
    /\ alive = {}

(***************************************************************************)
(* Requests.                                                               *)
(***************************************************************************)
FaultyActive == {c \in Commands : commands[c] \in {"queued", "leased", "running"}}
Active == {c \in Commands : commands[c] \in {"leased", "running"}}

\* ServerAgent.validate.
Valid(new) ==
    /\ new.upgrade_state \in {row.upgrade_state} \cup Transitions[row.upgrade_state]
    /\ new.upgrade_state \notin Stable =>
           new.drain_requested /\ {new.desired, new.previous} \subseteq Releases
    /\ new.upgrade_state = "verifying" => new.observed = new.desired
    /\ new.upgrade_state = "rollback_verifying" => new.observed = new.previous
    /\ new.upgrade_state = "succeeded" =>
           ~ new.drain_requested /\ new.version = new.desired
               /\ new.observed = new.desired
    /\ new.upgrade_state = "rolled_back" =>
           ~ new.drain_requested /\ new.version = new.previous
               /\ new.observed = new.previous
    /\ new.upgrade_state = "cancelled" => ~ new.drain_requested

Begin(w, new) ==
    /\ requests[w] = {}
    /\ Valid(new)
    /\ requests' = [requests EXCEPT ![w] = {new}]
    /\ UNCHANGED <<row, commands, delivered, running, told, alive>>

RequestUpgrade(w, desired) ==
    /\ row.upgrade_state \in Stable
    /\ row.enabled /\ row.ready
    /\ row.observed \in {None, row.version}
    /\ desired # row.version
    /\ Begin(w, [row EXCEPT !.drain_requested = TRUE,
                            !.upgrade_state = "planned",
                            !.desired = desired,
                            !.previous = row.version])

\* refresh_agent_drain and the updater's poll: what the drain has come to.
DrainState == IF Active = {} THEN "ready_to_deploy" ELSE "draining"

Refresh(w) ==
    /\ row.upgrade_state \in PreDeployment \ {DrainState}
    /\ Begin(w, [row EXCEPT !.upgrade_state = DrainState])

\* An updater's first poll tells which image runs.
Register(w) ==
    /\ row.enabled
    /\ row.upgrade_state \in Stable
    /\ row.observed = None
    /\ Begin(w, [row EXCEPT !.observed = running])

\* confirm_agent_deployment, confirm_agent_rollback and the updater's report:
\* an administrator may be mistaken about the image.  upgrade_deployed_at is
\* local time and last_seen is UTC: behind UTC, an earlier heartbeat may count
\* as a later one.
Deployed(w) ==
    /\ Active = {}
    /\ \E recent \in IF Zone = "behind" THEN BOOLEAN ELSE {FALSE} :
           \/ /\ row.upgrade_state = "ready_to_deploy"
              /\ Begin(w, [row EXCEPT !.upgrade_state = "verifying",
                                      !.observed = row.desired,
                                      !.recent = recent])
           \/ /\ row.upgrade_state = "rollback_required"
              /\ Begin(w, [row EXCEPT !.upgrade_state = "rollback_verifying",
                                      !.observed = row.previous,
                                      !.recent = recent])

\* request_agent_rollback and the updater's report of a failure.
Failed(w) ==
    /\ row.upgrade_state \in {"ready_to_deploy", "verifying"}
    /\ Begin(w, [row EXCEPT !.upgrade_state = "rollback_required"])

Cancel(w) ==
    /\ row.upgrade_state \in PreDeployment
    /\ Begin(w, [row EXCEPT !.upgrade_state = "cancelled",
                            !.drain_requested = FALSE])

FaultyHealthy(expected) == row.ready /\ row.version = expected
Healthy(expected) == row.ready /\ row.version = expected /\ row.recent

\* verify_agent_deployment and the updater's request for it.
Verify(w) ==
    /\ Active = {}
    /\ \/ /\ row.upgrade_state = "verifying"
          /\ Healthy(row.desired)
          /\ Begin(w, [row EXCEPT !.upgrade_state = "succeeded",
                                  !.drain_requested = FALSE])
       \/ /\ row.upgrade_state = "rollback_verifying"
          /\ Healthy(row.previous)
          /\ Begin(w, [row EXCEPT !.upgrade_state = "rolled_back",
                                  !.drain_requested = FALSE])

(***************************************************************************)
(* How requests end.                                                       *)
(***************************************************************************)
\* The open requests after a save by w: the others' saves are going to fail.
FaultyOvertaken(w) == [requests EXCEPT ![w] = {}]
Overtaken(w) == [v \in Workers |-> {}]

\* What the answer of a request that leaves the row so tells the updater or the
\* administrator to deploy.  The answer may be lost.
FaultyInstruction(new) ==
    CASE new.upgrade_state = "ready_to_deploy" -> new.desired
      [] new.upgrade_state = "rollback_required" -> new.previous
      [] OTHER -> "none"
Instruction(new) ==
    CASE new.upgrade_state = "ready_to_deploy" -> new.desired
      [] new.upgrade_state = "rollback_required" -> new.previous
      [] OTHER -> None
Answer(new) == told' \in {told, Instruction(new)}

\* Document.save.
Commit(w) ==
    \E new \in requests[w] :
        /\ row' = new
        /\ requests' = Overtaken(w)
        /\ alive' = IF new.upgrade_state \in {"verifying", "rollback_verifying"}
                    THEN {} ELSE alive
        /\ Answer(new)
        /\ UNCHANGED <<commands, delivered, running>>

Abort(w) ==
    /\ requests[w] # {}
    /\ requests' = [requests EXCEPT ![w] = {}]
    /\ UNCHANGED <<row, commands, delivered, running, told, alive>>

\* A poll that has nothing to save.  An image that is not the recorded one is
\* an error.
Instruct ==
    /\ row.enabled
    /\ row.upgrade_state \in Stable => row.observed = running
    /\ row.upgrade_state \notin PreDeployment \ {DrainState}
    /\ Answer(row)
    /\ UNCHANGED <<row, commands, delivered, running, requests, alive>>

(***************************************************************************)
(* The agent's other requests, each a transaction that locks what it uses. *)
(***************************************************************************)
\* A heartbeat's columns are written without a new modified stamp.  Ahead of
\* UTC, a later heartbeat may count as an earlier one.
Heartbeat ==
    /\ row.enabled
    /\ \E ready \in BOOLEAN,
          recent \in IF Zone = "ahead" THEN BOOLEAN ELSE {TRUE} :
           /\ row' = [row EXCEPT !.version = running, !.ready = ready,
                                 !.recent = recent]
           /\ alive' = IF ready THEN alive \cup {running} ELSE alive
    /\ UNCHANGED <<commands, delivered, running, told, requests>>

Dispatch(c) ==
    /\ commands[c] = "absent"
    /\ row.enabled /\ ~ row.drain_requested
    /\ commands' = [commands EXCEPT ![c] = "queued"]
    /\ UNCHANGED <<row, delivered, running, told, requests, alive>>

\* The candidate query of lease_command locks the agent's row with the
\* candidates, so that it is the current row that must not be draining.
MayLease(c) ==
    /\ row.enabled /\ ~ row.drain_requested
    /\ commands[c] \in {"queued", "leased"}

\* A lease, or another one when it has passed; the response may be lost.
Lease(c) ==
    /\ MayLease(c)
    /\ commands' = [commands EXCEPT ![c] = "leased"]
    /\ delivered' \in {delivered, delivered \cup {c}}
    /\ UNCHANGED <<row, running, told, requests, alive>>

Report(c, status) ==
    /\ row.enabled
    /\ c \in delivered
    /\ \/ commands[c] = "leased"
       \/ commands[c] = "running" /\ status = "done"
    /\ commands' = [commands EXCEPT ![c] = status]
    /\ UNCHANGED <<row, delivered, running, told, requests, alive>>

\* An operator enables or disables the agent; a disabled one is not online.
ToggleEnabled ==
    LET new == [row EXCEPT !.enabled = ~ @, !.ready = @ /\ ~ row.enabled]
    IN /\ Valid(new)
       /\ row' = new
       /\ requests' = [w \in Workers |-> {}]
       /\ UNCHANGED <<commands, delivered, running, told, alive>>

\* The host changes its release as it has last been told, at any time later.
Replace ==
    /\ told # None
    /\ running' = told
    /\ UNCHANGED <<row, commands, delivered, told, requests, alive>>

Next ==
    \/ \E w \in Workers :
        \/ \E desired \in Releases : RequestUpgrade(w, desired)
        \/ Refresh(w) \/ Register(w) \/ Deployed(w) \/ Failed(w) \/ Cancel(w)
        \/ Verify(w)
        \/ Commit(w) \/ Abort(w)
    \/ \E c \in Commands :
        \/ Dispatch(c) \/ Lease(c)
        \/ \E status \in {"running", "done"} : Report(c, status)
    \/ Instruct \/ Heartbeat \/ ToggleEnabled \/ Replace

\* Every request ends; the updater polls in a loop, and not all of its polls
\* fail; the agent reports the outcome of what it has received.
Fairness ==
    /\ \A w \in Workers : WF_vars(Commit(w) \/ Abort(w))
    /\ SF_vars(\E w \in Workers : Refresh(w))
    /\ SF_vars(\E w \in Workers : Commit(w))
    /\ \A c \in Commands : WF_vars(Report(c, "done"))

Spec == Init /\ [][Next]_vars
FairSpec == Spec /\ Fairness
=============================================================================
