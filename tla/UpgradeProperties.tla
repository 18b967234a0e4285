------------------------- MODULE UpgradeProperties -------------------------
(* What makes the replacement of an agent safe. *)
EXTENDS AgentUpgrade

(***************************************************************************)
(* No command is leased to an agent or running on it from the moment that  *)
(* it may be replaced until the replacement has been verified, although    *)
(* the requests that decide this count commands in older read views ("Re-  *)
(* enter draining and never deploy over it", server_agent.py:36).          *)
(***************************************************************************)
Replaceable == {"ready_to_deploy", "verifying", "rollback_required",
                "rollback_verifying"}
NothingActive == row.upgrade_state \in Replaceable => Active = {}

(***************************************************************************)
(* An upgrade or a rollback closes only after the deployed generation has  *)
(* said in a heartbeat that it is well ("Require a healthy inventory       *)
(* heartbeat produced by the deployed generation", upgrades.py:75), though *)
(* saves may put back the columns of older heartbeats.                     *)
(***************************************************************************)
VerifiedByDeployed ==
    [][/\ row.upgrade_state = "verifying"
              /\ row'.upgrade_state = "succeeded" => row.desired \in alive
       /\ row.upgrade_state = "rollback_verifying"
              /\ row'.upgrade_state = "rolled_back" => row.previous \in alive]_vars

(***************************************************************************)
(* A drain comes to an end if the agent stays enabled and has received all *)
(* that is leased to it (refresh_agent_drain, the updater's poll).  A      *)
(* lease whose response was lost is not made good while the agent drains.  *)
(***************************************************************************)
Received == \A c \in Commands : commands[c] = "leased" => c \in delivered
DrainEnds ==
    row.upgrade_state \in {"planned", "draining"} /\ [](row.enabled /\ Received)
        ~> row.upgrade_state \notin {"planned", "draining"}
=============================================================================
