--------------------------- MODULE MCAgentRequests ---------------------------
(* A small instance of AgentRequests: the bodies that are signed are batches. *)
EXTENDS AgentRequests, TLC

Batches == Batch
Symmetry == Permutations(Keys) \cup Permutations(Tokens) \cup Permutations(Workers)
                \cup Permutations(Bodies) \cup Permutations(Serials)
=============================================================================
