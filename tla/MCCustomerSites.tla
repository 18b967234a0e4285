--------------------------- MODULE MCCustomerSites ---------------------------
(* A small instance of CustomerSites: two agents; an old creation of the     *)
(* second customer, and one free domain that the other two both want.        *)
EXTENDS CustomerSites, TLC

CONSTANTS a1, a2, b1, b2, old, new

OneBenchEach == a1 :> (b1 :> {old}) @@ a2 :> (b2 :> {})
SecondIsOld == <<[customer |-> 2, domain |-> old]>>
\* What happens beside the job and the old creation: hosts that change under
\* overlapping heartbeats; or one customer, with faults of the job, or with a
\* host that changes; or two customers who compete.
Scenes ==
    \/ visitors = {} /\ asks = 0 /\ faults = 0 /\ moves = 2 /\ reports = 4
    \/ visitors = {1} /\ asks = 3 /\ faults = 1 /\ moves = 0 /\ reports = 2
    \/ visitors = {1} /\ asks = 2 /\ faults = 0 /\ moves = 1 /\ reports = 2
    \/ visitors = {1, 3} /\ asks = 2 /\ faults = 0 /\ moves = 0 /\ reports = 2

MCInit == Init /\ Scenes
MCSpec == MCInit /\ [][Next]_vars /\ Fairness

=============================================================================
