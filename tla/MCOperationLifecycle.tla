------------------------ MODULE MCOperationLifecycle ------------------------
(* Small instances of OperationLifecycle. *)
EXTENDS OperationProperties, TLC

OneAgent == [o \in Operations |-> CHOOSE a \in Agents : TRUE]
NoApprovals == [o \in Operations |-> 0]
OneApproval == [o \in Operations |-> 1]
TwoApprovals == [o \in Operations |-> 2]

B(status, evidence) == [status |-> status, evidence |-> evidence]
NoBodies == {}
PlainBodies == {B("queued", "legacy"), B("running", "legacy"),
                B("failed", "legacy")}
Outcomes == {B("failed", "legacy"), B("succeeded", "legacy")}
CreationBodies == {B("running", "legacy"), B("succeeded", "complete"),
                   B("succeeded", "legacy"), B("succeeded", "short")}

WorkerSymmetry == Permutations(Workers)
ApprovalSymmetry == Permutations(Workers) \cup Permutations(Users \ {Requester})
QueueSymmetry == Permutations(Workers) \cup Permutations(Operations)
=============================================================================
