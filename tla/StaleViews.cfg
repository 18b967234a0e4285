SPECIFICATION Spec
CONSTANTS
    Operations = {o1}
    Agents = {a1}
    Users = {requester, u1, u2}
    Workers = {w1, w2}
    Requester = requester
    AgentOf <- OneAgent
    Required <- OneApproval
    Creations = {o1}
    Allowed = {o1}
    Bodies <- CreationBodies
    MaxInventory = 1
    MaxLeases = 2
    SnapshotIsolation = FALSE
    NoOperation = NoOperation
SYMMETRY ApprovalSymmetry
INVARIANTS TypeOK HandoverComplete
PROPERTIES LeasesOnlyApproved SecretOnce
