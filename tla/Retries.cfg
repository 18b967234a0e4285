SPECIFICATION Spec
CONSTANTS
    Operations = {o1, o2, o3}
    Agents = {a1}
    Users = {requester}
    Workers = {w1, w2}
    Requester = requester
    AgentOf <- OneAgent
    Required <- NoApprovals
    Creations = {}
    Allowed = {o1, o2, o3}
    Bodies <- Outcomes
    MaxInventory = 1
    MaxLeases = 1
    SnapshotIsolation = TRUE
    NoOperation = NoOperation
SYMMETRY QueueSymmetry
INVARIANTS OneLineage
PROPERTIES ImplementsContract
