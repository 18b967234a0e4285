SPECIFICATION FairSpec
CONSTANTS
    Operations = {o1, o2}
    Agents = {a1}
    Users = {requester}
    Workers = {w1}
    Requester = requester
    AgentOf <- OneAgent
    Required <- NoApprovals
    Creations = {}
    Allowed = {o1, o2}
    Bodies <- PlainBodies
    MaxInventory = 1
    MaxLeases = 2
    SnapshotIsolation = FALSE
    NoOperation = NoOperation
PROPERTIES WaitingIsLeased
