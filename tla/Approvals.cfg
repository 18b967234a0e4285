SPECIFICATION Spec
CONSTANTS
    Operations = {o1}
    Agents = {a1}
    Users = {requester, u1, u2}
    Workers = {w1, w2}
    Requester = requester
    AgentOf <- OneAgent
    Required <- TwoApprovals
    Creations = {}
    Allowed = {o1}
    Bodies <- PlainBodies
    MaxInventory = 2
    MaxLeases = 2
    SnapshotIsolation = TRUE
    NoOperation = NoOperation
SYMMETRY ApprovalSymmetry
INVARIANTS LedgerAgrees OneDecisionEach
PROPERTIES ImplementsContract LeaseHolds ResultAdvances
