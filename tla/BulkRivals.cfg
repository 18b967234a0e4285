SPECIFICATION FairSpec
CONSTANTS
    s1 = s1
    s2 = s2
    s3 = s3
    b1 = b1
    b2 = b2
    a1 = a1
    Sites = {s1, s2, s3}
    Benches = {b1, b2}
    Agents = {a1}
    Approvers = {u1}
    BenchOf <- TwoBenches
    AgentOf <- OneAgent
    Selections <- Rivals
    RequiredApprovals = 1
    CanarySize = 1
    GlobalConcurrency = 2
    AgentConcurrency = 2
    BenchConcurrency = 1
    Reports = {"succeeded", "failed"}
    MaxInventory = 1
INVARIANTS WithinLimits
PROPERTIES Finishes
