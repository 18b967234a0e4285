SPECIFICATION FairSpec
CONSTANTS
    Releases = {r1, r2}
    Commands = {c1}
    Workers = {w1, w2}
    Zone = "utc"
    None = None
INVARIANTS TypeOK NothingActive
PROPERTIES VerifiedByDeployed DrainEnds
