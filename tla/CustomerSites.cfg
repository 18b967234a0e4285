SPECIFICATION MCSpec
CONSTANTS
    a1 = a1
    a2 = a2
    b1 = b1
    b2 = b2
    old = old
    new = new
    Agents = {a1, a2}
    Benches = {b1, b2}
    Sites = {old, new}
    Installed <- OneBenchEach
    Customers = {1, 2, 3}
    Historic <- SecondIsOld
    BatchSize = 1
    MaxAsks = 3
    MaxFaults = 1
    MaxMoves = 2
    MaxReports = 4
    Workers = {w1, w2}
    SnapshotIsolation = FALSE
    None = None
INVARIANTS TypeOK RowsMatch OneCreation LinkIsTrue
PROPERTIES OwnersStay EligibleIsLinked
CHECK_DEADLOCK FALSE
