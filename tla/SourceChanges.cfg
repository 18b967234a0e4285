SPECIFICATION MCSpec
CONSTANTS
    edit = edit
    delete = delete
    add1 = add1
    add2 = add2
    i1 = i1
    i2 = i2
    old = old
    new = new
    Requests = {edit, delete, add1, add2}
    Ids = {i1, i2}
    Values = {old, new}
    Action <- Actions
    Target <- Targets
    Value <- NewValues
    MaxOutside = 1
    Workers = {w1, w2}
    SnapshotIsolation = TRUE
    None = None
INVARIANTS TypeOK AtMostOnce ToldTruly NothingClobbered PagesAreFresh
SYMMETRY Symmetry
CHECK_DEADLOCK FALSE
