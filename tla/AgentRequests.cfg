SPECIFICATION Spec
CONSTANTS
    Keys = {k1, k2}
    Tokens = {t1, t2}
    Serials = {c1, c2, c3}
    Requests <- Batches
    Workers = {w1, w2}
    MaxTime = 2
    MaxSent = 2
    Age = 1
    Future = 1
    Lifetime = 2
    Validity = 2
    None = None
    Bodies = {b1, b2}
    MaxSequence = 2
    SnapshotIsolation = FALSE
SYMMETRY Symmetry
INVARIANTS TypeOK HandledOnce OneKeyPerToken OneCertificateEach Gapless AnsweredIsStored
PROPERTIES RevokedForGood
CHECK_DEADLOCK FALSE
