CONSTANTS
    a = a
    w1 = w1
    w2 = w2
    Repos = {a}
    NoRepo = NoRepo
    Workers = {w1, w2}
    NoWorker = NoWorker
    MaxReports = 2
    ClaimBatch = 2
    MaxAttempts = 2
    MaxRetries = 2
    Events = {"fails", "stalls", "purge"}
SPECIFICATION QueueSpec
SYMMETRY MCSymmetry
INVARIANTS
    QueueTypeOK
    NoClaimLeaked
PROPERTIES
    HintsSettleJobs
CHECK_DEADLOCK FALSE
