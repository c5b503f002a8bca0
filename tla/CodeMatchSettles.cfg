CONSTANTS
    a = a
    b = b
    w1 = w1
    w2 = w2
    Repos = {a, b}
    NoRepo = NoRepo
    Workers = {w1, w2}
    NoWorker = NoWorker
    MaxReports = 1
    ClaimBatch = 1
    MaxAttempts = 3
    MaxRetries = 3
    Events = {"dies", "fails", "remap", "purge"}
SPECIFICATION QueueFairSpec
PROPERTIES
    JobsConclude
CHECK_DEADLOCK FALSE
