SPECIFICATION Spec
CONSTANTS
    Interactions = {1, 3}
    Reports = {}
    Drains = {d1, d2}
    NoDrain = NoDrain
    MaxStamp = 2
    BatchSize = 1
    RunCap = 2
    RunTimeout = 0
    StaleAge = 1
    Intervals = {0}
    RetryDelay = 1
    Events = {"slow_commit", "call_fails", "dies", "purge", "pause", "retune", "delete"}
SYMMETRY DrainsAreAlike
INVARIANTS
    TypeOK
    ClaimIsExclusive
    SkippedOnlyIfOvertaken
PROPERTIES
    CopyNeverRegresses
