SPECIFICATION FairSpec
CONSTANTS
    Interactions = {1}
    Reports = {2}
    Drains = {d1, d2}
    NoDrain = NoDrain
    MaxStamp = 1
    BatchSize = 1
    RunCap = 1
    RunTimeout = 0
    StaleAge = 1
    Intervals = {1}
    RetryDelay = 0
    Events = {"call_fails", "dies"}
PROPERTIES
    PipeProgresses
