CONSTANTS
    u1 = u1
    a1 = a1
    v1 = v1
    s1 = s1
    Users = {u1}
    Accounts = {a1}
    Visitors = {v1}
    NoOne = NoOne
    SessionRefs = {s1}
    NoSession = NoSession
    MaxInteraction = 3
    Telemetry <- MCTelemetry
    MaxQueue = 2
    BatchSize = 2
    MaxAttempts = 2
    MaxDelayed = 1
SPECIFICATION FairSpec
INVARIANTS
    TypeOK
    NothingLostSilently
PROPERTIES
    IdentityHolds
    ShutdownReturns
CHECK_DEADLOCK FALSE
