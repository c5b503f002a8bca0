CONSTANTS
    s1 = s1
    i1 = i1
    i2 = i2
    r1 = r1
    r2 = r2
    Subjects = {s1}
    NoSubject = NoSubject
    Interactions = {i1, i2}
    SubjectOf <- MCSubjectOf
    Requests = {r1, r2}
    Policies = {"ask_once", "ask_always"}
    MaxSigned = 1
    Legacy = {}
    c1 = c1
    c2 = c2
    Clients = {c1, c2}
    Anonymous = {c2}
    Pages <- MCPages
    None = None
    Ttl = 1
    Timeout = 1
    Slots = 2
    LastTick = 2
    MaxChanges = 2
    MaxStored = 3
    OldReports = 1
    Sent <- MCSent
    TopicOf <- MCTopicOf
    NoTopic = NoTopic
    MaxFindings = 3
    Unreadable = Unreadable
    Nothing = Nothing
    MaxFacts = 1
    BatchSize = 2
    MaxMerges = 1
SPECIFICATION SidesSpec
VIEW SideView
SYMMETRY MCSymmetry
INVARIANTS
    TypeOK
    GrantFollowsSubject
    DecisionsCountOnce
    LoserStaysSilentUnderAskOnce
    EvidenceTrail
    EnvelopesServe
    ReportsStayGrouped
PROPERTIES
    
    ImplementsRegister
