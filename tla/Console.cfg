CONSTANTS
    creator = creator
    alice = alice
    bob = bob
    p1 = p1
    r1 = r1
    r2 = r2
    People = {creator, alice, bob}
    Creator = creator
    Link = Link
    Requests = {r1, r2}
    NoRequest = NoRequest
    MaxInvites = 2
    Users = {1}
    Accounts = {2}
    Visitors = {3}
    NoOne = 0
    SessionRefs = {1}
    NoSession = 0
    MaxInteraction = 2
    Telemetry <- MCTelemetry
    Contents <- MCContents
    Topics = {1}
    Resembles <- MCResembles
    Hop <- MCHop
    Retention = 2
    Window = 2
    Comparison = 1
    LastDay = 4
    MaxWrites = 3
    PageSize = 1
    FeatureScan = 1
    Calls = {r1, r2}
    NoCall = NoCall
    MaxToken = 3
    MaxSignIn = 1
    MaxFlights = 2
    Products = {p1}
    Editing = {r1, r2}
    Idle = Idle
    MaxProducts = 1
    MaxActive = 2
    Overlap = 1
    CapabilityLife = 2
    ReadLife = 1
    ShortLife = 1
    Forever = 99
    MaxClock = 3
    MaxKeys = 3
    MaxSigned = 1
    Teams = {alice, bob}
    NoTeam = NoTeam
    Callbacks = {r1, r2}
    NoCallback = NoCallback
    MaxFlows = 2
    MaxVersion = 3
    LastVersion = 4
    Marker = 2
    Linking = 3
    MaxUnlinked = 2
    LinkSize = 2
    NoImage = NoImage
    Unset = 0
SPECIFICATION ConsoleSpec
CONSTRAINT SmallTeam
VIEW SideView
SYMMETRY MCPeople
INVARIANTS
    ConsoleTypeOK
    WalkIsExact
    ListedThenOpens
    
    
    KeysServe
    ReleasesFit
PROPERTIES
    RolesMoveDeliberately
    InstallationIsOurs
CHECK_DEADLOCK FALSE
