CONSTANTS
    RequestIds = {"i1", "i2", "i3"}
    Bodies <- MCBodies
    Slots = {"s1", "s2"}
    MaxSkew = 1
    NonceTtl = 4
    MaxNonces = 1
    Stall = 1
    MaxTime = 5
    MeteredUsers = {"u1", "u2"}
    MeterSlots = {"s1", "s2"}
    RateLimit = 2
    RateWindow = 3
    MaxMeters = 1
    MeterStall = 1
    MeterMaxTime = 5
    Faces = {"u1", "u2"}
    Digests = {"p1", "p2", "p3"}
    ReplayWindow = 2
    MaxHistories = 1
    MaxUses = 5
    Deks = {"d1", "d2"}
    Callers = {"c1", "c2"}
    CacheTtl = 2
    MaxDeks = 1
    CallStall = 1
    DekMaxTime = 5
    Employees = {"u1", "u2"}
    Vectors = {"x", "y"}
    StaticKeys = {"k1", "k2"}
    MasterKeys = {"cmk"}
    Models = {"m1", "m2"}
    MaxDeeds = 4
    NoEnvelope = NoEnvelope
    Calibrations <- MCCalibrations
    ModelVersion = "m1"
    Pipeline = "p1"
    Operators = {"o1", "o2"}
    Checks = {"v1", "v2"}
    Requests <- MCRequests
    TypedLabels <- MCLabels
    LeaveKeys = {"b1"}
    LeaveConsoles = {"t1"}
    LeaveSlots = {"s1", "s2"}
    MaxDecisions = 3
    Logs = {x1, x2}
    FeedLimit = 2
    MaxEvents = 1
    Codes = {"c1"}
    Photos = {"p1", "p2"}
    Accounts = {"a1", "a2"}
    Forms = {"f1", "f2"}
    PhotoJobs = {"j1", "j2"}
    NoAccount = NoAccount
    NoForm = NoForm
    Fences = {"g1"}
    Pins = {"p1", "p2"}
    Reversed = {"p2"}
    Addresses = {"", "x"}
    Editors = {"t1", "t2"}
    MaxSaves = 2
    NoFence = NoFence
    Ips = {"ip1"}
    Routes = {"admin-login"}
    Points = 1
    PerimeterSlots = {"s1", "s2"}
    MaxRejections = 2
    LoginCalls = {"l1", "l2"}
    LogoutCalls = {"o1", "o2"}
    OtherCalls = {"c1"}
    MaxLogins = 2
    MaxCalls = 3
    MaxStarts = 3
    MaxBeats = 7
    Runs = {"r1", "r2"}
    MaxScreens = 2
    MaxPasses = 3
    QualitySteps = 2
    People = {"u1", "u2"}
    SignSlots = {"s1"}
    AccessTtl = 1
    RefreshTtl = 3
    SignStall = 1
    MaxInstant = 3
    MaxSigned = 2
    PageSize = 1
    MaxPages = 3
    MaxEntries = 3
    MaxLate = 1
    MaxPicks = 3
    MaxOpens = 2
    MaxForms = 2
    PinLength = 2
    Colours = {"red", "green", "blue", "white"}
    Originals <- MCOriginals
    Budgets = {4000000, 40000000}
    MaxMounts = 3
    Watched = {"u1", "u2"}
    Places = {"a", "b"}
    MaxFences = 2
    FeedLogs = {"x1", "x2", "x3", "x4"}
    Zones = {"z1"}
    Spots <- MCSpots
    Centre <- MCCentre
    Radii = {50, 250}
    DefaultRadius = 50
    MaxEdits = 2
    MaxWrites = 2
    NoZone = NoZone
    Workers = {"u1", "u2"}
    DayTicks = 2
    ZoneTicks = 1
    TrendDays = 2
    Cutoffs = {0, 1}
    MaxDays = 2
    MaxArrivals = 2
SPECIFICATION MCSpec
CHECK_DEADLOCK FALSE
INVARIANT TypeOK
INVARIANT RequestServedOnce
INVARIANT ScoredByFittedCalibration
INVARIANT ApprovalsCharged
INVARIANT EditsAreHuman
INVARIANT OutageNeverBlocks
INVARIANT DaysHold
INVARIANT TokensFollowSession
INVARIANT HeartbeatChain
INVARIANT PhoneSound
INVARIANT GuardStoresHold
INVARIANT KeyCacheHolds
INVARIANT MigrationSafe
INVARIANT ScreensAgree
INVARIANT AccountsSound
INVARIANT AccessSound
INVARIANT NoRowLost
INVARIANT PhotosArrive
INVARIANT VerdictsFair
INVARIANT StartIsSound
