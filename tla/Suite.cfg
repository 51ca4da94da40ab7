SPECIFICATION Spec
CONSTANTS
    Callers = {c1, c2}
    Booter = c1
    Slots = {1, 2}
    None = None
    Accounts = {a1, a2}
    Anyone = Anyone
    Usernames = {a1}
    Methods <- MCMethods
    TokensGranted <- MCTokens
    RenewBefore = 1
    LastResort = 0
    RetryAfter = 1
    MaxAttempts = 2
    Entities <- MCEntities
    NoEntity = NoEntity
    Has <- MCHas
    Up <- MCUp
    Tags <- MCTags
    Natural = {"label"}
    Bare = {"tag"}
    OptedIn = {"order"}
    Externals = {TRUE, FALSE}
    Limit = 2
    Roots = {"order", "draft"}
    ByValue = {"note", "memo"}
    Sharing = {"memo"}
    MaxSaves = 2
    ScanTexts <- MCTexts
    Queries <- MCQueries
    Batches <- MCBatches
    Roles = {"admin", "user", "guest"}
    GuestRole = "guest"
    Fields = {"f"}
    Policies <- MCPolicies
    Undeclared = Undeclared
    Rows = {1, 2, 3}
    OwnRows = {1, 2}
    ReaderRoles = {"admin", "guest"}
    Guest = "guest"
    Setups <- MCSetups
    NoRows = NoRows
    Askers = {g1, g2}
    Users = {u1, u2}
    Nobody = Nobody
    Unresolved = Unresolved
    Empty = Empty
    Sessions = {0, 1}
    SessionIds = {1, 2, 3}
    Lifetime = 2
    Retention = 3
    SweepEvery = 2
    MaxTombstones = 2
    Keys = {"short", "long"}
    Burst <- MCBurst
    Window <- MCWindow
    SweepInterval = 3
    Derived = {"h1"}
    Sites <- MCSites
    Asks <- MCAsks
    MaxBindParameters = 6
    MaxInsertRows = 2
    Starts <- MCStarts
    MaxBuilders = 5
    Drivers = {"postgres_gorm", "mysql_gorm", "sqlserver_gorm", "custom"}
    SignIns = {"interactive", "device_code", "azure_cli", "azure_default", "service_principal",
               "managed_identity", "workload_identity", "custom"}
    BootConfigs <- MCBootConfigs
    Posted <- MCPosted
    MaxBody = 4
    Ceiling = 6
    Budget = 4
    Framing = 1
    MaxFiles = 2
    MaxFile = 2
    FileCap = 3
    FormLimit = 3
    NoCap = NoCap
    Places = {"here", "there"}
    Nowhere = Nowhere
    MaxCopies = 2
    MaxFaults = 1
INVARIANTS
    AcquisitionsSound
    RefusedWritesNothing
    SavedOnceAndWhole
    PoliciesHold
    GuardReadsAsServers
    GrantsGrow
    RestrictionsApplied
    DecidesOnCurrent
    RevokedStaysOut
    SweepUnseen
    NothingRefusedIsSent
    AnswersBehindGuards
    BuildsWhatWasAsked
    RendersWhatWasAsked
    ConfiguredAsWritten
    WholeOrRefused
    UploadsReleased
PROPERTIES
    OutageNotHammered
CHECK_DEADLOCK FALSE
