SPECIFICATION SumSpec
CONSTANTS
    None = None
    j1 = j1
    k1 = k1
    w1 = w1
    w2 = w2
    l1 = l1
    l2 = l2
    t1 = t1
    s1 = s1
    s2 = s2
    u1 = u1
    u2 = u2
    Contents <- MCContents
    SpokenLangs = {1, 2}
    SpokenTypes = {1, 3}
    Quiz = 3
    PerPage = 2
    Right = 1
    Wrong = 1
    DailyLimit = 2
    TopSpeed = 2
    Processes = {p1}
    Legs = {l1, l2}
    MaxBuilds = 2
    MaxFaults = 1
    Sites = {1, 2}
    Hosts = {"a", "A", "b", "-"}
    LowerCase <- MCLowerCase
    Invalid = {"-"}
    OldCollections <- MCOldCollections
    Requests = {r1, r2}
    Registrations <- MCRegistrations
    Renamings <- MCRenamings
    MaxAttempts = 2
    MaxRounds = 1
    MaxEvents = 3
    Teacher = "t"
    Students = {"a", "b"}
    Leader = "a"
    Answered = {"t", "b"}
    Wishes <- MCWishes
    MaxAsks = 3
    MaxInbox = 1
    Tenants = {t1}
    Schools = {s1, s2}
    People = {u1, u2}
    Emails = {"t", "a", "b"}
    PhoneNumbers = {"1", "2"}
    Classes = {k1}
    UserRequests = {r1, r2}
    Population <- MCPopulation
    MaxRequests = 2
    MaxTokens = 2
    Gone = Gone
    Blank = Blank
    Populations <- MCPopulations
    Starts <- MCStarts
    MaxRuns = 2
    MaxWrites = 2
    Items = {1, 2, 3, 4, 5}
    TenantSchools = {s1, s2}
    Exps = {"story"}
    Themes = {"t"}
    PageSize = 2
    Before <- MCBefore
    Filters <- MCFilters
    MaxTime = 2
    MaxChanges = 1
    Urls = {"a", "b"}
    Slowest = 1
    Normal = 1
    Fastest = 2
    PlayAsks <- MCPlayAsks
    PlayStarted <- MCPlayStarted
    MaxPlayAsks = 2
    MaxPlayInbox = 1
    MaxLegs = 2
    Chunks <- MCChunks
    Analysis = {TRUE, FALSE}
    MaxQueue = 1
    Window = 2
    MaxUploads = 2
    MaxChunks = 2
    MaxStarts = 2
    MaxRelayFaults = 1
    StartFrames = 2
    PreFrames = 3
    MinSpeech = 3
    EndSilence = 2
    MaxSegment = 6
    Overlap = 1
    MaxFrames = 12
INVARIANTS OneOwner WebsitesConsistent  AccountsConsistent MembersKept
            CatalogueWhole PlaybackConsistent MutingConsistent
           RelayConsistent SegmentsConsistent
PROPERTIES GateOpens SyncJobsEnd MenusWhole
CHECK_DEADLOCK FALSE
