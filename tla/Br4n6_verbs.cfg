SPECIFICATION Br4n6Spec
CONSTANTS
    Pages = {a, b}
    MaxCommits = 4
    SessionTrees <- MCSessionTrees
    Hostless = {1}
    VisitLists <- MCLists
    MaxChainDepth = 3
    IdleGap = 1
    chromium1 = chromium1
    chromium2 = chromium2
    safari = safari
    webcache = webcache
    Sites = {chromium1, chromium2, safari, webcache}
    FamilyOf <- MCFamily
    NameOf <- MCName
    UserOf <- MCUser
    VisitsOf <- MCVisits
    Addresses = {u1, u2}
    MaxRows = 3
    MaxClock = 2
    PathsGiven <- MCPaths
    Hashes = {h1}
    Urls = {k1, k2}
    Blocks = {b1, b2}
    MaxMeanwhile = 1
    Cases = {c1, c2}
    MaxRuns = 2
    MaxChanges = 1
    WEBKIT_EPOCH_OFFSET = 1
    CORE_DATA_EPOCH_OFFSET = 1
    OverflowChecks = TRUE
    MaxTableRows = 2
    Readers <- KnownReaders
    MaxSubresources = 3
    MaxOutputBytes = 6
    MaxCssUrls = 2
    CachesGiven <- MCCaches
    StemOf <- MCStem
    TreesGiven <- MCTreesGiven
    SWEEP_MAX_DEPTH = 2
    CookiesGiven <- MCCookies
    LoginsGiven <- MCLogins
    KEYS_MAX_DEPTH = 2
    CodingNames = {"gzip", "br", "unknown"}
    Responses <- MCResponses
    Places = {p1, p2}
    CacheNames = {n1, n2}
    MaxEdits = 2
    Origins = {o1, o2}
    ItemKeys = {i1}
    StoreNames = {s1, s2}
    ItemValues <- MCItemValues
    MaxRecords = 6
CHECK_DEADLOCK FALSE
INVARIANTS
    IInv
    ReadsACommittedState
    TaggedIsWhatWasMarked
    ChainsFollowTheReferrers
    ScopedTimelineIsScoped
    NavigableHistoryAppearsOnce
    HonestHistoryIsClean
    DeletionIsNoticed
    DeepLosesNothing
    HitsAreWhatIsHeld
    VerifiedBundleIsOneRun
    BackedUpBookmarksAreKept
    PageIsAccountedFor
    NoProfileIsLost
    SecretsAreGenuine
    BodiesAreWhatWasDelivered
    StoredItemsAreAttributed
PROPERTIES
    OnlyAStaleMatchLeavesTheList
    RowsStandAlone
