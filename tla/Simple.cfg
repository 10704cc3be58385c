SPECIFICATION ServerSpec
CONSTANTS
    Transfer = {t1}
    SimpleT = {t1}
    ResumableT = {}
    Segment = {s1, s2}
    SegLen = 1
    Patches = 0
    Once = {}
    Commits = 0
    Claim = {c1}
    LocalClaim = {}
    Sweeper = {j1}
    Code = {k1}
    NoCode = NoCode
    NoTransfer = NoTransfer
    TTL <- MCTTL
    MCTTL = {1, 2}
    DefaultTTL = 1
    Time <- MCTime
    MCHorizon = 5
    MaxTime = 3
    StagingTTL = 9
    MaxFaults = 1
    Slow = TRUE
    MaxCrash = 1
    RemoteLease = 1
    LocalGrace = 2
    MaxFetch = 1
    Download = {d1}
    MaxDownloads = 1
    CacheLimit = 1
    SimpleReq <- MCSimpleReq
    CreateReq <- MCCreateReq
    PatchReq <- MCPatchReq
    CommitReq <- MCCommitReq
    Target <- MCTarget
    PatchSegment <- MCPatchSegment
    Serial = FALSE
INVARIANTS
    ServerTypeOK
    ServedWhole
    ArchiveWhole
PROPERTIES
    ExpiryAsRequested
    LeaseHolds
    StoreSpec
    KeepsPromise
SYMMETRY MCSymmetry
