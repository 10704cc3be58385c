SPECIFICATION ServerSpec
CONSTANTS
    Transfer = {t1}
    SimpleT = {t1}
    ResumableT = {}
    Segment = {s1}
    SegLen = 1
    Patches = 0
    Once = {}
    Commits = 0
    Claim = {c1}
    LocalClaim = {c1}
    Sweeper = {j1}
    Code = {k1}
    NoCode = NoCode
    NoTransfer = NoTransfer
    TTL <- MCTTL
    MCTTL = {1}
    DefaultTTL = 1
    Time <- MCTime
    MCHorizon = 4
    MaxTime = 3
    StagingTTL = 9
    MaxFaults = 0
    Slow = TRUE
    MaxCrash = 0
    RemoteLease = 1
    LocalGrace = 2
    MaxFetch = 0
    Download = {}
    MaxDownloads = 1
    CacheLimit = 1
    SimpleReq <- MCSimpleReq
    CreateReq <- MCCreateReq
    PatchReq <- MCPatchReq
    CommitReq <- MCCommitReq
    Target <- MCTarget
    PatchSegment <- MCPatchSegment
    Serial = FALSE
INVARIANTS
    LeasePins
