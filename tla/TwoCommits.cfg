SPECIFICATION ServerSpec
CONSTANTS
    Transfer = {t1}
    SimpleT = {}
    ResumableT = {t1}
    Segment = {s1}
    SegLen = 1
    Patches = 1
    Once = {}
    Commits = 2
    Claim = {}
    LocalClaim = {}
    Sweeper = {j1}
    Code = {k1}
    NoCode = NoCode
    NoTransfer = NoTransfer
    TTL <- MCTTL
    MCTTL = {1}
    DefaultTTL = 1
    Time <- MCTime
    MCHorizon = 2
    MaxTime = 1
    StagingTTL = 9
    MaxFaults = 0
    Slow = TRUE
    MaxCrash = 0
    RemoteLease = 1
    LocalGrace = 1
    MaxFetch = 0
    Download = {}
    MaxDownloads = 1
    CacheLimit = 1
    SimpleReq <- MCSimpleReq
    CreateReq <- MCCreateReq
    PatchReq <- MCPatchReq
    CommitReq <- MCCommitReq
    Target <- MCTarget
    PatchSegment <- MCPatchSegment
    Serial = FALSE
INVARIANTS
    AnsweredCodeResolves
