SPECIFICATION IntakeSpec
CONSTANTS
    Transfer = {b1, b2}
    SimpleT = {}
    Keyed = {}
    Other = {}
    SimpleSize = 1
    OtherSize = 1
    Key = {}
    NoKey = NoKey
    Fingerprint <- MCFingerprint
    KeyOf <- MCKeyOf
    PrintOf <- MCPrintOf
    Size <- MCSize
    Segment = {}
    SegLen = 1
    Claim = {}
    Code = {x1, x2}
    NoCode = NoCode
    NoTransfer = NoTransfer
    Time <- MCTime
    MCHorizon = 1
    TTL <- MCTTL
    MCTTL = {1}
    KeyTTL = 1
    StagingTTL = 1
    Limit = 3
    MaxTransfer = 0
    MaxTime = 0
    MaxCrash = 0
    MaxUploads = 1
    Slow = FALSE
INVARIANTS
    NoOvercommit
