SPECIFICATION IntakeFairSpec
CONSTANTS
    Transfer = {a1, a2, b1}
    SimpleT = {a1, a2}
    Keyed = {a1, a2}
    Other = {}
    SimpleSize = 3
    OtherSize = 3
    Key = {k}
    NoKey = NoKey
    Fingerprint <- MCFingerprint
    KeyOf <- MCKeyOf
    PrintOf <- MCPrintOf
    Size <- MCSize
    Segment = {}
    SegLen = 1
    Claim = {}
    Code = {x1, x2}
    NoCode = NoCode
    NoTransfer = NoTransfer
    Time <- MCTime
    MCHorizon = 2
    TTL <- MCTTL
    MCTTL = {1}
    KeyTTL = 1
    StagingTTL = 0
    Limit = 6
    MaxTransfer = 0
    MaxTime = 1
    MaxCrash = 1
    MaxUploads = 1
    Slow = FALSE
INVARIANTS
    
    OneHandoffPerKey
    BoundedOvershoot
PROPERTIES
    AnswersOwnCode
    KeysReleased
