SPECIFICATION RecoveryFairSpec
CONSTANTS
    Transfer = {t1, t2}
    Segment = {s1}
    SegLen = 1
    Claim = {}
    Code = {k1, k2}
    NoCode = NoCode
    NoTransfer = NoTransfer
    Time <- MCTime
    TTL <- MCTTL
    MaxTime = 0
    DefaultTTL = 1
    CrashDir <- MCCrashDir
INVARIANTS
    CodesUnique
    CommittedHasCode
    ReadyResolvesValid
    ReadyNoGarbage
    ReadyNoHalfCommit
PROPERTIES
    CodeStable
    NeverCommittedTwice
    KeepsPublished
    RecoveryCompletes
