SPECIFICATION ReceiveFairSpec
CONSTANTS
    Runs = 2
    OldRuns = 0
    NewFiles = 2
    Receiver <- MCReceiver
    Handoff <- MCHandoff
    Of <- MCOf
    Files <- MCFiles
    Junk = Junk
    Segment = {1, 2}
    Packs = {2}
    Length <- MCLength
    OldLength = 3
    NewLength = 3
    PackLength = 1
    GroupSize = 2
    Workers = 2
    TreeMayFail = TRUE
    Overlap = FALSE
    MaxKills = 1
INVARIANTS
    ReceiveTypeOK
    DestWhole
    FetchedAuthentic
PROPERTIES
    KeepsGroups
    ReceiveEnds
CHECK_DEADLOCK FALSE
