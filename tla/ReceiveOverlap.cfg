SPECIFICATION ReceiveSpec
CONSTANTS
    Runs = 2
    OldRuns = 0
    NewFiles = 1
    Receiver <- MCReceiver
    Handoff <- MCHandoff
    Of <- MCOf
    Files <- MCFiles
    Junk = Junk
    Segment = {1}
    Packs = {}
    Length <- MCLength
    OldLength = 1
    NewLength = 1
    PackLength = 1
    GroupSize = 1
    Workers = 2
    TreeMayFail = FALSE
    Overlap = TRUE
    MaxKills = 0
INVARIANTS
    DestWhole
CHECK_DEADLOCK FALSE
