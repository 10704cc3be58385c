SPECIFICATION SendSpec
CONSTANTS
    Raw = {r}
    Pack = {p}
    Length <- MCLength
    RawLength = 1
    Transfer = {1, 2}
    Worker = {w1, w2}
    LastVersion = 0
    MaxFaults = 2
    None = None
    Short = Short
INVARIANTS
    SourceChangedOnlyIfChanged
