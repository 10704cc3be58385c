SPECIFICATION SendSpec
CONSTANTS
    Raw = {r}
    Pack = {p}
    Length <- MCLength
    RawLength = 2
    Transfer = {1, 2, 3}
    Worker = {w}
    LastVersion = 1
    MaxFaults = 3
    None = None
    Short = Short
INVARIANTS
    SendTypeOK
    SentIsScanned
    CodeRecoverable
PROPERTIES
    RerunSucceeds
CHECK_DEADLOCK FALSE
