CONSTANTS
    TCS = TCS
    INFY = INFY
    Table = Table
    New = New
    Fund = Fund
    Old = Old
    Isins = {Table, New, Fund, Old}
    Symbols = {TCS, INFY}
    Cached = {Table}
    CachedSymbol <- TableSymbols
    Structure <- Structures
    BatchSize = 2
    Files <- MixedFiles
    Scale = 100
    Tolerance = 1

SPECIFICATION FairSpec

INVARIANTS LookupsBounded EveryRowAccounted TransientNotBlamed
PROPERTY UploadEnds
