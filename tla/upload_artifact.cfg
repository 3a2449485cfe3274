CONSTANTS
    TCS = TCS
    INFY = INFY
    Table = Table
    New = New
    Fund = Fund
    Old = Old
    Isins = {Table, New, Fund, Old}
    Symbols = {TCS, INFY}
    Cached = {Table}
    CachedSymbol <- TableSymbols
    Structure <- Structures
    BatchSize = 2
    Files <- ArtifactFiles
    Scale = 1000
    Tolerance = 10

SPECIFICATION Spec

INVARIANT NoArtifactFails
