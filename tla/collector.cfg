\* Writers two at a time, or the reader alone.
SPECIFICATION FairSpec
CONSTANTS
    Shapes <- Three
    PerDay = 3
    MaxCandles = 4
    Faults = {"api", "db", "late", "crash"}
    FillDays = 1
    MaxBatch = 2
    Files = {1}
    Held <- FirstFile
    AutoDate = FALSE
    Before = 3
    Span = 3
    PageSize = 2
    MaxPages = 3
    Past = 3
    Casts = {{"live", "fill"}, {"live", "hist"}, {"fill", "hist"}, {"reader"}}
INVARIANT TypeOK
INVARIANT TicksRebuildCandles
INVARIANT LastIsStored
INVARIANT FillIsWhole
INVARIANT SameCoverage
INVARIANT FetchIsWhole
PROPERTY NewestIsStored
\* The candles are bounded.
CHECK_DEADLOCK FALSE
