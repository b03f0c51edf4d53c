\* A runner of either kind that may hold two positions.
SPECIFICATION FairSpec
CONSTANTS
    r1 = r1
    i1 = i1
    i2 = i2
    i3 = i3
    Runners = {r1}
    Cap <- Caps
    Ids = {i1, i2, i3}
    Prices = {1, 2}
    MaxBars = 3
    MinStop = 1
    Cooldown = 1
    Setups <- Long
    MaxRuns = 1
    Faults = {"refused", "lost", "rows", "monitor", "unconfirmed", "restart"}
    None = None
INVARIANT TypeOK
INVARIANT ClosedIsFlat
INVARIANT CapHolds
INVARIANT OneEntryPerBar
PROPERTY TimeExitHappens
\* The bars are bounded.
CHECK_DEADLOCK FALSE
