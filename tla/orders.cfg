\* Signals to buy and to sell on two accounts with different stops levels.
SPECIFICATION FairSpec
CONSTANTS
    a1 = a1
    a2 = a2
    Accounts = {a1, a2}
    StopLevel <- Levels
    Signals <- BothSides
    Prices = {4, 5}
    Attempts = 2
    MaxUnsure = 1
    Faults = {"busy", "lost", "refused", "noprice"}
    None = None
INVARIANT TypeOK
INVARIANT MirrorsAligned
INVARIANT AbortLeavesOnlyFailed
INVARIANT OneOrderPerSlice
INVARIANT ExposureBounded
PROPERTY SubmissionEnds
PROPERTY KeepsPromise
\* A submission ends.
CHECK_DEADLOCK FALSE
