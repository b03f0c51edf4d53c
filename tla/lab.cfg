\* Every engine and every detector, on every tape of five to eight bars out of a few shapes.
SPECIFICATION SpecLab
CONSTANTS
    Setups <- MCSetups
    HalfSpread = 1
    Slip = 1
    MaxHold = {0, 1, 2}
    ValidBars = 2
    Spread = 1
    Cooldown = 1
    Shapes <- MCShapes
    Length <- MCLength
    Times <- MCTimes
    Pasts <- MCPasts
    Events <- MCEvents
    GapMaxAge = 4
    GapMinWidth = 1
    GapBuffer = 1
    SweepLookback = 3
    SweepProximity = 2
    SweepBuffer = 1
    SweepMinRR = 1
    OteLookback = 3
    OteBuffer = 1
    OteMinLeg = 1
    SwingLookback = 1
    BlockSearch = 1
    AtrPeriod = 2
    BlockMaxAge = 2
    BreakerMaxAge = 2
    BreakerBuffer = 1
    NewsLookback = 2
    NewsBuffer = 1
    NewsMinSpike = 2
    AsiaBuffer = 1
    AtrLength = 2
    Period <- MCPeriod
    BandTenths = 10
    DayMinutes = 16
    ZoneBins = 2
    AsiaEnd = 4
    LondonEnd = 8
    LongGate = 1
    ShortGate = 2
    Shuts <- MCShuts
    Window = 7
    Bases <- MCBases
    Conf <- MCConf
    Gate <- MCGate
    Ict <- MCIct
    Scalp <- MCScalp
    Micro <- MCMicro
    Replay <- MCReplay
    EventWindow = 8
    Probes <- MCProbes
    ZWindow = 2
    Staleness = 2
    DaysOff = {2, 3}
    MaxAsks = 2
    Coin <- MCCoin
    Guard = 1
    Parts = 3
    Trend <- MCTrend
    Frames = {1, 4, 24}
    Span <- MCSpan
    Files <- MCFiles
INVARIANTS
    ExitIsFirst
    EndsInTime
    PendingHonest
    SetupsHappened
    SignalsAreFair
    BookFires
    SelectionIsHonest
    GatesHold
PROPERTIES
    NoPeeking

\* A study stops at the end of its tape.
CHECK_DEADLOCK FALSE
