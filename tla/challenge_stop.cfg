\* Requests are refused, the price moves during a tick, the runner restarts.
SPECIFICATION Spec
CONSTANTS
    t1 = t1
    t2 = t2
    t3 = t3
    Tickets = {t1, t2}
    NoTicket = NoTicket
    Prices <- Three
    Reaches = {1, 2}
    MaxBars = 3
    BarsPerDay = 2
    InitialBalance = 100
    RiskPm = 10
    MaxTradeRiskPm = 25
    TargetPm = 100
    DailyPm = 50
    OverallPm = 100
    MaxLosses = 2
    Attempts = 2
    Hazards = {"refused", "drift", "restart"}
SYMMETRY Symmetric
INVARIANT TypeOK
PROPERTY StopsOnlyTighten
\* The last bar of the bound ends the run.
CHECK_DEADLOCK FALSE
