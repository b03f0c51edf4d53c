\* Requests are refused or their answers lost, the runner restarts; entries at the trigger close.
SPECIFICATION Spec
CONSTANTS
    t1 = t1
    t2 = t2
    t3 = t3
    Tickets = {t1, t2, t3}
    NoTicket = NoTicket
    Prices <- Three
    Reaches = {1, 2}
    MaxBars = 4
    BarsPerDay = 2
    InitialBalance = 200
    RiskPm = 10
    MaxTradeRiskPm = 15
    TargetPm = 100
    DailyPm = 50
    OverallPm = 15
    MaxLosses = 2
    Attempts = 2
    Hazards = {"refused", "lost", "unconfirmed", "noequity", "nopnl", "restart"}
SYMMETRY Symmetric
INVARIANT OneEntry
INVARIANT FloorHeld
\* The last bar of the bound ends the run.
CHECK_DEADLOCK FALSE
