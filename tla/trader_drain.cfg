\* Signals grow stale, requests fail.
SPECIFICATION FairSpec
CONSTANTS
    s1 = s1
    s2 = s2
    a1 = a1
    a2 = a2
    k1 = k1
    Signals = {s1, s2}
    Accounts = {a1}
    Tps = {1}
    Repliers = {}
    Sweeper = Sweeper
    Poller = Poller
    NoSignal = NoSignal
    ConfirmPolls = 2
    MaxBlips = 0
    Hazards = {"age", "flaky"}
PROPERTY OpenDrains
\* The trader rests when no signal is open and no message arrives.
CHECK_DEADLOCK FALSE
