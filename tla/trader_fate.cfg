\* One signal and one reply, which modifies and then closes it, while everything may fail.
SPECIFICATION Spec
CONSTANTS
    s1 = s1
    s2 = s2
    a1 = a1
    a2 = a2
    k1 = k1
    Signals = {s1}
    Accounts = {a1}
    Tps = {1}
    Repliers = {k1}
    Sweeper = Sweeper
    Poller = Poller
    NoSignal = NoSignal
    ConfirmPolls = 2
    MaxBlips = 0
    Hazards = {"limit", "outage", "flaky", "database", "age", "crash"}
INVARIANT FateSound
\* The trader rests when no signal is open and no message arrives.
CHECK_DEADLOCK FALSE
