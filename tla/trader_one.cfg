\* Two accounts, market entries, one signal handled at a time, failing queries.
SPECIFICATION Spec
CONSTANTS
    s1 = s1
    s2 = s2
    a1 = a1
    a2 = a2
    k1 = k1
    Signals = {s1, s2}
    Accounts = {a1, a2}
    Tps = {1}
    Repliers = {}
    Sweeper = Sweeper
    Poller = Poller
    NoSignal = NoSignal
    ConfirmPolls = 2
    MaxBlips = 0
    Hazards = {"outage"}
SYMMETRY Symmetric
INVARIANT OneAtATime
INVARIANT NothingForgotten
\* The trader rests when no signal is open and no message arrives.
CHECK_DEADLOCK FALSE
