\* Liveness: one Bootstrap call, a slow reader of its own channel, one Close;
\* a queue that holds every event, so that none is lost.
CONSTANTS
    Callers = {b1}
    Watchers = {}
    Closers = {k1}
    Views <- MCViews
    Faults <- MCFaults
    EventCap = 4
    StatusBuffer = 1
    MaxChanges = 3
    MaxHs = 0
SPECIFICATION Spec
INVARIANTS
    NewsReachesCallers
PROPERTIES
    BootstrapKeepsPromise
    ProgressConverges
    CloseUnblocksAll
CHECK_DEADLOCK FALSE
