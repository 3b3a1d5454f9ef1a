\* One Bootstrap call, one slow StatusUpdates reader, two Close calls.
CONSTANTS
    Callers = {b1}
    Watchers = {w1}
    Closers = {k1, k2}
    Views <- MCViews
    Faults <- MCFaults
    EventCap = 2
    StatusBuffer = 1
    MaxChanges = 2
    MaxHs = 1
SPECIFICATION Spec
INVARIANTS
    NoPanic
    ReadyIsTrue
    NewestIsDelivered
CHECK_DEADLOCK FALSE
