\* Arti gets stuck without its progress moving; nothing is lost.
CONSTANTS
    Callers = {b1}
    Watchers = {}
    Closers = {}
    Views <- MCViews
    Faults <- MCFaults
    EventCap = 4
    StatusBuffer = 1
    MaxChanges = 2
    MaxHs = 0
SPECIFICATION Spec
CHECK_DEADLOCK FALSE
PROPERTIES
    StatusFollowsArti
