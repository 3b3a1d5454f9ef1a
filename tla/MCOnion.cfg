\* Two services with keys of their own, one of them NoWait; a queue that
\* overflows. No symmetry, which would be unsound for the liveness properties.
CONSTANTS
    l1 = l1
    l2 = l2
    a = a
    b = b
    Listens = {l1, l2}
    Ids = {a, b}
    IdOf <- OwnKeys
    NoWait = {l2}
    NoService = NoService
    EventCap = 3
    MaxStatus = 1
SPECIFICATION Spec
INVARIANTS
    FailedLeavesNothing
    NoneOutlivesClient
    PublishedIsTrue
    LiveServiceStays
PROPERTIES
    OutcomeIsDelivered
    CloseUnblocksListen
CHECK_DEADLOCK FALSE
