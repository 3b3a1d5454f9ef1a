\* One NoWait Listen that races Close.
CONSTANTS
    l1 = l1
    l2 = l2
    a = a
    b = b
    Listens = {l1}
    Ids = {a}
    IdOf <- OneKey
    NoWait = {l1}
    NoService = NoService
    EventCap = 6
    MaxStatus = 1
SPECIFICATION Spec
PROPERTIES
    CloseUnblocksAccept
CHECK_DEADLOCK FALSE
