\* One waiting Listen: UPLOADED before the service is registered.
CONSTANTS
    l1 = l1
    l2 = l2
    a = a
    b = b
    Listens = {l1}
    Ids = {a}
    IdOf <- OneKey
    NoWait = {}
    NoService = NoService
    EventCap = 6
    MaxStatus = 2
SPECIFICATION Spec
PROPERTIES
    AnnouncedIsNoticed
CHECK_DEADLOCK FALSE
