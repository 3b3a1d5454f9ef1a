\* Two clients on a directory with an instance that an earlier run left; two
\* services, two ports to pick from.
SPECIFICATION Spec
CONSTANTS
    Lines = {"good", "bad"}
    Parseable = {"good"}
    Clients = {c1, c2}
    Asked <- MCAsked
    Names = {1, 2, 3}
    Before = {1}
    Ephemeral = {40000, 40001}
INVARIANTS
    SocksAsAsked
    BridgesObeyed
    NothingLeftBehind
    NoLiveStatePurged
    OldStateGoes
PROPERTIES
    OpenReturns
CHECK_DEADLOCK FALSE
