\* Two Bootstrap calls, one of them that of a Listen, one thread that turns the
\* network off and one that adds a service without bootstrapping first.
SPECIFICATION Spec
CONSTANTS
    Callers = {c1, c2}
    Listeners = {c1}
    Disablers = {d1}
    Adders = {a1}
INVARIANTS
    SwitchSettles
    OneAttemptPerEnable
    LaunchIsReady
PROPERTIES
    BootstrapIsTried
    AddReturns
    CloseCompletes
