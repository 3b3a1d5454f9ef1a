\* Two goroutines calling at will, two that close; no symmetry, which would be
\* unsound for the liveness properties.
CONSTANTS
    Users = {u1, u2}
    Closers = {k1, k2}
    None = None
SPECIFICATION Spec
INVARIANTS
    NoUseAfterFree
    NoServiceAbandoned
PROPERTIES
    KeepsPromise
    CloseCompletes
    CallsReturn
