\* Three connections and two pairs of credentials, so that two connections
\* share one and the third has the other.
CONSTANTS
    Conns = {c1, c2, c3}
    Creds = {u1, u2}
    NoCreds = NoCreds
SPECIFICATION Spec
SYMMETRY Symmetry
INVARIANTS
    CredentialsIsolate
    AnsweredOnce
CHECK_DEADLOCK FALSE
