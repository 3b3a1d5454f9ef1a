\* Every clock of up to 7ns ticks and 40 ticks' range, from a step of 19ns.
CONSTANTS
    InitialStep = 19
    Ticks = {1, 2, 3, 4, 5, 6, 7}
    Limits = {0, 1, 2, 3, 5, 8, 13, 21, 40}
SPECIFICATION Spec
INVARIANTS
    FindsLimit
PROPERTIES
    Terminates
CHECK_DEADLOCK FALSE
