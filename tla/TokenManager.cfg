\* Three callers, two token names, four calls and a kill.
CONSTANTS
    Callers = {c1, c2, c3}
    Names = {n1, n2}
    MaxCalls = 4
    MaxCrashes = 1
SPECIFICATION Spec
SYMMETRY Interchangeable
INVARIANT CacheAgrees
PROPERTY RevokedRefused
\* The calls are bounded by MaxCalls: the model stops when they are used up.
CHECK_DEADLOCK FALSE
