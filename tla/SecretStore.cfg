\* Two callers, two records, a kill and a loss of the key file.
CONSTANTS
    Callers = {c1, c2}
    Names = {n1, n2}
    MaxCalls = 5
    MaxCrashes = 1
    MaxLosses = 1
SPECIFICATION Spec
INVARIANT SecretsReadable
PROPERTY FoundRecordOpens
\* The calls are bounded by MaxCalls: the model stops when they are used up.
CHECK_DEADLOCK FALSE
