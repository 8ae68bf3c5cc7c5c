\* Three writers, failing file operations and crashes that leave the lock.
CONSTANTS
    Writers = {w1, w2, w3}
    MaxAppends = 4
    MaxFailures = 1
    MaxCrashes = 2
SPECIFICATION FairSpec
INVARIANT RewritesCurrentContent
PROPERTY LockReleased
PROPERTY ImplementsAppendLog
\* The appends are bounded by MaxAppends: the model stops when they are used up.
CHECK_DEADLOCK FALSE
