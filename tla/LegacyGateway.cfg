\* One subject per behaviour: service pipeline, repository cache, skills, bootstrap.
CONSTANTS
    Commands = {c1, c2}
    Revisions = {1, 2}
    Checked = {2}
    MaxCommands = 3
    MaxOverlap = 1
    MaxFailures = 1
    MaxKills = 1
    MaxPolls = 1
    MaxRevision = 2
    MaxSleeps = 1
    Stale = 1
    Plugins = {p1, p2}
    Pure = {s1}
    Listing = {p2}
    Short = {p1}
    MaxPushes = 1
    MaxRuns = 3

SPECIFICATION GatewaySpec

INVARIANTS
    GatewayTypeOK
    KeptIsValidated
    RecordsMatchRenders
    LockExcludes
    FreshRead
    ConfirmedStays
    BackupCoversTornWrite
    OkMeansReady

PROPERTIES
    FailedDeployRestoresLast
    SuccessIsWhatRuns
    EveryCommandEnds
    RefreshBringsCacheUp
    RerunsRepair

\* The commands are bounded: the model stops when they are used up.
CHECK_DEADLOCK FALSE
