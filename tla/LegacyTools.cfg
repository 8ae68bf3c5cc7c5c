\* One subject per behaviour: a target, the target registry, the tools server.
CONSTANTS
    Commands = {c1, c2}
    Revisions = {1, 2}
    MaxCommands = 3
    MaxOverlap = 1
    MaxFailures = 1
    MaxKills = 1
    MaxPolls = 1
    Legacy = {l1, l2}
    Pids = {1, 2}
    MaxServes = 3

SPECIFICATION ToolsSpec

INVARIANTS
    ToolsTypeOK
    SnapshotsAreWhole
    OwnEntriesSurvive
    CreationDateKept
    CorruptedOnlyByOverlap
    HealthTellsTruth

PROPERTIES
    OneFailureLeavesItUp
    RecordsTellTruth
    TargetCommandsEnd

\* The commands are bounded: the model stops when they are used up.
CHECK_DEADLOCK FALSE
