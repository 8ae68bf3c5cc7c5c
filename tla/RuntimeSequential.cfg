\* One request at a time, no call fails, one kill.
CONSTANTS
    Skills = {s1}
    Plugins = {p1}
    Versions = {v1, v2}
    None = None
    Handlers = {h1}
    MaxOps = 4
    MaxFailures = 0
    MaxCrashes = 1
    Faults = {}
    Offered = {"skill_deploy", "skill_remove", "plugin_install", "plugin_remove", "checkpoint", "reload"}
    Overlap = FALSE
SPECIFICATION FairSpec
INVARIANT QuiescentInSync
PROPERTY RecordedChangeIsEffective
PROPERTY RequestsAnswered
PROPERTY ImplementsContract
\* The requests are bounded by MaxOps: the model stops when they are used up.
CHECK_DEADLOCK FALSE
