\* One request at a time; any call may fail and the gateway may be killed.
CONSTANTS
    Skills = {s1}
    Plugins = {p1}
    Versions = {v1, v2}
    None = None
    Handlers = {h1}
    MaxOps = 3
    MaxFailures = 2
    MaxCrashes = 1
    Faults = {"docker", "pack", "files", "repo", "store", "append"}
    Offered = {"skill_deploy", "skill_remove", "plugin_install", "plugin_remove", "checkpoint", "reload"}
    Overlap = FALSE
SPECIFICATION Spec
INVARIANT TypeOK
PROPERTY DeploySucceedsRebuilt
\* The requests are bounded by MaxOps: the model stops when they are used up.
CHECK_DEADLOCK FALSE
