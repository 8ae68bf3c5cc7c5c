\* One request at a time, two calls other than the store's writes fail.
CONSTANTS
    Skills = {s1}
    Plugins = {p1}
    Versions = {v1, v2}
    None = None
    Handlers = {h1}
    MaxOps = 3
    MaxFailures = 2
    MaxCrashes = 1
    Faults = {"docker", "pack", "files", "repo", "append"}
    Offered = {"skill_deploy", "skill_remove", "plugin_install", "plugin_remove", "checkpoint", "reload"}
    Overlap = FALSE
SPECIFICATION AuditSpec
PROPERTY FailedDeployRestoresState
PROPERTY UnfinishedInstallRestoresRuntime
\* The requests are bounded by MaxOps: the model stops when they are used up.
CHECK_DEADLOCK FALSE
