\* One request at a time, one docker call fails.
CONSTANTS
    Skills = {s1}
    Plugins = {p1}
    Versions = {v1, v2}
    None = None
    Handlers = {h1}
    MaxOps = 3
    MaxFailures = 1
    MaxCrashes = 0
    Faults = {"docker"}
    Offered = {"skill_deploy", "skill_remove", "plugin_install", "plugin_remove", "checkpoint", "reload"}
    Overlap = FALSE
SPECIFICATION Spec
INVARIANT CheckpointHoldsWhatItLists
\* The requests are bounded by MaxOps: the model stops when they are used up.
CHECK_DEADLOCK FALSE
