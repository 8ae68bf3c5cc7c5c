\* Two concurrent requests at a time, a failing npm pack or record, one kill.
CONSTANTS
    Skills = {s1}
    Plugins = {p1}
    Versions = {v1}
    None = None
    Handlers = {h1, h2}
    MaxOps = 3
    MaxFailures = 1
    MaxCrashes = 1
    Faults = {"pack", "append"}
    Offered = {"skill_deploy", "plugin_install", "reload"}
    Overlap = TRUE
SPECIFICATION Spec
INVARIANT RecordedEventsStaged
\* The requests are bounded by MaxOps: the model stops when they are used up.
CHECK_DEADLOCK FALSE
