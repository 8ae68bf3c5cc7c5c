\* Two concurrent skill deploys, no call fails.
CONSTANTS
    Skills = {s1, s2}
    Plugins = {}
    Versions = {v1, v2}
    None = None
    Handlers = {h1, h2}
    MaxOps = 2
    MaxFailures = 0
    MaxCrashes = 0
    Faults = {}
    Offered = {"skill_deploy"}
    Overlap = TRUE
SPECIFICATION Spec
PROPERTY RecordedInstallIsLogged
\* The requests are bounded by MaxOps: the model stops when they are used up.
CHECK_DEADLOCK FALSE
