\* Two handlers, two addresses, two failures make a block.
CONSTANTS
    Handlers = {h1, h2}
    Addrs = {a1, a2}
    MaxFailures = 2
    Window = 2
    Block = 2
    MaxTime = 5
SPECIFICATION Spec
PROPERTY BlockKept
PROPERTY BlockEarned
