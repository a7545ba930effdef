SPECIFICATION Spec
CONSTANTS
    a1 = a1
    a2 = a2
    h1 = h1
    h2 = h2
    d0 = d0
    d1 = d1
    Admins = {a1}
    Hosts = {h1, h2}
    NoHost = NoHost
    NoObject = NoObject
    Dirs = {d0, d1, root}
    Below <- BelowRoot
    Plain = {d0, d1, root}
    SgeRoot = root
    SgeCell = "plain"
    Commands <- OneSetup
    Clusters <- TwoClusters
    MaxFaults = 1
    MaxEdits = 0
    GlobalShowFails = TRUE
INVARIANTS
    HooksAdmitEveryHost
CHECK_DEADLOCK FALSE
