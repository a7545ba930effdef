SPECIFICATION FairSpec
CONSTANTS
    a1 = a1
    a2 = a2
    h1 = h1
    h2 = h2
    d0 = d0
    d1 = d1
    Admins = {a1, a2}
    Hosts = {h1, h2}
    NoHost = NoHost
    NoObject = NoObject
    Dirs = {d0, d1, root}
    Below <- BelowRoot
    Plain = {d0, d1, root}
    SgeRoot = root
    SgeCell = "plain"
    Commands <- SameOrShared
    Clusters <- TwoClusters
    MaxFaults = 1
    MaxEdits = 1
    GlobalShowFails = FALSE
INVARIANTS
    TypeOK
    SetupIsComplete
    HooksComeAfterResources
    ForeignSettingsKept
    HooksAdmitEveryHost
    RunAgainRenewsHooks
PROPERTIES
    EveryCommandSucceeds
CHECK_DEADLOCK FALSE
