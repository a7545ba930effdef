SPECIFICATION Spec
CONSTANTS
    Jobs = {j1}
    Hosts = {h1}
    Requests <- Served
    Faults = {"disk"}
    PrologImpl = "c"
    EpilogImpl = "c"
    MaxAttempts = 1
    NoHost = NoHost
    NoToken = NoToken
    BadToken = BadToken
    NoFile = NoFile
    EmptyFile = EmptyFile
    TornFile = TornFile
    NoUsage = NoUsage
INVARIANTS
    RunningIsRecorded
