SPECIFICATION Spec
CONSTANTS
    Jobs = {j1, j2}
    Hosts = {h1}
    Requests <- Mixed
    Faults = {"qmaster", "backend", "release", "host"}
    PrologImpl = "c"
    EpilogImpl = "c"
    MaxAttempts = 2
    NoHost = NoHost
    NoToken = NoToken
    BadToken = BadToken
    NoFile = NoFile
    EmptyFile = EmptyFile
    TornFile = TornFile
    NoUsage = NoUsage
INVARIANTS
    SessionsAccounted
    RunningIsRecorded
    FailureLeavesRecord
    JobErrorMeansBadRequest
PROPERTIES
    ImplementsLease
