SPECIFICATION Spec
CONSTANTS
    Jobs = {j1, j2}
    Hosts = {h1}
    Requests <- Served
    Faults = {"backend", "disk"}
    PrologImpl = "go"
    EpilogImpl = "c"
    MaxAttempts = 2
    NoHost = NoHost
    NoToken = NoToken
    BadToken = BadToken
    NoFile = NoFile
    EmptyFile = EmptyFile
    TornFile = TornFile
    NoUsage = NoUsage
INVARIANTS
    SessionsAccounted
PROPERTIES
    ImplementsLease
