SPECIFICATION Spec
CONSTANTS
    Jobs = {j1, j2}
    Hosts = {h1}
    Requests <- Mixed
    Faults = {"qmaster", "backend", "release", "host", "read"}
    PrologImpl = "go"
    EpilogImpl = "go"
    MaxAttempts = 2
    NoHost = NoHost
    NoToken = NoToken
    BadToken = BadToken
    NoFile = NoFile
    EmptyFile = EmptyFile
    TornFile = TornFile
    NoUsage = NoUsage
INVARIANTS
    SessionsAccounted
    FailureLeavesRecord
    EpilogReleasesOpenSession
PROPERTIES
    ImplementsLease
