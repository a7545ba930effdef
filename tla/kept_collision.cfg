SPECIFICATION Spec
CONSTANTS
    Jobs = {j1}
    Hosts = {h1}
    Requests <- Served
    Faults = {"release"}
    PrologImpl = "go"
    EpilogImpl = "go"
    MaxAttempts = 2
    NoHost = NoHost
    NoToken = NoToken
    BadToken = BadToken
    NoFile = NoFile
    EmptyFile = EmptyFile
    TornFile = TornFile
    NoUsage = NoUsage
INVARIANTS
    FailureKeepsItsRecord
