SPECIFICATION Spec
CONSTANTS
    Jobs = {j1}
    Hosts = {h1}
    Requests <- BadSlots
    Faults = {}
    PrologImpl = "go"
    EpilogImpl = "go"
    MaxAttempts = 1
    NoHost = NoHost
    NoToken = NoToken
    BadToken = BadToken
    NoFile = NoFile
    EmptyFile = EmptyFile
    TornFile = TornFile
    NoUsage = NoUsage
INVARIANTS
    QueueErrorMeansHostFault
