SPECIFICATION Spec
CONSTANTS
    Jobs = {j1}
    Hosts = {h1, h2}
    Requests <- Request
    Faults = {"qmaster", "backend", "lostReply", "release", "host", "memory", "disk", "read", "start", "kill"}
    PrologImpl = "go"
    EpilogImpl = "go"
    MaxAttempts = 3
    NoHost = NoHost
    NoToken = NoToken
    BadToken = BadToken
    NoFile = NoFile
    EmptyFile = EmptyFile
    TornFile = TornFile
    NoUsage = NoUsage
INVARIANTS
    TypeOK
    RunningIsRecorded
    SuccessAfterRecord
    RecordsAreWhole
    ReportedReleaseHappened
    
PROPERTIES
    KeptIsPermanent
