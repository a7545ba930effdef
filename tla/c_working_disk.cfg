SPECIFICATION Spec
CONSTANTS
    Jobs = {j1}
    Hosts = {h1, h2}
    Requests <- Request
    Faults = {"qmaster", "backend", "lostReply", "release", "host", "memory", "read", "start", "kill"}
    PrologImpl = "c"
    EpilogImpl = "c"
    MaxAttempts = 2
    NoHost = NoHost
    NoToken = NoToken
    BadToken = BadToken
    NoFile = NoFile
    EmptyFile = EmptyFile
    TornFile = TornFile
    NoUsage = NoUsage
INVARIANTS
    ReportedReleaseHappened
    EpilogReleasesOpenSession
    SuccessMeansRecord
PROPERTIES
    KeptIsPermanent
