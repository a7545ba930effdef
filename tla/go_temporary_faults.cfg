SPECIFICATION FairSpec
CONSTANTS
    Jobs = {j1}
    Hosts = {h1, h2}
    Requests <- GoodSlots
    Faults = {"qmaster", "backend", "release"}
    PrologImpl = "go"
    EpilogImpl = "go"
    MaxAttempts = 3
    NoHost = NoHost
    NoToken = NoToken
    BadToken = BadToken
    NoFile = NoFile
    EmptyFile = EmptyFile
    TornFile = TornFile
    NoUsage = NoUsage
INVARIANTS
    QueueErrorMeansHostFault
    JobErrorMeansBadRequest
PROPERTIES
    SessionsSettle
    DispatchedJobsComeBack
