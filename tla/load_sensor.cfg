SPECIFICATION FairSpec
CONSTANTS
    Configs <- VariedConfigs
    Answers <- VariedAnswers
    MaxSlots = 1
    MaxPolls = 1
    MaxReports = 1
    MaxStarts = 2
    StuckFiles = FALSE
    Absent = Absent
    Pending = Pending
INVARIANTS
    TypeOK
    ReportsAreWhole
    OneReportPerPoll
PROPERTIES
    ReadinessIsBacked
    LossReachesScheduler
