SPECIFICATION FairSpec
CONSTANTS
    Kinds = {"magnet"}
    MaxRuns = 2
    MaxData = 1
    MaxAlerts = 1
    MaxWaiting = 1
    MaxCalls = 2
    MaxFaults = 1
INVARIANTS
    RunningIsEngaged
    SettledIsSaved
PROPERTIES
    ResumeDataIsKept
    FinishIsNoticed
CHECK_DEADLOCK FALSE
