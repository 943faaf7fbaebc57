SPECIFICATION Spec
CONSTANTS
    Scenarios <- AllTasks
    Strategies = {"Overwrite", "SkipIfValid", "Resume"}
    MaxVersion = 2
    MaxEvents = 2
INVARIANTS
    TypeOK
PROPERTIES
    CompletesAsExpected
    ContinuesInOneVersion
    UnvalidatedIsDownloaded
CHECK_DEADLOCK FALSE
