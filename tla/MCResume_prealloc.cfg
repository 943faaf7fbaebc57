SPECIFICATION Spec
CONSTANTS
    Scenarios <- PausedTask
    Strategies = {"Resume"}
    MaxVersion = 1
    MaxEvents = 3
PROPERTIES
    CompletesWithoutHoles
CHECK_DEADLOCK FALSE
