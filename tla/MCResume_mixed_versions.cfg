SPECIFICATION Spec
CONSTANTS
    Scenarios <- PlainTask
    Strategies = {"Resume"}
    MaxVersion = 2
    MaxEvents = 3
PROPERTIES
    CompletesInOneVersion
CHECK_DEADLOCK FALSE
