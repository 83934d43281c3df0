CONSTANTS
    Lines <- TwoLines
    Zone <- Zones

SPECIFICATION Spec

INVARIANTS
    ReadAsDocumented
    CommandKept
    ContextOfTheFile

CHECK_DEADLOCK FALSE
