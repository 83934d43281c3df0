CONSTANTS
    Scene <- Scenes
    MaxCalls = 3

SPECIFICATION Spec

PROPERTIES
    NextIsEarliest
    ClockChanges
    SearchAdvances

CHECK_DEADLOCK FALSE
