CONSTANTS
    Job <- TwoJobs
    Schedule <- Mixed
    Overlapping = FALSE
    Horizon = 4
    MaxDeadlines = 9

SPECIFICATION Spec

INVARIANTS
    TypeOK
    NoOverlap

PROPERTIES
    StartedOnce
    ServiceSpec

CHECK_DEADLOCK FALSE
