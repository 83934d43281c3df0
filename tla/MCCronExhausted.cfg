CONSTANTS
    Job <- Jobs
    Schedule <- Exhausted
    Overlapping = FALSE
    Horizon = 3
    MaxDeadlines = 3

SPECIFICATION FairSpec

PROPERTY GracefulExit

CHECK_DEADLOCK FALSE
