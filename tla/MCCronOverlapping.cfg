CONSTANTS
    Job <- Jobs
    Schedule <- Pair
    Overlapping = TRUE
    Horizon = 3
    MaxDeadlines = 9

SPECIFICATION FairSpec

INVARIANTS
    JoinedRuns
    MetricsAddUp

PROPERTIES
    ServiceSpec
    GracefulExit
    AnnouncedRunStarts
    MonitorsStop

CHECK_DEADLOCK FALSE
