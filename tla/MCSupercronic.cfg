CONSTANTS
    Job <- Jobs
    Schedule <- Schedules
    Overlapping = FALSE
    Horizon = 2
    MaxDeadlines = 9
    Crontab <- Crontabs
    Inotify = TRUE
    Prometheus = FALSE
    MaxEdits = 2

SPECIFICATION FairSpec

INVARIANTS
    ExitsWithoutRuns
    ResetsCompleteSeries

PROPERTIES
    MainSpec
    StartsListedJobs
    StopEnds

CHECK_DEADLOCK FALSE
