CONSTANTS
    Job <- Jobs
    Crontab <- Crontabs
    Inotify = FALSE
    Prometheus = TRUE
    MaxEdits = 1

SPECIFICATION Spec

INVARIANT CleanExit

CHECK_DEADLOCK FALSE
