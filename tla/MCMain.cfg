CONSTANTS
    Job <- Jobs
    Crontab <- Crontabs
    Inotify = TRUE
    Prometheus = TRUE
    MaxEdits = 3

SPECIFICATION FairSpec

INVARIANTS
    TypeOK
    NoLostRequest
    NoMissedEdit
    OneGeneration

PROPERTIES
    RequestsAreMet
    EditsAreLoaded
    AcceptedStopEnds

CHECK_DEADLOCK FALSE
