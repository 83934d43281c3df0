CONSTANTS
    Job <- Jobs
    Schedule <- Dense
    Overlapping = FALSE
    Horizon = 6
    MaxDeadlines = 9

SPECIFICATION SpecPrompt

INVARIANTS
    NothingMissed
    DeadlinesAreMissed

CHECK_DEADLOCK FALSE
