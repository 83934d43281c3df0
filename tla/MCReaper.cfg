CONSTANTS
    Orphan <- Orphans
    Supercronic = supercronic
    Code <- Codes

SPECIFICATION FairSpec

INVARIANTS
    TypeOK
    StatusKept
    HeardIsReaped
    ReloadForwarded

PROPERTIES
    ZombiesAreReaped
    StopEnds

CHECK_DEADLOCK FALSE
