CONSTANTS
    Orphan <- Orphans
    Supercronic = supercronic
    Code <- Codes

SPECIFICATION FairSpec


PROPERTY EndsWithSupercronic

CHECK_DEADLOCK FALSE
