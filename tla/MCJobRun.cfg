CONSTANTS
    Proc <- Procs
    Cmd = "shell"
    PipeSize = 1
    MaxWrites = 2
    Unbuffered = {TRUE, FALSE}

SPECIFICATION FairSpec

INVARIANTS
    OutputLogged
    ReturnsAfterTheJob

PROPERTIES
    WritersGoOn
    RunReturns

CHECK_DEADLOCK FALSE
