SPECIFICATION FairSpec
CONSTANTS
    RunIds = {r1, r2}
    Roots = {f1}
    Saved <- Unchanging
    Answerers = {serving}
    CommandsRunning = 1
    FinishedKept = 1
    Modes = {TRUE}
    SpawnFails = FALSE
    LoadFails = FALSE
    MaxInbox = 1
PROPERTIES StopEndsRun WorkerGoneEndsAll
CHECK_DEADLOCK FALSE
