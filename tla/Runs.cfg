SPECIFICATION Spec
CONSTANTS
    RunIds = {r1, r2}
    Roots = {f1}
    Saved <- MCSaved
    Answerers = {t1, t2}
    CommandsRunning = 1
    FinishedKept = 1
    Modes = {TRUE, FALSE}
    SpawnFails = TRUE
    LoadFails = TRUE
    MaxInbox = 1
SYMMETRY Symmetric
INVARIANTS RunningBound AliveIsStoppable PruneHolds
PROPERTIES EndIsFinal
CHECK_DEADLOCK FALSE
