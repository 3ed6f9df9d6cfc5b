SPECIFICATION OutputSpec
CONSTANTS
    Window = 2
    Chunk = 2
    Kept = 2
    Near = 1
    Replaced = 2
    MaxBytes = 4
INVARIANTS ShownIsLatest DoneIsAll
PROPERTIES FollowEnds
CHECK_DEADLOCK FALSE
