SPECIFICATION Spec
CONSTANTS
    N = 2
    Moves = TRUE
    Gone = {}
    Hasty = TRUE
    MaxReloads = 0
    MaxTrouble = 2
INVARIANTS TriesTwice AsksOnce SessionIsCurrent
PROPERTIES Settles
CHECK_DEADLOCK FALSE
