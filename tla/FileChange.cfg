SPECIFICATION Spec
CONSTANTS
    Names = {1, 2}
    Slots = {3, 4}
    Renames = {"kernel", "link", "look"}
    MaxChanges = 2
    MaxMeddles = 1
    MaxFaults = 1
INVARIANTS AnswersAreTrue
PROPERTIES NothingLost NeverMissing Restorable
CHECK_DEADLOCK FALSE
