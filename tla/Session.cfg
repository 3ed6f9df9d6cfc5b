SPECIFICATION Spec
CONSTANTS
    Calls = {c1, c2, c3}
    Strays = {c1}
    Bad = {b1}
    InCap = 1
    OutCap = 4
PROPERTIES EveryAnswered EndsWhenTold
CHECK_DEADLOCK FALSE
