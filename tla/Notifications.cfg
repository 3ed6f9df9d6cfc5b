SPECIFICATION Spec
CONSTANTS
    Offers = {1, 2}
    Threadings <- MCThreadings
    MaxActive = 1
    SeenLimits = {1, 2}
    CommandCap = 2
    OutputCap = 2
    MaxSteps = 4
    MaxFaults = 1
INVARIANTS ShownWasAccepted Accounted ReceiptsGoHome RoomForEach
CHECK_DEADLOCK FALSE
