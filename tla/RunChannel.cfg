SPECIFICATION ChannelSpec
CONSTANTS
    Callers = {c1, c2}
    MaxCalls = 4
    MaxParts = 2
INVARIANTS MatchedInTime
PROPERTIES CallReturns
CHECK_DEADLOCK FALSE
