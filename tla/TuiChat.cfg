SPECIFICATION Spec
CONSTANTS
    Chats = {1, 2}
    Past <- MCPast
    MaxOrgs = 2
    MaxSteps <- MCMaxSteps
INVARIANTS NothingOlder FlagsAreHonest CatchesUp
CHECK_DEADLOCK FALSE
