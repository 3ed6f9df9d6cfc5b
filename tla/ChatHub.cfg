SPECIFICATION Spec
CONSTANTS
    Clients = {c1, c2}
    Chats = {chat}
    Answers = {"confirm", "reject"}
    Framings = {"cable", "mcp"}
    MaxOpens = 2
    MaxSessions = 3
INVARIANTS LeavesWhenLast AllKept
CHECK_DEADLOCK FALSE
PROPERTIES EventuallyTold
