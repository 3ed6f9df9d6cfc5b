SPECIFICATION Spec
CONSTANTS
    Requests = {r1, r2, o1}
    Outsiders = {o1}
    Kinds = {"pause", "resume", "allow", "deny", "reload"}
    Sandboxes = {TRUE, FALSE}
INVARIANTS DiskKeepsEdits SandboxFits ReadOnlyHolds Settled
SYMMETRY Symmetry
CHECK_DEADLOCK FALSE
