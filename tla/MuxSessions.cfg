SPECIFICATION Spec
CONSTANTS
    MuxPorts = {"p1", "p2"}
    Sessions = {1, 2}
    Scenarios <- MCScenarios
INVARIANTS
    ReplyIsRecent
    OwnReply
PROPERTY CommandEnds
CHECK_DEADLOCK FALSE
