CONSTANTS
    Client = {c1, c2, c3}
    PostMax = 2
    MaxDepth = 3
    MaxTasks = 4
SPECIFICATION FairSpec
INVARIANTS
    BeginInOrder
    CapturesAlive
PROPERTIES
    Answered
CHECK_DEADLOCK FALSE
