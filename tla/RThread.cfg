CONSTANTS
    Client = {c1, c2}
    R = R
    ReadMax = 2
    PipeCap = 4
    RCalls = {"log"}
    MaxTasks = 3
SPECIFICATION FairSpec
INVARIANTS
    IInv
    NoLostWakeup
    QueueConserved
    CapturesAlive
PROPERTIES
    Answered
    EveryTaskRuns
    ImplementsSerial
