CONSTANTS
    Signaller = {s}
    Joiner = {j}
    Destroyer = {x}
    MaxNumber = 2
    MaxDevices = 2
SPECIFICATION FairSpec
INVARIANTS
    IInv
    CallbacksAgree
    UsesAlive
    ActiveIsCurrent
    GetOwn
PROPERTIES
    Freed
CHECK_DEADLOCK FALSE
