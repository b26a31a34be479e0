CONSTANTS
    MaxId = 2
    MaxUpid = 2
    Size = {1, 2}
    Rect = {r1}
    Op = {op}
    MaxAppends = 3
    MaxDcs = 1
    MaxClips = 2
SPECIFICATION Spec
INVARIANTS
    IInv
    IdsAscending
    ClipsResolve
    PollSound
    QueryPages
