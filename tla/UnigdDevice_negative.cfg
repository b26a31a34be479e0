CONSTANTS
    MaxId = 100
    MaxUpid = 1
    StartSize <- MCStartSize
    RenderSize <- MCRenderSize
    MinSize <- MCMinSize
    Removable = {"newest", "negative"}
    Asked = {"current"}
    MaxFailures = 0
    MaxPlots = 3
    MaxOps = 1
SPECIFICATION Spec
INVARIANTS
    NotReplaying
CHECK_DEADLOCK FALSE
