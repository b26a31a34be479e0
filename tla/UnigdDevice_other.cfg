CONSTANTS
    MaxId = 100
    MaxUpid = 1
    StartSize <- MCStartSize
    RenderSize <- MCRenderSize
    MinSize <- MCMinSize
    Removable = {}
    Asked = {"current", "other"}
    MaxFailures = 0
    MaxPlots = 3
    MaxOps = 1
SPECIFICATION Spec
INVARIANTS
    RendersWhich
CHECK_DEADLOCK FALSE
