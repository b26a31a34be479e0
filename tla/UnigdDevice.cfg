CONSTANTS
    MaxId = 100
    MaxUpid = 1
    StartSize <- MCStartSize
    RenderSize <- MCRenderSize
    MinSize <- MCMinSize
    Removable = {"newest", "older"}
    Asked = {"current"}
    MaxFailures = 1
    MaxPlots = 3
    MaxOps = 2
SPECIFICATION Spec
INVARIANTS
    IInv
    Aligned
    OwnDrawing
    PagesComplete
    DeviceFits
    LaidOut
    ClipHonoured
    ToldOfDrawing
PROPERTIES
    ImplementsPlotList
CHECK_DEADLOCK FALSE
