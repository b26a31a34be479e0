CONSTANTS
    MaxId = 100
    MaxUpid = 1
    StartSize <- MCStartSize
    RenderSize <- MCRenderSize
    MinSize <- MCMinSize
    Removable = {"newest", "older"}
    Asked = {"current"}
    MaxFailures = 0
    MaxPlots = 2
    MaxOps = 1
    Renderer = {c1, c2}
    Remover = {c2}
SPECIFICATION AsyncSpec
INVARIANTS
    RightPlot
    RenderedSize
    AlignedInTime
    NoneLost
