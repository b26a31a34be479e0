CONSTANTS
    MaxId = 100
    MaxUpid = 1
    StartSize <- MCStartSize
    RenderSize <- MCRenderSize
    MinSize <- MCMinSize
    Removable = {}
    Asked = {"current"}
    MaxFailures = 0
    MaxPlots = 3
    MaxOps = 1
    Renderer = {c1}
    Remover = {}
SPECIFICATION AsyncSpec
INVARIANTS
    RendersWhole
