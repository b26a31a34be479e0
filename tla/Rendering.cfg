CONSTANTS
    MaxId = 100
    MaxUpid = 1
    Begins <- MCBegins
    StartFill <- MCStartFill
    ClipCorners <- MCClipCorners
    Calls <- MCCalls
    MaxCalls = 3
    MaxClips = 3
SPECIFICATION Spec
INVARIANTS
    IInv
    SvgPaints
    PortablePaints
    CairoPaints
    TikzPaints
    ListingsTell
