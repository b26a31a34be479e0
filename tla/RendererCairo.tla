--------------------------- MODULE RendererCairo ---------------------------
(***************************************************************************)
(* RendererCairo (renderer_cairo.cpp), which PNG, PDF, PS, EPS and TIFF    *)
(* share.  A rendering is the sequence of calls it makes to cairo.         *)
(* CairoMarks runs them: cairo has a current path, which saving and        *)
(* restoring leave alone, and a graphics state, which they keep: clip,     *)
(* source, pen and transformation.                                         *)
(***************************************************************************)
EXTENDS Drawing

Call(op, arg) == [op |-> op, arg |-> arg]
Do(op) == Call(op, <<>>)

(* set_linetype shifts an unsigned int until nothing is left of it.        *)
CairoDash(lty) ==
    IF lty \in {BLANK, SOLID} THEN <<>>
    ELSE SubSeq(lty, 1, SelectLastInSeq(lty, LAMBDA d : d # 0))

SetLinetype(line) ==
    Call("linetype", Pen(CairoDash(line.lty), line.lend, line.ljoin, line.lmitre))

SetColor(col) == Call("color", col)

(* Fill and stroke of rect, circle, polygon and path.                      *)
FillAndStroke(dc) ==
    (IF Transparent(dc.fill) THEN <<>> ELSE <<SetColor(dc.fill), Do("fill_preserve")>>)
    \o (IF Transparent(dc.line.col) \/ dc.line.lty = BLANK THEN <<>>
        ELSE <<SetLinetype(dc.line), SetColor(dc.line.col), Do("stroke")>>)

(* Mutant of the next definition: the path so far is not dropped.          *)
VisitLine_KeepPath(dc) ==
    IF Transparent(dc.line.col) THEN <<>>
    ELSE <<SetColor(dc.line.col), SetLinetype(dc.line), MoveTo(dc.points[1])>>
         \o [n \in 1..Len(dc.points) - 1 |-> LineTo(dc.points[n + 1])]
         \o <<Do("stroke")>>

(* visit of a line and of a polyline *)
VisitLine(dc) ==
    IF Transparent(dc.line.col) THEN <<>>
    ELSE <<Do("new_path"), SetColor(dc.line.col), SetLinetype(dc.line),
           MoveTo(dc.points[1])>>
         \o [n \in 1..Len(dc.points) - 1 |-> LineTo(dc.points[n + 1])]
         \o <<Do("stroke")>>

VisitPolygon(dc) ==
    <<Do("new_path"), MoveTo(dc.points[1])>>
    \o [n \in 1..Len(dc.points) - 1 |-> LineTo(dc.points[n + 1])]
    \o <<ClosePath>> \o FillAndStroke(dc)

VisitText(dc) ==
    IF Transparent(dc.col) THEN <<>>
    ELSE <<Do("save"), MoveTo(dc.at)>>
         \o (IF dc.rot # 0 THEN <<Call("rotate", -dc.rot)>> ELSE <<>>)
         \o (IF dc.hadj # 0 THEN <<Call("shift", dc.hadj)>> ELSE <<>>)
         \o <<SetColor(dc.col), Call("show_text", dc.str), Do("restore")>>

(* The image is drawn in coordinates of its own, and all of the clip, which*)
(* is cut down to the image, is painted.                                   *)
VisitRaster(dc) ==
    <<Do("save"), Call("frame", [rect |-> dc.rect, w |-> dc.w, h |-> dc.h]),
      Call("surface", [look |-> Look(dc.w, dc.h, dc.pixels), smooth |-> dc.interpolate]),
      Do("new_path"), Call("rectangle", <<0, 0, dc.w, dc.h>>), Do("clip"), Do("paint"),
      Do("restore")>>

(* RendererCairo::visit: a circle has at least a radius of one half.       *)
CairoVisit(dc) ==
    CASE dc.kind \in {"line", "polyline"} -> VisitLine(dc)
      [] dc.kind = "polygon" -> VisitPolygon(dc)
      [] dc.kind = "text" -> VisitText(dc)
      [] dc.kind = "raster" -> VisitRaster(dc)
      [] dc.kind = "rect" ->
             <<Do("new_path"), Call("rectangle", dc.rect)>> \o FillAndStroke(dc)
      [] dc.kind = "circle" ->
             <<Do("new_path"),
               Call("arc", <<dc.pos, <<IF dc.radius > 1 THEN dc.radius ELSE 1>>>>)>>
             \o FillAndStroke(dc)
      [] dc.kind = "path" ->
             <<Do("new_path")>> \o PathCommands(dc.points, dc.nper) \o FillAndStroke(dc)

ClipToRect(page, id) ==
    LET clip == page.cps[SelectInSeq(page.cps, LAMBDA c : c.id = id)]
    IN  <<Do("new_path"), Call("rectangle", RectOfClip(clip.rect)), Do("clip")>>

(* One turn of the loop of render_page, given the clip of a draw call, the *)
(* calls that clip to it and those of the visit.                           *)
CairoStep(acc, e) ==
    [last |-> e.clip,
     calls |-> acc.calls
        \o (IF e.clip = acc.last THEN <<>> ELSE <<Do("reset_clip")>> \o e.clipTo)
        \o e.visit]

(* render_page *)
Cairo(page, fill) ==
    LET first == Head(page.cps).id
        entry(dc) == [clip |-> dc.clip, clipTo |-> ClipToRect(page, dc.clip),
                      visit |-> CairoVisit(dc.op)]
    IN  (IF Transparent(fill) THEN <<>>
         ELSE <<Do("new_path"), Call("rectangle", <<0, 0>> \o page.size), SetColor(fill),
                Do("fill")>>)
        \o FoldLeft(CairoStep, [last |-> first, calls |-> ClipToRect(page, first)],
                    [n \in DOMAIN page.dcs |-> entry(page.dcs[n])]).calls

----------------------------------------------------------------------------
(* cairo.                                                                  *)

(* User coordinates: a rectangle, the image pixels it is wide and high.    *)
Identity == [rect |-> <<0, 0, 1, 1>>, w |-> 1, h |-> 1, rot |-> 0]

InFrame(ctm, r) ==
    [Box(ctm.rect[1] + (r[1] * ctm.rect[3]) \div ctm.w,
         ctm.rect[2] + (r[2] * ctm.rect[4]) \div ctm.h,
         ctm.rect[1] + ((r[1] + r[3]) * ctm.rect[3]) \div ctm.w,
         ctm.rect[2] + ((r[2] + r[4]) * ctm.rect[4]) \div ctm.h)
     EXCEPT !.rot = ctm.rot]

Started == [path |-> <<>>, shift |-> 0, saved |-> <<>>, marks |-> <<>>, area |-> <<>>,
            gs |-> [clip |-> {}, col |-> Black, image |-> NoImage, pen |-> <<>>,
                    ctm |-> Identity]]

Drawn(s, mark) == [s EXCEPT !.marks = Append(@, mark)]
FillNow(s) == Drawn(s, FillMark(s.path, s.gs.col, "nonzero", s.gs.clip))
StrokeNow(s) == Drawn(s, StrokeMark(s.path, s.gs.col, s.gs.pen, s.gs.clip))
NewPath(s) == [s EXCEPT !.path = <<>>, !.shift = 0]

(* Painting covers the clip, here the last rectangle clipped to.           *)
PaintNow(s) == Drawn(s, ImageMark(s.area, s.gs.image.look, s.gs.image.smooth, s.gs.clip))

TextNow(s, str) ==
    Drawn(s, TextMark([str |-> str, at |-> Last(s.path).pts[1], hadj |-> s.shift,
                       rot |-> -s.gs.ctm.rot], s.gs.col, s.gs.clip))

Run(s, c) ==
    IF "cmd" \in DOMAIN c THEN [s EXCEPT !.path = Traced(@, <<c>>), !.shift = 0]
    ELSE CASE c.op = "new_path" -> NewPath(s)
           [] c.op = "rectangle" -> [s EXCEPT !.path = Append(@, InFrame(s.gs.ctm, c.arg))]
           [] c.op = "arc" -> [s EXCEPT !.path = Append(@, Subpath("circle", c.arg))]
           [] c.op = "color" -> [s EXCEPT !.gs.col = c.arg, !.gs.image = NoImage]
           [] c.op = "surface" -> [s EXCEPT !.gs.col = NoColor, !.gs.image = c.arg]
           [] c.op = "linetype" -> [s EXCEPT !.gs.pen = c.arg]
           [] c.op = "fill" -> NewPath(FillNow(s))
           [] c.op = "fill_preserve" -> FillNow(s)
           [] c.op = "stroke" -> NewPath(StrokeNow(s))
           [] c.op = "clip" ->
                  NewPath([s EXCEPT !.gs.clip = @ \cup {s.path[n] : n \in DOMAIN s.path},
                                    !.area = s.path])
           [] c.op = "reset_clip" -> [s EXCEPT !.gs.clip = {}]
           [] c.op = "paint" -> PaintNow(s)
           [] c.op = "frame" -> [s EXCEPT !.gs.ctm = [rot |-> 0] ++ c.arg]
           [] c.op = "rotate" -> [s EXCEPT !.gs.ctm.rot = @ + c.arg]
           [] c.op = "shift" -> [s EXCEPT !.shift = c.arg]
           [] c.op = "show_text" -> TextNow(s, c.arg)
           [] c.op = "save" -> [s EXCEPT !.saved = Append(@, s.gs)]
           [] c.op = "restore" -> [s EXCEPT !.gs = Last(s.saved), !.saved = Front(@)]

CairoMarks(calls) == FoldLeft(Run, Started, calls).marks
=============================================================================
