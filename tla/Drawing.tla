------------------------------ MODULE Drawing ------------------------------
(***************************************************************************)
(* Draw calls as pages hold them (draw_data.h), how the drawing callbacks  *)
(* of unigd_dev.cpp make them from what R's graphics engine passes, and    *)
(* the picture that R asked for, which every format has to show.           *)
(*                                                                         *)
(* A picture is a sequence of marks in the order of painting.  A mark      *)
(* fills an area, strokes its outline, sets a text or shows an image, and  *)
(* has the boxes it is clipped to.  An area is a sequence of subpaths.     *)
(* Coordinates are small integers, colours a name and an alpha, an int     *)
(* that holds a line type its eight hexadecimal digits, lowest first.      *)
(***************************************************************************)
EXTENDS PageStoreOps, FiniteSetsExt

(* The fields of a, and those of b that a does not have.                   *)
a ++ b == [x \in DOMAIN a \cup DOMAIN b |-> IF x \in DOMAIN a THEN a[x] ELSE b[x]]

SumSeq(seq) == FoldLeft(LAMBDA sum, x : sum + x, 0, seq)

(* The elements of a sequence that pass a test.                            *)
Selected(seq, Test(_)) ==
    FlattenSeq([n \in DOMAIN seq |-> IF Test(seq[n]) THEN <<seq[n]>> ELSE <<>>])

(* Colours.                                                                *)
Black == [rgb |-> "black", alpha |-> 255]
NoColor == [rgb |-> "none", alpha |-> 0]
Transparent(col) == col.alpha = 0
Opaque(col) == col.alpha = 255

(* The colour that a document gives as a name and an opacity.              *)
ColorOf(rgb, opacity) == IF rgb = "none" THEN NoColor ELSE [rgb |-> rgb, alpha |-> opacity]

(* LineInfo::LTY; both also have the names TY_SOLID and TY_BLANK, swapped. *)
BLANK == [n \in 1..8 |-> 15]    \* -1
SOLID == [n \in 1..8 |-> 0]

(* The nth digit of lty after n - 1 shifts by four bits of a signed int.   *)
Digit(lty, n) == IF n <= 8 THEN lty[n] ELSE IF lty[8] >= 8 THEN 15 ELSE 0

----------------------------------------------------------------------------
(* From R's calls to draw calls.                                           *)

(* normalize_rect: x, y, width and height of the box between two corners.  *)
NormalizeRect(x0, y0, x1, y1) ==
    <<Min({x0, x1}), Min({y0, y1}),
      IF x0 < x1 THEN x1 - x0 ELSE x0 - x1, IF y0 < y1 THEN y1 - y0 ELSE y0 - y1>>

(* dev_clip: a clip that covers the page is the one that pages begin with. *)
ClipRect(page, c) ==
    LET rect == NormalizeRect(c[1], c[2], c[3], c[4])
    IN  IF rect = <<0, 0, page.size[1], page.size[2]>>
        THEN Full(page.size)
        ELSE <<"rect", rect>>

(* x, y, width and height of a clip.                                       *)
RectOfClip(rect) == IF rect[1] = "full" THEN <<0, 0>> \o rect[2] ELSE rect[2]

(* dev_raster: the lower left corner, the y axis pointing down.            *)
RasterRect(at, width, height) ==
    LET abs(v) == IF v < 0 THEN -v ELSE v
    IN  <<at[1], at[2] - abs(height), abs(width), abs(height)>>

(* The draw call made of an R call.                                        *)
DrawCall(call) ==
    CASE call.kind = "rect" ->
             LET c == call.corners
             IN  [rect |-> NormalizeRect(c[1], c[2], c[3], c[4])] ++ call
      [] call.kind = "raster" ->
             [rect |-> RasterRect(call.at, call.width, call.height)] ++ call
      [] OTHER -> call

----------------------------------------------------------------------------
(* Marks.                                                                  *)

Subpath(shape, pts) == [shape |-> shape, pts |-> pts, rot |-> 0]

(* The box from one corner to the opposite one.                            *)
Box(x0, y0, x1, y1) ==
    Subpath("box", <<<<Min({x0, x1}), Min({y0, y1})>>, <<Max({x0, x1}), Max({y0, y1})>>>>)

(* A box given by x, y, width and height: nothing if one is negative.      *)
BoxOf(r) ==
    IF r[3] < 0 \/ r[4] < 0 THEN Subpath("nothing", <<>>)
    ELSE Box(r[1], r[2], r[1] + r[3], r[2] + r[4])

NoText == [str |-> <<>>, at |-> <<>>, hadj |-> 0, rot |-> 0]
NoImage == [look |-> <<>>, smooth |-> FALSE]

Mark == [do |-> "none", area |-> <<>>, col |-> NoColor, rule |-> "nonzero",
         pen |-> <<>>, text |-> NoText, image |-> NoImage, clip |-> {}]

FillMark(area, col, rule, clip) ==
    [Mark EXCEPT !.do = "fill", !.area = area, !.col = col, !.rule = rule, !.clip = clip]

(* A pen is a dash pattern, a line end and a line join.                    *)
StrokeMark(area, col, pen, clip) ==
    [Mark EXCEPT !.do = "stroke", !.area = area, !.col = col, !.pen = pen, !.clip = clip]

TextMark(text, col, clip) ==
    [Mark EXCEPT !.do = "text", !.text = text, !.col = col, !.clip = clip]

ImageMark(area, look, smooth, clip) ==
    [Mark EXCEPT !.do = "image", !.area = area, !.clip = clip,
                 !.image = [look |-> look, smooth |-> smooth]]

Visible(marks) == Selected(marks, LAMBDA m : m.do = "image" \/ ~Transparent(m.col))

(* The limit of a mitre is of no matter to other joins.                    *)
Pen(dash, cap, join, limit) ==
    <<dash, cap, IF join = "mitre" THEN <<join, limit>> ELSE <<join>>>>

(* Fill before stroke.                                                     *)
Paint(area, fill, rule, col, pen, clip) ==
    <<FillMark(area, fill, rule, clip), StrokeMark(area, col, pen, clip)>>

(* What an image of w by h pixels shows at the points of a grid.           *)
Grid == 0..5
Look(w, h, pixels) ==
    [p \in Grid \X Grid |-> pixels[((p[2] * h) \div 6) * w + (p[1] * w) \div 6 + 1]]

----------------------------------------------------------------------------
(* Paths with several subpaths.                                            *)

MoveTo(p) == [cmd |-> "M", at |-> p]
LineTo(p) == [cmd |-> "L", at |-> p]
ClosePath == [cmd |-> "Z", at |-> <<>>]

(* One turn of the loop of visit(const Path* ), the same in all renderers: *)
(* left counts the points that the subpath still gets, and polys are the   *)
(* numbers of points of the subpaths after it.                             *)
PathPoint(acc, p) ==
    IF acc.left = 0
    THEN [left |-> Head(acc.polys) - 1, polys |-> Tail(acc.polys),
          cmds |-> Append(acc.cmds, MoveTo(p))]
    ELSE [left |-> acc.left - 1, polys |-> acc.polys,
          cmds |-> acc.cmds \o IF acc.left = 1 THEN <<LineTo(p), ClosePath>>
                               ELSE <<LineTo(p)>>]

PathCommands(points, nper) ==
    FoldLeft(PathPoint, [left |-> 0, polys |-> nper, cmds |-> <<>>], points).cmds

(* What a path command does to the path so far.                            *)
Trace(path, c) ==
    CASE c.cmd = "M" -> Append(path, Subpath("open", <<c.at>>))
      [] c.cmd = "L" -> [path EXCEPT ![Len(path)].pts = Append(@, c.at)]
      [] c.cmd = "Z" -> [path EXCEPT ![Len(path)].shape = "closed"]

Traced(path, cmds) == FoldLeft(Trace, path, cmds)

----------------------------------------------------------------------------
(* The picture that R asked for.                                           *)

(* A line type: digits up to the first zero, none for a solid line.        *)
DashPattern(lty) ==
    LET zero == SelectInSeq(lty, LAMBDA d : d = 0)
    IN  IF zero = 0 THEN lty ELSE SubSeq(lty, 1, zero - 1)

AskedPen(line) == Pen(DashPattern(line.lty), line.lend, line.ljoin, line.lmitre)

(* The first nper[1] points, the next nper[2] points, and so on.           *)
Split(points, nper) ==
    LET upto(k) == SumSeq(SubSeq(nper, 1, k))
    IN  [k \in DOMAIN nper |->
            Subpath("closed", SubSeq(points, upto(k - 1) + 1, upto(k)))]

AskedArea(call) ==
    CASE call.kind \in {"line", "polyline"} -> <<Subpath("open", call.points)>>
      [] call.kind = "polygon" -> <<Subpath("closed", call.points)>>
      [] call.kind = "path" -> Split(call.points, call.nper)
      [] call.kind = "circle" -> <<Subpath("circle", <<call.pos, <<call.radius>>>>)>>
      [] call.kind = "rect" ->
             LET c == call.corners IN <<Box(c[1], c[2], c[3], c[4])>>
      [] call.kind = "raster" ->
             <<Box(call.at[1], call.at[2],
                   call.at[1] + call.width, call.at[2] + call.height)>>

(* The marks of a call of R while the clipping box is clip.                *)
AskedMarks(call, clip) ==
    CASE call.kind = "text" ->
             <<TextMark([str |-> call.str, at |-> call.at, hadj |-> call.hadj,
                         rot |-> call.rot], call.col, {clip})>>
      [] call.kind = "raster" ->
             LET area == AskedArea(call)
             IN  <<ImageMark(area, Look(call.w, call.h, call.pixels), call.interpolate,
                             {clip, area[1]})>>
      [] OTHER ->
             Paint(AskedArea(call),
                   IF call.kind \in {"line", "polyline"} THEN NoColor ELSE call.fill,
                   IF call.kind = "path" /\ ~call.winding THEN "evenodd" ELSE "nonzero",
                   call.line.col, AskedPen(call.line), {clip})

(* The background is not clipped.                                          *)
Background(size, fill) ==
    FillMark(<<Box(0, 0, size[1], size[2])>>, fill, "nonzero", {})
=============================================================================
