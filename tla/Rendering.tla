----------------------------- MODULE Rendering -----------------------------
(***************************************************************************)
(* A page that R draws on, and what each format shows of it.  R begins the *)
(* page, clips and draws, one callback of the device at a time; at any     *)
(* time a client may have the page rendered in any format, which changes   *)
(* nothing, so renderings are operators of the page.                       *)
(*                                                                         *)
(* The marks R asked for are kept as R asked for them, with the box it     *)
(* clipped to, and have no part in what the code does.                     *)
(***************************************************************************)
EXTENDS RendererSVG, RendererTikZ, RendererCairo, RendererJSON, RendererData

CONSTANTS Begins,      \* how R begins pages: size and gc->fill
          StartFill,   \* dd->startfill
          ClipCorners, \* what R passes to dev_clip: <<x0, y0, x1, y1>>
          Calls,       \* drawing calls of R
          MaxCalls,    \* bound: calls on a page
          MaxClips     \* bound: clips of a page

----------------------------------------------------------------------------
(* What R's graphics engine passes.  It leaves a border without a line type*)
(* out or makes it transparent, knows no path of less than two points, and *)
(* sets a text line by line.  Radii are counted in halves.  Images have    *)
(* their corners in order, and y points down, so their height is negative; *)
(* images of no width or height, which cairo takes for an error, are out.  *)

Color == [rgb : STRING \ {"none"}, alpha : 0..255]
Point == Int \X Int
Points == Seq(Point) \ {<<>>}
Size == Nat \X Nat
Corners4 == Int \X Int \X Int \X Int

(* The digits of a line type are not 0 as far as they go.                  *)
LineType ==
    {lty \in [1..8 -> 0..15] :
        \E n \in 0..8 : \A k \in 1..8 : lty[k] # 0 <=> k <= n}

Line ==
    {line \in [col : Color, lty : LineType, lend : {"round", "butt", "square"},
               ljoin : {"round", "mitre", "bevel"}, lmitre : Nat] :
        line.lty = BLANK => Transparent(line.col)}

Text == Seq(STRING \ {"newline"})

ShapeCall ==
    [kind : {"line", "polyline"}, line : Line, points : Points]
    \cup [kind : {"polygon"}, line : Line, fill : Color, points : Points]
    \cup [kind : {"rect"}, line : Line, fill : Color, corners : Corners4]
    \cup [kind : {"circle"}, line : Line, fill : Color, pos : Point, radius : Nat]

PathCall ==
    {call \in [kind : {"path"}, line : Line, fill : Color, winding : BOOLEAN,
               nper : Seq(Nat \ {0, 1}), points : Seq(Point)] :
        Len(call.points) = SumSeq(call.nper)}

TextCall ==
    [kind : {"text"}, col : Color, str : Text, at : Point, hadj : {0, 50, 100}, rot : Int]

RasterCall ==
    {call \in [kind : {"raster"}, w : Nat \ {0}, h : Nat \ {0}, pixels : Seq(0..255),
               at : Point, width : Nat \ {0}, height : Int, interpolate : BOOLEAN] :
        Len(call.pixels) = call.w * call.h /\ call.height < 0}

RCall == ShapeCall \cup PathCall \cup TextCall \cup RasterCall

ASSUME RenderingAssumption ==
    /\ MaxCalls \in Nat /\ MaxClips \in Nat \ {0}
    /\ StartFill \in Color
    /\ Begins \subseteq [size : Size, fill : Color]
    /\ ClipCorners \subseteq Corners4
    /\ Calls \subseteq RCall

(* The size of an image and its pixels are bytes of a PNG (Encoders), also *)
(* after the image was made larger.                                        *)
ASSUME ImageAssumption ==
    \A call \in Calls : call.kind = "raster" => RasterPng(DrawCall(call)) \in Seq(0..255)

----------------------------------------------------------------------------
VARIABLES page,   \* Page, without its fill
          fill,   \* Page::fill
          asked,  \* history: the calls R made, each with its clipping box
          boxes   \* history: the boxes R clipped to, one for each change

vars == <<page, fill, asked, boxes>>

PageBox(size) == Box(0, 0, size[1], size[2])

(* dev_newPage: a page without a background gets that of the device.       *)
PageFill(col) == IF Transparent(col) THEN StartFill ELSE col

Init ==
    \E b \in Begins :
        /\ page = NewPage(0, b.size)
        /\ fill = PageFill(b.fill)
        /\ asked = <<>>
        /\ boxes = <<PageBox(b.size)>>

(* dev_newPage of a replay, after page_store::resize.                      *)
Replay ==
    \E b \in Begins :
        /\ page' = Cleared([page EXCEPT !.size = b.size])
        /\ fill' = PageFill(b.fill)
        /\ asked' = <<>>
        /\ boxes' = <<PageBox(b.size)>>

DevClip ==
    \E c \in ClipCorners :
        /\ Len(page.cps) < MaxClips
        /\ page' = WithClip(page, ClipRect(page, c))
        /\ boxes' = IF Box(c[1], c[2], c[3], c[4]) = Last(boxes) THEN boxes
                    ELSE Append(boxes, Box(c[1], c[2], c[3], c[4]))
        /\ UNCHANGED <<fill, asked>>

(* dev_line, dev_rect, ...; the buffer is flushed before anything else.    *)
DevDraw ==
    \E call \in Calls :
        /\ Len(page.dcs) < MaxCalls
        /\ page' = WithDcs(page, <<DrawCall(call)>>)
        /\ asked' = Append(asked, [call |-> call, clip |-> Last(boxes)])
        /\ UNCHANGED <<fill, boxes>>

Next == Replay \/ DevClip \/ DevDraw

Spec == Init /\ [][Next]_vars

----------------------------------------------------------------------------
(* The invariant.                                                          *)

Rect == ({"full"} \X Size) \cup ({"rect"} \X Corners4)
ABox == [shape : {"box"}, pts : Seq(Point), rot : {0}]

TypeOK ==
    /\ page \in [id : {0}, size : Size,
                 dcs : Seq([op : {DrawCall(call) : call \in Calls}, clip : Nat]),
                 cps : Seq([id : Nat, rect : Rect])]
    /\ fill \in Color
    /\ asked \in Seq([call : Calls, clip : ABox])
    /\ boxes \in Seq(ABox)
    /\ Len(asked) <= MaxCalls
    /\ Len(page.cps) \in 1..MaxClips

(* The box that the clip with an id stands for.                            *)
BoxOfId(id) == BoxOf(RectOfClip(page.cps[id + 1].rect))

(* What dev_clip makes of a box.                                           *)
ClipOfBox(size, box) == ClipRect([size |-> size], box.pts[1] \o box.pts[2])

(* Clips are numbered from 0 and are the boxes that R clipped to, each     *)
(* held in the one way that dev_clip has for it, so that equal boxes are   *)
(* equal clips.                                                            *)
ClipsRecorded ==
    /\ Len(page.cps) = Len(boxes)
    /\ \A k \in DOMAIN page.cps :
          /\ page.cps[k].id = k - 1
          /\ page.cps[k].rect = ClipOfBox(page.size, boxes[k])
          /\ BoxOfId(k - 1) = boxes[k]

(* There is one draw call for each call of R, made of that call, with the  *)
(* id of a clip that is the box R clipped to when it called.               *)
CallsRecorded ==
    /\ Len(page.dcs) = Len(asked)
    /\ \A n \in DOMAIN asked :
          /\ page.dcs[n].op = DrawCall(asked[n].call)
          /\ page.dcs[n].clip \in 0..Len(page.cps) - 1
          /\ BoxOfId(page.dcs[n].clip) = asked[n].clip

(* A page holds what R drew on it, in order and clipped as R clipped it,   *)
(* from its first clip, which covers it, to the one that is current        *)
(* (Page::put, Page::clip, Page::clear and the callbacks that draw): what  *)
(* every renderer starts from.                                             *)
IInv == TypeOK /\ ClipsRecorded /\ CallsRecorded

----------------------------------------------------------------------------
(* Properties.                                                             *)

(* The marks of a page with these calls.                                   *)
PictureOf(calls, back) ==
    Visible(<<Background(page.size, back)>>
            \o FlattenSeq([n \in DOMAIN calls |->
                              AskedMarks(calls[n].call, calls[n].clip)]))

(* The marks of the page that R asked for.                                 *)
Picture(back) == PictureOf(asked, back)

(* An SVG document shows the picture R asked for: every call once and in   *)
(* order, in its own clip, with the colours, dashes, line ends and joins   *)
(* that the style sheet, the style attributes and the initial values of    *)
(* the format come to together, and the background (RendererSVG).          *)
SvgPaints == SvgMarks(Svg(page, fill), <<>>) = Picture(fill)

(* A portable SVG document shows the picture also next to another document *)
(* that comes first on the same page; its background is opaque             *)
(* (RendererSVGPortable).                                                  *)
PortablePaints ==
    LET other == SvgPortable(NewPage(1, <<2, 2>>), Black, "other uuid")
        doc == SvgPortable(page, fill, "uuid")
    IN  SvgMarks(doc, other.defs) = Picture([fill EXCEPT !.alpha = 255])

(* A call as cairo is able to show it: circles are no smaller than a dot.  *)
AsDot(call) ==
    IF call.kind = "circle" THEN [call EXCEPT !.radius = IF @ > 1 THEN @ ELSE 1] ELSE call

(* The calls made to cairo paint the picture, but for the size of small    *)
(* circles and the fill rule of paths, which is never set: nothing is left *)
(* of a path, a clip, a transformation or a source when the next draw call *)
(* comes (RendererCairo).                                                  *)
CairoPaints ==
    LET picture ==
            PictureOf([n \in DOMAIN asked |-> [asked[n] EXCEPT !.call = AsDot(@)]], fill)
    IN  CairoMarks(Cairo(page, fill))
            = [n \in DOMAIN picture |-> [picture[n] EXCEPT !.rule = "nonzero"]]

(* What TikZ is able to show: no images, no fill rule, no opacity, no text *)
(* turned to the right.                                                    *)
Drawable(marks) == Selected(marks, LAMBDA m : m.do # "image")
Limited(m) == [m EXCEPT !.rule = "nonzero", !.col.alpha = 255,
                        !.text.rot = IF @ > 0 THEN @ ELSE 0]
TikzSees(marks) == [n \in DOMAIN Drawable(marks) |-> Limited(Drawable(marks)[n])]

(* TeX makes the picture of a TikZ document as far as TikZ shows it; an    *)
(* image that is left out takes nothing else with it, and scopes are as    *)
(* they were (RendererTikZ).                                               *)
TikzPaints == TikzSees(TikzMarks(Tikz(page, fill))) = TikzSees(Picture(fill))

(* TikzPaints is about texts in which no control word of the document is   *)
(* followed by a letter, which it would take for its own, or by a space,   *)
(* which TeX would not set.                                                *)
WordEnds(str) ==
    \A n \in 1..(Len(str) - 1) :
        ~(str[n] \in {"~", "^", "backslash"} /\ str[n + 1] \in Taken)
WordsEnd == \A call \in Calls : call.kind = "text" => WordEnds(call.str)

(* What the JSON document has of a call: it leaves out all alpha, the fill *)
(* of rectangles, the fill rule and whether images are smooth.             *)
InJson(call) ==
    CASE call.kind \in {"line", "polyline"} -> [call EXCEPT !.line.col.alpha = 255]
      [] call.kind = "rect" -> [call EXCEPT !.line.col.alpha = 255, !.fill = NoColor]
      [] call.kind \in {"circle", "polygon"} ->
             [call EXCEPT !.line.col.alpha = 255, !.fill.alpha = 255]
      [] call.kind = "path" ->
             [call EXCEPT !.line.col.alpha = 255, !.fill.alpha = 255, !.winding = TRUE]
      [] call.kind = "text" -> [call EXCEPT !.col.alpha = 255]
      [] call.kind = "raster" -> [call EXCEPT !.interpolate = FALSE]

(* From the JSON document a reader learns the boxes that R clipped to and, *)
(* of every call in order, its kind and the marks that it makes in its     *)
(* clip, as far as InJson goes (RendererJSON).                             *)
JsonTells ==
    LET doc == Json(page, fill)
        told == doc.draw_calls IN
    /\ [k \in DOMAIN doc.clips |-> BoxOf(doc.clips[k].rect)] = boxes
    /\ [n \in DOMAIN told |-> told[n].type] = [n \in DOMAIN asked |-> asked[n].call.kind]
    /\ [n \in DOMAIN told |-> JsonMarks(told[n], JsonClip(doc, told[n]))]
         = [n \in DOMAIN asked |-> AskedMarks(InJson(asked[n].call), asked[n].clip)]

(* The formats that list what is on a page: the JSON document tells what   *)
(* JsonTells says, the strings are the texts that R drew, whatever is      *)
(* drawn between them, each a line of its own, and the numbers are those   *)
(* of the calls and of the boxes that R clipped to (RendererStrings,       *)
(* RendererMeta).                                                          *)
ListingsTell ==
    LET texts == Selected(asked, LAMBDA a : a.call.kind = "text")
        meta == Meta(page) IN
    /\ JsonTells
    /\ IF texts = <<>> THEN Strings(page) = <<>>
       ELSE LinesOf(Strings(page)) = [n \in DOMAIN texts |-> texts[n].call.str]
    /\ meta.draw_calls = Len(asked) /\ meta.clips = Len(boxes)
    /\ <<meta.w, meta.h>> = page.size
=============================================================================
