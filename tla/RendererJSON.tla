---------------------------- MODULE RendererJSON ---------------------------
(***************************************************************************)
(* RendererJSON (renderer_json.cpp): the clips and the draw calls of a     *)
(* page, the calls with the id of their clip, as JSON objects.  Strings    *)
(* are written as they are.                                                *)
(***************************************************************************)
EXTENDS Drawing, Encoders

(* json_lineinfo; hexcol leaves alpha out.                                 *)
JsonLineInfo(line) ==
    [col |-> line.col.rgb, lty |-> line.lty, lend |-> line.lend, ljoin |-> line.ljoin,
     lmitre |-> line.lmitre]

(* RendererJSON::visit: a rectangle comes without its fill.                *)
JsonVisit(dc, id) ==
    [type |-> dc.kind, clip_id |-> id] ++
    CASE dc.kind = "rect" -> [rect |-> dc.rect, line |-> JsonLineInfo(dc.line)]
      [] dc.kind = "text" ->
             [at |-> dc.at, rot |-> dc.rot, hadj |-> dc.hadj, col |-> dc.col.rgb,
              str |-> dc.str]
      [] dc.kind = "circle" ->
             [pos |-> dc.pos, radius |-> dc.radius, fill |-> dc.fill.rgb,
              line |-> JsonLineInfo(dc.line)]
      [] dc.kind \in {"line", "polyline"} ->
             [points |-> dc.points, line |-> JsonLineInfo(dc.line)]
      [] dc.kind = "polygon" ->
             [points |-> dc.points, fill |-> dc.fill.rgb, line |-> JsonLineInfo(dc.line)]
      [] dc.kind = "path" ->
             [points |-> dc.points, nper |-> dc.nper, fill |-> dc.fill.rgb,
              line |-> JsonLineInfo(dc.line)]
      [] dc.kind = "raster" ->
             [rect |-> dc.rect, w |-> dc.w, h |-> dc.h, data |-> RasterBase64(dc)]

(* Mutant of the next definition: all calls have the first clip.           *)
JsonDrawCall_FirstClip(dc) == JsonVisit(dc.op, 0)

JsonDrawCall(dc) == JsonVisit(dc.op, dc.clip)

(* RendererJSON::page *)
Json(page, fill) ==
    [id |-> page.id, size |-> page.size, fill |-> fill.rgb,
     clips |-> [n \in DOMAIN page.cps |->
                    [id |-> page.cps[n].id, rect |-> RectOfClip(page.cps[n].rect)]],
     draw_calls |-> [n \in DOMAIN page.dcs |-> JsonDrawCall(page.dcs[n])]]

----------------------------------------------------------------------------
(* What a reader of the document learns of a call.                         *)

JsonArea(call) ==
    CASE call.type \in {"line", "polyline"} -> <<Subpath("open", call.points)>>
      [] call.type = "polygon" -> <<Subpath("closed", call.points)>>
      [] call.type = "path" -> Traced(<<>>, PathCommands(call.points, call.nper))
      [] call.type = "circle" -> <<Subpath("circle", <<call.pos, <<call.radius>>>>)>>
      [] call.type \in {"rect", "raster"} -> <<BoxOf(call.rect)>>

(* All there is to be seen of a call, in its clip.                         *)
JsonMarks(call, clip) ==
    CASE call.type = "text" ->
             <<TextMark([str |-> call.str, at |-> call.at, hadj |-> call.hadj,
                         rot |-> call.rot], ColorOf(call.col, 255), {clip})>>
      [] call.type = "raster" ->
             LET png == Base64Decode(call.data)
             IN  <<ImageMark(JsonArea(call), Look(png[1], png[2], SubSeq(png, 3, Len(png))),
                             FALSE, {clip, BoxOf(call.rect)})>>
      [] OTHER ->
             Paint(JsonArea(call),
                   IF "fill" \in DOMAIN call THEN ColorOf(call.fill, 255) ELSE NoColor,
                   "nonzero", ColorOf(call.line.col, 255), AskedPen(call.line), {clip})

JsonClip(doc, call) ==
    BoxOf(doc.clips[SelectInSeq(doc.clips, LAMBDA c : c.id = call.clip_id)].rect)
=============================================================================
