---------------------------- MODULE RendererSVG ----------------------------
(***************************************************************************)
(* The SVG renderers of renderer_svg.cpp: RendererSVG, which styles        *)
(* elements with CSS on top of a style sheet, and RendererSVGPortable,     *)
(* which uses attributes and ids no other document has.  A document is the *)
(* clip paths it defines and groups of elements, each with the id of its   *)
(* clip path; an element is its geometry and the properties it sets.       *)
(* SvgMarks is what a viewer of SVG paints.                                *)
(***************************************************************************)
EXTENDS Drawing, Encoders

Unset == <<>>

(* write_xml_escaped: markup characters become entities.                   *)
XmlEscaped(str) ==
    [n \in DOMAIN str |->
        <<IF str[n] \in {"&", "<", ">", "quot", "apos"} THEN "entity" ELSE "char", str[n]>>]

----------------------------------------------------------------------------
(* Properties.                                                             *)

FillColor(col) ==
    [fill |-> col.rgb] ++ (IF Opaque(col) THEN Unset ELSE [fillOpacity |-> col.alpha])

(* css_fill_or_none, att_fill_or_none *)
FillOrNone(col) == IF Transparent(col) THEN [fill |-> "none"] ELSE FillColor(col)

(* css_fill_or_omit *)
FillOrOmit(col) == IF Transparent(col) THEN Unset ELSE FillColor(col)

StrokeColor(col) ==
    [stroke |-> col.rgb] ++ (IF Opaque(col) THEN Unset ELSE [strokeOpacity |-> col.alpha])

(* The first digit, then up to seven more as long as they are not 0.       *)
DashArray(lty) ==
    IF lty \in {BLANK, SOLID} THEN Unset
    ELSE LET n == Max({m \in 1..8 : \A k \in 2..m : Digit(lty, k) # 0})
         IN  [dash |-> [k \in 1..n |-> Digit(lty, k)]]

(* att_lineinfo: what is SVG's default is left out.                        *)
AttLineInfo(line) ==
    (IF Transparent(line.col) THEN Unset ELSE StrokeColor(line.col))
    ++ DashArray(line.lty)
    ++ (IF line.lend = "butt" THEN Unset ELSE [cap |-> line.lend])
    ++ (IF line.ljoin = "mitre" THEN Unset ELSE [join |-> line.ljoin])
    ++ (IF line.ljoin = "mitre" /\ line.lmitre # 4 THEN [limit |-> line.lmitre] ELSE Unset)

(* Mutant of the next definition: leaves out SVG's defaults.               *)
CssLineInfo_SvgDefaults(line) == AttLineInfo(line)

(* css_lineinfo: what the style sheet has already is left out.             *)
CssLineInfo(line) ==
    (IF line.col = Black THEN Unset
     ELSE IF Transparent(line.col) THEN [stroke |-> "none"]
     ELSE StrokeColor(line.col))
    ++ DashArray(line.lty)
    ++ (IF line.lend = "round" THEN Unset ELSE [cap |-> line.lend])
    ++ (IF line.ljoin = "round" THEN Unset ELSE [join |-> line.ljoin])
    ++ (IF line.ljoin = "mitre" /\ line.lmitre # 10 THEN [limit |-> line.lmitre] ELSE Unset)

----------------------------------------------------------------------------
(* Elements.                                                               *)

Element == [tag |-> "", area |-> <<>>, text |-> NoText, href |-> <<>>, smooth |-> FALSE,
            style |-> Unset, atts |-> Unset]

Anchor(hadj) == IF hadj = 50 THEN "middle" ELSE IF hadj = 100 THEN "end" ELSE "start"

(* The geometry that the visit methods of both renderers write.            *)
Geometry(dc) ==
    LET el == [Element EXCEPT !.tag = dc.kind] IN
    CASE dc.kind \in {"line", "polyline"} ->
             [el EXCEPT !.area = <<Subpath("open", dc.points)>>]
      [] dc.kind = "polygon" -> [el EXCEPT !.area = <<Subpath("closed", dc.points)>>]
      [] dc.kind = "path" ->
             [el EXCEPT !.area = Traced(<<>>, PathCommands(dc.points, dc.nper))]
      [] dc.kind = "circle" ->
             [el EXCEPT !.area = <<Subpath("circle", <<dc.pos, <<dc.radius>>>>)>>]
      [] dc.kind = "rect" -> [el EXCEPT !.area = <<BoxOf(dc.rect)>>]
      [] dc.kind = "text" ->
             [el EXCEPT !.text = [str |-> XmlEscaped(dc.str), at |-> dc.at,
                                  anchor |-> Anchor(dc.hadj), turn |-> -dc.rot]]
      [] dc.kind = "raster" ->
             [el EXCEPT !.area = <<BoxOf(dc.rect)>>, !.href = RasterBase64(dc),
                        !.smooth = dc.interpolate]

FillRule(dc) == [fillRule |-> IF dc.winding THEN "nonzero" ELSE "evenodd"]

(* RendererSVG::visit *)
SvgVisit(dc) ==
    [Geometry(dc) EXCEPT !.style =
        CASE dc.kind = "text" -> IF dc.col = Black THEN Unset ELSE FillOrNone(dc.col)
          [] dc.kind = "raster" -> Unset
          [] dc.kind \in {"line", "polyline"} -> CssLineInfo(dc.line)
          [] dc.kind = "path" ->
                 CssLineInfo(dc.line) ++ FillOrOmit(dc.fill) ++ FillRule(dc)
          [] OTHER -> CssLineInfo(dc.line) ++ FillOrOmit(dc.fill)]

(* RendererSVGPortable::visit *)
PortableVisit(dc) ==
    [Geometry(dc) EXCEPT !.atts =
        CASE dc.kind = "text" -> IF dc.col = Black THEN Unset ELSE FillOrNone(dc.col)
          [] dc.kind = "raster" -> Unset
          [] dc.kind = "line" -> AttLineInfo(dc.line)
          [] dc.kind = "polyline" -> [fill |-> "none"] ++ AttLineInfo(dc.line)
          [] dc.kind = "path" ->
                 AttLineInfo(dc.line) ++ FillOrNone(dc.fill) ++ FillRule(dc)
          [] OTHER -> AttLineInfo(dc.line) ++ FillOrNone(dc.fill)]

----------------------------------------------------------------------------
(* Documents.                                                              *)

ClipIds(page) == {page.cps[n].id : n \in DOMAIN page.cps}

(* A group that is open, with the id of its clip path.                     *)
Group(id) == [clip |-> id, elements |-> <<>>]

(* One turn of the loop of page, given the element that a draw call has    *)
(* become, its clip and the name of the clip path in the document: a group *)
(* is closed and the next one opened when the clip changes.                *)
GroupsStep(acc, e) ==
    LET opened == IF e.clip = acc.last THEN acc.groups
                  ELSE Append(acc.groups, Group(e.name))
    IN  [last |-> e.clip,
         groups |-> [opened EXCEPT ![Len(opened)].elements = Append(@, e.element)]]

Groups(page, elements, names) ==
    LET first == Head(page.cps).id
        entry(n) == [clip |-> page.dcs[n].clip, name |-> names[page.dcs[n].clip],
                     element |-> elements[n]]
    IN  FoldLeft(GroupsStep, [last |-> first, groups |-> <<Group(names[first])>>],
                 [n \in DOMAIN page.dcs |-> entry(n)]).groups

(* The rectangle of 100% by 100% in front of everything.                   *)
Backdrop(page) ==
    [Element EXCEPT !.tag = "rect", !.area = <<BoxOf(<<0, 0>> \o page.size)>>]

ClipPaths(page, names) ==
    [n \in DOMAIN page.cps |->
        [id |-> names[page.cps[n].id], rect |-> RectOfClip(page.cps[n].rect)]]

(* RendererSVG::page *)
Svg(page, fill) ==
    LET names == [id \in ClipIds(page) |-> <<id>>] IN
    [sheet |-> TRUE,
     defs |-> ClipPaths(page, names),
     backdrop |-> [Backdrop(page) EXCEPT !.style = [stroke |-> "none"] ++ FillOrNone(fill)],
     groups |-> Groups(page, [n \in DOMAIN page.dcs |-> SvgVisit(page.dcs[n].op)], names)]

(* Mutant of the next definition: ids are those of RendererSVG.            *)
UniqueId_Plain(id, uuid) == <<id>>

(* The id of a clip path of RendererSVGPortable.                           *)
UniqueId(id, uuid) == <<id, uuid>>

(* RendererSVGPortable::page; the alpha of the background is left out.     *)
SvgPortable(page, fill, uuid) ==
    LET names == [id \in ClipIds(page) |-> UniqueId(id, uuid)] IN
    [sheet |-> FALSE,
     defs |-> ClipPaths(page, names),
     backdrop |-> [Backdrop(page) EXCEPT !.atts = [stroke |-> "none", fill |-> fill.rgb]],
     groups |-> Groups(page, [n \in DOMAIN page.dcs |-> PortableVisit(page.dcs[n].op)], names)]

----------------------------------------------------------------------------
(* What a viewer paints.                                                   *)

(* The style sheet of RendererSVG and the shapes it is for.                *)
Sheet == [fill |-> "none", stroke |-> "black", cap |-> "round", join |-> "round",
          limit |-> 10]
Shapes == {"line", "polyline", "polygon", "path", "rect", "circle"}

(* The initial values of the properties in SVG.                            *)
Initial == [fill |-> "black", fillOpacity |-> 255, fillRule |-> "nonzero",
            stroke |-> "none", strokeOpacity |-> 255, dash |-> <<>>,
            cap |-> "butt", join |-> "mitre", limit |-> 4]

(* The style attribute wins over the sheet, the sheet over attributes.     *)
Computed(doc, el) ==
    el.style ++ (IF doc.sheet /\ el.tag \in Shapes THEN Sheet ELSE Unset)
             ++ el.atts ++ Initial

(* The text that a reader of XML finds.                                    *)
XmlText(tokens) ==
    IF \E n \in DOMAIN tokens : tokens[n] \in {<<"char", "&">>, <<"char", "<">>}
    THEN <<"malformed">>
    ELSE [n \in DOMAIN tokens |-> tokens[n][2]]

ElementMarks(doc, el, clips) ==
    LET p == Computed(doc, el)
        fill == IF el.tag = "line" THEN NoColor   \* a line has no inside
                ELSE ColorOf(p.fill, p.fillOpacity)
        stroke == ColorOf(p.stroke, p.strokeOpacity)
    IN  CASE el.tag = "text" ->
                 LET hadj == [start |-> 0, middle |-> 50, end |-> 100]
                 IN  <<TextMark([str |-> XmlText(el.text.str), at |-> el.text.at,
                                 hadj |-> hadj[el.text.anchor], rot |-> -el.text.turn],
                                fill, clips)>>
          [] el.tag = "raster" ->
                 LET png == Base64Decode(el.href)
                 IN  <<ImageMark(el.area, Look(png[1], png[2], SubSeq(png, 3, Len(png))),
                                 el.smooth, clips \cup {el.area[1]})>>
          [] OTHER ->
                 Paint(el.area, fill, p.fillRule, stroke,
                       Pen(p.dash, p.cap, p.join, p.limit), clips)

(* An id stands for the first clip path that has it.                       *)
ClipBox(defs, id) == BoxOf(defs[SelectInSeq(defs, LAMBDA d : d.id = id)].rect)

GroupMarks(doc, defs, g) ==
    FlattenSeq([n \in DOMAIN g.elements |->
                    ElementMarks(doc, g.elements[n], {ClipBox(defs, g.clip)})])

(* A document on a page where the clip paths `around` come before its own. *)
SvgMarks(doc, around) ==
    LET defs == around \o doc.defs
    IN  Visible(ElementMarks(doc, doc.backdrop, {})
                \o FlattenSeq([n \in DOMAIN doc.groups |->
                                   GroupMarks(doc, defs, doc.groups[n])]))
=============================================================================
