---------------------------- MODULE RendererTikZ ---------------------------
(***************************************************************************)
(* RendererTikZ (renderer_tikz.cpp).  A document is a sequence of tokens:  *)
(* scopes, clips, drawing commands with their options, comments and line   *)
(* ends.  TikzMarks is what TeX makes of it.                               *)
(***************************************************************************)
EXTENDS Drawing

Token(t) == [t |-> t, area |-> <<>>, options |-> <<>>, text |-> NoText]

(* write_tex_escaped: a backslash, or a control word.                      *)
TexEscaped(str) ==
    [n \in DOMAIN str |->
        <<IF str[n] \in {"&", "%", "$", "#", "_", "{", "}"} THEN "symbol"
          ELSE IF str[n] \in {"~", "^", "backslash"} THEN "word"
          ELSE "char", str[n]>>]

(* tex_fill_or_omit *)
TexFillOrOmit(col) ==
    IF Transparent(col) THEN <<>>
    ELSE [fill |-> col.rgb] ++ (IF Opaque(col) THEN <<>> ELSE [fillOpacity |-> col.alpha])

(* tex_lineinfo: TikZ draws black, with butt ends, mitre joins and a limit *)
(* of 10 unless told otherwise.  The alpha of a line goes to the fill.     *)
TexLineInfo(line) ==
    (IF line.col = Black THEN <<>>
     ELSE IF Transparent(line.col) THEN [draw |-> "none"]
     ELSE [draw |-> line.col.rgb]
          ++ (IF Opaque(line.col) THEN <<>> ELSE [fillOpacity |-> line.col.alpha]))
    ++ (IF line.lty \in {BLANK, SOLID} THEN <<>>
        ELSE LET n == Max({m \in 1..8 : \A k \in 2..m : Digit(line.lty, k) # 0})
             IN  [dash |-> [k \in 1..n |-> Digit(line.lty, k)]])
    ++ (IF line.lend \in {"round", "square"} THEN [cap |-> line.lend] ELSE <<>>)
    ++ (IF line.ljoin = "mitre" THEN <<>> ELSE [join |-> line.ljoin])
    ++ (IF line.ljoin = "mitre" /\ line.lmitre # 10 THEN [limit |-> line.lmitre] ELSE <<>>)

(* A rectangle is written as two corners.                                  *)
Corners(r) == Box(r[1], r[2], r[1] + r[3], r[2] + r[4])

TexArea(dc) ==
    CASE dc.kind \in {"line", "polyline"} -> <<Subpath("open", dc.points)>>
      [] dc.kind = "polygon" -> <<Subpath("closed", dc.points)>>
      [] dc.kind = "path" -> Traced(<<>>, PathCommands(dc.points, dc.nper))
      [] dc.kind = "circle" -> <<Subpath("circle", <<dc.pos, <<dc.radius>>>>)>>
      [] dc.kind = "rect" -> <<Corners(dc.rect)>>

(* RendererTikZ::visit: text is turned to the left only; in the place of a *)
(* raster image there is a comment.  Of options given twice the last wins. *)
TikzVisit(dc) ==
    CASE dc.kind = "raster" -> Token("comment")
      [] dc.kind = "text" ->
             [Token("node") EXCEPT
                 !.options = [text |-> dc.col.rgb]
                             ++ (IF Opaque(dc.col) THEN <<>>
                                 ELSE [textOpacity |-> dc.col.alpha]),
                 !.text = [str |-> TexEscaped(dc.str), at |-> dc.at, hadj |-> dc.hadj,
                           rot |-> IF dc.rot > 0 THEN dc.rot ELSE 0]]
      [] dc.kind \in {"line", "polyline"} ->
             [Token("draw") EXCEPT !.area = TexArea(dc), !.options = TexLineInfo(dc.line)]
      [] OTHER ->
             [Token("draw") EXCEPT
                 !.area = TexArea(dc),
                 !.options = TexLineInfo(dc.line) ++ TexFillOrOmit(dc.fill)]

ClipTo(page, id) ==
    LET clip == page.cps[SelectInSeq(page.cps, LAMBDA c : c.id = id)]
    IN  <<Token("begin"), [Token("clip") EXCEPT !.area = <<Corners(RectOfClip(clip.rect))>>],
          Token("newline")>>

(* Mutant of the next definition: the line ends after a change of scope.   *)
Commands_NewlineLate(page) ==
    LET step(acc, dc) ==
            [last |-> dc.clip,
             tokens |-> acc.tokens
                \o (IF dc.clip = acc.last THEN <<Token("newline")>>
                    ELSE <<Token("end")>> \o ClipTo(page, dc.clip))
                \o <<TikzVisit(dc.op)>>]
        first == Head(page.cps).id
    IN  FoldLeft(step, [last |-> first, tokens |-> ClipTo(page, first)], page.dcs).tokens

(* One turn of the loop of page: a line ends before every call but the     *)
(* first, and the scope is closed and another one opened when the clip     *)
(* changes.                                                                *)
CommandsStep(acc, e) ==
    [last |-> e.clip,
     tokens |-> acc.tokens
        \o (IF acc.first THEN <<>> ELSE <<Token("newline")>>)
        \o (IF e.clip = acc.last THEN <<>> ELSE <<Token("end")>> \o e.clipTo)
        \o <<e.visit>>,
     first |-> FALSE]

Commands(page) ==
    LET first == Head(page.cps).id
    IN  FoldLeft(CommandsStep,
                 [last |-> first, tokens |-> ClipTo(page, first), first |-> TRUE],
                 [n \in DOMAIN page.dcs |->
                     [clip |-> page.dcs[n].clip, clipTo |-> ClipTo(page, page.dcs[n].clip),
                      visit |-> TikzVisit(page.dcs[n].op)]]).tokens

(* RendererTikZ::page *)
Tikz(page, fill) ==
    (IF Transparent(fill) THEN <<>>
     ELSE <<[Token("draw") EXCEPT
                !.area = <<Corners(<<0, 0>> \o page.size)>>,
                !.options = [draw |-> "none"] ++ TexFillOrOmit(fill)],
            Token("newline")>>)
    \o Commands(page)
    \o <<Token("newline"), Token("end")>>

----------------------------------------------------------------------------
(* What TeX makes of a document.                                           *)

TikzDefaults == [fill |-> "none", fillOpacity |-> 255, draw |-> "black", dash |-> <<>>,
                 cap |-> "butt", join |-> "mitre", limit |-> 10, textOpacity |-> 255]

Letters == {"a", "b", "c", "d", "e", "f", "g", "h", "i", "j", "k", "l", "m",
            "n", "o", "p", "q", "r", "s", "t", "u", "v", "w", "x", "y", "z",
            "A", "B", "C", "D", "E", "F", "G", "H", "I", "J", "K", "L", "M",
            "N", "O", "P", "Q", "R", "S", "T", "U", "V", "W", "X", "Y", "Z"}

(* A control word takes the letters that follow it for its own, and TeX    *)
(* skips the spaces after it.                                              *)
Taken == Letters \cup {" "}

TexText(tokens) ==
    IF \E n \in 1..Len(tokens) - 1 :
          tokens[n][1] = "word" /\ tokens[n + 1][1] = "char" /\ tokens[n + 1][2] \in Taken
    THEN <<"malformed">>
    ELSE [n \in DOMAIN tokens |-> tokens[n][2]]

TokenMarks(token, clips) ==
    LET o == token.options ++ TikzDefaults IN
    IF token.t = "node"
    THEN <<TextMark([token.text EXCEPT !.str = TexText(@)],
                    ColorOf(o.text, o.textOpacity), clips)>>
    ELSE Paint(token.area, ColorOf(o.fill, o.fillOpacity), "nonzero",
               ColorOf(o.draw, 255), Pen(o.dash, o.cap, o.join, o.limit), clips)

(* A comment lasts to the end of its line; scopes keep clips to themselves.*)
TokenStep(s, token) ==
    CASE token.t = "newline" -> [s EXCEPT !.comment = FALSE]
      [] token.t # "newline" /\ s.comment -> s
      [] token.t = "comment" /\ ~s.comment -> [s EXCEPT !.comment = TRUE]
      [] token.t = "begin" /\ ~s.comment -> [s EXCEPT !.scopes = Append(@, s.clips)]
      [] token.t = "end" /\ ~s.comment ->
             [s EXCEPT !.clips = Last(s.scopes), !.scopes = Front(@)]
      [] token.t = "clip" /\ ~s.comment -> [s EXCEPT !.clips = @ \cup {token.area[1]}]
      [] token.t \in {"draw", "node"} /\ ~s.comment ->
             [s EXCEPT !.marks = @ \o TokenMarks(token, s.clips)]

Opened == [comment |-> FALSE, scopes |-> <<>>, clips |-> {}, marks |-> <<>>]

TikzMarks(tokens) == Visible(FoldLeft(TokenStep, Opened, tokens).marks)
=============================================================================
