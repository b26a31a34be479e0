---------------------------- MODULE RendererData ---------------------------
(***************************************************************************)
(* The renderers of the group "data": RendererStrings, the texts of a      *)
(* page, each on a line of its own (renderer_strings.cpp), and             *)
(* RendererMeta, what there is of a page in numbers (renderer_meta.cpp).   *)
(***************************************************************************)
EXTENDS Drawing

(* Mutant of the next definition: the separator comes after every text.    *)
StringsVisit_After(written, dc) ==
    IF dc.op.kind # "text" THEN written
    ELSE [count |-> written.count + 1, os |-> written.os \o dc.op.str \o <<"newline">>]

(* RendererStrings::visit: a separator before every text but the first.    *)
StringsVisit(written, dc) ==
    IF dc.op.kind # "text" THEN written
    ELSE [count |-> written.count + 1,
          os |-> written.os \o (IF written.count > 0 THEN <<"newline">> ELSE <<>>) \o dc.op.str]

(* RendererStrings::page                                                   *)
Strings(page) == FoldLeft(StringsVisit, [count |-> 0, os |-> <<>>], page.dcs).os

(* RendererMeta::page                                                      *)
Meta(page) ==
    [id |-> page.id, w |-> page.size[1], h |-> page.size[2], clips |-> Len(page.cps),
     draw_calls |-> Len(page.dcs)]

----------------------------------------------------------------------------
(* The lines that a reader of the strings finds.                           *)
AddChar(lines, c) ==
    IF c = "newline" THEN Append(lines, <<>>)
    ELSE [lines EXCEPT ![Len(lines)] = Append(@, c)]

LinesOf(doc) == FoldLeft(AddChar, <<<<>>>>, doc)
=============================================================================
