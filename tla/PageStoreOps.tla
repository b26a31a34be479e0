---------------------------- MODULE PageStoreOps ----------------------------
(***************************************************************************)
(* The operations of class page_store (page_store.h, page_store.cpp) and   *)
(* of the pages it holds (Page in draw_data.h, draw_data.cpp), as          *)
(* operators on a store record.  Every method of page_store runs under     *)
(* m_store_mutex from its first line to its last, so each is one operator. *)
(*                                                                         *)
(* Plot indexes are the code's: 0 is the oldest page, -1 the newest.  A    *)
(* size is a pair <<width, height>>, a rectangle any clipping rectangle    *)
(* but the page's own; fill colours are left out.                          *)
(***************************************************************************)
EXTENDS Integers, Sequences, SequencesExt

CONSTANTS MaxId,     \* largest plot_id_t, 2^32 - 1
          MaxUpid    \* largest int, 2^31 - 1

ASSUME CounterAssumption == MaxId \in Nat /\ MaxUpid \in Nat \ {0}

(* Mutant of the next definition: the counter runs past its type.          *)
IncWrap_NoWrap(v, max) == v + 1

(* incwrap: counters wrap to 0 past the largest value of their type.       *)
IncWrap(v, max) == IF v = max THEN 0 ELSE v + 1

----------------------------------------------------------------------------
(* Pages.                                                                  *)

(* The clip rectangle that covers a page of the given size.                *)
Full(size) == <<"full", size>>

(* Page::clip: a new clip unless the last one is the same rectangle.  Its  *)
(* id is the number of clips before it.                                    *)
WithClip(page, rect) ==
    IF page.cps # <<>> /\ Last(page.cps).rect = rect
    THEN page
    ELSE [page EXCEPT !.cps = Append(@, [id |-> Len(@), rect |-> rect])]

(* Mutant of the next definition: the draw calls stay.                     *)
Cleared_KeepDcs(page) == WithClip([page EXCEPT !.cps = <<>>], Full(page.size))

(* Page::clear.                                                            *)
Cleared(page) ==
    WithClip([[page EXCEPT !.dcs = <<>>] EXCEPT !.cps = <<>>], Full(page.size))

(* Page::Page.                                                             *)
NewPage(id, size) ==
    WithClip([id |-> id, size |-> size, dcs |-> <<>>, cps |-> <<>>], Full(size))

(* Mutant of the next definition: the clip is that of the whole page.      *)
WithDcs_FirstClip(page, ops) ==
    [page EXCEPT !.dcs = @ \o [n \in 1..Len(ops) |-> [op |-> ops[n], clip |-> 0]]]

(* Page::put: the draw calls get the clip that is current now.             *)
WithDcs(page, ops) ==
    LET clip == Last(page.cps).id IN
    [page EXCEPT !.dcs = @ \o [n \in 1..Len(ops) |-> [op |-> ops[n], clip |-> clip]]]

----------------------------------------------------------------------------
(* The store.                                                              *)

EmptyStore == [pages |-> <<>>, idCounter |-> 0, upid |-> 0, active |-> TRUE]

(* Mutant of the next definition: the oldest page has no negative index.   *)
ValidIndex_Strict(s, i) ==
    LET psize == Len(s.pages) IN psize > 0 /\ i > -psize /\ i < psize

(* m_valid_index *)
ValidIndex(s, i) == LET psize == Len(s.pages) IN psize > 0 /\ i >= -psize /\ i < psize

(* m_index_to_pos, as a position in the sequence of pages.                 *)
Pos(s, i) == (IF i < 0 THEN Len(s.pages) + i ELSE i) + 1

(* m_inc_upid, for every operation that is not silent.                     *)
Touch(s, silent) == IF silent THEN s ELSE [s EXCEPT !.upid = IncWrap(@, MaxUpid)]

(* Mutant of the next definition: the id is the index of the page.         *)
AppendPage_IndexAsId(s, size) ==
    [s EXCEPT !.pages = Append(@, NewPage(Len(@), size)),
              !.idCounter = IncWrap(@, MaxId)]

(* append; the index of the new page is that of the last one.              *)
AppendPage(s, size) ==
    [s EXCEPT !.pages = Append(@, NewPage(s.idCounter, size)),
              !.idCounter = IncWrap(@, MaxId)]

(* add_dc, of one draw call or of a vector.                                *)
AddDcs(s, i, ops, silent) ==
    IF ValidIndex(s, i)
    THEN Touch([s EXCEPT !.pages[Pos(s, i)] = WithDcs(@, ops)], silent)
    ELSE s

ClearPage(s, i, silent) ==
    IF ValidIndex(s, i)
    THEN Touch([s EXCEPT !.pages[Pos(s, i)] = Cleared(@)], silent)
    ELSE s

(* Mutant of the next definition: a removal is never told.                 *)
RemovePage_Silent(s, i, silent) ==
    IF ValidIndex(s, i) THEN [s EXCEPT !.pages = RemoveAt(@, Pos(s, i))] ELSE s

(* remove; it returns ValidIndex(s, i).                                    *)
RemovePage(s, i, silent) ==
    IF ValidIndex(s, i)
    THEN Touch([s EXCEPT !.pages = RemoveAt(@, Pos(s, i))], silent)
    ELSE s

(* remove_all; it returns whether there was a page.                        *)
RemoveAll(s) ==
    IF s.pages = <<>> THEN s ELSE Touch([s EXCEPT !.pages = <<>>], FALSE)

(* Mutant of the next definition: the page is cleared, then resized.       *)
Resize_ClearFirst(s, i, size) ==
    IF ValidIndex(s, i)
    THEN [s EXCEPT !.pages[Pos(s, i)] = [Cleared(@) EXCEPT !.size = size]]
    ELSE s

(* resize sets the size and clears the page; upid stays.                   *)
Resize(s, i, size) ==
    IF ValidIndex(s, i)
    THEN [s EXCEPT !.pages[Pos(s, i)] = Cleared([@ EXCEPT !.size = size])]
    ELSE s

ClipPage(s, i, rect) ==
    IF ValidIndex(s, i) THEN [s EXCEPT !.pages[Pos(s, i)] = WithClip(@, rect)] ELSE s

SetActive(s, active) == [s EXCEPT !.active = active]

----------------------------------------------------------------------------
(* What readers get.                                                       *)

Ids(s) == [n \in 1..Len(s.pages) |-> s.pages[n].id]

(* size: a page that does not exist measures 10 by 10.                     *)
SizeOf(s, i, default) == IF ValidIndex(s, i) THEN s.pages[Pos(s, i)].size ELSE default

(* Mutant of the next definition: pages are counted from 1.                *)
FindIndex_FromOne(s, id) == SelectInSeq(s.pages, LAMBDA p : p.id = id)

(* find_index(id).value_or(-1): the first page with the id.                *)
FindIndex(s, id) == SelectInSeq(s.pages, LAMBDA p : p.id = id) - 1

(* state *)
State(s) == [upid |-> s.upid, hsize |-> Len(s.pages), active |-> s.active]

(* query: the ids of at most limit pages from the offset on, of all of     *)
(* them when limit is 0, with the state.                                   *)
Query(s, offset, limit) ==
    IF ~ValidIndex(s, offset)
    THEN [state |-> State(s), ids |-> <<>>]
    ELSE LET index == Pos(s, offset) - 1
             count == IF limit = 0 THEN Len(s.pages) ELSE limit
             end == IF index + count < Len(s.pages) THEN index + count ELSE Len(s.pages)
         IN  [state |-> State(s), ids |-> SubSeq(Ids(s), index + 1, end)]

(* Mutant of the next definition: any page will do.                        *)
HasSize_Any(s, i, size) == ValidIndex(s, i)

(* render_if_size succeeds: the page exists and has the width and height   *)
(* asked for; one below 0.1 is taken to be the page's own.                 *)
HasSize(s, i, size) ==
    /\ ValidIndex(s, i)
    /\ \A c \in {1, 2} : size[c] <= 0 \/ s.pages[Pos(s, i)].size[c] = size[c]
=============================================================================
