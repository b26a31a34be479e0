----------------------------- MODULE PageStore -----------------------------
(***************************************************************************)
(* class page_store as a shared object: any thread, any order of calls,    *)
(* any index.  A call is one step because the method holds m_store_mutex.  *)
(* Remove and clear are called with the silent flags their callers pass    *)
(* (unigd_dev.cpp:425 and :616).  A graphics client polls the store and    *)
(* compares upid and hsize with what it saw last.                          *)
(***************************************************************************)
EXTENDS PageStoreOps

CONSTANTS Size,        \* page sizes
          Rect,        \* clipping rectangles
          Op,          \* draw calls
          MaxAppends,  \* bound: pages created in a behaviour
          MaxDcs,      \* bound: draw calls on a page
          MaxClips     \* bound: clips on a page

ASSUME PageStoreAssumption ==
    /\ MaxAppends \in Nat
    /\ MaxAppends <= MaxId + 1    \* plot ids do not wrap
    /\ MaxDcs \in Nat
    /\ MaxClips \in Nat

VARIABLES store,      \* the fields of page_store
          appended,   \* history: number of pages created
          seen,       \* history: what the client's last poll returned
          changes     \* history: changes of upid since that poll

vars == <<store, appended, seen, changes>>

Index == -(MaxAppends + 1)..MaxAppends
DrawCall == [op : Op, clip : Nat]
Clip == [id : Nat, rect : Rect \cup {Full(z) : z \in Size}]
Page == [id : Nat, size : Size, dcs : Seq(DrawCall), cps : Seq(Clip)]

TypeOK ==
    /\ store \in [pages : Seq(Page), idCounter : 0..MaxId, upid : 0..MaxUpid,
                  active : BOOLEAN]
    /\ appended \in 0..MaxAppends
    /\ seen \in [upid : 0..MaxUpid, ids : Seq(Nat)]
    /\ changes \in 0..MaxUpid

Init ==
    /\ store = EmptyStore
    /\ appended = 0
    /\ seen = [upid |-> 0, ids |-> <<>>]
    /\ changes = 0

(* A method that leaves the store as s.  The client polls before upid has  *)
(* gone through all its values.                                            *)
Becomes(s) ==
    /\ store' = s
    /\ changes' = IF s.upid = store.upid THEN changes ELSE changes + 1
    /\ changes' <= MaxUpid
    /\ UNCHANGED seen

DoAppend(z) ==
    /\ appended < MaxAppends
    /\ appended' = appended + 1
    /\ Becomes(AppendPage(store, z))

DoAddDc(i, op, silent) ==
    /\ ValidIndex(store, i) => Len(store.pages[Pos(store, i)].dcs) < MaxDcs
    /\ Becomes(AddDcs(store, i, <<op>>, silent))
    /\ UNCHANGED appended

DoClear(i) ==
    /\ Becomes(ClearPage(store, i, TRUE))
    /\ UNCHANGED appended

DoRemove(i) ==
    /\ Becomes(RemovePage(store, i, FALSE))
    /\ UNCHANGED appended

DoRemoveAll ==
    /\ Becomes(RemoveAll(store))
    /\ UNCHANGED appended

DoResize(i, z) ==
    /\ Becomes(Resize(store, i, z))
    /\ UNCHANGED appended

DoClip(i, rect) ==
    /\ ValidIndex(store, i) => Len(store.pages[Pos(store, i)].cps) < MaxClips
    /\ Becomes(ClipPage(store, i, rect))
    /\ UNCHANGED appended

DoSetActive(b) ==
    /\ Becomes(SetActive(store, b))
    /\ UNCHANGED appended

(* device_plots_find(0, 0): the state and the ids of all plots.            *)
Poll ==
    /\ LET res == Query(store, 0, 0) IN
         seen' = [upid |-> res.state.upid, ids |-> res.ids]
    /\ changes' = 0
    /\ UNCHANGED <<store, appended>>

Next ==
    \/ \E z \in Size : DoAppend(z)
    \/ \E i \in Index, op \in Op, silent \in BOOLEAN : DoAddDc(i, op, silent)
    \/ \E i \in Index : DoClear(i) \/ DoRemove(i)
    \/ DoRemoveAll
    \/ \E i \in Index, z \in Size : DoResize(i, z)
    \/ \E i \in Index, rect \in Rect : DoClip(i, rect)
    \/ \E b \in BOOLEAN : DoSetActive(b)
    \/ Poll

Spec == Init /\ [][Next]_vars

----------------------------------------------------------------------------
(* Properties *)

Pages == store.pages

(* Plot ids grow from old to new and were all handed out before: no plot   *)
(* id names two pages, and removals never let an id come back.             *)
IdsAscending ==
    /\ \A i \in 1..Len(Pages) : Pages[i].id < appended
    /\ \A i, j \in 1..Len(Pages) : i < j => Pages[i].id < Pages[j].id

(* Every page has a clip, the first one is the whole page as it is sized   *)
(* now, and every draw call refers to a clip of its own page: renderers    *)
(* look clips up by id and take the first one without checking.            *)
PageOK(p) ==
    /\ p.cps # <<>>
    /\ p.cps[1].rect = Full(p.size)
    /\ \A n \in 1..Len(p.cps) : p.cps[n].id = n - 1
    /\ \A n \in 1..Len(p.dcs) : p.dcs[n].clip \in 0..(Len(p.cps) - 1)

ClipsResolve == \A i \in 1..Len(Pages) : PageOK(Pages[i])

(* A client that sees the upid and the number of plots unchanged has the   *)
(* plots unchanged: upid alone does not tell, because append leaves it.    *)
PollSound ==
    seen.upid = store.upid /\ Len(seen.ids) = Len(Pages) => seen.ids = Ids(store)

(* The inductive invariant behind the three: how the counters of the store *)
(* relate to the number of pages created and to the client's last poll.    *)
IdCounterOK == appended <= MaxId => store.idCounter = appended
UpidOK ==
    store.upid = IF seen.upid + changes <= MaxUpid THEN seen.upid + changes
                 ELSE seen.upid + changes - (MaxUpid + 1)
OnlyAppended ==
    changes = 0 =>
        /\ Len(seen.ids) <= Len(Pages)
        /\ \A n \in 1..Len(seen.ids) : Pages[n].id = seen.ids[n]

IInv ==
    /\ TypeOK
    /\ IdsAscending
    /\ ClipsResolve
    /\ IdCounterOK
    /\ UpidOK
    /\ OnlyAppended

(* Paging through the plots with any page length visits each of them once, *)
(* a negative offset counts from the newest plot, and the index found for  *)
(* a plot id is where a query has that plot; one that is gone is not found. *)
QueryPages ==
    /\ \A n \in 1..Len(Pages) :
        /\ Query(store, 0, n).ids \o Query(store, n, 0).ids = Ids(store)
        /\ Query(store, -n, 0).ids = SubSeq(Ids(store), Len(Pages) - n + 1, Len(Pages))
    /\ \A id \in 0..appended :
        IF \E n \in 1..Len(Pages) : Pages[n].id = id
        THEN Query(store, FindIndex(store, id), 1).ids = <<id>>
        ELSE FindIndex(store, id) = -1
=============================================================================
