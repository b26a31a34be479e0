---------------------------- MODULE UnigdDevice ----------------------------
(***************************************************************************)
(* class unigd_device (unigd_dev.cpp) with its DeviceTarget, PlotHistory   *)
(* (plot_history.cpp) and page_store, as it is driven by R on the R        *)
(* thread.  R runs one top-level operation after the other: a graphics     *)
(* operation makes R's graphics engine call the dev_* callbacks, a call of *)
(* the package calls a plt_* method, and a plt_* method may make the       *)
(* engine replay a drawing through the same callbacks.  One such operation *)
(* is one step.                                                            *)
(*                                                                         *)
(* The engine is external and modelled by what the device takes from it:   *)
(* the display list of the drawing that is open, which snapshots copy and  *)
(* playing a snapshot puts back, and the size of the device.  A drawing is *)
(* the plot it was begun for and the number of operations recorded since;  *)
(* the replay of a drawing may stop at, or in the middle of, an operation  *)
(* that raises an error.                                                   *)
(*                                                                         *)
(* Whatever a method asks of the engine, it asks of R's current device     *)
(* (get_active_pDevDesc), which need not be the device the method belongs  *)
(* to.  R calls dev_activate and dev_deactivate as it selects devices.     *)
(***************************************************************************)
EXTENDS PageStoreOps, FiniteSets

CONSTANTS StartSize,    \* width and height the device is opened with
          RenderSize,   \* widths and heights asked for by renderings
          MinSize,      \* find_minsize: what the margins need
          Removable,    \* kinds of index given to plt_remove, see Kind
          Asked,        \* which device R has selected when a method is called
          MaxFailures,  \* bound: operations and replays that fail half-way
          MaxPlots,     \* bound: plots created
          MaxOps        \* bound: operations recorded on a plot

Pair(S) == S \X S

ASSUME DeviceAssumption ==
    /\ StartSize \in Pair(Int) /\ RenderSize \subseteq Pair(Int) /\ MinSize \in Pair(Nat)
    /\ Removable \subseteq {"newest", "older", "missing", "negative"}
    /\ Asked \subseteq {"current", "other"}
    /\ MaxFailures \in Nat
    /\ MaxPlots \in Nat /\ MaxPlots <= MaxId     \* plot ids do not wrap
    /\ MaxOps \in Nat

VARIABLES store,        \* m_data_store
          target,       \* m_target: DeviceTarget
          history,      \* m_history: PlotHistory, NoDrawing where it holds NULL
          buffer,       \* m_dc_buffer
          replaying,    \* replaying
          initialized,  \* m_initialized
          displayList,  \* engine: the drawing that is open
          devSize,      \* engine: dd->right and dd->bottom
          told,         \* history: plot ids at the client's last state_change
          failures,     \* history: operations and replays that failed
          shifted       \* history: whether an older page was removed

device == <<store, target, history, buffer, replaying, initialized, displayList,
            devSize, told>>
vars == <<device, failures, shifted>>

----------------------------------------------------------------------------
(* The device as a record, which the callbacks and methods below change    *)
(* one after the other.                                                    *)

Device ==
    [store |-> store, target |-> target, history |-> history, buffer |-> buffer,
     replaying |-> replaying, initialized |-> initialized,
     displayList |-> displayList, devSize |-> devSize, told |-> told]

Becomes(d) ==
    /\ store' = d.store
    /\ target' = d.target
    /\ history' = d.history
    /\ buffer' = d.buffer
    /\ replaying' = d.replaying
    /\ initialized' = d.initialized
    /\ displayList' = d.displayList
    /\ devSize' = d.devSize
    /\ told' = d.told

NoDrawing == [plot |-> -1, ops |-> 0]

(* R's current device is this one, or another one with a drawing of its    *)
(* own open.                                                               *)
Current(d) == d.store.active
Foreign == [plot |-> -2, ops |-> 0]

(* The display list of the current device.                                 *)
ActiveList(d) == IF Current(d) THEN d.displayList ELSE Foreign

(* DeviceTarget *)
SetIndex(d, i) == [d EXCEPT !.target.index = i, !.target.void = FALSE]
SetNewest(d, i) == [d EXCEPT !.target.newest = i]

(* Mutant of the next definition: the index stays.                         *)
SetVoid_KeepIndex(d) == [d EXCEPT !.target.void = TRUE]

SetVoid(d) == [d EXCEPT !.target.index = -1, !.target.void = TRUE]

StateChange(d) == [d EXCEPT !.told = Ids(d.store)]

(* The size of the device for a page: the margins have to fit.             *)
Fit(size) == [c \in {1, 2} |-> IF size[c] < MinSize[c] THEN MinSize[c] ELSE size[c]]

(* Mutant of the next definition: always the newest page.                  *)
ResizeToPage_Newest(d) ==
    [d EXCEPT !.devSize = Fit(SizeOf(d.store, d.target.newest, <<10, 10>>))]

(* resize_device_to_page, of the current device.                           *)
ResizeToPage(d) ==
    LET index == IF d.target.void THEN d.target.newest ELSE d.target.index IN
    IF Current(d)
    THEN [d EXCEPT !.devSize = Fit(SizeOf(d.store, index, <<10, 10>>))]
    ELSE d

----------------------------------------------------------------------------
(* PlotHistory *)

(* Mutant of the next definition: the list grows by one, wherever the      *)
(* entry belongs.                                                          *)
HistoryPut_Append(h, i, drawing) == Append(h, drawing)

(* put: the list grows to hold the index, which is not negative: see       *)
(* PrerenderOlder.                                                         *)
HistoryPut(h, i, drawing) ==
    [n \in 1..(IF Len(h) <= i THEN i + 1 ELSE Len(h)) |->
        IF n = i + 1 THEN drawing ELSE IF n <= Len(h) THEN h[n] ELSE NoDrawing]

(* get, of an index that is not negative: see PrerenderOlder.              *)
HistoryGet(h, i) == IF i \in 0..(Len(h) - 1) THEN h[i + 1] ELSE NoDrawing

(* Mutant of the second definition below: the drawing after it is erased.  *)
HistoryRemove_After(h, i) == IF i \in 0..(Len(h) - 2) THEN RemoveAt(h, i + 2) ELSE h

(* remove: erasing an element before the first one is an R error as soon   *)
(* as there is an element to move.                                         *)
HistoryFails(h, i) == i < 0 /\ h # <<>>
HistoryRemove(h, i) == IF i \in 0..(Len(h) - 1) THEN RemoveAt(h, i + 1) ELSE h

----------------------------------------------------------------------------
(* Device callbacks.                                                       *)

(* The drawing area an operation clips to: operations of a plot alternate  *)
(* between two.                                                            *)
ClipOf(op) == IF op.n % 2 = 1 THEN <<"plot region">> ELSE <<"figure region">>

(* dev_clip, and put by the drawing callbacks.                             *)
ClipAndPut(d, op) ==
    IF d.target.void
    THEN d
    ELSE [d EXCEPT !.store = ClipPage(@, d.target.index, ClipOf(op)),
                   !.buffer = Append(@, op)]

(* Mutant of the next definition: the buffer is not emptied.               *)
Flush_KeepBuffer(d) ==
    IF d.target.void
    THEN d
    ELSE StateChange(
           [d EXCEPT !.store = AddDcs(@, d.target.index, d.buffer, d.replaying)])

(* dev_mode(0), at the end of an operation.                                *)
Flush(d) ==
    IF d.target.void
    THEN d
    ELSE StateChange(
           [d EXCEPT !.store = AddDcs(@, d.target.index, d.buffer, d.replaying),
                     !.buffer = <<>>])

Operation(d, op) == Flush(ClipAndPut(d, op))

(* dev_newPage, of a replay and of a new plot.                             *)
NewPageReplay(d) ==
    IF d.target.void
    THEN d
    ELSE [d EXCEPT !.store = ClearPage(@, d.target.index, TRUE)]

(* Mutant of the next definition: the index of the newest page stays.      *)
NewPagePlot_KeepNewest(d, saved) ==
    LET h == IF d.target.newest >= 0
             THEN [d EXCEPT !.history = HistoryPut(@, d.target.newest, saved)]
             ELSE d
        t == [h EXCEPT !.store = AppendPage(@, d.devSize)]
    IN  SetIndex(t, Len(d.store.pages))

NewPagePlot(d, saved) ==
    LET h == IF d.target.newest >= 0
             THEN [d EXCEPT !.history = HistoryPut(@, d.target.newest, saved)]
             ELSE d
        t == [h EXCEPT !.store = AppendPage(@, d.devSize)]
        i == Len(d.store.pages)
    IN  SetNewest(SetIndex(t, i), i)

(* Operation number k of a drawing is replayed.                            *)
ReplayOp(d, drawing, k) ==
    Operation(d, [plot |-> drawing.plot, n |-> k, size |-> d.devSize])

(* The device while the engine replays a drawing: a new page, then its     *)
(* operations one by one.                                                  *)
Progress(d, drawing) ==
    LET after[k \in Nat] ==
            IF k = 0 THEN NewPageReplay(d) ELSE ReplayOp(after[k - 1], drawing, k)
    IN  after

(* How many of a drawing's operations are completed by a replay that is    *)
(* told upto: 0 or more is where it stops, -k that it stops in the middle  *)
(* of operation number k.                                                  *)
Completed(upto, ops) ==
    LET n == IF upto < 0 THEN -upto - 1 ELSE upto IN IF n < ops THEN n ELSE ops

(* The engine replays a drawing.  An operation that fails after it drew    *)
(* something leaves that in the buffer: dev_mode(0) does not come.         *)
Replay(d, drawing, upto) ==
    LET e == Progress(d, drawing)[Completed(upto, drawing.ops)] IN
    IF upto < 0 /\ -upto <= drawing.ops
    THEN ClipAndPut(e, [plot |-> drawing.plot, n |-> 0, size |-> e.devSize])
    ELSE e

(* PlotHistory::play, GEplaySnapshot: the drawing becomes the open one.    *)
(* Played on another device it does not reach this one.                    *)
Play(d, i, upto) ==
    LET drawing == HistoryGet(d.history, i) IN
    IF drawing = NoDrawing \/ ~Current(d)
    THEN d
    ELSE Replay([d EXCEPT !.displayList = drawing], drawing, upto)

----------------------------------------------------------------------------
(* Methods.                                                                *)

(* plt_prerender, of an index that plt_render has normalized.  The three   *)
(* numbers bound what the replays get to.                                  *)
PrerenderOpen(d, size, upto) ==
    LET a == [d EXCEPT !.replaying = TRUE,
                       !.store = Resize(@, d.target.newest, size)]
        b == ResizeToPage(SetIndex(a, d.target.newest))
        c == IF b.displayList = NoDrawing \/ ~Current(b)
             THEN b
             ELSE Replay(b, b.displayList, upto)
    IN  [c EXCEPT !.replaying = FALSE]

(* Mutant of the next definition: the older page stays the target.         *)
PrerenderOlder_KeepTarget(d, i, size, upto, upto2) ==
    LET a == [d EXCEPT !.replaying = TRUE, !.store = Resize(@, i, size)]
        b == IF ActiveList(a) = NoDrawing
             THEN a
             ELSE [a EXCEPT !.history = HistoryPut(@, a.target.newest, ActiveList(a))]
        c == Play(ResizeToPage(SetIndex(b, i)), i, upto)
    IN  [c EXCEPT !.replaying = FALSE]

(* When newest is negative, as after a removal that came too late, the     *)
(* history is asked to put or to get at a negative index: an R error that  *)
(* leaves the method where it is, with replaying set.                      *)
PrerenderOlder(d, i, size, upto, upto2) ==
    LET newest == d.target.newest
        a == [d EXCEPT !.replaying = TRUE, !.store = Resize(@, i, size)]
        b == IF ActiveList(a) = NoDrawing
             THEN a
             ELSE [a EXCEPT !.history = HistoryPut(@, newest, ActiveList(a))]
        c == ResizeToPage(SetVoid(Play(ResizeToPage(SetIndex(b, i)), i, upto)))
        e == Play(c, newest, upto2)
    IN  IF newest >= 0 THEN [SetIndex(e, newest) EXCEPT !.replaying = FALSE]
        ELSE IF ActiveList(a) # NoDrawing THEN a ELSE c

Prerender(d, i, size, upto, upto2) ==
    IF i = d.target.newest
    THEN PrerenderOpen(d, size, upto)
    ELSE PrerenderOlder(d, i, size, upto, upto2)

(* Mutant of the next definition: the client is not told.                  *)
PltClear_Silent(d) ==
    SetNewest(SetVoid([d EXCEPT !.store = RemoveAll(@), !.history = <<>>]), -1)

(* plt_clear                                                               *)
PltClear(d) ==
    StateChange(SetNewest(SetVoid(
        [d EXCEPT !.store = RemoveAll(@), !.history = <<>>]), -1))

(* plt_remove, of an index that is not -1.  When the history fails, the R  *)
(* error leaves the method there.                                          *)
PltRemove(d, i, upto) ==
    LET n == d.target.newest
        a == [d EXCEPT !.store = RemovePage(@, i, FALSE), !.replaying = TRUE]
        b == [a EXCEPT !.history = HistoryRemove(@, i)]
        c == IF i = n /\ i > 0
             THEN Play(ResizeToPage(SetIndex(b, n - 1)), n - 1, upto)
             ELSE b
    IN  IF HistoryFails(d.history, i)
        THEN a
        ELSE StateChange([SetNewest(c, n - 1) EXCEPT !.replaying = FALSE])

----------------------------------------------------------------------------
Init ==
    /\ store = EmptyStore
    /\ target = [index |-> -1, newest |-> -1, void |-> TRUE]
    /\ history = <<>>
    /\ buffer = <<>>
    /\ replaying = FALSE
    /\ initialized = TRUE
    /\ displayList = NoDrawing
    /\ devSize = StartSize
    /\ told = <<>>
    /\ failures = 0
    /\ shifted = FALSE

(* What the engine is asked for succeeds, or fails half-way.               *)
Succeeds == UNCHANGED failures
Fails == failures < MaxFailures /\ failures' = failures + 1

(* Graphics operations go to R's current device.                           *)
Selected == initialized /\ Current(Device)

(* Methods are called for any device.                                      *)
Calls == initialized /\ (IF Current(Device) THEN "current" ELSE "other") \in Asked

(* plot.new: the engine saves a snapshot of the drawing that ends.         *)
NewPlot ==
    /\ Selected
    /\ store.idCounter < MaxPlots
    /\ LET d == IF replaying THEN NewPageReplay(Device) ELSE NewPagePlot(Device, displayList) IN
         Becomes([d EXCEPT !.displayList = [plot |-> store.idCounter, ops |-> 0]])
    /\ Succeeds /\ UNCHANGED shifted

(* A graphics operation on the open plot; the engine records it.           *)
Draw ==
    /\ Selected
    /\ displayList # NoDrawing /\ displayList.ops < MaxOps
    /\ LET op == [plot |-> displayList.plot, n |-> displayList.ops + 1, size |-> devSize] IN
         Becomes([Operation(Device, op) EXCEPT !.displayList.ops = @ + 1])
    /\ Succeeds /\ UNCHANGED shifted

(* One that fails after it drew something: dev_mode(0) does not come, and  *)
(* the engine does not record it.                                          *)
DrawInterrupted ==
    /\ Selected
    /\ displayList # NoDrawing
    /\ Becomes(ClipAndPut(Device, [plot |-> displayList.plot, n |-> 0, size |-> devSize]))
    /\ Fails /\ UNCHANGED shifted

(* How far a replay gets: to the end, or it fails, between two operations  *)
(* or in the middle of one.                                                *)
Upto == -MaxOps..MaxOps
ReplaysAll(upto) == IF upto = MaxOps THEN Succeeds ELSE Fails

(* plt_render: nothing changes when the page has the size.  The second     *)
(* replay of an older page has no target: where it stops does not show.    *)
Render(i, size, upto, upto2) ==
    /\ Calls
    /\ ValidIndex(store, i)
    /\ ~HasSize(store, i, size)
    /\ ReplaysAll(IF upto = MaxOps THEN upto2 ELSE upto)
    /\ Becomes(Prerender(Device, Pos(store, i) - 1, size, upto, upto2))
    /\ UNCHANGED shifted

(* What kind of index plt_remove is given: -1 is the newest page.          *)
Kind(i) ==
    IF i = -1 \/ i = target.newest THEN "newest"
    ELSE IF i < 0 THEN "negative"
    ELSE IF i < target.newest THEN "older" ELSE "missing"

RemovePlot(i, upto) ==
    /\ Calls
    /\ Kind(i) \in Removable
    /\ target.newest >= -1       \* bound: an empty device is asked once
    /\ ReplaysAll(upto)
    /\ Becomes(PltRemove(Device, IF i = -1 THEN target.newest ELSE i, upto))
    /\ shifted' = (shifted \/ Kind(i) = "older")

Clear ==
    /\ initialized
    /\ Becomes(PltClear(Device))
    /\ Succeeds /\ UNCHANGED shifted

(* dev_activate, dev_deactivate                                            *)
Activate(b) ==
    /\ initialized
    /\ Becomes(StateChange([Device EXCEPT !.store = SetActive(@, b)]))
    /\ Succeeds /\ UNCHANGED shifted

(* dev_close: the client is gone, its handle keeps the store.              *)
Close ==
    /\ initialized
    /\ Becomes(SetNewest(SetVoid(
                 [Device EXCEPT !.initialized = FALSE, !.history = <<>>]), -1))
    /\ Succeeds /\ UNCHANGED shifted

Next ==
    \/ NewPlot
    \/ Draw
    \/ DrawInterrupted
    \/ \E i \in -1..(MaxPlots - 1), size \in RenderSize, upto \in Upto, upto2 \in 0..MaxOps :
         Render(i, size, upto, upto2)
    \/ \E i \in -2..MaxPlots, upto \in Upto : RemovePlot(i, upto)
    \/ Clear
    \/ \E b \in BOOLEAN : Activate(b)
    \/ Close

Spec == Init /\ [][Next]_vars

----------------------------------------------------------------------------
(* Properties *)

Pages == store.pages

Size == Pair(Int)
Drawing == [plot : -1..(MaxPlots - 1), ops : 0..MaxOps]
DrawnOp == [plot : 0..(MaxPlots - 1), n : 0..MaxOps, size : Size]
Rect == {<<"plot region">>, <<"figure region">>} \cup ({"full"} \X Size)
Clip == [id : Nat, rect : Rect]
DrawCall == [op : DrawnOp, clip : Nat]
Page == [id : 0..(MaxPlots - 1), size : Size, dcs : Seq(DrawCall), cps : Seq(Clip)]
Store == [pages : Seq(Page), idCounter : 0..MaxPlots, upid : 0..MaxUpid, active : BOOLEAN]
Target == [index : -1..(MaxPlots - 1), newest : -2..(MaxPlots - 1), void : BOOLEAN]

TypeOK ==
    /\ store \in Store
    /\ target \in Target
    /\ history \in Seq(Drawing) /\ displayList \in Drawing
    /\ buffer \in Seq(DrawnOp)
    /\ replaying \in BOOLEAN /\ initialized \in BOOLEAN
    /\ devSize \in Size
    /\ told \in Seq(0..(MaxPlots - 1))
    /\ failures \in 0..MaxFailures /\ shifted \in BOOLEAN

(* The store, the history and the display list agree on which plots there  *)
(* are: newest is the last page, entry n of the history is a drawing of    *)
(* page n, the history has every page but perhaps the newest, and the      *)
(* drawing that is open is that of the newest page.                        *)
Aligned ==
    initialized =>
        LET newest == target.newest IN
        /\ Len(Pages) = IF newest < 0 THEN 0 ELSE newest + 1
        /\ Len(history) \in IF newest < 0 THEN {0} ELSE {newest, newest + 1}
        /\ \A n \in 1..Len(history) : history[n].plot = Pages[n].id
        /\ newest >= 0 => displayList.plot = Pages[newest + 1].id

(* The draw calls of a page that are of operations the engine recorded,    *)
(* and not left over from one that failed.                                 *)
Recorded(page) == {k \in 1..Len(page.dcs) : page.dcs[k].op.n # 0}

(* A page shows operations of its own plot only, each one once and in the  *)
(* order they were drawn, whatever is removed, rendered or replayed.       *)
ShowsOwn(page) ==
    /\ \A k \in Recorded(page) : page.dcs[k].op.plot = page.id
    /\ \A j, k \in Recorded(page) : j < k => page.dcs[j].op.n < page.dcs[k].op.n
OwnDrawing == \A n \in 1..Len(Pages) : ShowsOwn(Pages[n])

(* The engine lays new operations out for the open page, and what a page   *)
(* shows was laid out for the size the page has now.                       *)
DeviceFits ==
    initialized /\ target.newest >= 0 => devSize = Fit(Pages[target.newest + 1].size)

LaidOutFor(page) == \A k \in Recorded(page) : page.dcs[k].op.size = Fit(page.size)
LaidOut == \A n \in 1..Len(Pages) : LaidOutFor(Pages[n])

(* Operations reach the page with a buffer, clips reach it at once: still, *)
(* every operation is clipped to the area it was drawn in.                 *)
Clipped(page) ==
    \A k \in Recorded(page) :
        LET dc == page.dcs[k] IN page.cps[dc.clip + 1].rect = ClipOf(dc.op)
ClipHonoured == \A n \in 1..Len(Pages) : Clipped(Pages[n])

(* The client was told of every plot that shows something and of every     *)
(* removal.                                                                *)
ToldOfDrawing ==
    initialized =>
        /\ \A n \in 1..Len(Pages) : Pages[n].dcs # <<>> => Pages[n].id \in ToSet(told)
        /\ ToSet(told) \subseteq ToSet(Ids(store))

(* How many operations plot n consists of.                                 *)
OpsOf(n) ==
    IF n <= target.newest THEN HistoryGet(history, n - 1).ops ELSE displayList.ops

(* A page shows its whole plot, older pages and the open one, as long as   *)
(* nothing failed and no older page was removed (see OpenPageDrawn).       *)
Whole(page, ops) == Len(page.dcs) = ops /\ \A k \in 1..ops : page.dcs[k].op.n = k
PagesComplete ==
    initialized /\ failures = 0 /\ ~shifted =>
        \A n \in 1..Len(Pages) : Whole(Pages[n], OpsOf(n))

(* What the properties rest on: draw calls name clips of their page, the   *)
(* buffer holds nothing but what failed operations left, operations go to  *)
(* the newest page or, after an older one was removed, past the last, and  *)
(* no page is ahead of the drawing it shows.                               *)
ClipsNumbered(page) ==
    /\ page.cps # <<>>
    /\ \A k \in 1..Len(page.cps) : page.cps[k].id = k - 1
    /\ \A k \in 1..Len(page.dcs) : page.dcs[k].clip < Len(page.cps)
BufferOK ==
    /\ \A k \in 1..Len(buffer) : buffer[k].n = 0
    /\ failures = 0 => buffer = <<>>
TargetOK ==
    /\ target.void <=> target.index = -1
    /\ initialized /\ target.newest >= 0 =>
        /\ target.index = target.newest \/ target.index >= Len(Pages)
        /\ shifted \/ target.index = target.newest
EngineOK ==
    /\ displayList = NoDrawing \/ displayList.plot >= 0
    /\ devSize = Fit(devSize)
    /\ initialized /\ target.newest >= 0 =>
        \A k \in Recorded(Pages[target.newest + 1]) :
            Pages[target.newest + 1].dcs[k].op.n <= displayList.ops

(* The inductive invariant of a device that is used as R uses it.          *)
IInv ==
    /\ TypeOK
    /\ Len(Pages) <= store.idCounter
    /\ \A n \in 1..Len(Pages) : ClipsNumbered(Pages[n])
    /\ OwnDrawing /\ LaidOut /\ ClipHonoured
    /\ BufferOK /\ TargetOK /\ EngineOK
    /\ ~replaying
    /\ Aligned /\ DeviceFits /\ ToldOfDrawing /\ PagesComplete

(* How that is: pages that exist are removed, methods are called while     *)
(* the device is the current one, and it was opened with room for margins. *)
OrdinaryUse ==
    /\ Removable \subseteq {"newest", "older"}
    /\ Asked \subseteq {"current"}
    /\ Fit(StartSize) = StartSize

(* The device is a list of plots.                                          *)
Plots ==
    IF initialized
    THEN [n \in 1..Len(Pages) |-> [id |-> Pages[n].id, ops |-> OpsOf(n)]]
    ELSE <<>>

PlotListOf == INSTANCE PlotList WITH plots <- Plots, nextId <- store.idCounter

(* Rendering keeps the list, removals take one plot out and drawing adds   *)
(* to the newest plot that is left: unigd_device implements PlotList.      *)
ImplementsPlotList == PlotListOf!Spec

----------------------------------------------------------------------------
(* What the sources say and the code does not do.                          *)

(* "set target to open page for new draw calls" (unigd_dev.cpp:579): all   *)
(* operations of the open plot are on the open page.                       *)
OpenPageDrawn ==
    initialized /\ target.newest >= 0 =>
        Cardinality(Recorded(Pages[target.newest + 1])) = displayList.ops

(* "Is the device replaying" (unigd_dev.h:139): not between operations.    *)
NotReplaying == ~replaying

(* "@param which Which device (ID)." of ugd_render (R/unigd.R:229): the    *)
(* plots of any device can be rendered, and are whole afterwards.          *)
RendersWhich ==
    initialized => \A n \in 1..Len(Pages) : Cardinality(Recorded(Pages[n])) = OpsOf(n)
=============================================================================
