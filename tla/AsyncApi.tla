------------------------------ MODULE AsyncApi ------------------------------
(***************************************************************************)
(* The calls that graphics clients make from their own threads             *)
(* (unigd_device::api_render and api_remove), next to R at work on the     *)
(* same device.                                                            *)
(*                                                                         *)
(* A call turns the plot id into an index on the client's thread, tries    *)
(* the page as it is, and hands the rest to the R thread with r_thread:    *)
(* the task runs between two operations of R, with the index of then.      *)
(* That a task runs, once, and that tasks are served in order, is what     *)
(* module RThread is about; here the R thread takes any task that waits.   *)
(* page_store locks itself call by call, so a client may also read while   *)
(* the R thread is in plt_prerender, after resize has cleared the page.    *)
(***************************************************************************)
EXTENDS UnigdDevice

CONSTANTS Renderer,   \* threads that render a plot, each once
          Remover     \* threads that remove a plot, each once

Client == Renderer \cup Remover

ASSUME AsyncAssumption == "R" \notin Client     \* the R thread is no client

VARIABLES call,     \* the client's call and where it is
          blank     \* what plt_prerender is doing: NoRender or its arguments

asyncVars == <<vars, call, blank>>

NoRender == [index |-> -1, size |-> <<0, 0>>, by |-> "none"]
NoPage == [id |-> -1, size |-> <<0, 0>>, ops |-> 0, of |-> 0]

(* What a renderer is given of a page: so many operations of so many that  *)
(* the plot consists of.                                                   *)
Shown(s, i) ==
    LET page == s.pages[Pos(s, i)] IN
    [id |-> page.id, size |-> page.size, ops |-> Len(page.dcs), of |-> OpsOf(Pos(s, i))]

AsyncInit ==
    /\ Init
    /\ call = [c \in Client |->
                 [pc |-> "idle", method |-> "none", id |-> -1, index |-> -1,
                  size |-> <<0, 0>>, got |-> NoPage, undisturbed |-> FALSE]]
    /\ blank = NoRender

----------------------------------------------------------------------------
(* Client threads.                                                         *)

(* plt_index(id): the index of an unknown id is -1.                        *)
Lookup(c, method, id, size) ==
    /\ initialized
    /\ call[c].pc = "idle"
    /\ LET index == FindIndex(store, id) IN
         call' = [call EXCEPT ![c] =
                    [pc |-> IF method = "render" THEN "try" ELSE "queued",
                     method |-> method, id |-> id, index |-> index, size |-> size,
                     got |-> NoPage, undisturbed |-> index # -1]]
    /\ UNCHANGED <<vars, blank>>

Return(c, got) == call' = [call EXCEPT ![c] = [@ EXCEPT !.pc = "done", !.got = got]]

(* render_if_size on the client's thread.                                  *)
TryRender(c) ==
    /\ call[c].pc = "try"
    /\ IF HasSize(store, call[c].index, call[c].size)
       THEN Return(c, Shown(store, call[c].index))
       ELSE call' = [call EXCEPT ![c].pc = "queued"]
    /\ UNCHANGED <<vars, blank>>

----------------------------------------------------------------------------
(* The R thread.                                                           *)

(* Removals are what moves the other plots to other indexes.               *)
Disturb ==
    call' = [c \in Client |-> [call[c] EXCEPT !.undisturbed = FALSE]]

(* R at work: it does not run tasks in the middle of an operation.         *)
RWorks ==
    /\ blank = NoRender
    /\ \/ (NewPlot \/ Draw) /\ UNCHANGED call
       \/ Removable # {} /\ Clear /\ Disturb
       \/ \E i \in 0..(MaxPlots - 1) : RemovePlot(i, MaxOps) /\ Disturb
    /\ UNCHANGED blank

(* plt_prerender up to resize, for a task or for R itself.                 *)
Prepare(i, size, by) ==
    /\ blank' = [index |-> Pos(store, i) - 1, size |-> size, by |-> by]
    /\ store' = Resize(store, i, size)
    /\ UNCHANGED <<target, history, buffer, replaying, initialized, displayList,
                   devSize, told, failures, shifted>>

(* ugd_render in R.                                                        *)
RRenders(i, size) ==
    /\ initialized /\ blank = NoRender
    /\ ValidIndex(store, i) /\ ~HasSize(store, i, size)
    /\ Prepare(i, size, "R")
    /\ UNCHANGED call

(* The task of api_render: plt_render.                                     *)
RenderTask(c) ==
    /\ blank = NoRender
    /\ call[c].pc = "queued" /\ call[c].method = "render"
    /\ LET i == call[c].index
           size == call[c].size IN
         \/ /\ ~ValidIndex(store, i)
            /\ Return(c, NoPage)
            /\ UNCHANGED <<vars, blank>>
         \/ /\ HasSize(store, i, size)
            /\ Return(c, Shown(store, i))
            /\ UNCHANGED <<vars, blank>>
         \/ /\ ValidIndex(store, i) /\ ~HasSize(store, i, size)
            /\ Prepare(i, size, c)
            /\ UNCHANGED call

(* An R error leaves the task: its future is never set, the caller waits.  *)
Lose(c) == call' = [call EXCEPT ![c].pc = "lost"]

(* The rest of plt_prerender, and the rendering for a task.  It is left    *)
(* with replaying set only by an R error.                                  *)
Replayed ==
    /\ blank # NoRender
    /\ LET d == Prerender(Device, blank.index, blank.size, MaxOps, MaxOps) IN
         /\ Becomes(d)
         /\ IF blank.by \notin Client THEN UNCHANGED call
            ELSE IF d.replaying THEN Lose(blank.by)
            ELSE Return(blank.by, Shown(d.store, blank.index))
    /\ blank' = NoRender
    /\ UNCHANGED <<failures, shifted>>

(* The task of api_remove: plt_remove.  got is the plot that goes.         *)
RemoveTask(c) ==
    /\ blank = NoRender
    /\ call[c].pc = "queued" /\ call[c].method = "remove"
    /\ LET i == IF call[c].index = -1 THEN target.newest ELSE call[c].index
           d == PltRemove(Device, i, MaxOps) IN
         /\ Becomes(d)
         /\ call' = [o \in Client |->
              IF o # c
              THEN [call[o] EXCEPT !.undisturbed = FALSE]
              ELSE [call[c] EXCEPT !.pc = IF d.replaying THEN "lost" ELSE "done",
                      !.got = IF ValidIndex(store, i) THEN Shown(store, i) ELSE NoPage]]
    /\ UNCHANGED <<blank, failures, shifted>>

AsyncNext ==
    \/ \E c \in Renderer, id \in 0..MaxPlots, size \in RenderSize :
         Lookup(c, "render", id, size)
    \/ \E c \in Remover, id \in 0..MaxPlots : Lookup(c, "remove", id, <<0, 0>>)
    \/ \E c \in Client : TryRender(c) \/ RenderTask(c) \/ RemoveTask(c)
    \/ RWorks
    \/ \E i \in 0..(MaxPlots - 1), size \in RenderSize : RRenders(i, size)
    \/ Replayed

AsyncSpec == AsyncInit /\ [][AsyncNext]_asyncVars

----------------------------------------------------------------------------
(* Properties *)

Done(c, method) == call[c].pc = "done" /\ call[c].method = method

(* While no plot is removed between the lookup of the id and the end of    *)
(* the call, plots that are added, drawn and rendered meanwhile leave it   *)
(* right: the call renders, or removes, the plot with that id.             *)
RightPlot ==
    \A c \in Client :
        call[c].pc = "done" /\ call[c].undisturbed => call[c].got.id = call[c].id

(* What a client is given has the size it asked for, although clients that *)
(* ask for other sizes resize the page in turn.                            *)
RenderedSize ==
    \A c \in Client :
        LET got == call[c].got IN
        Done(c, "render") /\ got # NoPage =>
            \A k \in {1, 2} : call[c].size[k] > 0 => got.size[k] = call[c].size[k]

(* Pages, history and the open drawing stay those of the same plots while  *)
(* clients render and remove next to R, unless a removal came too late:    *)
(* the index looked up for it is past the end when its task runs, and the  *)
(* task removes nothing but counts one page less.                          *)
InTime == \A c \in Client : Done(c, "remove") => call[c].got # NoPage
AlignedInTime == InTime => Aligned

(* No call is left waiting for an answer that never comes, whatever the    *)
(* clients and R render, draw and remove next to each other, unless a      *)
(* removal came too late: the device then counts a page less than it has,  *)
(* and to render an older page asks the history for the index -1.          *)
NoneLost == InTime => \A c \in Client : call[c].pc # "lost"

----------------------------------------------------------------------------
(* What the sources say and the code does not do.                          *)

(* A plot id is a "Stable identifier for a plot"                           *)
(* (vignettes/c00_c_api.Rmd:134): a rendering is of the plot asked for.    *)
RendersAsked ==
    \A c \in Client :
        Done(c, "render") /\ call[c].got # NoPage => call[c].got.id = call[c].id

(* "All functions are thread-safe" (vignettes/c00_c_api.Rmd:16): a client  *)
(* never gets a page that the R thread has cleared and not yet redrawn.    *)
RendersWhole ==
    \A c \in Client : Done(c, "render") => call[c].got.ops = call[c].got.of
=============================================================================
