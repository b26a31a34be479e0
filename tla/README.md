# A formal model of unigd

unigd is a graphics device for R that keeps every plot it is given and renders
any of them, at any size and in any format, on request. Requests come from R
itself and, through a C API, from other packages (plot viewers, web servers)
whose threads run next to R. This directory holds TLA+ modules that model the
device, configurations that check them with TLC, and proofs that TLAPS checks.

## 1. The system

| Component | Source | State | Operations | Hard behaviour |
|---|---|---|---|---|
| Work queue of the R thread | `async_utils.h`, `r_thread.h`, `r_thread_posix.cpp`, `r_thread_win32.cpp` | queue of tasks, a pipe, futures | `r_thread(f)`, `notify_work`, `input_handler`, `process_tasks`, `ipc_open`, `ipc_close` | push and wakeup are two steps; reading, popping and running are three; the R thread may be the caller; on Windows tasks nest and wakeups may be lost |
| Page store | `page_store.*`, `draw_data.*` | pages with draw calls and clips, id counter, `upid`, active flag | `append`, `add_dc`, `clear`, `remove`, `remove_all`, `resize`, `clip`, `render`, `render_if_size`, `query`, `find_index`, `state` | relative indexes, wrapping counters, change detection by polling, every method locks itself alone |
| Device | `unigd_dev.*` | `DeviceTarget` (index, newest index, void), `replaying`, buffer of draw calls, device size, client | the `dev_*` callbacks of R's graphics engine, `plt_render`, `plt_remove`, `plt_clear` | three lists kept aligned by hand; a method calls the engine, which calls the device back; failures half-way |
| Plot history | `plot_history.*` | list of engine snapshots, one plot behind the store | `put`, `put_current`, `put_last`, `play`, `remove`, `clear` | lags the store; replay may fail |
| Asynchronous API | `unigd_dev.cpp` (`api_*`), `unigd_external.cpp` | a call in flight: plot id, index, renderer | `api_render`, `api_remove`, `api_clear` | index looked up on one thread and used on another, later |
| Client life cycle | `unigd_external.cpp`, `unigd_dev.cpp` | attached client, handles (shared pointers), client ids | attach, get, destroy, `close` callback, register id | callbacks on the R thread, close against calls in flight, who frees the device |
| Device base | `generic_dev.h` | the container in the engine's device structure, which holds the device | create, close, lookup by number, callbacks' dispatch, current device | several devices, numbers used again, devices that outlive their number |
| R bindings | `unigd.cpp`, `R/*.R` | none | `ugd_*` functions | index conventions |
| Draw calls | `draw_data.*`, `geom.h` | one object per drawing callback | made by `dev_line`, `dev_rect`, ..., visited by renderers | |
| Renderers | `renderer*.cpp`, `renderers.*` | one renderer per request; Cairo's library keeps a path and a graphics state | page to SVG, JSON, TikZ, PNG, PDF, ... | clip groups, defaults that are not written, state left from one draw call to the next |
| Encoders | `base_64.cpp`, `compress.cpp`, `uuid.cpp` | none | image to base64 PNG | tails and enlargement |

How they interact. R evaluates on one thread. A graphics operation of R goes to
R's graphics engine, which calls the device (`dev_clip`, drawing callbacks,
`dev_mode`); these write to the page store and call the client's `state_change`.
The engine keeps the display list of the open plot; when a plot must be redrawn
at another size, the device has the engine replay a display list or a snapshot,
and the same callbacks write the page again. Client threads read the store
directly, under its lock, and everything else they want is a task for the R
thread: pushed on a queue, announced by a byte in a pipe, run by an input
handler of R's event loop, answered through a future.

What makes the components correct:

* work queue: no task lost, repeated or overtaken; no wakeup lost; every waiting
  client answered; captured stack frames alive while their task is;
* page store: ids unique and stable; clip ids resolve; a polling client can tell
  when its list of plots is outdated; queries and lookups agree;
* device and history: entry *n* of store and history are the same plot; a page
  shows its own plot, laid out for its size, with its clips, and all of it;
  rendering changes nothing a user can see; the client is told of changes;
* asynchronous API: a call gets the plot and the size it asked for, and ends;
* client life cycle: a client and its device agree about being attached, a
  package finds its own client only, no call or callback uses a device that is
  gone, and a closed device is freed;
* renderers: every format shows what R asked for, each call once, in order and
  in its own clip, and nothing of one call shows in another.

## 2. Modules

| Module | Models | State and actions |
|---|---|---|
| `RThread` | the work queue on POSIX | one action per step of a caller (`Push`, `NotifyWork`, `GetResult`) and of the R thread (`InputHandler`, `TryPop`, `HandlerReturns`, `TaskDone`, `BackToLoop`, `Eval`), and `IpcClose` |
| `SerialExecutor` | what `r_thread(f)` promises | a list of tasks run one by one; `RThread` implements it (`ImplementsSerial`) |
| `RThreadProofs` | proofs about `RThread` | |
| `RThreadWin` | the work queue on Windows: messages to a window, callbacks that nest | `Push`, `Notify`, `GetResult` of a caller; `WindowCallback`, `TryPop`, `TaskDone`, `CallbackReturns`, `IpcClose` of the R thread, whose stack of `process_tasks` is the variable `frames` |
| `RThreadWinProofs` | proofs about `RThreadWin` | |
| `PageStoreOps` | the methods of `page_store` and `Page` as operators on a record | |
| `PageStore` | the store as a shared object, with a client that polls | one action per method (a method holds the lock throughout) |
| `PageStoreProofs` | proofs about `PageStore` | |
| `UnigdDevice` | `unigd_device`, `DeviceTarget`, `PlotHistory` and the store, driven by R | one action per top-level operation of R: `NewPlot`, `Draw`, `DrawInterrupted`, `Render`, `RemovePlot`, `Clear`, `Activate`, `Close`; each is the composition of the methods and callbacks it makes, as operators on the device's record |
| `SequenceLemmas` | facts about sequences, their elements, concatenation and folds; the operator of a fold is a constant, and the module is instantiated once per fold | |
| `UnigdDeviceProofs` | proofs about `UnigdDevice` (what its operators do to a page, a store and a device; the invariant, the theorems and the refinement) and about `AsyncApi`, which works on the same device | |
| `PlotList` | what a user sees of a device: a list of plots | `UnigdDevice` implements it (`ImplementsPlotList`) |
| `AsyncApi` | `api_render` and `api_remove` on client threads, on top of `UnigdDevice` | `Lookup`, `TryRender` on the client's thread; `RenderTask`, `RemoveTask`, `RWorks`, `RRenders`, `Replayed` on the R thread |
| `ClientLifecycle` | several devices in R's table of numbers, the shared pointers to them (`holders`), the clients attached to them and their threads | `OpenDevice`, `Select`, `CloseBegin`/`CloseEnd`, `RegisterClientId`, `AttachBegin`/`AttachEnd`, `RunTask` on the R thread; `CallBegin`, `CallReads`, `CallQueues`, `WorkerStops` on a client's thread. Attach and close are two steps, because they run a callback of the client while the client's thread is at work |
| `ClientLifecycleProofs` | proofs about `ClientLifecycle` | |
| `Drawing` | draw calls, how the callbacks make them, and the picture (a sequence of marks) that R asked for | |
| `Encoders` | base64 and the enlargement of images | |
| `RendererSVG` | `RendererSVG` and `RendererSVGPortable`: page to document, and a viewer of SVG that makes marks of it (`SvgMarks`) | |
| `RendererTikZ` | `RendererTikZ`: page to tokens, and what TeX makes of them (`TikzMarks`) | |
| `RendererCairo` | `render_page` and the visits as calls to cairo, and cairo running them (`CairoMarks`) | |
| `RendererJSON` | `RendererJSON`: page to objects | |
| `RendererData` | `RendererStrings` and `RendererMeta`: page to lines of text, page to numbers | |
| `Rendering` | a page R draws on, next to what R asked for | `DevDraw`, `DevClip` and `Replay`, one per callback; renderings are operators of the state, for they change nothing |
| `RenderingProofs` | proofs about `Rendering`: the page, the listings, both SVG renderers | |
| `CairoTikZProofs` | proofs about `Rendering`: the renderers for cairo and TeX, which are read by a program that keeps a state | |
| `MC*` | instances for TLC | sizes and symmetry |

Names are the code's where TLA+ allows. Operators whose name has the form
`Name_Change` are deliberately wrong variants of `Name`, used to see that the
properties notice; no specification uses them.

Abstractions. A size is a pair of small integers, a rectangle or a draw call a
value that only its identity matters of; the fill of a page and `extra_css` are left
out (the fill is back in `Rendering`). In `PageStore` draw calls are opaque; in `UnigdDevice` a draw call carries
its plot, its number within the plot and the device size it was laid out for,
so that "the wrong plot's drawing" and "laid out for another size" can be said.
A drawing (display list or snapshot) is the plot it was begun for and the
number of operations recorded: the engine records operations after they
succeed, in order, and a replay runs them in order. Operations of a plot
alternate between two clipping rectangles. In `AsyncApi` a task that waits is
taken by the R thread at any time R is between operations; that each task runs
exactly once and in order is `RThread`'s business. Of `plt_prerender`'s replay,
other threads see one intermediate store, the page resized and cleared.

Of other devices `UnigdDevice` keeps one bit, whether this device is R's current
one (`Current`): what it asks of the engine is asked of the current device, so
that the display list it takes may be another device's (`Foreign`) and a replay
may draw elsewhere. Graphics operations go to the current device only; methods
may be called for any, and the constant `Asked` says for which.

`ClientLifecycle` has no pages: a call either reads, or hands a task to the R
thread, which ends with a result, with an exception, or not at all (`Outcomes`). R's
table of devices is external: a device takes the first free number, closing the
current one makes another one current, a closed device is not deactivated.
All devices are unigd's (looking up the number of another package's device is
undefined and left out). Attaching, registering and looking up are on the R thread,
as the package's R functions and `.onLoad` of its clients do it; a client's thread
starts in `start` and waits for the handle. A device that is gone is one that nobody
holds (`holders[d] = {}`). Clients are of three kinds by what their `close`
callback does: a Signaller tells its thread to stop and lets that destroy the
handle, a Joiner waits for its thread and then destroys the handle, a Destroyer
destroys the handle at once, which is what vignettes/c00_c_api.Rmd:160 suggests.

In `RThreadWin` R may dispatch a message inside a task, and so run the next task
there; without that nesting it is `RThread` with reads of one byte.
Calls that do not wait (`log`) and calls of R itself are in `RThread` only.

In the rendering modules coordinates are small integers, colours a name and an
alpha, a line type its eight hexadecimal digits, a text a sequence of
characters that the escapes tell apart, an image one byte per pixel (its PNG
file is the width, the height and the pixels). Left out are line widths (and
the scaling of dashes by them), fonts and text metrics, the scale factor of a
rendering, rounding to two digits, the tolerance of `rect_equals` and the rotation of images. The radius of a
circle counts in halves of a unit. Horizontal adjustment is
0, 0.5 or 1, as R passes it to a device with `canHAdj = 1`; a blank line type
comes with a transparent colour, as the engine sends it. What a format means is external: a
viewer of SVG (style attributes before the style sheet, the sheet before
attributes, those before initial values; the first of several equal ids), TeX
with TikZ (a comment lasts to the end of its line, a scope keeps its clip, the
last of several equal options holds), and cairo (one current path that `save`
does not save, one graphics state that it does).

R's graphics engine and event loop, cpp11's list and the kernel's pipe are
outside the repository and modelled from how the code uses them: the engine
saves a snapshot of the display list when a plot ends, playing a snapshot makes
it the display list, an operation that raises an error ends a replay, and
erasing a negative position of a non-empty list is an R error.

## 3. Runs

Runs that pass:

| Run | Shows | Bounds |
|---|---|---|
| `rthread` | no lost wakeup, no task lost, repeated or overtaken, captures alive, no deadlock while the R thread only logs; under fairness every task runs, every waiting client is answered, `SerialExecutor` is implemented with its fairness | 2 clients and R, 3 tasks, reads of 2 bytes, pipe of 4 bytes: more tasks than one read takes, and handlers that find the queue already drained |
| `pagestore` | inductive invariant, stable ids, clips resolve, polling is sound, queries list the plots | 3 pages created, 2 sizes, indexes one past both ends, `upid` wraps after 2 |
| `device` | store, history and engine aligned; pages show their own plot, all of it, laid out for their size and clipped as it was drawn; device size fits the open page; the client is told; `PlotList` is implemented | 3 plots of 2 operations, sizes below and above the margins, existing pages removed, one failure (an operation that leaves draw calls in the buffer, or a replay that stops anywhere, between operations or inside one) |
| `async` | a client gets the size it asked for, and the plot it asked for while nothing is removed meanwhile; store, history and engine stay aligned, and no call is lost to an R error, unless a removal came too late | 2 clients that render, one of which may remove instead; 2 plots, 2 sizes; R draws, renders, removes and clears |
| `rthread_win` | tasks begin in order and once, with their callers waiting, however they nest; every call returns although messages are lost | 3 clients, 4 tasks, 3 callbacks inside one another, a message queue of 2 that overflows |
| `lifecycle` | client and device agree; nothing uses a device that is gone; a package finds its own client or none; active flags follow the current device; closed devices are freed | one client of each kind, 2 devices, 2 numbers: a device per client while the third finds both taken, numbers and handles that are used again, closing the current device and another one |
| `render` | SVG, portable SVG, the calls to cairo and TikZ show the picture R asked for, JSON gives back its clips and calls as far as it writes them, strings and meta list and count them, in all orders of calls and clips, also after a replay at another size | 12 draw calls that differ in kind and in all that renderers tell apart (line types with a sign bit, joins, transparent fills and lines, markup characters, images smaller than their place with each base64 tail, a circle without a radius), 3 of them on a page, 3 clips, 2 sizes with and without background |

Three calls and three clips are the least in which a renderer leaves a clip and
comes back to an equal one, with a call in each; what a call leaves for the
next one shows with two. `SvgPaints` and the other properties compare the marks
of a document with the marks asked for, so they hold a renderer to everything
the model keeps of a call; `CairoPaints` and `TikzPaints` name what the
renderer is known not to show (below). `IInv` says what the page
has to do with what R asked for; the history is not read by any action.

Three plots are the least with an older, a middle and a newest page, and a
history longer than one; two operations the least with an order between them
and a prefix that is neither empty nor complete. One failure is followed by
every sequence of successful operations within the bounds, which is where its
traces would show. The counters `MaxId` and `MaxUpid` of the device's runs play
no part in what its properties say; their wrap is `PageStore`'s subject.

Where a document or comment of the repository says something else than the code
does, a run shows the difference with a counterexample:

| Run | Claim | What happens |
|---|---|---|
| `device_older` | "set target to open page for new draw calls" | after an older page is removed, the target is past the end and drawing is lost |
| `device_negative` | `ugd_remove(page = -1)`, "Is the device replaying" | the history fails, `replaying` stays true |
| `device_other` | "@param which Which device (ID)." | a plot of a device that is not current is cleared, and drawn on the current device |
| `async_stale` | a plot id is stable | index looked up early, unknown ids taken for the newest plot |
| `async_torn` | "All functions are thread-safe" | a client reads the page cleared for a replay |

Smaller differences met while modelling, which need no run to be seen: `append`
leaves `upid` as it is, so that a poll that compares `upid` alone
(vignettes/c00_c_api.Rmd:176) misses new plots, and `PollSound` compares the
number of plots too; offset 0 of a query is the oldest plot and -1 the latest,
where vignettes/c00_c_api.Rmd:136 has "0 = latest, -1 = previous"; a new page is
not announced by `state_change` before something is drawn on it; a rendering
that gives only one of width and height, when the other one is not the page's,
resizes the page to -1; after `dev.off()` the state of the store still says
active, where vignettes/c00_c_api.Rmd:292 has "false after dev.off()"; the R thread blocks in `write` when its own log messages fill the pipe.

Removing a page that does not exist moves the newest index to the page before
(`ugd_remove` then returns `FALSE`, R/unigd.R:324). Two clients get there
without either asking for such a page: both look up their index, and by the
time the second task runs its index is past the end. The device then has a page
whose drawing it will not record; `AlignedInTime` says that clients get
there in no other way. When only one page was left besides, the newest index is
then -1 while a page remains; to render that page at another size,
`plt_prerender` puts the open drawing into the history at -1 (unigd_dev.cpp:570,
plot_history.cpp:45). That is an R error, `replaying` stays true, and the future of
the call is never set: in the model the call is `lost`. `NoneLost` says that, on an open
device, calls are lost in no other way. Without a run: a page appended has an uninitialized fill until the `fill`
call that follows, each under its own lock (unigd_dev.cpp:416, 430).

Of threads and clients: "All API functions are safe to call from any thread"
(vignettes/c00_c_api.Rmd:418), but a call that waits, made on the R thread
(in a `state_change`, say), waits for itself, and `device_attach` and
`device_get` read R's table of devices, without a lock. `start` is "called once
after `device_attach` succeeds" (vignettes/c00_c_api.Rmd:156); it runs inside
`device_attach`, before the handle is returned, so that a thread it launches
has to wait for the handle. The handle is said to be
invalid once `close` has returned (vignettes/c00_c_api.Rmd:160); it is a shared
pointer and stays valid. No way of closing is without a
hazard, which is why the model has three: a Joiner stops R for ever if its
thread is in `api_render`, or waits for an answer that was lost (`JoinWaits`); a Destroyer deletes the handle that its
thread may be about to use (`UsesAlive` is claimed for the others); a Signaller
may be the last holder, so that the device, and with it lists that belong to R,
is released on the client's thread. A rendering whose task runs after the device
was closed may end with an exception on the client's thread, which nothing
catches, or not at all: with another device current, its drawing is put into
the emptied history at index -1, and the R error unwinds the task past its
promise. On an open device a call may be lost in the same way once a removal came
too late, and an exception of `par()`, which `find_minsize` asks for the margins
(unigd_dev.cpp:382), reaches the caller of `api_render` at any time; `Outcomes` has
all of these. On Windows a second copy of
the package, loaded without unloading the first, creates a window of the
first copy's window class, so that its messages go to the first copy's queue
(r_thread_win32.cpp:88 describes this); one copy is modelled.

Of the renderers: the JSON renderer, "All information `unigd` has about a plot"
(vignettes/b00_guide.Rmd:200), writes rectangles without their fill, colours
without alpha, paths without their fill rule and images without their
interpolation (`InJson` says what a reader does not get), and strings as they are, so
that a quote breaks the document; the portable SVG renderer drops the alpha of
the background, so that a transparent background is painted opaque; the cairo
renderer never sets a fill rule, and TikZ neither, so that holes of paths are
filled according to the nonzero rule; cairo's circles have a radius of half a
unit at least (renderer_cairo.cpp:193, `AsDot`); an image of width or height 0 makes
`cairo_scale` (renderer_cairo.cpp:322) leave cairo in an error state, after which nothing
more is painted, and is not among the calls modelled; TikZ leaves images out (a comment says
so), writes the alpha of a line as "fill opacity", turns text to the left only,
and writes control words such as `\textasciicircum` without an end, so that
a letter that follows becomes part of them and a space that follows is not set (`WordsEnd` excludes such texts: it
is a hypothesis of the theorem, and TLC evaluates it for the instance); images
whose corners R gives in the other order are drawn upright, at the wrong place,
because `dev_raster` (unigd_dev.cpp:527) keeps the sizes without their signs (the model has the
corners in order); the
meta renderer writes its keys without quotes. `TY_BLANK` and `TY_SOLID`
(draw_data.h:110) are swapped with respect to `BLANK` and `SOLID`, which is of
no matter where they are used.

The counterexample of `device_older` also bounds what passes: `OwnDrawing` says
that what is on a page is right, and `PagesComplete`, that it is all there, is
claimed while no older page was removed and nothing failed (history variables
`shifted` and `failures`). What `device_negative` shows
leaves the device misaligned, so `device` removes existing pages only
(constant `Removable`) and calls methods of the current device (`Asked`).

Deadlock is checked in the runs of `RThread`, `PageStore`, `AsyncApi` and
`Rendering`. It is not where the system may stop: a device may be closed, after which it does
nothing; in `rthread_win` the bounded number of tasks is used up; in `lifecycle` all
devices have been opened and closed, or R waits for a thread that waits for R
(`JoinWaits`, which is a real deadlock and named in `Freed`). That calls and
devices do not get stuck in these is what `Answered` and `Freed` say.

Fairness (`RThread`). Threads are scheduled, so the steps of a caller are weakly
fair; R code ends, so `BackToLoop` is, and so are the steps of the handler once
it runs. `InputHandler` is strongly fair: R's event loop serves its input
handlers in turn, standard input among them, and a handler whose descriptor
stays readable is called again and again though not at each turn. `Push`,
`Eval` and `IpcClose` are not fair: nobody has to call.

Fairness (`RThreadWin`). Callers as above; tasks end, so `process_tasks` goes
on, and R dispatches its messages, so `WindowCallback` is weakly fair: it is
enabled while a task runs and between operations, and a message that is posted
stays. `Answered` is checked with callbacks nested up to `MaxDepth`.

Fairness (`ClientLifecycle`). A client's thread that can go on does, R leaves the
callback it has begun (`AttachEnd`, `CloseEnd`), and `RunTask` is strongly
fair, since R is busy with other things in between and its event loop comes
back to the queue (which `RThread` shows). Nobody has to open, close, attach or call.

## 4. Proofs

`RThreadProofs` (any sets of threads, any bounds): `Invariance` proves the
inductive invariant `IInv` of `RThread`. Beyond the three safety properties it
needs that exactly one task is held while one runs, that the handler runs only
while the pipe is open, and that a future is ready only while its caller has
not collected it (`RunningOK`, `ReadyOK`). `WakeupSafety`, `OrderSafety` and
`CaptureSafety` follow, and `Refinement` proves that every step of `RThread` is
a step of `SerialExecutor` or a stutter.

`PageStoreProofs` (any sizes, rectangles, draw calls, counts and counter
limits): `Invariance` proves `IInv` of `PageStore`: while ids have not wrapped
the id counter is the number of pages created; `upid` is the `upid` of the last
poll plus the changes since, modulo its range; and while there was none the
plots seen at the poll are still the first ones. `StableIds`, `ClipSafety`,
`PollSafety` and `QuerySafety` follow, the last one from ids that ascend: the
first page with an id is the only one. The lemmas come in three layers: what an operation does to
a page, what it does to the store, and what a step does to the invariant.

`RThreadWinProofs` (any clients, tasks, messages and nesting): `Invariance`
proves typing, order, captures and `NoLostWakeup` together. Order and captures
are each inductive with typing, the order because it says of the whole stack
that only its top may be between two tasks and that inner tasks are younger;
`OrderSafety` and `CaptureSafety` cite them.

`ClientLifecycleProofs` (any clients of the three kinds, any numbers and
devices): `Invariance` proves `IInv`. `UsesAlive`, `CallbacksAgree` and `GetOwn`
speak of moments at which R is idle, or of calls, and are not inductive; what
is: every open device is in the table, once, held by its container, and the
current number is listed (`TableOK`); what R is in the middle of is a device
that is attached to or being closed (`BusyOK`); a handle holds its device,
and client and handle point at each other except in the middle of an
attach or a close (`HandlesOK`); ids are below the counter and distinct
(`IdsOK`); a call is on the device of its client's handle, but for a Destroyer's
(`CallsOK`). Each part is proved by action. `LifetimeSafety`,
`AttachmentSafety`, `OwnClient` and `ActiveSafety` follow from `IInv`.

`UnigdDeviceProofs` (any plots, operations, sizes, margins and failures):
`DeviceIInv` proves `IInv` of `UnigdDevice`, from which `DeviceAligned`,
`DeviceOwnDrawing`, `DevicePagesComplete`, `DeviceSize`, `DeviceLaidOut`,
`DeviceClipHonoured` and `DeviceTold` follow, and `DeviceRefinement` that the
device implements `PlotList`. None of these properties is inductive alone. That
operations keep their clip needs clips that are numbered from 0 and draw calls
that name existing ones (`ClipsNumbered`); that a page shows each operation
once needs that the buffer between two operations of R has only leftovers of
failed ones (`BufferOK`), and that no page is ahead of the drawing it shows
(`EngineOK`: a snapshot may have fewer operations than the display list, never
the other way round); that drawing reaches the right page needs that the target
is the newest page or, once an older page was removed, past the last one
(`TargetOK`); and the size of the device must be one that the margins fit in,
since a new page takes it over. The store may have fewer pages than ids were
given out, never more.

The methods of the device are operators on a record, so the proof is about that
record: `GoodDevice` is `IInv` without what it says of the time before the first
failure, which `Undisturbed` adds, and the lemmas `OfDevice` and `NextDevice`
carry both from the variables to the record and back. The first half of the module has three layers: pages (what a clip, a
clear, a put does to a good page), the store (one page changes, the others
stay) and the device (what each callback and method leaves in every field). A
replay is a recursive function over the operations of a drawing; that it is
well defined, and that it redraws a page up to the operation it gets to, is
proved by induction over the natural numbers, written out with the
well-foundedness of their order (`SetInduction`), because the library's own
induction theorem takes an operator. The second half has one lemma per method (`RenderGood`,
`RemoveGood`, ...) and one per action (`RenderStep`, ...).

The theorems assume `OrdinaryUse`, three facts about how the device is used that
the code does not enforce: existing pages are removed, methods are called while
the device is R's current one, and the device is opened at a size in which the
margins fit. The first two are what `device_negative` and `device_other`
show to be needed, by their counterexamples. Without the third the first page
is laid out for a device that is smaller than `find_minsize` says, until a
rendering resizes it. Nothing is assumed of what is drawn, how often and where
operations and replays fail, or which plots are removed.

The last part of `UnigdDeviceProofs` is about `AsyncApi` (any threads, plots,
operations and sizes), with two invariants, because a removal that comes too late takes the device out of `IInv` and the
calls go on. `CallsInv` is about the calls and needs next to nothing of the
device: its fields have the right form (`Shaped`), and each operator, in
whatever state, keeps the ids of the pages it finds, in their order, unless it removes
something (`Keeps`, `Grows`, `Stays`, and `Resizes` for `plt_prerender`, which
changes the size of one page and no other). Then the index of a call that no removal
has disturbed is that of its plot, up to the end, and while the R thread is
in `plt_prerender` for a task (`BlankOK`) the call it is for still waits, for that page and
that size. `AsyncRightPlot` and `AsyncRenderedSize` follow, whatever R removes
or clears, however the device was left, and without `OrdinaryUse`.

`InTimeInv` says that as long as no removal has come too late the device is as the
device's own proof has it (`GoodDevice`, open and current), in the middle of a
`plt_prerender` but for the page that was cleared: the device with some store *s* is good,
and the store is *s* resized. `resize` after `resize` changes nothing
(`ResizeTwice`), so the rest of `plt_prerender` does what it would have done from
*s*, and the lemmas on the methods apply. `AsyncAlignedInTime` follows, with
`OrdinaryUse`. A rendering is lost only in a `plt_prerender` that finds the newest
index negative, a removal only where the history fails; a good device has
neither for a page that exists, which is `AsyncNoneLost`.

`RenderingProofs` and `CairoTikZProofs` (any calls, clips, sizes, colours, line
types, paths, texts and images, however many) are about what the renderers make
of a page. `RenderingIInv` proves `IInv`: the clips of a page are numbered from
0 and are, one by one, the boxes that R clipped to, each held in the only way
`dev_clip` has for it, so that boxes that differ are clips that differ; every draw call is one that R's
calls make and names an existing clip; and draw calls, in order, are the calls
R made, each with the box R had clipped to. From it each property is a statement
about one page:

* `ListingsAlwaysTell`: the clips of the JSON document are the boxes R clipped
  to, its calls are of the kinds R called and make the marks that the call makes once what JSON
  leaves out is set to a default (`InJson`); the lines of the strings are the texts; the numbers
  of meta are those of the calls and of the boxes.
* `SvgAlwaysPaints`, `PortableAlwaysPaints`: a shape is read back from its element
  as it was asked for (`NormalizeRect` and `BoxOf` agree, a path is traced point
  by point, base64 with its tails is the bytes it was made of, an enlarged
  image looks like the small one); what the element does not say has, from the
  style sheet or as an initial value, what R asked for; a text is unescaped to itself;
  the groups hold each draw call once, in order, in its own clip; names of
  clips differ, also from those of another document on the same page.
* `CairoAlwaysPaints`: what each call to cairo does to its state (the path,
  the stack of saved states, the current one). Between two draw calls nothing is
  saved, coordinates are as they are, the clip is the one of the last draw call, and whatever
  is left of a path is dropped (`Ready`); from such a state the calls of each draw call paint its marks and lead
  to such a state (`Shows`); then the loop of `render_page`, with its change of clips, does (`Walked`).
* `TikzAlwaysPaints`: `Sketch` is what TikZ shows of a list of marks. TeX reads
  a document token by token; between two draw calls one scope is open, clipped to one box (`InScope`),
  or none (`Outside`), and no comment is. A visit leaves it so and adds what the call asked for
  (`VisitTells`), and so does the loop with its scopes (`Sketched`). The theorem has
  the hypothesis `WordsEnd`: neither a letter nor a space follows a character that is written as
  a control word. Without it the property is false, as said in section 3.

The renderers are folds over draw calls, options and characters. The library's
induction theorems and fold theorems take an operator, so `SequenceLemmas`
has the step of a fold as a constant operator and proves, by induction over a
set of numbers, that folding a sequence with one more element is one more
step and that folds compose; it is instantiated once for each step (`Painting`,
`Running`, `Calling`, ...).

With these, every invariant and action property that a passing run checks is
also a theorem.

Assumptions are the named ones of the modules: `AsyncApi` assumes that the R
thread is not called like a client (`AsyncAssumption`), `PageStore` assumes that plot
ids do not wrap (`MaxAppends <= MaxId + 1`) and that a client polls before
`upid` has gone through all its values (a guard of `Becomes`); a client that
sleeps through 2^31 changes is outside the model. `Rendering` assumes of R what
`RenderingAssumption` says: a blank line has a transparent colour, a path has no
subpath of less than two points, text comes line by line, images have
their corners in order and are of some width and height, sizes and radiuses are not negative, and an image has
as many pixels as its size says; and of libpng that it writes bytes
(`ImageAssumption`).

Only model-checked: liveness (`Answered`, `EveryTaskRuns`, `Freed`) and the
liveness part of the refinement, because fairness and ENABLED are out of the
prover's reach.

## 5. Not modelled, and what remains

The repository counts about 24,000 lines of implementation, of which some 17,300
are vendored (`inst/include/fmt`, `lib/compat/optional.hpp`) and no part of
unigd's logic. Of the 6,600 lines of its own the modules stand for about
3,100. The rest is:

* declarations: headers of classes, the table of C API functions, the
  registration code that cpp11 generates;
* the wiring of `generic_dev.h`: one lambda per callback that calls the virtual
  method of the same name, defaults that do nothing, capability constants;
* glue to libraries: cairo's targets (PNG, PDF, PS, EPS, TIFF), zlib, libpng,
  systemfonts and textshaping (fonts and metrics), random numbers of uuids, and
  the text syntax written through fmt;
* the registry of renderers, a constant table, and the results of the C API,
  copies that the client frees;
* argument checks and data frames in R and `unigd.cpp`.

Within the modelled parts: the fill of pages and `extra_css` in `PageStore` and
`AsyncApi` (a client that reads a page between its append and its fill gets an
uninitialized colour); renderings that give one of width and height; a
rendering nested in the replay of another one on Windows; an exception of
`par()` in the middle of a replay; two threads that register ids at once.

What a next step would take up: the composition of `RThreadWin` with
`UnigdDevice`, to see what nested renderings do to pages; line widths and fonts in the
renderers.
