----------------------------- MODULE RThreadWin -----------------------------
(***************************************************************************)
(* The work queue on Windows (r_thread_win32.cpp).  A task is announced by *)
(* a message posted to a message-only window; R dispatches messages in its *)
(* event loop, and also whenever R code that it evaluates checks for user  *)
(* interrupts.  A task evaluates R code (par, the replay of a drawing):    *)
(* the window callback may be entered again while a task runs, and its     *)
(* process_tasks then runs tasks inside that task.  So where RThread has   *)
(* one running task, there is a stack of them.                             *)
(*                                                                         *)
(* Tasks are numbered in the order in which they are pushed.               *)
(***************************************************************************)
EXTENDS Integers, Sequences

CONSTANTS Client,     \* the background threads of graphics clients
          PostMax,    \* messages the thread's queue holds, more are lost
          MaxDepth,   \* bound: process_tasks inside one another
          MaxTasks    \* bound: number of tasks issued in a behaviour

ASSUME WinAssumption ==
    /\ PostMax \in Nat \ {0}
    /\ MaxDepth \in Nat \ {0}
    /\ MaxTasks \in Nat

VARIABLES owners,    \* owners[k]: the thread that pushed task k
          queue,     \* work_queue: numbers of tasks
          posted,    \* messages posted to message_hwind and not dispatched
          window,    \* ipc_initialized: message_hwind exists
          pc,        \* pc[t]: where client thread t is in r_thread(task).get()
          frames,    \* process_tasks on R's stack: a task, or Drain between two
          finished   \* history: tasks run to their end

vars == <<owners, queue, posted, window, pc, frames, finished>>

Drain == 0
Task == 1..MaxTasks

Init ==
    /\ owners = <<>>
    /\ queue = <<>>
    /\ posted = 0
    /\ window = TRUE
    /\ pc = [t \in Client |-> "idle"]
    /\ frames = <<>>
    /\ finished = {}

----------------------------------------------------------------------------
(* Client threads.                                                         *)

(* r_thread_impl: work_queue.push.                                         *)
Push(t) ==
    /\ pc[t] = "idle"
    /\ Len(owners) < MaxTasks
    /\ owners' = Append(owners, t)
    /\ queue' = Append(queue, Len(owners'))
    /\ pc' = [pc EXCEPT ![t] = "notify"]
    /\ UNCHANGED <<posted, window, frames, finished>>

(* Mutant of the next definition: the call does not wait for its future.   *)
Notify_NoWait(t) ==
    /\ pc[t] = "notify"
    /\ posted' = IF window /\ posted < PostMax THEN posted + 1 ELSE posted
    /\ pc' = [pc EXCEPT ![t] = "idle"]
    /\ UNCHANGED <<owners, queue, window, frames, finished>>

(* notify: PostMessage does not wait.  It fails, which nobody notices,     *)
(* when the window is gone or the thread has too many messages.            *)
Notify(t) ==
    /\ pc[t] = "notify"
    /\ posted' = IF window /\ posted < PostMax THEN posted + 1 ELSE posted
    /\ pc' = [pc EXCEPT ![t] = "wait"]
    /\ UNCHANGED <<owners, queue, window, frames, finished>>

(* future.get() *)
GetResult(t) ==
    /\ pc[t] = "wait"
    /\ \A k \in 1..Len(owners) : owners[k] = t => k \in finished
    /\ pc' = [pc EXCEPT ![t] = "idle"]
    /\ UNCHANGED <<owners, queue, posted, window, frames, finished>>

----------------------------------------------------------------------------
(* The R thread.                                                           *)

Top == frames[Len(frames)]
Drains == frames # <<>> /\ Top = Drain
SetTop(k) == [frames EXCEPT ![Len(frames)] = k]

(* window_callback: R dispatches a message between two operations or from  *)
(* inside a task.                                                          *)
WindowCallback ==
    /\ window /\ posted > 0
    /\ ~Drains /\ Len(frames) < MaxDepth
    /\ posted' = posted - 1
    /\ frames' = Append(frames, Drain)
    /\ UNCHANGED <<owners, queue, window, pc, finished>>

(* Mutant of the next definition: the task is copied, not taken.           *)
TryPop_Copy ==
    /\ Drains
    /\ queue # <<>>
    /\ frames' = SetTop(Head(queue))
    /\ UNCHANGED <<owners, queue, posted, window, pc, finished>>

(* process_tasks: try_pop finds a task, its call begins.                   *)
TryPop ==
    /\ Drains
    /\ queue # <<>>
    /\ frames' = SetTop(Head(queue))
    /\ queue' = Tail(queue)
    /\ UNCHANGED <<owners, posted, window, pc, finished>>

(* Mutant of the next definition: one task per message.                    *)
TaskDone_OnePerMessage ==
    /\ frames # <<>> /\ Top # Drain
    /\ finished' = finished \cup {Top}
    /\ frames' = SubSeq(frames, 1, Len(frames) - 1)
    /\ UNCHANGED <<owners, queue, posted, window, pc>>

(* task.call() returns, the future has its value.                          *)
TaskDone ==
    /\ frames # <<>> /\ Top # Drain
    /\ finished' = finished \cup {Top}
    /\ frames' = SetTop(Drain)
    /\ UNCHANGED <<owners, queue, posted, window, pc>>

(* process_tasks: the queue is empty, the callback returns.                *)
CallbackReturns ==
    /\ Drains
    /\ queue = <<>>
    /\ frames' = SubSeq(frames, 1, Len(frames) - 1)
    /\ UNCHANGED <<owners, queue, posted, window, pc, finished>>

(* ipc_close, as the package is unloaded: the window's messages go too.    *)
IpcClose ==
    /\ window /\ frames = <<>>
    /\ window' = FALSE
    /\ posted' = 0
    /\ UNCHANGED <<owners, queue, pc, frames, finished>>

----------------------------------------------------------------------------
RSide == WindowCallback \/ TryPop \/ TaskDone \/ CallbackReturns

Next ==
    \/ \E t \in Client : Push(t) \/ Notify(t) \/ GetResult(t)
    \/ RSide
    \/ IpcClose

(* Threads that can run do, tasks end, R dispatches its messages.          *)
Fairness ==
    /\ \A t \in Client : WF_vars(Notify(t)) /\ WF_vars(GetResult(t))
    /\ WF_vars(TryPop \/ TaskDone \/ CallbackReturns)
    /\ WF_vars(WindowCallback)

Spec == Init /\ [][Next]_vars
FairSpec == Spec /\ Fairness

----------------------------------------------------------------------------
(* Properties *)

Issued == 1..Len(owners)
Begun == {frames[i] : i \in 1..Len(frames)} \ {Drain}

TypeOK ==
    /\ owners \in Seq(Client) /\ Len(owners) <= MaxTasks
    /\ queue \in Seq(Task)
    /\ posted \in 0..PostMax
    /\ window \in BOOLEAN
    /\ pc \in [Client -> {"idle", "notify", "wait"}]
    /\ frames \in Seq(Task \cup {Drain})
    /\ finished \in SUBSET Task

(* Tasks begin in the order in which they were pushed, each one once,      *)
(* however deep they are nested: the queue holds the last ones pushed, and *)
(* each of the others is on the stack once or has ended.  Inner tasks were *)
(* pushed after outer ones.                                                *)
BeginInOrder ==
    LET begun == Len(owners) - Len(queue) IN
    /\ queue = [i \in 1..Len(queue) |-> begun + i]
    /\ Begun \cup finished = 1..begun /\ Begun \cap finished = {}
    /\ \A i, j \in 1..Len(frames) :
         i < j => frames[i] # Drain /\ (frames[j] # Drain => frames[i] < frames[j])

(* The lambda of a task captures its caller's stack: the caller is still   *)
(* in that call while the task is queued or on R's stack, and no two tasks *)
(* of one caller are.                                                      *)
CapturesAlive ==
    \A k \in Issued \ finished :
        /\ pc[owners[k]] \in {"notify", "wait"}
        /\ \A l \in Issued \ finished : owners[l] = owners[k] => l = k

(* While the window exists a queued task is announced or about to be, or   *)
(* the callback is on R's stack and has not seen the queue empty: messages *)
(* that are lost because there are too many do no harm.                    *)
NoLostWakeup ==
    window /\ queue # <<>> =>
        posted > 0 \/ frames # <<>> \/ \E t \in Client : pc[t] = "notify"

IInv == TypeOK /\ BeginInOrder /\ CapturesAlive /\ NoLostWakeup

(* Every call returns unless the package is unloaded, although the task of *)
(* a call may have to wait for tasks that run inside it.                   *)
Answered == \A t \in Client : pc[t] = "wait" ~> (pc[t] = "idle" \/ ~window)
=============================================================================
