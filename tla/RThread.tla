------------------------------ MODULE RThread ------------------------------
(***************************************************************************)
(* The work queue that carries tasks to the R main thread                  *)
(* (async_utils.h, r_thread.h, r_thread_posix.cpp).                        *)
(*                                                                         *)
(* R is single threaded: a background thread that needs the graphics       *)
(* engine wraps its work in a task, pushes the task on a mutex protected   *)
(* queue, writes one byte to a pipe and, for all calls but api_log, blocks *)
(* on the future of the task.  The R event loop sees the pipe readable,    *)
(* calls input_handler, which reads up to ReadMax bytes and then runs      *)
(* tasks until the queue is empty.  Pushing and writing are two steps, and *)
(* so are reading, popping and running: every interleaving is a behaviour. *)
(***************************************************************************)
EXTENDS Integers, Sequences, FiniteSets

CONSTANTS Client,     \* the background threads of graphics clients
          R,          \* the R main thread
          ReadMax,    \* UNIGD_PIPE_BUFFER_SIZE: bytes one read takes at most
          PipeCap,    \* bytes the kernel holds in the pipe before write blocks
          RCalls,     \* the kinds of API calls made by code on the R thread itself
          MaxTasks    \* bound: number of tasks issued in a behaviour

ASSUME RThreadAssumption ==
    /\ R \notin Client
    /\ ReadMax \in Nat \ {0}
    /\ PipeCap \in Nat \ {0}
    /\ RCalls \subseteq {"call", "log"}
    /\ MaxTasks \in Nat

Thread == Client \cup {R}

(* "call": api_render, api_remove, api_clear, which wait for the future.   *)
(* "log":  api_log, which drops it.                                        *)
Kind == {"call", "log"}
Task == [owner : Thread, kind : Kind]

VARIABLES queue,     \* work_queue
          pipe,      \* bytes written to message_fd[1] and not read yet
          open,      \* between ipc_open and ipc_close
          pc,        \* pc[t]: where thread t is in r_thread(task).get()
          doing,     \* doing[t]: the kind of call t is in, or was in last
          ready,     \* threads whose pending future has its value
          rpc,       \* what the R thread is doing
          running,   \* <<>>, or the one task process_tasks is running
          issued,    \* history: the tasks pushed, in the order of the pushes
          executed   \* history: the tasks run to their end, in that order

vars == <<queue, pipe, open, pc, doing, ready, rpc, running, issued, executed>>

TypeOK ==
    /\ queue \in Seq(Task)
    /\ pipe \in Nat
    /\ open \in BOOLEAN
    /\ pc \in [Thread -> {"idle", "notify", "wait"}]
    /\ doing \in [Thread -> Kind]
    /\ ready \in SUBSET Thread
    /\ rpc \in {"eval", "loop", "drain", "run"}
    /\ running \in Seq(Task)
    /\ issued \in Seq(Task)
    /\ executed \in Seq(Task)

Init ==
    /\ queue = <<>>
    /\ pipe = 0
    /\ open = TRUE
    /\ pc = [t \in Thread |-> "idle"]
    /\ doing = [t \in Thread |-> "log"]
    /\ ready = {}
    /\ rpc = "loop"
    /\ running = <<>>
    /\ issued = <<>>
    /\ executed = <<>>

----------------------------------------------------------------------------
(* The calling side, on any thread.                                        *)

(* Code on the R thread can call the API while R evaluates (a client's     *)
(* state_change callback during a drawing call) or while a task runs (the  *)
(* same callback at the end of plt_remove); a background thread always can.*)
MayCall(t, k) ==
    t = R => k \in RCalls /\ rpc \in {"eval", "run"}

(* work_queue.push under the queue's mutex.                                *)
Push(t, k) ==
    /\ pc[t] = "idle"
    /\ MayCall(t, k)
    /\ Len(issued) < MaxTasks
    /\ LET task == [owner |-> t, kind |-> k] IN
         /\ queue' = Append(queue, task)
         /\ issued' = Append(issued, task)
    /\ pc' = [pc EXCEPT ![t] = "notify"]
    /\ doing' = [doing EXCEPT ![t] = k]
    /\ UNCHANGED <<pipe, open, ready, rpc, running, executed>>

(* Mutants of the next action: the call does not wait for the future; the  *)
(* push is not followed by a byte.                                         *)
NotifyWork_NoWait(t) ==
    /\ pc[t] = "notify"
    /\ open => pipe < PipeCap
    /\ pipe' = IF open THEN pipe + 1 ELSE pipe
    /\ pc' = [pc EXCEPT ![t] = "idle"]
    /\ UNCHANGED <<queue, open, doing, ready, rpc, running, issued, executed>>

NotifyWork_NoByte(t) ==
    /\ pc[t] = "notify"
    /\ pc' = [pc EXCEPT ![t] = IF doing[t] = "call" THEN "wait" ELSE "idle"]
    /\ UNCHANGED <<queue, pipe, open, doing, ready, rpc, running, issued, executed>>

(* notify_work: write blocks while the pipe is full, and fails with a      *)
(* message once the pipe is closed.  A call then waits for its future, a   *)
(* log message is done.                                                    *)
NotifyWork(t) ==
    /\ pc[t] = "notify"
    /\ open => pipe < PipeCap
    /\ pipe' = IF open THEN pipe + 1 ELSE pipe
    /\ pc' = [pc EXCEPT ![t] = IF doing[t] = "call" THEN "wait" ELSE "idle"]
    /\ UNCHANGED <<queue, open, doing, ready, rpc, running, issued, executed>>

(* future.get() returns once the task has set the value.                   *)
GetResult(t) ==
    /\ pc[t] = "wait"
    /\ t \in ready
    /\ ready' = ready \ {t}
    /\ pc' = [pc EXCEPT ![t] = "idle"]
    /\ UNCHANGED <<queue, pipe, open, doing, rpc, running, issued, executed>>

----------------------------------------------------------------------------
(* The R thread.  It takes no step of its own inside an API call.          *)

RFree == pc[R] = "idle"

(* The user's code starts; no input handler runs until it ends.            *)
Eval ==
    /\ rpc = "loop"
    /\ rpc' = "eval"
    /\ UNCHANGED <<queue, pipe, open, pc, doing, ready, running, issued, executed>>

(* The user's code ends, or itself polls the input handlers (Sys.sleep).   *)
BackToLoop ==
    /\ rpc = "eval"
    /\ RFree
    /\ rpc' = "loop"
    /\ UNCHANGED <<queue, pipe, open, pc, doing, ready, running, issued, executed>>

(* input_handler starts because the pipe is readable: empty_pipe.          *)
InputHandler ==
    /\ rpc = "loop"
    /\ open
    /\ pipe > 0
    /\ pipe' = IF pipe > ReadMax THEN pipe - ReadMax ELSE 0
    /\ rpc' = "drain"
    /\ UNCHANGED <<queue, open, pc, doing, ready, running, issued, executed>>

(* Mutant of the next action: the newest task is taken first.              *)
TryPop_Newest ==
    /\ rpc = "drain"
    /\ queue # <<>>
    /\ running' = <<queue[Len(queue)]>>
    /\ queue' = SubSeq(queue, 1, Len(queue) - 1)
    /\ rpc' = "run"
    /\ UNCHANGED <<pipe, open, pc, doing, ready, issued, executed>>

(* process_tasks: work_queue.try_pop found a task, its call begins.        *)
TryPop ==
    /\ rpc = "drain"
    /\ queue # <<>>
    /\ running' = <<Head(queue)>>
    /\ queue' = Tail(queue)
    /\ rpc' = "run"
    /\ UNCHANGED <<pipe, open, pc, doing, ready, issued, executed>>

(* process_tasks: the queue was empty, the handler returns.                *)
HandlerReturns ==
    /\ rpc = "drain"
    /\ queue = <<>>
    /\ rpc' = "loop"
    /\ UNCHANGED <<queue, pipe, open, pc, doing, ready, running, issued, executed>>

(* Mutant of the next action: the handler runs one task per wakeup.        *)
TaskDone_OnePerWakeup ==
    /\ rpc = "run"
    /\ RFree
    /\ executed' = Append(executed, Head(running))
    /\ ready' = IF Head(running).kind = "call"
                THEN ready \cup {Head(running).owner} ELSE ready
    /\ running' = <<>>
    /\ rpc' = "loop"
    /\ UNCHANGED <<queue, pipe, open, pc, doing, issued>>

(* task.call() returns: packaged_task stores the result, or the exception  *)
(* the work threw, in the future of the caller.                            *)
TaskDone ==
    /\ rpc = "run"
    /\ RFree
    /\ executed' = Append(executed, Head(running))
    /\ ready' = IF Head(running).kind = "call"
                THEN ready \cup {Head(running).owner} ELSE ready
    /\ running' = <<>>
    /\ rpc' = "drain"
    /\ UNCHANGED <<queue, pipe, open, pc, doing, issued>>

(* .onUnload calls ipc_close: the handler is removed, the pipe closed.     *)
IpcClose ==
    /\ rpc = "eval"
    /\ RFree
    /\ open
    /\ open' = FALSE
    /\ pipe' = 0
    /\ UNCHANGED <<queue, pc, doing, ready, rpc, running, issued, executed>>

----------------------------------------------------------------------------
Caller(t) == NotifyWork(t) \/ GetResult(t)
RSide == InputHandler \/ TryPop \/ HandlerReturns \/ TaskDone \/ BackToLoop

Next ==
    \/ \E t \in Thread : (\E k \in Kind : Push(t, k)) \/ Caller(t)
    \/ RSide
    \/ Eval
    \/ IpcClose

(* The operating system runs every thread that can run; R code ends; R's   *)
(* event loop, which may prefer other input, eventually serves the pipe.   *)
Fairness ==
    /\ \A t \in Thread : WF_vars(NotifyWork(t)) /\ WF_vars(GetResult(t))
    /\ WF_vars(TryPop) /\ WF_vars(HandlerReturns)
    /\ WF_vars(TaskDone) /\ WF_vars(BackToLoop)
    /\ SF_vars(InputHandler)

Spec == Init /\ [][Next]_vars
FairSpec == Spec /\ Fairness

----------------------------------------------------------------------------
(* Properties *)

(* While the pipe is open a queued task is never forgotten: a byte waits   *)
(* in the pipe, or its pusher is about to write one, or the handler has    *)
(* not seen the queue empty yet.  One read takes up to ReadMax bytes at    *)
(* once, so this rests on process_tasks running until the queue is empty.  *)
NoLostWakeup ==
    open /\ queue # <<>> =>
        \/ pipe > 0
        \/ \E t \in Thread : pc[t] = "notify"
        \/ rpc \in {"drain", "run"}

(* Every task pushed is run at most once, in the order of the pushes, and  *)
(* none disappears: what was issued is what was executed, then the task    *)
(* that runs, then the queue.                                              *)
QueueConserved == issued = executed \o running \o queue

(* The lambdas of api_remove, api_clear and api_render capture the         *)
(* caller's stack by reference: as long as such a task is queued or runs,  *)
(* its owner must still be inside that very call.                          *)
Pending == running \o queue
CapturesAlive ==
    \A i \in 1..Len(Pending) :
        Pending[i].kind = "call" =>
            LET t == Pending[i].owner IN
              /\ pc[t] \in {"notify", "wait"}
              /\ doing[t] = "call"
              /\ t \notin ready
              /\ \A j \in 1..Len(Pending) :
                   Pending[j].owner = t /\ Pending[j].kind = "call" => j = i

(* The inductive invariant behind the three: process_tasks holds one task  *)
(* exactly while it runs one, the handler only ever runs while the pipe is *)
(* open, and a future is ready only while its caller has not collected it. *)
RunningOK ==
    /\ IF rpc = "run" THEN Len(running) = 1 ELSE running = <<>>
    /\ rpc \in {"drain", "run"} => open
ReadyOK == \A t \in ready : pc[t] \in {"notify", "wait"} /\ doing[t] = "call"

IInv ==
    /\ TypeOK
    /\ RunningOK
    /\ ReadyOK
    /\ NoLostWakeup
    /\ QueueConserved
    /\ CapturesAlive

(* A background thread that waits for the R thread gets its answer, unless *)
(* the package is unloaded meanwhile.                                      *)
Answered == \A t \in Client : pc[t] = "wait" ~> (pc[t] = "idle" \/ ~open)

(* Every task issued, log messages included, is run unless the package is  *)
(* unloaded meanwhile.                                                     *)
EveryTaskRuns ==
    \A n \in 1..MaxTasks : Len(issued) >= n ~> (Len(executed) >= n \/ ~open)

(* The queue, the pipe and the R event loop together implement a serial    *)
(* executor: its list of unfinished tasks is the running one and the       *)
(* queue, and waking the R thread up is invisible.                         *)
InCall == {t \in Thread : pc[t] # "idle" /\ doing[t] = "call"}
Serial == INSTANCE SerialExecutor
              WITH todo <- Pending, busy <- InCall, answered <- ready, stopped <- ~open
ImplementsSerial == Serial!FairSpec
=============================================================================
