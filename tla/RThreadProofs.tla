--------------------------- MODULE RThreadProofs ---------------------------
(* Safety of the R thread work queue, for any number of client threads,    *)
(* any pipe and read size, and any mix of calls on the R thread itself.    *)
EXTENDS RThread, SequenceTheorems, TLAPS

(* Taking the head of a queue into the empty slot keeps the concatenation. *)
LEMMA PopKeepsPending ==
    ASSUME NEW S, NEW q \in Seq(S), q # <<>>
    PROVE  /\ Head(q) \in S
           /\ <<Head(q)>> \in Seq(S)
           /\ Tail(q) \in Seq(S)
           /\ <<>> \o q = q
           /\ <<Head(q)>> \o Tail(q) = q
  OBVIOUS

(* Appending to the right operand of a concatenation appends to the whole. *)
LEMMA ConcatAppend ==
    ASSUME NEW S, NEW p \in Seq(S), NEW q \in Seq(S), NEW x \in S
    PROVE  p \o Append(q, x) = Append(p \o q, x)
  <1>1. p \o q \in Seq(S) /\ <<x>> \in Seq(S)
    BY ConcatProperties
  <1>2. Append(q, x) = q \o <<x>> /\ Append(p \o q, x) = (p \o q) \o <<x>>
    BY <1>1, AppendIsConcat
  <1> QED
    BY <1>1, <1>2, ConcatAssociative

(* A task that moves from the queue to the empty running slot stays in     *)
(* place.                                                                  *)
LEMMA PopKeepsOrder ==
    ASSUME NEW S, NEW p \in Seq(S), NEW q \in Seq(S), q # <<>>
    PROVE  (p \o <<Head(q)>>) \o Tail(q) = (p \o <<>>) \o q
  <1>1. /\ <<Head(q)>> \in Seq(S) /\ Tail(q) \in Seq(S)
        /\ <<Head(q)>> \o Tail(q) = q
    BY PopKeepsPending
  <1>2. (p \o <<Head(q)>>) \o Tail(q) = p \o (<<Head(q)>> \o Tail(q))
    BY <1>1, ConcatAssociative
  <1>3. p \o <<>> = p
    BY ConcatEmptySeq
  <1> QED
    BY <1>1, <1>2, <1>3

(* A task that moves from the running slot to the history stays in place.  *)
LEMMA DoneKeepsOrder ==
    ASSUME NEW S, NEW p \in Seq(S), NEW q \in Seq(S), NEW x \in S
    PROVE  (Append(p, x) \o <<>>) \o q = (p \o <<x>>) \o q
  <1>1. Append(p, x) = p \o <<x>> /\ p \o <<x>> \in Seq(S)
    BY AppendIsConcat, ConcatProperties
  <1> QED
    BY <1>1, ConcatEmptySeq

(* A sequence of length one is its head.                                   *)
LEMMA Singleton ==
    ASSUME NEW S, NEW r \in Seq(S), Len(r) = 1
    PROVE  r = <<Head(r)>> /\ Head(r) \in S
  OBVIOUS

(* Head and tail of a sequence built by putting one element in front.      *)
LEMMA ConsHeadTail ==
    ASSUME NEW S, NEW x \in S, NEW q \in Seq(S)
    PROVE  /\ <<x>> \o q # <<>>
           /\ Head(<<x>> \o q) = x
           /\ Tail(<<x>> \o q) = q
  OBVIOUS

----------------------------------------------------------------------------
(* What process_tasks holds, for the steps that change it.                 *)

(* The state is well typed and process_tasks holds a task exactly while it *)
(* runs one.                                                               *)
Base == TypeOK /\ RunningOK

LEMMA InitBase == Init => Base
  BY DEF Init, Base, TypeOK, RunningOK, Kind

LEMMA NextBase == Base /\ [Next]_vars => Base'
  <1> SUFFICES ASSUME Base, [Next]_vars PROVE Base'
    OBVIOUS
  <1> USE DEF Base, TypeOK, RunningOK
  <1>1. ASSUME NEW t \in Thread, NEW k \in Kind, Push(t, k)
        PROVE  Base'
    <2>1. [owner |-> t, kind |-> k] \in Task
      BY DEF Task
    <2> QED
      BY <1>1, <2>1 DEF Push
  <1>2. ASSUME NEW t \in Thread, NotifyWork(t)
        PROVE  Base'
    BY <1>2 DEF NotifyWork
  <1>3. ASSUME NEW t \in Thread, GetResult(t)
        PROVE  Base'
    BY <1>3 DEF GetResult
  <1>4. CASE InputHandler
    BY <1>4, RThreadAssumption DEF InputHandler
  <1>5. CASE TryPop
    <2>1. <<Head(queue)>> \in Seq(Task) /\ Tail(queue) \in Seq(Task)
      BY <1>5, PopKeepsPending DEF TryPop
    <2>2. Len(<<Head(queue)>>) = 1
      OBVIOUS
    <2> QED
      BY <1>5, <2>1, <2>2 DEF TryPop
  <1>6. CASE HandlerReturns
    BY <1>6 DEF HandlerReturns
  <1>7. CASE TaskDone
    <2>1. Head(running) \in Task
      BY <1>7, Singleton DEF TaskDone
    <2>2. Head(running).owner \in Thread /\ Append(executed, Head(running)) \in Seq(Task)
      BY <2>1, AppendProperties DEF Task
    <2> QED
      BY <1>7, <2>2 DEF TaskDone
  <1>8. CASE BackToLoop
    BY <1>8 DEF BackToLoop
  <1>9. CASE Eval
    BY <1>9 DEF Eval
  <1>10. CASE IpcClose
    BY <1>10 DEF IpcClose
  <1>11. CASE UNCHANGED vars
    BY <1>11 DEF vars
  <1> QED
    BY <1>1, <1>2, <1>3, <1>4, <1>5, <1>6, <1>7, <1>8, <1>9, <1>10, <1>11
    DEF Next, Caller, RSide

----------------------------------------------------------------------------
(* No wakeup is lost.                                                      *)

LEMMA NextNoLostWakeup == Base /\ NoLostWakeup /\ [Next]_vars => NoLostWakeup'
  <1> SUFFICES ASSUME Base, NoLostWakeup, [Next]_vars PROVE NoLostWakeup'
    OBVIOUS
  <1> USE DEF Base, TypeOK, NoLostWakeup
  <1>1. ASSUME NEW t \in Thread, NEW k \in Kind, Push(t, k)
        PROVE  NoLostWakeup'
    BY <1>1 DEF Push
  <1>2. ASSUME NEW t \in Thread, NotifyWork(t)
        PROVE  NoLostWakeup'
    BY <1>2 DEF NotifyWork
  <1>3. ASSUME NEW t \in Thread, GetResult(t)
        PROVE  NoLostWakeup'
    BY <1>3 DEF GetResult
  <1>4. CASE InputHandler
    BY <1>4 DEF InputHandler
  <1>5. CASE TryPop
    BY <1>5 DEF TryPop
  <1>6. CASE HandlerReturns
    BY <1>6 DEF HandlerReturns
  <1>7. CASE TaskDone
    BY <1>7 DEF TaskDone
  <1>8. CASE BackToLoop
    BY <1>8 DEF BackToLoop
  <1>9. CASE Eval
    BY <1>9 DEF Eval
  <1>10. CASE IpcClose
    BY <1>10 DEF IpcClose
  <1>11. CASE UNCHANGED vars
    BY <1>11 DEF vars
  <1> QED
    BY <1>1, <1>2, <1>3, <1>4, <1>5, <1>6, <1>7, <1>8, <1>9, <1>10, <1>11
    DEF Next, Caller, RSide

----------------------------------------------------------------------------
(* Nothing is lost, run twice or run out of order.                         *)

LEMMA NextQueueConserved == Base /\ QueueConserved /\ [Next]_vars => QueueConserved'
  <1> SUFFICES ASSUME Base, QueueConserved, [Next]_vars PROVE QueueConserved'
    OBVIOUS
  <1> USE DEF Base, TypeOK, RunningOK, QueueConserved
  <1>1. ASSUME NEW t \in Thread, NEW k \in Kind, Push(t, k)
        PROVE  QueueConserved'
    <2> DEFINE task == [owner |-> t, kind |-> k]
    <2>1. task \in Task
      BY DEF Task
    <2>2. executed \o running \in Seq(Task)
      BY ConcatProperties
    <2>3. (executed \o running) \o Append(queue, task)
            = Append((executed \o running) \o queue, task)
      BY <2>1, <2>2, ConcatAppend
    <2>4. /\ queue' = Append(queue, task) /\ issued' = Append(issued, task)
          /\ UNCHANGED <<running, executed>>
      BY <1>1 DEF Push
    <2>5. issued = (executed \o running) \o queue
      BY DEF QueueConserved
    <2> HIDE DEF task
    <2> QED
      BY <2>3, <2>4, <2>5
  <1>2. CASE TryPop
    <2>1. running = <<>> /\ running' = <<Head(queue)>> /\ queue' = Tail(queue)
      BY <1>2 DEF TryPop
    <2>2. (executed \o <<Head(queue)>>) \o Tail(queue) = (executed \o <<>>) \o queue
      BY <1>2, PopKeepsOrder DEF TryPop
    <2>3. UNCHANGED <<issued, executed>>
      BY <1>2 DEF TryPop
    <2> QED
      BY <2>1, <2>2, <2>3
  <1>3. CASE TaskDone
    <2>1. running = <<Head(running)>> /\ Head(running) \in Task
      BY <1>3, Singleton DEF TaskDone
    <2>2. /\ executed' = Append(executed, Head(running))
          /\ running' = <<>>
          /\ UNCHANGED <<queue, issued>>
      BY <1>3 DEF TaskDone
    <2>3. (Append(executed, Head(running)) \o <<>>) \o queue
            = (executed \o <<Head(running)>>) \o queue
      BY <2>1, DoneKeepsOrder
    <2>4. issued = (executed \o <<Head(running)>>) \o queue
      BY <2>1 DEF QueueConserved
    <2>5. issued' = issued /\ executed' \o running' = Append(executed, Head(running)) \o <<>>
      BY <2>2
    <2> QED
      BY <2>2, <2>3, <2>4, <2>5 DEF QueueConserved
  <1>4. ASSUME UNCHANGED <<queue, running, issued, executed>>
        PROVE  QueueConserved'
    BY <1>4
  <1>5. ASSUME NEW t \in Thread, Caller(t)
        PROVE  QueueConserved'
    BY <1>4, <1>5 DEF Caller, NotifyWork, GetResult
  <1>6. CASE InputHandler \/ HandlerReturns \/ BackToLoop \/ Eval \/ IpcClose
    BY <1>4, <1>6 DEF InputHandler, HandlerReturns, BackToLoop, Eval, IpcClose
  <1>7. CASE UNCHANGED vars
    BY <1>4, <1>7 DEF vars
  <1> QED
    BY <1>1, <1>2, <1>3, <1>5, <1>6, <1>7 DEF Next, RSide

----------------------------------------------------------------------------
(* What the lambdas capture by reference is alive.                         *)

Held == ReadyOK /\ CapturesAlive

LEMMA PendingType == Base => Pending \in Seq(Task)
  BY ConcatProperties DEF Base, TypeOK, Pending

LEMMA PendingOwner ==
    ASSUME Base, NEW i \in 1..Len(Pending)
    PROVE  Pending[i] \in Task /\ Pending[i].owner \in Thread
  <1>1. Pending \in Seq(Task)
    BY PendingType
  <1>2. Pending[i] \in Task
    BY <1>1, ElementOfSeq
  <1> QED
    BY <1>2 DEF Task

(* A caller without a queued call has none pending after any other step.   *)
LEMMA PushHeld ==
    ASSUME Base, Held, NEW t \in Thread, NEW k \in Kind, Push(t, k)
    PROVE  Held'
  <1> DEFINE task == [owner |-> t, kind |-> k]
             n == Len(Pending)
  <1>1. task \in Task /\ Pending \in Seq(Task)
    BY PendingType DEF Task
  <1>2. Pending' = Append(Pending, task)
    BY <1>1, ConcatAppend DEF Push, Pending, Base, TypeOK
  <1>3. /\ n \in Nat
        /\ Len(Pending') = n + 1
        /\ \A i \in 1..n : Pending'[i] = Pending[i]
        /\ Pending'[n + 1] = task
    BY <1>1, <1>2, AppendProperties
  <1>4. /\ pc[t] = "idle" /\ t \notin ready
        /\ \A i \in 1..n : ~(Pending[i].kind = "call" /\ Pending[i].owner = t)
    BY DEF Push, Held, ReadyOK, CapturesAlive
  <1>5. /\ pc'[t] = "notify" /\ doing'[t] = k /\ ready' = ready
        /\ \A u \in Thread \ {t} : pc'[u] = pc[u] /\ doing'[u] = doing[u]
    BY DEF Push, Base, TypeOK
  <1>6. \A i \in 1..n : Pending[i] \in Task
    BY <1>1, ElementOfSeq
  <1>7. ReadyOK'
    BY <1>4, <1>5 DEF Held, ReadyOK, Base, TypeOK
  <1>8. ASSUME NEW i \in 1..(n + 1), Pending'[i].kind = "call"
        PROVE  LET u == Pending'[i].owner IN
                 /\ pc'[u] \in {"notify", "wait"}
                 /\ doing'[u] = "call"
                 /\ u \notin ready'
                 /\ \A j \in 1..(n + 1) :
                      Pending'[j].owner = u /\ Pending'[j].kind = "call" => j = i
    <2>1. CASE i = n + 1
      BY <1>3, <1>4, <1>5, <1>8, <2>1
    <2>2. CASE i \in 1..n
      <3>1. Pending'[i] = Pending[i] /\ Pending[i].owner \in Thread \ {t}
        BY <1>3, <1>4, <1>6, <1>8, <2>2 DEF Task
      <3>2. LET u == Pending[i].owner IN
              /\ pc[u] \in {"notify", "wait"} /\ doing[u] = "call" /\ u \notin ready
              /\ \A j \in 1..n : Pending[j].owner = u /\ Pending[j].kind = "call" => j = i
        BY <1>8, <2>2, <3>1 DEF Held, CapturesAlive
      <3> QED
        BY <1>3, <1>5, <3>1, <3>2
    <2> QED
      BY <1>3, <2>1, <2>2
  <1>9. CapturesAlive'
    BY <1>3, <1>8 DEF CapturesAlive
  <1> QED
    BY <1>7, <1>9 DEF Held

(* The task that ends is the first pending one; the others move up.        *)
LEMMA TaskDoneHeld ==
    ASSUME Base, Held, TaskDone
    PROVE  Held'
  <1> DEFINE r == Head(running)
             n == Len(queue)
  <1>1. running = <<r>> /\ r \in Task /\ queue \in Seq(Task) /\ n \in Nat
    BY Singleton, LenProperties DEF TaskDone, Base, TypeOK, RunningOK
  <1>2. /\ Len(Pending) = n + 1
        /\ Pending[1] = r
        /\ \A i \in 1..n : Pending[i + 1] = queue[i]
    <2>1. Len(<<r>>) = 1 /\ <<r>>[1] = r /\ <<r>> \in Seq(Task)
      BY <1>1
    <2>2. /\ Len(<<r>> \o queue) = 1 + n
          /\ \A i \in 1..(1 + n) : (<<r>> \o queue)[i] = IF i <= 1 THEN r ELSE queue[i - 1]
      BY <1>1, <2>1, ConcatProperties
    <2>3. Pending = <<r>> \o queue
      BY <1>1 DEF Pending
    <2> QED
      BY <1>1, <2>2, <2>3
  <1>3. Pending' = queue
    BY <1>1, ConcatEmptySeq DEF TaskDone, Pending
  <1>4. /\ UNCHANGED <<pc, doing>>
        /\ ready' = IF r.kind = "call" THEN ready \cup {r.owner} ELSE ready
    BY DEF TaskDone
  <1>5. r.kind = "call" => pc[r.owner] \in {"notify", "wait"} /\ doing[r.owner] = "call"
    <2>1. 1 \in 1..Len(Pending)
      BY <1>1, <1>2
    <2> QED
      BY <1>2, <2>1 DEF Held, CapturesAlive
  <1>6. ReadyOK'
    BY <1>4, <1>5 DEF Held, ReadyOK
  <1>7. ASSUME NEW i \in 1..n, queue[i].kind = "call"
        PROVE  LET u == queue[i].owner IN
                 /\ pc[u] \in {"notify", "wait"}
                 /\ doing[u] = "call"
                 /\ u \notin ready'
                 /\ \A j \in 1..n : queue[j].owner = u /\ queue[j].kind = "call" => j = i
    <2> DEFINE u == queue[i].owner
    <2>1. Pending[i + 1] = queue[i] /\ i + 1 \in 1..Len(Pending)
      BY <1>1, <1>2
    <2>2. /\ pc[u] \in {"notify", "wait"} /\ doing[u] = "call" /\ u \notin ready
          /\ \A j \in 1..Len(Pending) :
               Pending[j].owner = u /\ Pending[j].kind = "call" => j = i + 1
      BY <1>7, <2>1 DEF Held, CapturesAlive
    <2>3. ~(r.owner = u /\ r.kind = "call")
      BY <1>1, <1>2, <2>2
    <2>4. ASSUME NEW j \in 1..n, queue[j].owner = u, queue[j].kind = "call"
          PROVE  j = i
      <3>1. j + 1 \in 1..Len(Pending) /\ Pending[j + 1] = queue[j]
        BY <1>1, <1>2
      <3> QED
        BY <1>1, <2>2, <2>4, <3>1
    <2> QED
      BY <1>4, <2>2, <2>3, <2>4
  <1>8. CapturesAlive'
    BY <1>3, <1>4, <1>7 DEF CapturesAlive
  <1> QED
    BY <1>6, <1>8 DEF Held

LEMMA NextHeld == Base /\ Held /\ [Next]_vars => Held'
  <1> SUFFICES ASSUME Base, Held, [Next]_vars PROVE Held'
    OBVIOUS
  <1>1. ASSUME NEW t \in Thread, NEW k \in Kind, Push(t, k)
        PROVE  Held'
    BY <1>1, PushHeld
  <1>2. ASSUME NEW t \in Thread, NotifyWork(t)
        PROVE  Held'
    <2>1. UNCHANGED <<doing, ready, Pending>>
      BY <1>2 DEF NotifyWork, Pending
    <2>2. /\ pc'[t] = IF doing[t] = "call" THEN "wait" ELSE "idle"
          /\ \A u \in Thread \ {t} : pc'[u] = pc[u]
      BY <1>2 DEF NotifyWork, Base, TypeOK
    <2>3. \A i \in 1..Len(Pending) : Pending[i].owner \in Thread
      BY PendingOwner
    <2>4. ReadyOK'
      BY <2>1, <2>2 DEF Held, ReadyOK, Base, TypeOK
    <2>5. CapturesAlive'
      BY <2>1, <2>2, <2>3 DEF Held, CapturesAlive
    <2> QED
      BY <2>4, <2>5 DEF Held
  <1>3. ASSUME NEW t \in Thread, GetResult(t)
        PROVE  Held'
    <2>1. /\ UNCHANGED <<doing, Pending>>
          /\ t \in ready /\ ready' = ready \ {t}
      BY <1>3 DEF GetResult, Pending
    <2>2. \A u \in Thread \ {t} : pc'[u] = pc[u]
      BY <1>3 DEF GetResult, Base, TypeOK
    <2>3. \A i \in 1..Len(Pending) : Pending[i].owner \in Thread
      BY PendingOwner
    <2>4. ReadyOK'
      BY <2>1, <2>2 DEF Held, ReadyOK, Base, TypeOK
    <2>5. CapturesAlive'
      BY <2>1, <2>2, <2>3 DEF Held, CapturesAlive
    <2> QED
      BY <2>4, <2>5 DEF Held
  <1>4. CASE TryPop
    <2>1. Pending' = Pending
      BY <1>4, PopKeepsPending DEF TryPop, Pending, Base, TypeOK, RunningOK
    <2> QED
      BY <1>4, <2>1 DEF TryPop, Held, ReadyOK, CapturesAlive
  <1>5. CASE TaskDone
    BY <1>5, TaskDoneHeld
  <1>6. ASSUME UNCHANGED <<queue, running, pc, doing, ready>>
        PROVE  Held'
    BY <1>6 DEF Held, ReadyOK, CapturesAlive, Pending
  <1>7. CASE InputHandler \/ HandlerReturns \/ BackToLoop \/ Eval \/ IpcClose
    BY <1>6, <1>7 DEF InputHandler, HandlerReturns, BackToLoop, Eval, IpcClose
  <1>8. CASE UNCHANGED vars
    BY <1>6, <1>8 DEF vars
  <1> QED
    BY <1>1, <1>2, <1>3, <1>4, <1>5, <1>7, <1>8 DEF Next, Caller, RSide

----------------------------------------------------------------------------
(* The theorems.                                                           *)

LEMMA InitInv == Init => IInv
  <1> SUFFICES ASSUME Init PROVE IInv
    OBVIOUS
  <1>1. Base
    BY InitBase
  <1>2. NoLostWakeup /\ ReadyOK
    BY DEF Init, NoLostWakeup, ReadyOK
  <1>3. QueueConserved
    BY DEF Init, QueueConserved
  <1>4. CapturesAlive
    BY DEF Init, CapturesAlive, Pending
  <1> QED
    BY <1>1, <1>2, <1>3, <1>4 DEF IInv, Base

(* The conjunction of the safety properties is an inductive invariant of   *)
(* the queue between any threads and the R thread (r_thread_posix.cpp).    *)
THEOREM Invariance == Spec => []IInv
  <1>1. Init => IInv
    BY InitInv
  <1>2. IInv /\ [Next]_vars => IInv'
    BY NextBase, NextNoLostWakeup, NextQueueConserved, NextHeld DEF IInv, Base, Held
  <1> QED
    BY <1>1, <1>2, PTL DEF Spec

(* No task is left behind with nothing to wake the R thread up.            *)
THEOREM WakeupSafety == Spec => []NoLostWakeup
  <1>1. IInv => NoLostWakeup
    BY DEF IInv
  <1> QED
    BY <1>1, Invariance, PTL

(* Tasks run in the order they were pushed, each at most once.             *)
THEOREM OrderSafety == Spec => []QueueConserved
  <1>1. IInv => QueueConserved
    BY DEF IInv
  <1> QED
    BY <1>1, Invariance, PTL

(* A task never outlives the stack frame its lambda refers to.             *)
THEOREM CaptureSafety == Spec => []CapturesAlive
  <1>1. IInv => CapturesAlive
    BY DEF IInv
  <1> QED
    BY <1>1, Invariance, PTL

(* The queue and the pipe implement the serial executor r_thread promises. *)
THEOREM Refinement == Spec => Serial!Spec
  <1>1. Init => Serial!Init
    <2> SUFFICES ASSUME Init PROVE Serial!Init
      OBVIOUS
    <2>1. Pending = <<>> /\ InCall = {}
      BY DEF Init, Pending, InCall
    <2> QED
      BY <2>1 DEF Init, Serial!Init
  <1>2. IInv /\ [Next]_vars => [Serial!Next]_(Serial!vars)
    <2> SUFFICES ASSUME IInv, [Next]_vars PROVE [Serial!Next]_(Serial!vars)
      OBVIOUS
    <2>0. Base /\ Held
      BY DEF IInv, Base, Held
    <2>1. ASSUME NEW t \in Thread, NEW k \in Kind, Push(t, k)
          PROVE  Serial!Submit(t, k)
      <3>1. [owner |-> t, kind |-> k] \in Task
        BY DEF Task
      <3>2. Pending' = Append(Pending, [owner |-> t, kind |-> k])
        BY <2>0, <2>1, <3>1, ConcatAppend DEF Push, Pending, Base, TypeOK
      <3>3. t \notin InCall /\ InCall' = IF k = "call" THEN InCall \cup {t} ELSE InCall
        BY <2>0, <2>1 DEF Push, InCall, Base, TypeOK, Kind
      <3> QED
        BY <2>1, <3>2, <3>3 DEF Push, Serial!Submit
    <2>2. ASSUME NEW t \in Thread, NotifyWork(t)
          PROVE  UNCHANGED Serial!vars
      <3>1. InCall' = InCall
        BY <2>0, <2>2 DEF NotifyWork, InCall, Base, TypeOK
      <3> QED
        BY <2>2, <3>1 DEF NotifyWork, Pending, Serial!vars
    <2>3. ASSUME NEW t \in Thread, GetResult(t)
          PROVE  Serial!Return(t)
      <3>1. t \in InCall /\ InCall' = InCall \ {t}
        BY <2>0, <2>3 DEF GetResult, InCall, Base, TypeOK, Held, ReadyOK
      <3> QED
        BY <2>3, <3>1 DEF GetResult, Pending, Serial!Return
    <2>4. CASE TryPop
      <3>1. Pending' = Pending
        BY <2>0, <2>4, PopKeepsPending
        DEF TryPop, Pending, Base, TypeOK, RunningOK
      <3> QED
        BY <2>4, <3>1 DEF TryPop, InCall, Serial!vars
    <2>5. CASE TaskDone
      <3> DEFINE r == Head(running)
      <3>1. running = <<r>> /\ r \in Task /\ open /\ queue \in Seq(Task)
        BY <2>0, <2>5, Singleton DEF TaskDone, Base, TypeOK, RunningOK
      <3>2. /\ Pending # <<>>
            /\ Head(Pending) = r
            /\ Tail(Pending) = queue
        BY <3>1, ConsHeadTail DEF Pending
      <3>3. Pending' = queue
        BY <2>5, <3>1, ConcatEmptySeq DEF TaskDone, Pending
      <3>4. Serial!Execute
        BY <2>5, <3>1, <3>2, <3>3 DEF TaskDone, Serial!Execute, InCall
      <3> QED
        BY <3>4 DEF Serial!Next
    <2>6. CASE IpcClose
      <3>1. Serial!Stop
        BY <2>6 DEF IpcClose, Serial!Stop, InCall, Pending
      <3> QED
        BY <3>1 DEF Serial!Next
    <2>7. CASE InputHandler \/ HandlerReturns \/ BackToLoop \/ Eval \/ UNCHANGED vars
      BY <2>7 DEF InputHandler, HandlerReturns, BackToLoop, Eval, vars,
                  Serial!vars, InCall, Pending
    <2> QED
      BY <2>1, <2>2, <2>3, <2>4, <2>5, <2>6, <2>7
      DEF Next, Caller, RSide, Serial!Next, Kind
  <1> QED
    BY <1>1, <1>2, Invariance, PTL DEF Spec, Serial!Spec
=============================================================================
