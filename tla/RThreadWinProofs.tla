-------------------------- MODULE RThreadWinProofs --------------------------
(* Safety of the work queue on Windows, for any number of client threads,  *)
(* tasks and posted messages, and tasks nested to any depth.               *)
EXTENDS RThreadWin, SequenceTheorems, TLAPS

----------------------------------------------------------------------------
(* Types.                                                                  *)

LEMMA InitTypeOK == Init => TypeOK
  BY WinAssumption DEF Init, TypeOK, Task, Drain

(* The top of a stack that is not empty, and the stack below it.           *)
LEMMA TopOfStack ==
    ASSUME TypeOK, frames # <<>>
    PROVE  /\ Len(frames) \in Nat \ {0}
           /\ Top \in Task \cup {Drain}
           /\ SubSeq(frames, 1, Len(frames) - 1) \in Seq(Task \cup {Drain})
           /\ Len(SubSeq(frames, 1, Len(frames) - 1)) = Len(frames) - 1
           /\ \A i \in 1..(Len(frames) - 1) :
                SubSeq(frames, 1, Len(frames) - 1)[i] = frames[i]
  <1> DEFINE S == Task \cup {Drain}  n == Len(frames)
  <1>1. frames \in Seq(S) /\ n \in Nat \ {0} /\ frames[n] \in S
    BY DEF TypeOK
  <1>2. 1 \in 1..(n + 1) /\ n - 1 \in 0..n
    BY <1>1
  <1>3. \A i \in 1..(n - 1) : frames[i] \in S
    BY <1>1
  <1> HIDE DEF S, n
  <1>4. /\ SubSeq(frames, 1, n - 1) \in Seq(S)
        /\ Len(SubSeq(frames, 1, n - 1)) = n - 1
        /\ \A i \in 1..(n - 1) : SubSeq(frames, 1, n - 1)[i] = frames[i]
    BY <1>1, <1>2, <1>3
  <1> QED
    BY <1>1, <1>4 DEF S, n, Top

LEMMA StackWithTop ==
    ASSUME TypeOK, frames # <<>>, NEW k \in Task \cup {Drain}
    PROVE  /\ SetTop(k) \in Seq(Task \cup {Drain})
           /\ Len(SetTop(k)) = Len(frames)
           /\ SetTop(k)[Len(frames)] = k
           /\ \A i \in 1..(Len(frames) - 1) : SetTop(k)[i] = frames[i]
  BY DEF TypeOK, SetTop

LEMMA NextTypeOK == TypeOK /\ [Next]_vars => TypeOK'
  <1> SUFFICES ASSUME TypeOK, [Next]_vars PROVE TypeOK'
    OBVIOUS
  <1> USE DEF TypeOK
  <1>1. ASSUME NEW t \in Client, Push(t)
        PROVE  TypeOK'
    <2>1. owners' \in Seq(Client) /\ Len(owners') = Len(owners) + 1
      BY <1>1 DEF Push
    <2>2. Len(owners') \in Task
      BY <1>1, <2>1, WinAssumption DEF Push, Task
    <2> QED
      BY <1>1, <2>1, <2>2, WinAssumption DEF Push, Task
  <1>2. ASSUME NEW t \in Client, Notify(t)
        PROVE  TypeOK'
    BY <1>2, WinAssumption DEF Notify
  <1>3. ASSUME NEW t \in Client, GetResult(t)
        PROVE  TypeOK'
    BY <1>3 DEF GetResult
  <1>4. CASE WindowCallback
    BY <1>4, WinAssumption DEF WindowCallback
  <1>5. CASE TryPop
    <2>1. Head(queue) \in Task /\ Tail(queue) \in Seq(Task)
      BY <1>5 DEF TryPop
    <2>2. SetTop(Head(queue)) \in Seq(Task \cup {Drain})
      BY <1>5, <2>1, StackWithTop DEF TryPop, Drains
    <2> QED
      BY <1>5, <2>1, <2>2 DEF TryPop
  <1>6. CASE TaskDone
    <2>1. Top \in Task /\ SetTop(Drain) \in Seq(Task \cup {Drain})
      BY <1>6, TopOfStack, StackWithTop DEF TaskDone
    <2> QED
      BY <1>6, <2>1 DEF TaskDone
  <1>7. CASE CallbackReturns
    BY <1>7, TopOfStack DEF CallbackReturns, Drains
  <1>8. CASE IpcClose
    <2>1. 0 \in 0..PostMax
      BY WinAssumption
    <2> QED
      BY <1>8, <2>1 DEF IpcClose
  <1>9. CASE UNCHANGED vars
    BY <1>9 DEF vars
  <1> QED
    BY <1>1, <1>2, <1>3, <1>4, <1>5, <1>6, <1>7, <1>8, <1>9 DEF Next, RSide

----------------------------------------------------------------------------
(* Tasks begin in the order of the pushes.                                 *)

(* The three parts of BeginInOrder.                                        *)
QueueOK == queue = [i \in 1..Len(queue) |-> Len(owners) - Len(queue) + i]
BegunOK ==
    LET begun == Len(owners) - Len(queue) IN
    Begun \cup finished = 1..begun /\ Begun \cap finished = {}
StackOK ==
    \A i, j \in 1..Len(frames) :
        i < j => frames[i] # Drain /\ (frames[j] # Drain => frames[i] < frames[j])

LEMMA OrderParts == BeginInOrder <=> QueueOK /\ BegunOK /\ StackOK
  BY DEF BeginInOrder, QueueOK, BegunOK, StackOK

(* What the queue holds is what was pushed last.                           *)
LEMMA QueueLength ==
    ASSUME TypeOK, QueueOK
    PROVE  /\ Len(queue) \in Nat /\ Len(owners) \in Nat
           /\ Len(queue) <= Len(owners)
           /\ queue # <<>> => Head(queue) = Len(owners) - Len(queue) + 1
  <1>1. Len(queue) \in Nat /\ Len(owners) \in Nat
    BY DEF TypeOK
  <1>2. ASSUME queue # <<>>
        PROVE  queue[1] = Len(owners) - Len(queue) + 1 /\ queue[1] \in Task
    <2>1. Len(queue) > 0
      BY <1>1, <1>2 DEF TypeOK
    <2>2. 1 \in 1..Len(queue)
      BY <2>1, <1>1
    <2> QED
      BY <2>2, <1>1 DEF QueueOK, TypeOK
  <1>3. queue = <<>> => Len(queue) = 0
    OBVIOUS
  <1>4. queue # <<>> => Head(queue) = queue[1]
    BY DEF TypeOK
  <1> QED
    BY <1>1, <1>2, <1>3, <1>4 DEF Task

LEMMA NextQueueOK == TypeOK /\ QueueOK /\ [Next]_vars => QueueOK'
  <1> SUFFICES ASSUME TypeOK, QueueOK, [Next]_vars PROVE QueueOK'
    OBVIOUS
  <1>1. ASSUME NEW t \in Client, Push(t)
        PROVE  QueueOK'
    <2> DEFINE n == Len(owners)  m == Len(queue)
    <2>1. n \in Nat /\ m \in Nat /\ Len(owners') = n + 1
      BY <1>1 DEF Push, TypeOK
    <2>2. queue' = Append(queue, n + 1) /\ queue \in Seq(Task) /\ Len(queue') = m + 1
      BY <1>1, <2>1 DEF Push, TypeOK
    <2>3. \A i \in 1..(m + 1) : queue'[i] = n - m + i
      BY <2>1, <2>2 DEF QueueOK
    <2>4. queue' = [i \in 1..(m + 1) |-> queue'[i]]
      BY <2>2, <2>1
    <2> HIDE DEF n, m
    <2>5. \A i \in 1..(m + 1) : queue'[i] = (n + 1) - (m + 1) + i
      BY <2>1, <2>3
    <2> QED
      BY <2>1, <2>2, <2>4, <2>5 DEF QueueOK
  <1>2. CASE TryPop
    <2> DEFINE n == Len(owners)  m == Len(queue)
    <2>1. n \in Nat /\ m \in Nat \ {0} /\ Len(queue') = m - 1 /\ owners' = owners
      BY <1>2 DEF TryPop, TypeOK
    <2>2. queue' \in Seq(Task) /\ \A i \in 1..(m - 1) : queue'[i] = queue[i + 1]
      BY <1>2, <2>1 DEF TryPop, TypeOK
    <2>3. \A i \in 1..(m - 1) : queue[i + 1] = n - m + (i + 1)
      BY <2>1 DEF QueueOK
    <2>4. queue' = [i \in 1..(m - 1) |-> queue'[i]]
      BY <2>1, <2>2
    <2> HIDE DEF n, m
    <2>5. \A i \in 1..(m - 1) : queue'[i] = n - (m - 1) + i
      BY <2>1, <2>2, <2>3
    <2> QED
      BY <2>1, <2>4, <2>5 DEF QueueOK, n
  <1>3. CASE UNCHANGED <<owners, queue>>
    BY <1>3 DEF QueueOK
  <1> QED
    BY <1>1, <1>2, <1>3
    DEF Next, RSide, Notify, GetResult, WindowCallback, TaskDone, CallbackReturns, IpcClose, vars

(* The stack in ascending order, Drain on top only.                        *)
LEMMA NextStackOK ==
    ASSUME TypeOK, QueueOK, BegunOK, StackOK, [Next]_vars
    PROVE  StackOK'
  <1>1. CASE WindowCallback
    <2>1. /\ Len(frames) \in Nat /\ Len(frames') = Len(frames) + 1
          /\ frames'[Len(frames) + 1] = Drain
          /\ \A i \in 1..Len(frames) : frames'[i] = frames[i]
      BY <1>1 DEF WindowCallback, TypeOK
    <2>2. \A i \in 1..Len(frames) : frames[i] # Drain
      BY <1>1, <2>1 DEF WindowCallback, StackOK, Drains, Top
    <2> QED
      BY <2>1, <2>2 DEF StackOK
  <1>2. CASE TryPop
    <2>1. /\ Len(frames) \in Nat \ {0} /\ Len(frames') = Len(frames)
          /\ frames'[Len(frames)] = Head(queue)
          /\ \A i \in 1..(Len(frames) - 1) : frames'[i] = frames[i]
      <3>1. Head(queue) \in Task
        BY <1>2 DEF TryPop, TypeOK
      <3> QED
        BY <1>2, <3>1, TopOfStack, StackWithTop DEF TryPop, Drains
    <2>2. \A i \in 1..(Len(frames) - 1) : frames[i] # Drain
      BY <2>1 DEF StackOK
    <2>5. \A i \in 1..(Len(frames) - 1) : frames[i] \in 1..(Len(owners) - Len(queue))
      BY <2>1, <2>2 DEF BegunOK, Begun
    <2>3. Head(queue) = Len(owners) - Len(queue) + 1
      BY <1>2, QueueLength DEF TryPop
    <2>4. Len(owners) \in Nat /\ Len(queue) \in Nat
      BY DEF TypeOK
    <2>6. ASSUME NEW i \in 1..Len(frames), NEW j \in 1..Len(frames), i < j
          PROVE  frames'[i] # Drain /\ (frames'[j] # Drain => frames'[i] < frames'[j])
      <3>1. i \in 1..(Len(frames) - 1) /\ frames'[i] = frames[i]
        BY <2>1, <2>6
      <3>2. CASE j = Len(frames)
        <4>1. frames[i] < Head(queue)
          BY <2>3, <2>4, <2>5, <3>1
        <4> QED
          BY <2>1, <2>2, <3>1, <3>2, <4>1
      <3>3. CASE j # Len(frames)
        <4>1. frames'[j] = frames[j]
          BY <2>1, <3>3
        <4> QED
          BY <2>6, <3>1, <4>1 DEF StackOK
      <3> QED
        BY <3>2, <3>3
    <2> QED
      BY <2>1, <2>6 DEF StackOK
  <1>3. CASE TaskDone
    <2>1. /\ Len(frames) \in Nat \ {0} /\ Len(frames') = Len(frames)
          /\ frames'[Len(frames)] = Drain
          /\ \A i \in 1..(Len(frames) - 1) : frames'[i] = frames[i]
      BY <1>3, TopOfStack, StackWithTop DEF TaskDone
    <2> QED
      BY <2>1 DEF StackOK
  <1>4. CASE CallbackReturns
    <2>1. /\ Len(frames) \in Nat \ {0} /\ Len(frames') = Len(frames) - 1
          /\ \A i \in 1..(Len(frames) - 1) : frames'[i] = frames[i]
      BY <1>4, TopOfStack DEF CallbackReturns, Drains
    <2> QED
      BY <2>1 DEF StackOK
  <1>5. CASE UNCHANGED frames
    BY <1>5 DEF StackOK
  <1> QED
    BY <1>1, <1>2, <1>3, <1>4, <1>5
    DEF Next, RSide, Push, Notify, GetResult, IpcClose, vars

LEMMA NextBegunOK ==
    ASSUME TypeOK, QueueOK, BegunOK, StackOK, [Next]_vars
    PROVE  BegunOK'
  <1>0. /\ Len(owners) \in Nat /\ Len(queue) \in Nat /\ Len(queue) <= Len(owners)
    BY QueueLength
  <1>1. ASSUME NEW t \in Client, Push(t)
        PROVE  BegunOK'
    <2>1. Len(owners') = Len(owners) + 1 /\ Len(queue') = Len(queue) + 1
      BY <1>1 DEF Push, TypeOK
    <2> QED
      BY <1>0, <1>1, <2>1 DEF Push, BegunOK, Begun
  <1>2. CASE WindowCallback
    <2>1. /\ Len(frames) \in Nat /\ Len(frames') = Len(frames) + 1
          /\ frames'[Len(frames) + 1] = Drain
          /\ \A i \in 1..Len(frames) : frames'[i] = frames[i]
      BY <1>2 DEF WindowCallback, TypeOK
    <2>2. Begun' = Begun
      BY <2>1 DEF Begun
    <2> QED
      BY <1>2, <2>2 DEF WindowCallback, BegunOK
  <1>3. CASE TryPop
    <2>1. /\ Len(frames) \in Nat \ {0} /\ Len(frames') = Len(frames)
          /\ frames[Len(frames)] = Drain
          /\ frames'[Len(frames)] = Head(queue)
          /\ \A i \in 1..(Len(frames) - 1) : frames'[i] = frames[i]
          /\ Head(queue) # Drain
      <3>1. Head(queue) \in Task
        BY <1>3 DEF TryPop, TypeOK
      <3> QED
        BY <1>3, <3>1, TopOfStack, StackWithTop DEF TryPop, Drains, Top, Task, Drain
    <2>2. Begun' = Begun \cup {Head(queue)}
      BY <2>1 DEF Begun
    <2>3. Head(queue) = Len(owners) - Len(queue) + 1
      BY <1>3, QueueLength DEF TryPop
    <2>4. Len(queue') = Len(queue) - 1 /\ Len(queue) > 0
      BY <1>3 DEF TryPop, TypeOK
    <2>5. 1..(Len(owners) - Len(queue) + 1) = 1..(Len(owners) - Len(queue)) \cup {Head(queue)}
      BY <1>0, <2>3
    <2>6. Head(queue) \notin 1..(Len(owners) - Len(queue))
      BY <1>0, <2>3
    <2> DEFINE b == Len(owners) - Len(queue)
    <2>7. b \in Nat /\ Len(owners') - Len(queue') = b + 1
      BY <1>0, <1>3, <2>4 DEF TryPop
    <2>8. Begun \cup finished = 1..b /\ Begun \cap finished = {}
      BY DEF BegunOK
    <2>9. Begun' \cup finished = 1..(b + 1) /\ Begun' \cap finished = {}
      BY <2>2, <2>5, <2>6, <2>8
    <2> QED
      BY <1>3, <2>7, <2>9 DEF TryPop, BegunOK
  <1>4. CASE TaskDone
    <2>1. /\ Len(frames) \in Nat \ {0} /\ Len(frames') = Len(frames)
          /\ Top = frames[Len(frames)] /\ Top \in Task
          /\ frames'[Len(frames)] = Drain
          /\ \A i \in 1..(Len(frames) - 1) : frames'[i] = frames[i]
      BY <1>4, TopOfStack, StackWithTop DEF TaskDone, Top
    <2>2. \A i \in 1..(Len(frames) - 1) : frames[i] # Drain /\ frames[i] < Top
      BY <1>4, <2>1 DEF StackOK, TaskDone
    <2>3. \A i \in 1..(Len(frames) - 1) : frames[i] # Top
      <3>1. \A i \in 1..(Len(frames) - 1) : frames[i] \in Task
        BY <2>1, <2>2 DEF TypeOK
      <3> QED
        BY <3>1, <2>1, <2>2 DEF Task
    <2>4. Begun' = Begun \ {Top}
      BY <2>1, <2>2, <2>3, <1>4 DEF Begun, TaskDone
    <2>5. Top \in Begun
      BY <2>1, <1>4 DEF Begun, TaskDone
    <2> DEFINE b == Len(owners) - Len(queue)
    <2>6. Begun \cup finished = 1..b /\ Begun \cap finished = {}
      BY DEF BegunOK
    <2>7. Begun' \cup finished' = 1..b /\ Begun' \cap finished' = {}
      BY <1>4, <2>4, <2>5, <2>6 DEF TaskDone
    <2> QED
      BY <1>4, <2>7 DEF TaskDone, BegunOK
  <1>5. CASE CallbackReturns
    <2>1. /\ Len(frames) \in Nat \ {0} /\ Len(frames') = Len(frames) - 1
          /\ frames[Len(frames)] = Drain
          /\ \A i \in 1..(Len(frames) - 1) : frames'[i] = frames[i]
      BY <1>5, TopOfStack DEF CallbackReturns, Drains, Top
    <2>2. Begun' = Begun
      BY <2>1 DEF Begun
    <2> QED
      BY <1>5, <2>2 DEF CallbackReturns, BegunOK
  <1>6. CASE UNCHANGED <<owners, queue, frames, finished>>
    BY <1>6 DEF BegunOK, Begun
  <1> QED
    BY <1>1, <1>2, <1>3, <1>4, <1>5, <1>6
    DEF Next, RSide, Notify, GetResult, IpcClose, vars

----------------------------------------------------------------------------
(* Captured stacks, and wakeups.                                           *)

LEMMA NextCapturesAlive ==
    ASSUME TypeOK, QueueOK, BegunOK, CapturesAlive, [Next]_vars
    PROVE  CapturesAlive'
  <1>1. ASSUME NEW t \in Client, Push(t)
        PROVE  CapturesAlive'
    <2> DEFINE n == Len(owners)
    <2>1. /\ n \in Nat /\ Len(owners') = n + 1 /\ owners'[n + 1] = t
          /\ \A k \in 1..n : owners'[k] = owners[k] /\ owners[k] \in Client
      BY <1>1 DEF Push, TypeOK
    <2>2. \A k \in Issued \ finished : owners[k] # t
      BY <1>1 DEF Push, CapturesAlive
    <2>3. Issued' = Issued \cup {n + 1} /\ Issued = 1..n
      BY <2>1 DEF Issued
    <2>4. pc' = [pc EXCEPT ![t] = "notify"] /\ pc \in [Client -> {"idle", "notify", "wait"}]
      BY <1>1 DEF Push, TypeOK
    <2>5. finished' = finished
      BY <1>1 DEF Push
    <2> HIDE DEF n
    <2>6. SUFFICES ASSUME NEW k \in Issued' \ finished
                   PROVE  /\ pc'[owners'[k]] \in {"notify", "wait"}
                          /\ \A l \in Issued' \ finished : owners'[l] = owners'[k] => l = k
      BY <2>5 DEF CapturesAlive
    <2>7. CASE k = n + 1
      BY <2>1, <2>2, <2>3, <2>4, <2>7
    <2>8. CASE k \in Issued \ finished
      BY <2>1, <2>2, <2>3, <2>4, <2>8 DEF CapturesAlive
    <2> QED
      BY <2>3, <2>6, <2>7, <2>8
  <1>2. ASSUME NEW t \in Client, Notify(t)
        PROVE  CapturesAlive'
    BY <1>2 DEF Notify, CapturesAlive, Issued, TypeOK
  <1>3. ASSUME NEW t \in Client, GetResult(t)
        PROVE  CapturesAlive'
    <2>1. \A k \in Issued \ finished : owners[k] # t /\ owners[k] \in Client
      BY <1>3 DEF GetResult, Issued, TypeOK
    <2> QED
      BY <1>3, <2>1 DEF GetResult, CapturesAlive, Issued, TypeOK
  <1>4. CASE TaskDone
    BY <1>4 DEF TaskDone, CapturesAlive, Issued
  <1>5. CASE UNCHANGED <<owners, finished, pc>>
    BY <1>5 DEF CapturesAlive, Issued
  <1> QED
    BY <1>1, <1>2, <1>3, <1>4, <1>5
    DEF Next, RSide, WindowCallback, TryPop, CallbackReturns, IpcClose, vars

LEMMA NextNoLostWakeup ==
    ASSUME TypeOK, NoLostWakeup, [Next]_vars
    PROVE  NoLostWakeup'
  <1> USE DEF NoLostWakeup
  <1>1. ASSUME NEW t \in Client, Push(t)
        PROVE  NoLostWakeup'
    BY <1>1 DEF Push, TypeOK
  <1>2. ASSUME NEW t \in Client, Notify(t)
        PROVE  NoLostWakeup'
    BY <1>2, WinAssumption DEF Notify, TypeOK
  <1>3. ASSUME NEW t \in Client, GetResult(t)
        PROVE  NoLostWakeup'
    BY <1>3 DEF GetResult, TypeOK
  <1>4. CASE WindowCallback
    BY <1>4 DEF WindowCallback, TypeOK
  <1>5. CASE TryPop
    <2>1. frames' # <<>>
      <3>1. Head(queue) \in Task
        BY <1>5 DEF TryPop, TypeOK
      <3> QED
        BY <1>5, <3>1, TopOfStack, StackWithTop DEF TryPop, Drains
    <2> QED
      BY <2>1
  <1>6. CASE TaskDone
    <2>1. frames' # <<>>
      BY <1>6, TopOfStack, StackWithTop DEF TaskDone
    <2> QED
      BY <2>1
  <1>7. CASE CallbackReturns
    BY <1>7 DEF CallbackReturns
  <1>8. CASE IpcClose
    BY <1>8 DEF IpcClose
  <1>9. CASE UNCHANGED vars
    BY <1>9 DEF vars
  <1> QED
    BY <1>1, <1>2, <1>3, <1>4, <1>5, <1>6, <1>7, <1>8, <1>9 DEF Next, RSide

----------------------------------------------------------------------------
(* The theorems.                                                           *)

(* The inductive invariant of the queue: types, order, captures, wakeups.  *)
THEOREM Invariance == Spec => []IInv
  <1>1. Init => IInv
    <2>1. Init => TypeOK
      BY InitTypeOK
    <2>2. Init => BeginInOrder
      BY DEF Init, BeginInOrder, Begun
    <2>3. Init => CapturesAlive /\ NoLostWakeup
      BY DEF Init, CapturesAlive, NoLostWakeup, Issued
    <2> QED
      BY <2>1, <2>2, <2>3 DEF IInv
  <1>2. IInv /\ [Next]_vars => IInv'
    <2> SUFFICES ASSUME IInv, [Next]_vars PROVE IInv'
      OBVIOUS
    <2>1. TypeOK /\ QueueOK /\ BegunOK /\ StackOK /\ CapturesAlive /\ NoLostWakeup
      BY OrderParts DEF IInv
    <2>2. TypeOK'
      BY <2>1, NextTypeOK
    <2>3. BeginInOrder'
      <3>1. QueueOK'
        BY <2>1, NextQueueOK
      <3>2. BegunOK'
        BY <2>1, NextBegunOK
      <3>3. StackOK'
        BY <2>1, NextStackOK
      <3> QED
        BY <3>1, <3>2, <3>3 DEF BeginInOrder, QueueOK, BegunOK, StackOK
    <2>4. CapturesAlive' /\ NoLostWakeup'
      BY <2>1, NextCapturesAlive, NextNoLostWakeup
    <2> QED
      BY <2>2, <2>3, <2>4 DEF IInv
  <1> QED
    BY <1>1, <1>2, PTL DEF Spec

(* Tasks begin in the order of the pushes, each once, on a stack that is   *)
(* in the same order (process_tasks, r_thread_win32.cpp).                  *)
THEOREM OrderSafety == Spec => []BeginInOrder
  BY Invariance, PTL DEF IInv

(* A task whose lambda captured its caller's stack has a caller that is    *)
(* still in that call (api_render, api_remove and api_clear).              *)
THEOREM CaptureSafety == Spec => []CapturesAlive
  BY Invariance, PTL DEF IInv
=============================================================================
