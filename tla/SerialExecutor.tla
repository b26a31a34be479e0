-------------------------- MODULE SerialExecutor --------------------------
(***************************************************************************)
(* What r_thread(f) promises its callers (r_thread.h): tasks are run one   *)
(* at a time, in the order they were submitted, each of them once, and a   *)
(* caller that waits gets its answer after its own task has run and only   *)
(* then.  How the R thread is woken up does not appear.                    *)
(***************************************************************************)
EXTENDS Sequences

CONSTANT Thread   \* the threads that submit tasks

VARIABLES todo,       \* the tasks submitted and not finished, in order
          busy,       \* the threads inside a call that waits
          answered,   \* those of them whose task has run
          stopped     \* no task is run any more

vars == <<todo, busy, answered, stopped>>

Init ==
    /\ todo = <<>>
    /\ busy = {}
    /\ answered = {}
    /\ stopped = FALSE

Submit(t, k) ==
    /\ t \notin busy
    /\ todo' = Append(todo, [owner |-> t, kind |-> k])
    /\ busy' = IF k = "call" THEN busy \cup {t} ELSE busy
    /\ UNCHANGED <<answered, stopped>>

Execute ==
    /\ ~stopped
    /\ todo # <<>>
    /\ todo' = Tail(todo)
    /\ answered' = IF Head(todo).kind = "call"
                   THEN answered \cup {Head(todo).owner} ELSE answered
    /\ UNCHANGED <<busy, stopped>>

Return(t) ==
    /\ t \in busy \cap answered
    /\ busy' = busy \ {t}
    /\ answered' = answered \ {t}
    /\ UNCHANGED <<todo, stopped>>

Stop ==
    /\ stopped' = TRUE
    /\ UNCHANGED <<todo, busy, answered>>

Next ==
    \/ \E t \in Thread : (\E k \in {"call", "log"} : Submit(t, k)) \/ Return(t)
    \/ Execute
    \/ Stop

Spec == Init /\ [][Next]_vars
FairSpec == Spec /\ WF_vars(Execute) /\ \A t \in Thread : WF_vars(Return(t))
=============================================================================
