------------------------------- MODULE TaskGraph -------------------------------
(***************************************************************************)
(* What the task API promises: a task moves through the statuses of its    *)
(* life in order, and it is released to run only when every task it        *)
(* depends on has completed.  There are no threads, queues, locks or       *)
(* notifications here; NativeTask implements it.                           *)
(***************************************************************************)
EXTENDS TaskStatus

CONSTANTS
    Task,
    Handled     \* the tasks with a function to run; the others are barriers

VARIABLES
    status,     \* the status a call of TW_Task_get_status returns
    needs       \* needs[t]: the tasks t depends on

vars == <<status, needs>>

Move(t, from, to) ==
    /\ status[t] = from
    /\ status' = [status EXCEPT ![t] = to]
    /\ UNCHANGED needs

Create(t) == Move(t, INVAL, IDLE)

\* A dependency counts only if it arrives before the task is released.
Depend(c, p) ==
    /\ status[c] \notin Released
    /\ needs' = [needs EXCEPT ![c] = @ \cup {p}]
    /\ UNCHANGED status

Commit(t)  == Move(t, IDLE, DEPHOLD)
Release(t) == Move(t, DEPHOLD, READY) /\ \A p \in needs[t] : status[p] = COMPLETED
Enqueue(t) == t \in Handled /\ Move(t, READY, QUEUE)
Start(t)   == Move(t, QUEUE, RUNNING)
Finish(t)  == Move(t, RUNNING, FINAL) \/ (t \notin Handled /\ Move(t, READY, FINAL))
Fail(t)    == Move(t, RUNNING, FAILED)
Complete(t) == Move(t, FINAL, COMPLETED)
Abort(t)   == Move(t, DEPHOLD, ABORTED) \/ Move(t, READY, ABORTED)

Init == status = [t \in Task |-> INVAL] /\ needs = [t \in Task |-> {}]

Next == \E t \in Task :
    \/ Create(t) \/ Commit(t) \/ Release(t) \/ Enqueue(t) \/ Start(t)
    \/ Finish(t) \/ Fail(t) \/ Complete(t) \/ Abort(t)
    \/ \E p \in Task : Depend(t, p)

Spec == Init /\ [][Next]_vars

TypeOK == status \in [Task -> Status] /\ needs \in [Task -> SUBSET Task]

\* A released task has only completed tasks above it, and keeps it that way
\* (tw_task.h:26 "All dependency satisfied").
Ordered ==
    \A t \in Task : status[t] \in Released
                    => \A p \in needs[t] : status[p] = COMPLETED
=============================================================================
