------------------------------- MODULE MCAbtTask -------------------------------
(* Small instances of AbtTask: tasks 1, 2 and 4 run, task 3 is a barrier.       *)
(* Task 2 has a handler that asks for every final status, the others have the   *)
(* predefined all_complete.                                                     *)
EXTENDS AbtTask, TLC

CONSTANTS w1, a1, a2

Apps     == {a1, a2}
Tasks    == 1..4
Handlers == Tasks \ {3}

Masks      == [t \in Tasks |->
                 IF t = 2 THEN {COMPLETED, ABORTED, FAILED} ELSE {COMPLETED}]
Selections == [t \in Tasks |-> IF t = 3 THEN {1} ELSE {}]
Priorities == [t \in Tasks |-> IF t = 1 THEN 1 ELSE 0]

C(op, t)    == [op |-> op, t |-> t, p |-> t]
D(op, t, p) == [op |-> op, t |-> t, p |-> p]

Both(s1, s2) == a1 :> s1 @@ a2 :> s2

\* test/task/task_dep.c: the child is committed first, and the thread that waits for
\* it looks for tasks to run beside the worker.
Chain == Both(<< C("create", 1), C("create", 2), D("add_dep", 2, 1), C("commit", 2),
                 C("wait", 2) >>,
              << C("commit", 1) >>)

\* A dependency is added while its child is being committed, or after that.
Add == Both(<< C("create", 1), C("create", 2), C("commit", 2), C("wait", 2) >>,
            << D("add_dep", 2, 1), C("commit", 1) >>)

\* A dependency is removed while its child is being committed, or it is not
\* there yet; then the child is retracted while it is being released.
Retraction == Both(<< C("create", 1), C("create", 2), D("add_dep", 2, 1),
                      C("commit", 2), C("commit", 1) >>,
                   << D("rm_dep", 2, 1), C("retract", 2) >>)

\* Two threads commit the same task (test/wrong/double_commit.c), and it is
\* retracted while the worker has its tasklet.
Single == Both(<< C("create", 1), C("commit", 1), C("wait_timed", 1),
                  C("free_engine", 1) >>,
               << C("commit", 1), C("retract", 1) >>)

\* Two threads commit a task each and help the worker (test/task/no_worker.c).
Jobs == Both(<< C("create", 1), C("create", 2), C("commit", 2), C("do_work", 1) >>,
             << C("commit", 1), C("work_once", 1) >>)

\* test/task/task_barrier.c with one task on either side of the barrier.
Barrier == Both(<< C("create", 1), C("create_barrier", 3), C("create", 2),
                   D("add_dep", 2, 3), C("commit", 3), C("commit", 2) >>,
                << C("commit", 1) >>)

\* The caller runs the task itself and frees it; its tasklet is left.
Freeing == Both(<< C("create", 1), C("commit", 1), C("wait", 1), C("free", 1) >>,
                << C("create", 4), C("commit", 4) >>)

\* A task that may fail or be retracted, and one that depends on it.
Failing == Both(<< C("create", 4), C("create", 2), D("add_dep", 2, 4),
                   C("commit", 2) >>,
                << C("commit", 4), C("retract", 4) >>)

AbtScripts == {Chain, Add, Retraction, Single, Jobs, Barrier, Freeing, Failing}
=============================================================================
