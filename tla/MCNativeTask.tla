----------------------------- MODULE MCNativeTask -----------------------------
(* Small instances of NativeTask: tasks 1, 2 and 4 run, task 3 is a barrier.   *)
(* Task 2 has a handler that asks for every final status, the others have the  *)
(* predefined all_complete.                                                    *)
EXTENDS NativeTaskInv, TLC

CONSTANTS w1, w2, a1, a2

Workers == {w1, w2}
Apps    == {a1, a2}
Tasks   == 1..4
Handlers == Tasks \ {3}

Masks      == [t \in Tasks |-> IF t = 2 THEN {COMPLETED, ABORTED, FAILED} ELSE {COMPLETED}]
Selections == [t \in Tasks |-> IF t = 3 THEN {1} ELSE {}]
Priorities == [t \in Tasks |-> IF t = 1 THEN 1 ELSE 0]

C(op, t)    == [op |-> op, t |-> t, p |-> t]
D(op, t, p) == [op |-> op, t |-> t, p |-> p]

Both(s1, s2) == a1 :> s1 @@ a2 :> s2

\* test/task/task_dep.c: a chain, committed children first; the other thread
\* commits the first task and waits too.
Chain == Both(<< C("create", 1), C("create", 2), D("add_dep", 2, 1), C("commit", 2),
                 C("wait", 2) >>,
              << C("commit", 1), C("wait", 1) >>)

\* The same, and only the child is waited for.
ShortChain == Both(<< C("create", 1), C("create", 2), D("add_dep", 2, 1),
                      C("commit", 2), C("wait", 2) >>,
                   << C("commit", 1) >>)

\* A dependency is added while its child is being committed.
Add == Both(<< C("create", 1), C("create", 2), C("commit", 2), C("wait", 2) >>,
            << D("add_dep", 2, 1), C("commit", 1) >>)

\* A dependency is removed while its child is being committed; then the child
\* is retracted while it is being released.
Retraction == Both(<< C("create", 1), C("create", 2), D("add_dep", 2, 1),
                      C("commit", 2), C("commit", 1) >>,
                   << D("rm_dep", 2, 1), C("retract", 2) >>)

\* Two threads commit the same task (test/wrong/double_commit.c) and nobody
\* waits: jobs of both priorities are left to the workers.
Jobs == Both(<< C("create", 1), C("create", 2), C("commit", 2), C("commit", 1) >>,
             << C("commit", 2) >>)

\* test/task/task_barrier.c with one task on either side of the barrier.
Barrier == Both(<< C("create", 1), C("create_barrier", 3), C("create", 2),
                   D("add_dep", 2, 3), C("commit", 3), C("commit", 2) >>,
                << C("commit", 1) >>)

\* A task is freed while another thread waits for a second one, for a while.
Freeing == Both(<< C("create", 1), C("create", 4), C("free", 4) >>,
                << C("commit", 1), C("wait_timed", 1) >>)

\* A task that may fail or be retracted, and one that depends on it.
Failing(c, p) ==
    Both(<< C("create", p), C("create", c), D("add_dep", c, p), C("commit", c) >>,
         << C("commit", p), C("retract", p) >>)

\* Two parents, one of them never committed.
Join == Both(<< C("create", 1), C("create", 2), C("create", 4), D("add_dep", 4, 1),
                D("add_dep", 4, 2), C("commit", 4) >>,
             << C("commit", 1) >>)

\* The scripts of the runs.
SafetyScripts == {Chain, Add, Retraction, Jobs, Barrier, Freeing,
                  Failing(2, 4), Join}
LiveScripts   == {ShortChain, Failing(2, 4)}
JoinScripts   == {Join}

WorkerSymmetry == Permutations(Workers)
=============================================================================
