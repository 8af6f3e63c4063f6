------------------------------- MODULE MCLibrary -------------------------------
(***************************************************************************)
(* Instances of Library: a task and a child of it, two workers, and what   *)
(* one or two threads of the application do as a set of scenarios.         *)
(***************************************************************************)
EXTENDS Library, TLC

CONSTANTS t1, t2, a1, a2

Do(op, t) == [op |-> op, task |-> t]
Lone(op)  == Do(op, NoTask)
All(op)   == <<Do(op, t1), Do(op, t2)>>

Scenario(linked, heard, evt, calls1, calls2) ==
    [parent  |-> t1 :> NoTask @@ t2 :> (IF linked THEN t1 ELSE NoTask),
     listens |-> heard, events |-> evt,
     script  |-> a1 :> calls1 @@ a2 :> calls2]

Open  == <<Lone("init"), Lone("engine")>>
Close == <<Lone("engine_free"), Lone("finalize")>>
Linked == All("create") \o <<Do("dep", t2)>>

\* test/wrong/no_free.c: nothing is freed but the engine; and not even that.
NoFree ==
    Scenario(TRUE, {}, FALSE, Open \o Linked \o All("commit") \o All("wait") \o Close, <<>>)
NothingFreed ==
    Scenario(TRUE, {}, TRUE,
             Open \o Linked \o All("commit") \o All("wait") \o <<Lone("finalize")>>, <<>>)

\* test/task/task_status.c: the client frees a task when its handler has been told.
Told ==
    Scenario(TRUE, {t1, t2}, FALSE,
             Open \o Linked \o All("commit") \o All("told") \o All("free") \o Close, <<>>)

\* test/task/task_dep.c: each task is freed after its wait, the engine last.
Freed ==
    Scenario(TRUE, {}, FALSE,
             Open \o Linked \o All("commit") \o <<Do("wait", t1), Do("free", t1),
             Do("wait", t2), Do("free", t2)>> \o Close, <<>>)

\* The parent has ended and is freed before its child is committed, or the child never is.
Late ==
    Scenario(TRUE, {}, FALSE,
             Open \o Linked \o <<Do("commit", t1), Do("wait", t1), Do("free", t1),
             Do("commit", t2), Do("wait", t2), Do("free", t2)>> \o Close, <<>>)
Never ==
    Scenario(TRUE, {}, FALSE,
             Open \o Linked \o <<Do("commit", t1), Do("commit", t1), Do("wait", t1), Do("free", t2)>> \o Close, <<>>)

\* Two threads commit, wait and free their own task, which the other's depends on.
Both ==
    Scenario(TRUE, {}, FALSE,
             Open \o Linked \o <<Do("commit", t1), Do("wait", t1), Do("free", t1), Lone("alone")>> \o Close,
             <<Do("made", t2), Do("commit", t2), Do("wait", t2), Do("free", t2)>>)

\* MPI events alone (test/event/mpi.c), and the library is initialized again.
Polls ==
    Scenario(FALSE, {}, TRUE,
             Open \o <<Lone("mpi")>> \o Close \o <<Lone("init"), Do("create", t1),
             Lone("finalize")>>, <<>>)

\* A thread waits for a task whose end the other is told, which then closes: the wait
\* may still be in the queue of the engine.
Waiting ==
    Scenario(FALSE, {t1}, FALSE,
             Open \o <<Do("create", t1), Do("commit", t1), Do("told", t1)>> \o Close,
             <<Do("wait", t1)>>)

\* The client does not wait: it frees or closes while its tasks are queued, or frees
\* a handle that the status handler has not been called with yet.
Hasty ==
    Scenario(TRUE, {t1}, FALSE,
             Open \o Linked \o All("commit") \o <<Do("wait", t1), Do("free", t1)>> \o Close, <<>>)
Closing ==
    Scenario(FALSE, {}, FALSE,
             Open \o All("create") \o All("commit") \o <<Do("free", t1), Lone("finalize")>>, <<>>)
Again ==
    Scenario(FALSE, {}, FALSE,
             Open \o All("create") \o All("commit") \o <<Lone("engine_free")>> \o Close, <<>>)

\* A task is waited for that nobody has committed.
Early == Scenario(FALSE, {}, FALSE, Open \o <<Do("create", t1), Do("wait", t1)>>, <<>>)

AllScenarios ==
    {NoFree, NothingFreed, Told, Freed, Late, Never, Both, Polls, Waiting, Hasty, Closing,
     Again, Early}
================================================================================
