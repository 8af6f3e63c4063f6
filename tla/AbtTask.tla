-------------------------------- MODULE AbtTask --------------------------------
(***************************************************************************)
(* The task life cycle of the Argobots driver: driver/argobots/            *)
(* twabt_task.c, twabti_task.c, the task half of twabti_sched.c, and       *)
(* do_work and free of twabt_engine.c and twabti_engine.c.                 *)
(*                                                                         *)
(* The driver was written from the native one: statements the two share    *)
(* are the actions of NativeTask, instantiated here.  It differs in how a  *)
(* task is queued (an engine-wide list that callers search, and a tasklet  *)
(* in an Argobots pool that the workers pop), in how a caller waits (it    *)
(* runs the task, or a task it depends on, itself) and in its locking.     *)
(***************************************************************************)
EXTENDS Integers, Sequences, FiniteSets, TaskStatus

CONSTANTS
    Task, Handled, Faulty, Mask, Selects, Priority, NumLevels,  \* as in NativeTask
    Worker,     \* the execution streams of the engine (ep->ess)
    App,        \* the application's threads
    Scripts     \* in each of them, script[a] is the API calls thread a makes

Thread == Worker \cup App
Level  == 0..(NumLevels - 1)
Dep    == Task \X Task

VARIABLES
    status, ep, ndep, counter, finalized,       \* as in NativeTask
    depStatus, depChild, depParent,
    readers, tasks, listReaders,
    stack, success, script, fault, runs,
    parents,    \* tp->parents, the newest first
    childs,     \* tp->childs, the newest last: the order of insertion
    writer,     \* the tasks whose lock a commit holds for writing
    ctx,        \* tp->abt_task_ctx: "wild" before it is set, "null", or what
                \* it points to: "task", "clear" (NULL), "gone" (disposed of)
    ness,       \* ep->ness, the number of execution streams
    engTasks,   \* every task put on ep->tasks so far, the newest last
    listed,     \* those that are still there
    pool,       \* ep->pools[priority]: the tasks of the waiting tasklets
    joined,     \* the execution streams have ended
    visited     \* the hash of the tasks a run_dep has come to

job  == <<ctx, ness, engTasks, listed, pool, joined>>
dep  == <<depStatus, depChild, depParent>>
lock == <<readers, writer, tasks, listReaders>>
task == <<status, ep, parents, childs, ndep, counter, finalized>>
vars == <<task, job, dep, lock, stack, success, script, visited, fault, runs>>

\* What the actions taken from NativeTask leave alone stands for its job queues.
N == INSTANCE NativeTask WITH hasJob <- ctx, jobData <- <<ness, listed, joined>>,
                              queue <- <<engTasks, pool>>, njob <- <<visited, writer>>

ASSUME LevelsAssumption == NumLevels \in Nat /\ Priority \in [Task -> Level]

-----------------------------------------------------------------------------
\* Call stacks, as in NativeTask.

Top(th) == Head(stack[th])
At(th, pc) == stack[th] # <<>> /\ Top(th).pc = pc
Goto(th, f) == stack' = [stack EXCEPT ![th] = <<f>> \o Tail(@)]
Step(th, pc) == Goto(th, [Top(th) EXCEPT !.pc = pc])
StepTo(th, pc, i) == Goto(th, [Top(th) EXCEPT !.pc = pc, !.i = i])
Return(th) == stack' = [stack EXCEPT ![th] = Tail(@)]
Enter(pc, t) == N!Enter(pc, t, t)
Update(t, old, new) == N!Update(t, old, new)

\* The callees' frames go on top of the caller's, which is replaced by f.
Call(th, callees, f) ==
    stack' = [stack EXCEPT ![th] = callees \o <<f>> \o Tail(@)]

\* A call of TWABTI_Task_run (t).
TaskRun(t) == << Update(t, QUEUE, RUNNING), Enter("ran", t) >>

\* Task_free has been called for t: its memory is valid for as long as the
\* disposer keeps it.
Freed(t) ==
    /\ status[t] # INVAL
    /\ \A i \in DOMAIN tasks : tasks[i] # t
    /\ \A th \in Thread : ~(At(th, "free_task") /\ Top(th).t = t)

-----------------------------------------------------------------------------
\* TWABTI_Task_update_status and TWABTI_Task_notify_parent_status.

Cas(th) == N!Cas(th)
CasFails(th) == N!CasFails(th)

\* The walk over tp->childs: a dependency inserted after this is not met.
NotifyBegin(th) ==
    /\ At(th, "notify")
    /\ StepTo(th, "notify_next", Len(childs[Top(th).t]))
    /\ UNCHANGED <<task, job, dep, lock, success, script, visited, fault, runs>>

\* One round: raise dp->status to new unless it is there already, and look
\* whether the child wants to know.
NotifyNext(th) ==
    /\ At(th, "notify_next")
    /\ LET f == Top(th) IN
       IF f.i = 0
       THEN Step(th, "act") /\ UNCHANGED depStatus
       ELSE LET d     == childs[f.t][f.i]
                told  == depChild[d] /\ depStatus[d] < f.new
                hears == told /\ status[d[1]] = DEPHOLD /\ f.new \in Mask[d[1]]
            IN /\ depStatus' = [depStatus EXCEPT ![d] = IF told THEN f.new ELSE @]
               /\ IF hears THEN Step(th, "change")
                           ELSE StepTo(th, "notify_next", f.i - 1)
    /\ UNCHANGED <<task, job, depChild, depParent, lock, success, script, visited,
                   fault, runs>>

\* The child's Status_change; a verdict other than DEPHOLD is acted upon.
Change(th) ==
    /\ At(th, "change")
    /\ LET f     == Top(th)
           d     == childs[f.t][f.i]
           after == N!Verdict(d[1], f.new)
           next  == [f EXCEPT !.pc = "notify_next", !.i = @ - 1]
       IN /\ N!StatusChange(d, f.new)
          /\ IF after = DEPHOLD
             THEN Goto(th, next)
             ELSE Call(th, << Update(d[1], DEPHOLD, after) >>, next)
    /\ UNCHANGED <<status, ep, parents, childs, ndep, finalized, job, dep, lock,
                   success, script, visited, runs>>

\* READY: TWABTI_Task_queue, which begins with the engine's list.
ActReady(th) ==
    /\ At(th, "act")
    /\ Top(th).new = READY
    /\ LET t == Top(th).t IN
       IF t \in Handled
       THEN /\ engTasks' = Append(engTasks, t)
            /\ listed' = listed \cup {t}
            /\ Step(th, "queue_ctx")
       ELSE /\ Goto(th, Update(t, READY, FINAL))
            /\ UNCHANGED <<engTasks, listed>>
    /\ UNCHANGED <<task, ctx, ness, pool, joined, dep, lock, success, script,
                   visited, fault, runs>>


\* Without workers there is no tasklet.
QueueCtx(th) ==
    /\ At(th, "queue_ctx")
    /\ LET t == Top(th).t IN
       IF ness > 0
       THEN ctx' = [ctx EXCEPT ![t] = "task"] /\ Step(th, "queue_pool")
       ELSE /\ ctx' = [ctx EXCEPT ![t] = "null"]
            /\ Goto(th, Update(t, READY, QUEUE))
    /\ UNCHANGED <<task, ness, engTasks, listed, pool, joined, dep, lock, success,
                   script, visited, fault, runs>>

\* ABT_task_create; the task gets the status QUEUE after that.
QueuePool(th) ==
    /\ At(th, "queue_pool")
    /\ LET t == Top(th).t IN
       /\ pool' = [pool EXCEPT ![Priority[t]] = Append(@, t)]
       /\ Goto(th, Update(t, READY, QUEUE))
    /\ UNCHANGED <<task, ctx, ness, engTasks, listed, joined, dep, lock, success,
                   script, visited, fault, runs>>

ActFinal(th) ==
    /\ At(th, "act")
    /\ Top(th).new = FINAL
    /\ LET t == Top(th).t IN
       /\ listed' = IF ep[t] THEN listed \ {t} ELSE listed
       /\ ep' = [ep EXCEPT ![t] = FALSE]
       /\ finalized' = [finalized EXCEPT ![t] = @ \/ N!HasHandler(t)]
       /\ Goto(th, Update(t, FINAL, COMPLETED))
    /\ UNCHANGED <<status, parents, childs, ndep, counter, ctx, ness, engTasks,
                   pool, joined, dep, lock, success, script, visited, fault,
                   runs>>

\* A task that has been aborted or has failed stays on the list.
ActOther(th) == N!ActOther(th)

UpdateStatus(th) ==
    \/ Cas(th) \/ CasFails(th)
    \/ NotifyBegin(th) \/ NotifyNext(th) \/ Change(th)
    \/ ActReady(th) \/ QueueCtx(th) \/ QueuePool(th) \/ ActFinal(th) \/ ActOther(th)

-----------------------------------------------------------------------------
\* A worker: TWABTI_Sched_run_single and TWABTI_Task_abttask_cb.

\* A scan of the pools takes the oldest tasklet of one of them.  n = 1 marks a
\* tasklet whose task had been freed by then: the worker has passed a flush of
\* the disposer since, which may have released the memory.
Pull(th) ==
    /\ th \in Worker /\ ness > 0 /\ ~joined
    /\ stack[th] = <<>>
    /\ \E l \in Level :
        /\ pool[l] # <<>>
        /\ pool' = [pool EXCEPT ![l] = Tail(@)]
        /\ LET t == Head(pool[l]) IN
           stack' = [stack EXCEPT ![th] =
                        << [Enter("cb", t) EXCEPT !.n = IF Freed(t) THEN 1 ELSE 0] >>]
    /\ UNCHANGED <<task, ctx, ness, engTasks, listed, joined, dep, lock, success,
                   script, visited, fault, runs>>

\* The task, unless a retract has cleared the pointer to it.
Callback(th) ==
    /\ At(th, "cb")
    /\ LET t == Top(th).t IN
       \/ /\ ctx[t] = "task"
          /\ ctx' = [ctx EXCEPT ![t] = "clear"]
          /\ Step(th, "cb_spin")
          /\ UNCHANGED fault
       \/ /\ ctx[t] = "clear"
          /\ ctx' = [ctx EXCEPT ![t] = "gone"]
          /\ Return(th)
          /\ UNCHANGED fault
       \/ /\ ctx[t] = "task" /\ Top(th).n = 1
          /\ fault' = "freed_task"
          /\ UNCHANGED <<ctx, stack>>
    /\ UNCHANGED <<task, ness, engTasks, listed, pool, joined, dep, lock, success,
                   script, visited, runs>>

\* "Wait until status changed to queue"
CallbackSpin(th) ==
    /\ At(th, "cb_spin")
    /\ LET t == Top(th).t IN
       /\ status[t] # READY
       /\ Call(th, TaskRun(t), [Top(th) EXCEPT !.pc = "cb_done"])
    /\ UNCHANGED <<task, job, dep, lock, success, script, visited, fault, runs>>

CallbackDone(th) ==
    /\ At(th, "cb_done")
    /\ ctx' = [ctx EXCEPT ![Top(th).t] = "gone"]
    /\ Return(th)
    /\ UNCHANGED <<task, ness, engTasks, listed, pool, joined, dep, lock, success,
                   script, visited, fault, runs>>

\* TWABTI_Task_run: the handler runs only if this thread moved the task to
\* RUNNING; success tells the caller.
Ran(th) ==
    /\ At(th, "ran")
    /\ LET t == Top(th).t IN
       IF success[th]
       THEN /\ runs' = [runs EXCEPT ![t] = @ + 1]
            /\ Step(th, "handler")
       ELSE /\ Return(th)
            /\ UNCHANGED runs
    /\ UNCHANGED <<task, job, dep, lock, success, script, visited, fault>>

HandlerReturns(th) == N!HandlerReturns(th)

Work(th) ==
    \/ Pull(th) \/ Callback(th) \/ CallbackSpin(th) \/ CallbackDone(th)
    \/ Ran(th) \/ HandlerReturns(th)

-----------------------------------------------------------------------------
\* Task_commit: the lock of the task is held for writing until it returns.

CommitRefused(th) == N!CommitRefused(th)

CommitLock(th) ==
    /\ At(th, "commit")
    /\ success[th]
    /\ readers[Top(th).t] = {} /\ Top(th).t \notin writer
    /\ writer' = writer \cup {Top(th).t}
    /\ Call(th, << [Top(th) EXCEPT !.pc = "commit_init"] >>,
                [Top(th) EXCEPT !.pc = "commit_unlock"])
    /\ UNCHANGED <<task, job, dep, readers, tasks, listReaders, success, script,
                   visited, fault, runs>>

CommitInit(th) == N!CommitInit(th)

\* Mutant of Wire: the parents that have moved on already are not looked at.
WireUnchecked(th) == N!WireUnchecked(th)

Wire(th) == N!Wire(th)
LoadParent(th) == N!LoadParent(th)
LoadDep(th) == N!LoadDep(th)

\* Mutant of Check: any status of the parent releases the child.
CheckAny(th) ==
    /\ At(th, "check")
    /\ LET f == Top(th) IN Goto(th, Update(f.t, DEPHOLD, READY))
    /\ UNCHANGED <<task, job, dep, lock, success, script, visited, fault, runs>>

Check(th) == N!Check(th)

CommitUnlock(th) ==
    /\ At(th, "commit_unlock")
    /\ writer' = writer \ {Top(th).t}
    /\ Return(th)
    /\ UNCHANGED <<task, job, dep, readers, tasks, listReaders, success, script,
                   visited, fault, runs>>

Commit(th) ==
    \/ CommitRefused(th) \/ CommitLock(th) \/ CommitInit(th)
    \/ Wire(th) \/ LoadParent(th) \/ LoadDep(th) \/ Check(th) \/ CommitUnlock(th)

-----------------------------------------------------------------------------
\* Task_retract; the caller looks whether it succeeded.

Retract(th) ==
    /\ At(th, "retract")
    /\ LET t == Top(th).t IN
       IF status[t] \in {DEPHOLD, READY}
       THEN /\ Call(th, << Update(t, status[t], ABORTED) >>,
                        [Top(th) EXCEPT !.pc = "retracted"])
            /\ UNCHANGED success
       ELSE /\ Return(th)
            /\ success' = [success EXCEPT ![th] = FALSE]
    /\ UNCHANGED <<task, job, dep, lock, script, visited, fault, runs>>

\* *(tp->abt_task_ctx) = NULL.  The pointer is uninitialized in a task that has
\* never been queued, and NULL without workers; a callback that was faster has
\* disposed of what it points to.
Retracted(th) ==
    /\ At(th, "retracted")
    /\ LET t == Top(th).t IN
       \/ /\ ~success[th]
          /\ Step(th, "retract")
          /\ UNCHANGED <<ctx, fault>>
       \/ /\ success[th] /\ ctx[t] # "null"
          /\ ctx' = [ctx EXCEPT ![t] = IF @ = "task" THEN "clear" ELSE @]
          /\ Return(th)
          /\ UNCHANGED fault
       \/ /\ success[th] /\ ctx[t] \in {"wild", "null", "gone"}
          /\ fault' = "bad_ctx"
          /\ UNCHANGED <<ctx, stack>>
    /\ UNCHANGED <<task, ness, engTasks, listed, pool, joined, dep, lock, success,
                   script, visited, runs>>

-----------------------------------------------------------------------------
\* Task_wait_single: the caller runs the task, or tasks it depends on, itself.
\* n = 1 marks a wait with a timeout.

\* The hash of run_dep: a set of pointers, that a new one is added to.
Visit(th, hash, t) == visited' = [visited EXCEPT ![th] = hash \cup {t}]

\* A call of TWABTI_Task_run_dep; it makes a new hash.
RunDep(th) ==
    LET t == Top(th).t IN
    /\ Visit(th, {}, t)
    /\ Call(th, << Enter("core", t) >>, [Top(th) EXCEPT !.pc = "wait"])

Wait(th) ==
    /\ At(th, "wait")
    /\ \/ /\ status[Top(th).t] \in {COMPLETED, ABORTED, FAILED} \/ Top(th).n = 1
          /\ visited' = [visited EXCEPT ![th] = {}]
          /\ Return(th)
       \/ /\ status[Top(th).t] \notin {COMPLETED, ABORTED, FAILED}
          /\ \/ Top(th).n = 0 /\ RunDep(th)
             \/ /\ Top(th).n = 1
                /\ Step(th, IF ep[Top(th).t] THEN "wait_ness" ELSE "wait")
                /\ UNCHANGED visited
    /\ UNCHANGED <<task, job, dep, lock, success, script, fault, runs>>

\* tp->ep->ness, where tp->ep may be loaded a second time.
WaitNess(th) ==
    /\ At(th, "wait_ness")
    /\ \/ ness = 0 /\ RunDep(th) /\ UNCHANGED fault
       \/ ness > 0 /\ Step(th, "wait") /\ UNCHANGED <<visited, fault>>
       \/ /\ ~ep[Top(th).t]
          /\ fault' = "null_engine"
          /\ UNCHANGED <<stack, visited>>
    /\ UNCHANGED <<task, job, dep, lock, success, script, runs>>

\* TWABTI_Task_run_dep_core: run the task, or look at what holds it.
Core(th) ==
    /\ At(th, "core")
    /\ LET f == Top(th) IN
       \/ /\ status[f.t] = QUEUE
          /\ Call(th, TaskRun(f.t), [f EXCEPT !.pc = "core_back", !.i = 0])
          /\ UNCHANGED success
       \/ /\ status[f.t] = DEPHOLD
          /\ Step(th, "core_begin")
          /\ UNCHANGED success
       \/ /\ status[f.t] \notin {QUEUE, DEPHOLD}
          /\ success' = [success EXCEPT ![th] = FALSE]
          /\ Return(th)
    /\ UNCHANGED <<task, job, dep, lock, script, visited, fault, runs>>

\* i counts the parents that are left; those that are added later are not met.
CoreBegin(th) ==
    /\ At(th, "core_begin")
    /\ StepTo(th, "core_walk", Len(parents[Top(th).t]))
    /\ UNCHANGED <<task, job, dep, lock, success, script, visited, fault, runs>>

\* The next parent, unless this run_dep has come to it before.
CoreWalk(th) ==
    /\ At(th, "core_walk")
    /\ LET f    == Top(th)
           d    == parents[f.t][Len(parents[f.t]) - f.i + 1]
           next == [f EXCEPT !.pc = "core_back", !.i = @ - 1]
       IN IF f.i = 0
          THEN Step(th, "core") /\ UNCHANGED visited
          ELSE IF depParent[d] /\ d[2] \notin visited[th]
          THEN /\ Visit(th, visited[th], d[2])
               /\ Call(th, << Enter("core", d[2]) >>, next)
          ELSE StepTo(th, "core_walk", f.i - 1) /\ UNCHANGED visited
    /\ UNCHANGED <<task, job, dep, lock, success, script, fault, runs>>

\* One task has been run, or the loop goes on.
CoreBack(th) ==
    /\ At(th, "core_back")
    /\ IF success[th] THEN Return(th) ELSE Step(th, "core_walk")
    /\ UNCHANGED <<task, job, dep, lock, success, script, visited, fault, runs>>

Waits(th) ==
    \/ Wait(th) \/ WaitNess(th)
    \/ Core(th) \/ CoreBegin(th) \/ CoreWalk(th) \/ CoreBack(th)

-----------------------------------------------------------------------------
\* Task_add_dep and Task_rm_dep.  Neither looks at the status: a dependency that
\* comes after the commit is accepted.

ReadLock(th) ==
    /\ At(th, "add_lock") \/ At(th, "rm_lock")
    /\ Top(th).t \notin writer
    /\ readers' = [readers EXCEPT ![Top(th).t] = @ \cup {th}]
    /\ Step(th, IF At(th, "add_lock") THEN "add_push" ELSE "rm_detach")
    /\ UNCHANGED <<task, job, dep, writer, tasks, listReaders, success, script,
                   visited, fault, runs>>

Unlock(th) == readers' = [readers EXCEPT ![Top(th).t] = @ \ {th}]

AddPush(th) ==
    /\ At(th, "add_push")
    /\ LET d == <<Top(th).t, Top(th).p>> IN
       /\ parents' = [parents EXCEPT ![d[1]] = <<d>> \o @]
       /\ depStatus' = [depStatus EXCEPT ![d] = INVAL]
       /\ depChild' = [depChild EXCEPT ![d] = TRUE]
       /\ depParent' = [depParent EXCEPT ![d] = TRUE]
    /\ Unlock(th)
    /\ Return(th)
    /\ UNCHANGED <<status, ep, childs, ndep, counter, finalized, job, writer,
                   tasks, listReaders, success, script, visited, fault, runs>>

Of(s) == {s[i] : i \in DOMAIN s}

\* The dependency stays in cp->parents; its child pointer is cleared.  A search
\* that does not find it goes on to the data of the list's tail, which nobody
\* has initialized.
RmDetach(th) ==
    /\ At(th, "rm_detach")
    /\ LET d     == <<Top(th).t, Top(th).p>>
           found == d \in Of(parents[d[1]]) /\ depParent[d]
       IN /\ depChild' = [depChild EXCEPT ![d] = @ /\ ~found]
          /\ fault' \in IF found THEN {fault} ELSE {fault, "wild_data"}
    /\ Unlock(th)
    /\ Return(th)
    /\ UNCHANGED <<task, job, depStatus, depParent, writer, tasks, listReaders,
                   success, script, visited, runs>>

Depend(th) == ReadLock(th) \/ AddPush(th) \/ RmDetach(th)

-----------------------------------------------------------------------------
\* Task_create, Task_create_barrier and Task_free.

Create(th) == N!Create(th)
BarLock(th) == N!BarLock(th)
BarLoop(th) == N!BarLoop(th)
FreeErase(th) == N!FreeErase(th)

\* TWABTI_Task_free.  A tasklet of the task stays where it is.
FreeTask(th) ==
    /\ At(th, "free_task")
    /\ LET t == Top(th).t IN
       /\ readers[t] = {} /\ t \notin writer
       /\ depParent' = [d \in Dep |-> depParent[d] /\ d \notin Of(childs[t])]
       /\ depChild' = [d \in Dep |-> depChild[d] /\ d \notin Of(parents[t])]
    /\ Return(th)
    /\ UNCHANGED <<task, job, depStatus, lock, success, script, visited, fault,
                   runs>>

Objects(th) ==
    Create(th) \/ BarLock(th) \/ BarLoop(th) \/ FreeErase(th) \/ FreeTask(th)

-----------------------------------------------------------------------------
\* Engine_do_work and Engine_free: walks over ep->tasks, the newest first.

\* The newest of the first k tasks put on the list that is still there.
Newest(k) ==
    LET there == {i \in 1..k : engTasks[i] \in listed} IN
    IF there = {} THEN 0 ELSE CHOOSE i \in there : \A j \in there : j <= i

ListBegin(th) ==
    /\ At(th, "work") \/ At(th, "free_list")
    /\ StepTo(th, IF At(th, "work") THEN "work_at" ELSE "free_at",
                  Newest(Len(engTasks)))
    /\ UNCHANGED <<task, job, dep, lock, success, script, visited, fault, runs>>

WorkAt(th) ==
    /\ At(th, "work_at")
    /\ LET f == Top(th) IN
       IF f.i = 0 THEN Return(th)
       ELSE IF status[engTasks[f.i]] = QUEUE
       THEN Call(th, TaskRun(engTasks[f.i]), [f EXCEPT !.pc = "work_next"])
       ELSE Step(th, "work_next")
    /\ UNCHANGED <<task, job, dep, lock, success, script, visited, fault, runs>>

\* The time may be over after any task; n = 1 is TW_ONCE.
WorkNext(th) ==
    /\ At(th, "work_next")
    /\ \/ Return(th)
       \/ Top(th).n = 0 /\ StepTo(th, "work_at", Newest(Top(th).i - 1))
    /\ UNCHANGED <<task, job, dep, lock, success, script, visited, fault, runs>>

\* ABT_xstream_join: an execution stream ends when there is nothing to pop.
Join(th) ==
    /\ At(th, "join")
    /\ \A w \in Worker : stack[w] = <<>>
    /\ \A l \in Level : pool[l] = <<>>
    /\ joined' = TRUE
    /\ Step(th, "free_list")
    /\ UNCHANGED <<task, ctx, ness, engTasks, listed, pool, dep, lock, success,
                   script, visited, fault, runs>>

\* "Retract all tasks".  One that cannot be retracted ends Engine_free.
FreeAt(th) ==
    /\ At(th, "free_at")
    /\ LET f == Top(th) IN
       IF f.i = 0 THEN Return(th)
       ELSE Call(th, << Enter("retract", engTasks[f.i]) >>,
                     [f EXCEPT !.pc = "free_next"])
    /\ UNCHANGED <<task, job, dep, lock, success, script, visited, fault, runs>>

FreeNext(th) ==
    /\ At(th, "free_next")
    /\ IF success[th] THEN StepTo(th, "free_at", Newest(Top(th).i - 1))
                      ELSE Return(th)
    /\ UNCHANGED <<task, job, dep, lock, success, script, visited, fault, runs>>

Engine(th) ==
    \/ ListBegin(th) \/ WorkAt(th) \/ WorkNext(th)
    \/ Join(th) \/ FreeAt(th) \/ FreeNext(th)

-----------------------------------------------------------------------------
\* The application: the next call of its script, once the handles exist.

Frames(c) ==
    CASE c.op = "free_engine" -> << Enter("join", c.t) >>
      [] c.op = "do_work"     -> << Enter("work", c.t) >>
      [] c.op = "work_once"   -> << [Enter("work", c.t) EXCEPT !.n = 1] >>
      [] OTHER                -> N!Frames(c)

NextCall(th) ==
    /\ th \in App
    /\ stack[th] = <<>>
    /\ script[th] # <<>>
    /\ LET c == Head(script[th]) IN
       /\ c.op \in {"create", "create_barrier"} <=> status[c.t] = INVAL
       /\ c.op \in {"add_dep", "rm_dep"} => status[c.p] # INVAL
       /\ stack' = [stack EXCEPT ![th] = Frames(c)]
       /\ script' = [script EXCEPT ![th] = Tail(@)]
    /\ UNCHANGED <<task, job, dep, lock, success, visited, fault, runs>>

-----------------------------------------------------------------------------

Init ==
    /\ status = [t \in Task |-> INVAL]
    /\ ep = [t \in Task |-> FALSE]
    /\ parents = [t \in Task |-> <<>>]
    /\ childs = [t \in Task |-> <<>>]
    /\ ndep = [t \in Task |-> -1]
    /\ counter = [t \in Task |-> 0]
    /\ finalized = [t \in Task |-> FALSE]
    /\ ctx = [t \in Task |-> "wild"]
    /\ ness \in {0, Cardinality(Worker)}   \* Engine_create with and without workers
    /\ engTasks = <<>> /\ listed = {}
    /\ pool = [l \in Level |-> <<>>]
    /\ joined = FALSE
    /\ depStatus = [d \in Dep |-> INVAL]
    /\ depChild = [d \in Dep |-> FALSE]
    /\ depParent = [d \in Dep |-> FALSE]
    /\ readers = [t \in Task |-> {}] /\ writer = {}
    /\ tasks = <<>> /\ listReaders = {}
    /\ stack = [th \in Thread |-> <<>>]
    /\ success = [th \in Thread |-> FALSE]
    /\ visited = [th \in Thread |-> {}]
    /\ script \in Scripts
    /\ fault = "none"
    /\ runs = [t \in Task |-> 0]

Run(th) ==
    \/ UpdateStatus(th) \/ Work(th) \/ Commit(th) \/ Retract(th) \/ Retracted(th)
    \/ Waits(th) \/ Depend(th) \/ Objects(th) \/ Engine(th)
    \/ NextCall(th)

\* Every call has returned and there is nothing to pop; or the process is gone.
Done ==
    \/ fault # "none"
    \/ /\ \A th \in Thread : stack[th] = <<>>
       /\ \A a \in App : script[a] = <<>>
       /\ joined \/ \A l \in Level : pool[l] = <<>>

Next ==
    \/ fault = "none" /\ \E th \in Thread : Run(th)
    \/ Done /\ UNCHANGED vars

Spec == Init /\ [][Next]_vars

-----------------------------------------------------------------------------

\* The values the variables take.
TypeOK ==
    /\ status \in [Task -> Status]
    /\ ep \in [Task -> BOOLEAN] /\ finalized \in [Task -> BOOLEAN]
    /\ \A t \in Task : Of(parents[t]) \subseteq Dep /\ Of(childs[t]) \subseteq Dep
    /\ ndep \in [Task -> Nat \cup {-1}] /\ counter \in [Task -> Int]
    /\ ness \in {0, Cardinality(Worker)}
    /\ ctx \in [Task -> {"wild", "null", "task", "clear", "gone"}]
    /\ listed \subseteq Of(engTasks) /\ Of(engTasks) \subseteq Handled
    /\ \A l \in Level : Of(pool[l]) \subseteq {t \in Handled : Priority[t] = l}
    /\ depStatus \in [Dep -> Status]
    /\ depChild \in [Dep -> BOOLEAN] /\ depParent \in [Dep -> BOOLEAN]
    /\ readers \in [Task -> SUBSET Thread] /\ writer \subseteq Task
    /\ \A t \in writer : readers[t] = {}
    /\ visited \in [Thread -> SUBSET Task]
    /\ runs \in [Task -> Nat]
    /\ fault \in {"none", "bad_ctx", "freed_task", "null_engine", "stale_counter",
                  "wild_data"}

\* The tasklet of t waits in a pool or a worker has taken it.
Carried(t) ==
    \/ \E l \in Level : t \in Of(pool[l])
    \/ \E w \in Worker : \E i \in DOMAIN stack[w] :
            stack[w][i].t = t /\ stack[w][i].pc \in {"cb", "cb_spin", "cb_done"}


\* The tasks t depends on; those its commit has counted once it has.
Needs(t) ==
    LET late == IF ndep[t] = -1 THEN 0 ELSE Len(parents[t]) - ndep[t] IN
    {parents[t][i][2] : i \in (late + 1)..Len(parents[t])}

\* What holds c can no longer change, and should not hold it.
Forgotten(c) ==
    /\ Done /\ fault = "none"
    /\ status[c] = DEPHOLD /\ N!HasHandler(c)
    /\ \A p \in Needs(c) : status[p] = COMPLETED /\ depChild[<<c, p>>]

\* "The function will be called exactly once when the status of a paraent changes"
\* (tw_task.h:95): at rest no task should be on hold whose parents have all
\* completed, but the driver does forget some.  The one thing that makes a child
\* miss its parent's completion is the news that the parent is queued: it may come
\* late, when a worker has already run the task, and overtake what the commit of
\* the child has to say.
LostOnlyToQueue ==
    \A c \in Task : Forgotten(c) => \E p \in Needs(c) : depStatus[<<c, p>>] = QUEUE

\* As long as no task has two parents, the driver keeps the promise of the task
\* API, whoever runs the tasks.
Graph == INSTANCE TaskGraph WITH needs <- [t \in Task |-> Needs(t)]
ImplementsTaskGraph == Graph!Spec
=============================================================================
