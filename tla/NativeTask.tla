------------------------------ MODULE NativeTask ------------------------------
(***************************************************************************)
(* The task life cycle of the native driver: driver/native/twnative_task.c *)
(* and twnative_task_int.c, the job half of twnative_engine_sched.c and    *)
(* the predefined dependency handler of dispatcher/tw_task_dep.c.          *)
(*                                                                         *)
(* Worker threads run jobs; application threads call the task API.  Every  *)
(* thread owns a call stack; one step is one access to state that threads  *)
(* share (a compare-and-swap, a load, a push), so that any two calls       *)
(* interleave as they do in the program.                                   *)
(***************************************************************************)
EXTENDS Integers, Sequences, TaskStatus

CONSTANTS
    Task,       \* the task objects
    Worker,     \* the engine's worker threads (ep->threads)
    App,        \* the application's threads
    Handled,    \* the tasks created with a task_cb; the others are barriers
    Faulty,     \* the tasks whose task_cb may return an error
    Mask,       \* Mask[t]: the statuses dep_handler.Mask selects
    Selects,    \* Selects[b]: the tasks whose tag barrier b's dep_tag selects
    Priority,   \* Priority[t]: the queue t's jobs go to
    NumLevels,  \* queues 0..NumLevels-1 are polled by scheduler_core
    Scripts     \* in each of them, script[a] is the API calls thread a makes

Thread == Worker \cup App
Level  == 0..(NumLevels - 1)

\* A dependency is the pair <<child, parent>> (TWNATIVE_Task_dep_t).
Dep == Task \X Task

Op == {"create", "create_barrier", "add_dep", "rm_dep", "commit", "retract",
       "wait", "wait_timed", "free"}

ApiCall == [op : Op, t : Task, p : Task]

ASSUME ConstantsAssumption ==
    /\ Task # {}
    /\ Worker \cap App = {}
    /\ Handled \subseteq Task /\ Faulty \subseteq Handled
    /\ NumLevels \in Nat
    /\ Mask \in [Task -> SUBSET Nat]
    /\ Selects \in [Task -> SUBSET Task]
    /\ Priority \in [Task -> Level]
    /\ Scripts \subseteq [App -> Seq(ApiCall)]

-----------------------------------------------------------------------------
\* Where a thread stands inside the function its frame belongs to.
Label == {"cas", "notify", "change", "act",
          "queue_job", "queue_push", "queue_inc",
          "pop", "ran", "handler",
          "commit", "commit_init", "wire", "load_parent", "load_dep", "check",
          "retract", "retracted",
          "wait", "wait_stat", "wait_sched", "wait_loop", "wait_done",
          "add_lock", "add_check", "add_push",
          "rm_lock", "rm_check", "rm_detach",
          "create", "bar_lock", "bar_loop",
          "free_erase", "free_task"}

\* p, old, new, i and n are the function's locals; a label that has no use for
\* one of them leaves it at its last value.
Frame == [pc : Label, t : Task, p : Task, old : Status, new : Status, i : Nat,
          n : Nat]

VARIABLES
    status,     \* tp->status
    ep,         \* tp->ep is not NULL
    parents,    \* tp->parents
    childs,     \* tp->childs
    ndep,       \* the number of dependencies Task_commit counted; -1 before
    counter,    \* the all_complete handler's count of what is missing
    finalized,  \* the handler's count has been freed (dep_handler.Finalize)
    hasJob,     \* tp->job is not NULL
    jobData,    \* the data pointer of tp's job is not NULL
    depStatus,  \* dp->status
    depChild,   \* dp->child is not NULL
    depParent,  \* dp->parent is not NULL
    readers,    \* the threads that hold tp->lock for reading
    tasks,      \* TWNATIVEI_Tasks, the opened task list
    listReaders,\* the threads that hold its lock for reading
    queue,      \* ep->queue[priority]: the tasks of the queued jobs
    njob,       \* the semaphore ep->njob
    stack,      \* stack[th]: the frames of thread th, innermost first
    success,    \* the success flag the last Taski_update_status returned
    script,     \* the calls an application thread has yet to make
    fault,      \* what undefined behaviour has stopped the process
    runs        \* how often tp->handler was called

task  == <<status, ep, parents, childs, ndep, counter, finalized>>
job   == <<hasJob, jobData, queue, njob>>
dep   == <<depStatus, depChild, depParent>>
lock  == <<readers, tasks, listReaders>>
local == <<stack, success, script>>
vars  == <<task, job, dep, lock, local, fault, runs>>

-----------------------------------------------------------------------------
\* Call stacks.

Top(th)    == Head(stack[th])
At(th, pc) == stack[th] # <<>> /\ Top(th).pc = pc

\* The callee's frame goes on top of the caller's, which is replaced by f.
Goto(th, f)      == stack' = [stack EXCEPT ![th] = <<f>> \o Tail(@)]
Call(th, g, f)   == stack' = [stack EXCEPT ![th] = <<g, f>> \o Tail(@)]
Return(th)       == stack' = [stack EXCEPT ![th] = Tail(@)]
Step(th, pc)     == Goto(th, [Top(th) EXCEPT !.pc = pc])
StepTo(th, pc, n) == Goto(th, [Top(th) EXCEPT !.pc = pc, !.i = n])

\* A call of Taski_update_status (t, old, new).
Update(t, old, new) ==
    [pc |-> "cas", t |-> t, p |-> t, old |-> old, new |-> new, i |-> 1, n |-> 0]

Enter(pc, t, p) ==
    [pc |-> pc, t |-> t, p |-> p, old |-> INVAL, new |-> INVAL, i |-> 1, n |-> 0]

-----------------------------------------------------------------------------
\* The dependency handler.

\* TW_TASK_DEP_NULL selects nothing and has no Init and no Finalize.
HasHandler(t) == Mask[t] # {}

\* Mutant of Verdict: a failed parent is not told from one that still runs.
VerdictFailedHolds(c, new) ==
    CASE new = COMPLETED -> IF counter[c] = 1 THEN READY ELSE DEPHOLD
      [] new = ABORTED   -> ABORTED
      [] OTHER           -> DEPHOLD

\* What TWI_Task_dep_all_complete_status_change returns for child c.
Verdict(c, new) ==
    CASE new = COMPLETED            -> IF counter[c] = 1 THEN READY ELSE DEPHOLD
      [] new \in {ABORTED, FAILED}  -> ABORTED
      [] OTHER                      -> DEPHOLD

\* One call of child's Status_change for the dependency d.
StatusChange(d, new) ==
    LET c == d[1] IN
    /\ counter' = [counter EXCEPT ![c] = IF new = COMPLETED THEN @ - 1 ELSE @]
    /\ fault' = IF finalized[c] THEN "stale_counter" ELSE fault

NoStatusChange == UNCHANGED <<counter, fault>>

-----------------------------------------------------------------------------
\* Taski_update_status and Taski_notify_parent_status.

\* Mutant of Cas: the status is stored, not compared and swapped.
CasBlind(th) ==
    /\ At(th, "cas")
    /\ status' = [status EXCEPT ![Top(th).t] = Top(th).new]
    /\ Step(th, "notify")
    /\ UNCHANGED <<ep, parents, childs, ndep, counter, finalized, job, dep, lock,
                   success, script, fault, runs>>

\* The compare-and-swap of tp->status; then the children are told.
Cas(th) ==
    /\ At(th, "cas")
    /\ LET f == Top(th) IN
       /\ status[f.t] = f.old
       /\ status' = [status EXCEPT ![f.t] = f.new]
       /\ Step(th, "notify")
    /\ UNCHANGED <<ep, parents, childs, ndep, counter, finalized, job, dep, lock,
                   success, script, fault, runs>>

CasFails(th) ==
    /\ At(th, "cas")
    /\ status[Top(th).t] # Top(th).old
    /\ success' = [success EXCEPT ![th] = FALSE]
    /\ Return(th)
    /\ UNCHANGED <<task, job, dep, lock, script, fault, runs>>

\* One round of the loop over tp->childs: raise dp->status to new unless it is
\* there already, and look whether the child wants to know.
Notify(th) ==
    /\ At(th, "notify")
    /\ LET f == Top(th) IN
       /\ f.i <= Len(childs[f.t])
       /\ LET d     == childs[f.t][f.i]
              told  == depChild[d] /\ depStatus[d] < f.new
              hears == told /\ status[d[1]] = DEPHOLD /\ f.new \in Mask[d[1]]
          IN /\ depStatus' = [depStatus EXCEPT ![d] = IF told THEN f.new ELSE @]
             /\ IF hears THEN Step(th, "change") ELSE StepTo(th, "notify", f.i + 1)
    /\ UNCHANGED <<task, job, depChild, depParent, lock, success, script, fault,
                   runs>>

\* The child's Status_change; a verdict other than DEPHOLD is acted upon.
Change(th) ==
    /\ At(th, "change")
    /\ LET f     == Top(th)
           d     == childs[f.t][f.i]
           after == Verdict(d[1], f.new)
           next  == [f EXCEPT !.pc = "notify", !.i = @ + 1]
       IN /\ StatusChange(d, f.new)
          /\ IF after = DEPHOLD THEN Goto(th, next)
                                ELSE Call(th, Update(d[1], DEPHOLD, after), next)
    /\ UNCHANGED <<status, ep, parents, childs, ndep, finalized, job, dep, lock,
                   success, script, runs>>

NotifyEnds(th) ==
    /\ At(th, "notify")
    /\ Top(th).i > Len(childs[Top(th).t])
    /\ Step(th, "act")
    /\ UNCHANGED <<task, job, dep, lock, success, script, fault, runs>>

\* "Take action based on new status".  The calls at the end of a case are tail
\* calls; nobody looks at the success flag of a call that makes one.
ActReady(th) ==
    /\ At(th, "act")
    /\ Top(th).new = READY
    /\ LET t == Top(th).t IN
       IF t \in Handled
       THEN Call(th, Update(t, READY, QUEUE), [Top(th) EXCEPT !.pc = "queue_job"])
       ELSE Goto(th, Update(t, READY, FINAL))
    /\ UNCHANGED <<task, job, dep, lock, success, script, fault, runs>>

ActFinal(th) ==
    /\ At(th, "act")
    /\ Top(th).new = FINAL
    /\ LET t == Top(th).t IN
       /\ ep' = [ep EXCEPT ![t] = FALSE]
       /\ finalized' = [finalized EXCEPT ![t] = @ \/ HasHandler(t)]
       /\ Goto(th, Update(t, FINAL, COMPLETED))
    /\ UNCHANGED <<status, parents, childs, ndep, counter, job, dep, lock, success,
                   script, fault, runs>>

ActOther(th) ==
    /\ At(th, "act")
    /\ Top(th).new \notin {READY, FINAL}
    /\ success' = [success EXCEPT ![th] = TRUE]
    /\ Return(th)
    /\ UNCHANGED <<task, job, dep, lock, script, fault, runs>>

UpdateStatus(th) ==
    \/ Cas(th) \/ CasFails(th)
    \/ Notify(th) \/ Change(th) \/ NotifyEnds(th)
    \/ ActReady(th) \/ ActFinal(th) \/ ActOther(th)

-----------------------------------------------------------------------------
\* Taski_queue.  It runs whether or not the task got the status QUEUE.

QueueJob(th) ==
    /\ At(th, "queue_job")
    /\ LET t == Top(th).t IN
       /\ hasJob' = [hasJob EXCEPT ![t] = TRUE]
       /\ jobData' = [jobData EXCEPT ![t] = TRUE]
    /\ Step(th, "queue_push")
    /\ UNCHANGED <<task, queue, njob, dep, lock, success, script, fault, runs>>

\* TWI_Nb_queue_push (tp->ep->queue[tp->priority], tp->job)
QueuePush(th) ==
    /\ At(th, "queue_push")
    /\ LET t == Top(th).t IN
       /\ ep[t]
       /\ queue' = [queue EXCEPT ![Priority[t]] = Append(@, t)]
    /\ Step(th, "queue_inc")
    /\ UNCHANGED <<task, hasJob, jobData, njob, dep, lock, success, script, fault,
                   runs>>

\* Mutant of QueueInc: the job's token is forgotten.
QueueNoInc(th) ==
    /\ At(th, "queue_inc")
    /\ ep[Top(th).t]
    /\ success' = [success EXCEPT ![th] = TRUE]
    /\ Return(th)
    /\ UNCHANGED <<task, job, dep, lock, script, fault, runs>>

\* tp->ep->driver->sem.inc (tp->ep->njob)
QueueInc(th) ==
    /\ At(th, "queue_inc")
    /\ ep[Top(th).t]
    /\ njob' = njob + 1
    /\ success' = [success EXCEPT ![th] = TRUE]
    /\ Return(th)
    /\ UNCHANGED <<task, hasJob, jobData, queue, dep, lock, script, fault, runs>>

\* tp->ep has become NULL under either of them.
QueueFault(th) ==
    /\ At(th, "queue_push") \/ At(th, "queue_inc")
    /\ ~ep[Top(th).t]
    /\ fault' = "null_engine"
    /\ UNCHANGED <<task, job, dep, lock, local, runs>>

Queue(th) == QueueJob(th) \/ QueuePush(th) \/ QueueInc(th) \/ QueueFault(th)

-----------------------------------------------------------------------------
\* Engine_scheduler and Engine_scheduler_core.

\* A call of Engine_scheduler_core; its frame has no use for t before "ran".
Scheduler(t) == [Enter("pop", t, t) EXCEPT !.i = 0]
AnyTask == CHOOSE t \in Task : TRUE

\* A worker waits for a token of the semaphore and looks for a job.
SemDec(th) ==
    /\ th \in Worker
    /\ stack[th] = <<>>
    /\ njob > 0
    /\ njob' = njob - 1
    /\ stack' = [stack EXCEPT ![th] = << Scheduler(AnyTask) >>]
    /\ UNCHANGED <<task, hasJob, jobData, queue, dep, lock, success, script, fault,
                   runs>>

\* The oldest job of the current queue: tp->job = NULL, then Taski_run (tp).
Pop(th) ==
    /\ At(th, "pop")
    /\ LET f == Top(th) IN
       /\ f.i < NumLevels
       /\ queue[f.i] # <<>>
       /\ LET t == Head(queue[f.i]) IN
          /\ queue' = [queue EXCEPT ![f.i] = Tail(@)]
          /\ IF jobData[t]
             THEN /\ hasJob' = [hasJob EXCEPT ![t] = FALSE]
                  /\ Call(th, Update(t, QUEUE, RUNNING),
                              [f EXCEPT !.pc = "ran", !.t = t])
                  /\ UNCHANGED fault
             ELSE /\ fault' = "null_job"
                  /\ UNCHANGED <<hasJob, stack>>
    /\ UNCHANGED <<task, jobData, njob, dep, lock, success, script, runs>>

PopEmpty(th) ==
    /\ At(th, "pop")
    /\ LET f == Top(th) IN
       /\ f.i < NumLevels => queue[f.i] = <<>>
       /\ IF f.i < NumLevels THEN StepTo(th, "pop", f.i + 1) ELSE Return(th)
    /\ UNCHANGED <<task, job, dep, lock, success, script, fault, runs>>

\* Taski_run: the handler runs only if this thread moved the task to RUNNING;
\* otherwise the job was garbage and the scheduler goes on with the next one.
Ran(th) ==
    /\ At(th, "ran")
    /\ LET t == Top(th).t IN
       IF success[th]
       THEN /\ runs' = [runs EXCEPT ![t] = @ + 1]
            /\ Step(th, "handler")
       ELSE /\ Step(th, "pop")
            /\ UNCHANGED runs
    /\ UNCHANGED <<task, job, dep, lock, success, script, fault>>

HandlerReturns(th) ==
    /\ At(th, "handler")
    /\ LET t == Top(th).t IN
       \/ Goto(th, Update(t, RUNNING, FINAL))
       \/ t \in Faulty /\ Goto(th, Update(t, RUNNING, FAILED))
    /\ UNCHANGED <<task, job, dep, lock, success, script, fault, runs>>

Schedule(th) ==
    \/ SemDec(th) \/ Pop(th) \/ PopEmpty(th) \/ Ran(th) \/ HandlerReturns(th)

-----------------------------------------------------------------------------
\* Task_commit.

\* The status was not IDLE (TW_ERR_STATUS).
CommitRefused(th) ==
    /\ At(th, "commit")
    /\ ~success[th]
    /\ Return(th)
    /\ UNCHANGED <<task, job, dep, lock, success, script, fault, runs>>

\* Mutant of CommitSync: the commit does not wait for add_dep and rm_dep.
CommitUnsynced(th) ==
    /\ At(th, "commit")
    /\ success[th]
    /\ Step(th, "commit_init")
    /\ UNCHANGED <<task, job, dep, lock, success, script, fault, runs>>

\* Taking and releasing the write lock waits for every add_dep and rm_dep that
\* found the task IDLE.
CommitSync(th) ==
    /\ At(th, "commit")
    /\ success[th]
    /\ readers[Top(th).t] = {}
    /\ Step(th, "commit_init")
    /\ UNCHANGED <<task, job, dep, lock, success, script, fault, runs>>

\* dep_handler.Init, and the engine: only runnable tasks are given one
\* (TW_Task_commit_barrier passes NULL).
CommitInit(th) ==
    /\ At(th, "commit_init")
    /\ LET t == Top(th).t
           n == Len(parents[t])
       IN /\ ndep' = [ndep EXCEPT ![t] = n]
          /\ counter' = [counter EXCEPT ![t] = IF HasHandler(t) THEN n ELSE @]
          /\ ep' = [ep EXCEPT ![t] = t \in Handled]
          /\ IF n > 0 THEN StepTo(th, "wire", 1) ELSE Goto(th, Update(t, DEPHOLD, READY))
    /\ UNCHANGED <<status, parents, childs, finalized, job, dep, lock, success,
                   script, fault, runs>>

\* Mutant of Wire: the second loop, which looks at parents that have moved on
\* before they knew the dependency, is missing.
WireUnchecked(th) ==
    /\ At(th, "wire")
    /\ LET f == Top(th)
           d == parents[f.t][f.i]
       IN /\ childs' = IF depParent[d]
                       THEN [childs EXCEPT ![d[2]] = Append(@, d)] ELSE childs
          /\ IF f.i < ndep[f.t] THEN StepTo(th, "wire", f.i + 1) ELSE Return(th)
    /\ UNCHANGED <<status, ep, parents, ndep, counter, finalized, job, dep, lock,
                   success, script, fault, runs>>

\* The first loop: make the dependency known to the parent.
Wire(th) ==
    /\ At(th, "wire")
    /\ LET f == Top(th)
           d == parents[f.t][f.i]
       IN /\ childs' = IF depParent[d]
                       THEN [childs EXCEPT ![d[2]] = Append(@, d)] ELSE childs
          /\ IF f.i < ndep[f.t] THEN StepTo(th, "wire", f.i + 1)
                                ELSE StepTo(th, "load_parent", 1)
    /\ UNCHANGED <<status, ep, parents, ndep, counter, finalized, job, dep, lock,
                   success, script, fault, runs>>

\* Mutant of NextDep: the second loop starts from READY, not from DEPHOLD.
NextDepReady(th) ==
    IF Top(th).i < ndep[Top(th).t] THEN StepTo(th, "load_parent", Top(th).i + 1)
    ELSE Goto(th, Update(Top(th).t, DEPHOLD, READY))

\* The end of one round of the second loop; without a verdict on the last
\* dependency the task stays DEPHOLD.
NextDep(th) ==
    IF Top(th).i < ndep[Top(th).t] THEN StepTo(th, "load_parent", Top(th).i + 1)
                                   ELSE Return(th)

LoadParent(th) ==
    /\ At(th, "load_parent")
    /\ LET f == Top(th)
           d == parents[f.t][f.i]
       IN IF depParent[d]
          THEN Goto(th, [f EXCEPT !.pc = "load_dep", !.new = status[d[2]]])
          ELSE NextDep(th)
    /\ UNCHANGED <<task, job, dep, lock, success, script, fault, runs>>

LoadDep(th) ==
    /\ At(th, "load_dep")
    /\ LET f == Top(th) IN
       Goto(th, [f EXCEPT !.pc = "check", !.old = depStatus[parents[f.t][f.i]]])
    /\ UNCHANGED <<task, job, dep, lock, success, script, fault, runs>>

\* The compare-and-swap of dp->status and, for a status the handler has asked
\* for, its Status_change.
Check(th) ==
    /\ At(th, "check")
    /\ LET f     == Top(th)
           d     == parents[f.t][f.i]
           after == Verdict(f.t, f.new)
       IN IF depStatus[d] = f.old
          THEN /\ depStatus' = [depStatus EXCEPT ![d] = f.new]
               /\ IF f.new \in Mask[f.t]
                  THEN /\ StatusChange(d, f.new)
                       /\ IF after = DEPHOLD
                          THEN NextDep(th)
                          ELSE Goto(th, Update(f.t, DEPHOLD, after))
                  ELSE NoStatusChange /\ NextDep(th)
          ELSE NoStatusChange /\ NextDep(th) /\ UNCHANGED depStatus
    /\ UNCHANGED <<status, ep, parents, childs, ndep, finalized, job, depChild,
                   depParent, lock, success, script, runs>>

Commit(th) ==
    \/ CommitRefused(th) \/ CommitSync(th) \/ CommitInit(th)
    \/ Wire(th) \/ LoadParent(th) \/ LoadDep(th) \/ Check(th)

-----------------------------------------------------------------------------
\* Task_retract.

Retract(th) ==
    /\ At(th, "retract")
    /\ LET t == Top(th).t IN
       IF status[t] \in {DEPHOLD, READY}
       THEN Call(th, Update(t, status[t], ABORTED), [Top(th) EXCEPT !.pc = "retracted"])
       ELSE Return(th)
    /\ UNCHANGED <<task, job, dep, lock, success, script, fault, runs>>

Retracted(th) ==
    /\ At(th, "retracted")
    /\ LET t == Top(th).t IN
       IF success[th]
       THEN ep' = [ep EXCEPT ![t] = FALSE] /\ Return(th)
       ELSE Step(th, "retract") /\ UNCHANGED ep
    /\ UNCHANGED <<status, parents, childs, ndep, counter, finalized, job, dep, lock,
                   success, script, fault, runs>>

-----------------------------------------------------------------------------
\* Task_wait_single.  n = 1 marks a wait with a timeout, i = 1 a copy of
\* tp->ep that is not NULL.

Wait(th) ==
    /\ At(th, "wait")
    /\ StepTo(th, "wait_stat", IF ep[Top(th).t] THEN 1 ELSE 0)
    /\ UNCHANGED <<task, job, dep, lock, success, script, fault, runs>>

WaitStat(th) ==
    /\ At(th, "wait_stat")
    /\ Step(th, IF status[Top(th).t] < RUNNING THEN "wait_sched" ELSE "wait_done")
    /\ UNCHANGED <<task, job, dep, lock, success, script, fault, runs>>

\* The waiting thread joins the workers; scheduler_core reads ep->sleep_nt.
WaitSched(th) ==
    /\ At(th, "wait_sched")
    /\ IF Top(th).i = 1
       THEN /\ Call(th, Scheduler(Top(th).t), [Top(th) EXCEPT !.pc = "wait_loop"])
            /\ UNCHANGED fault
       ELSE /\ fault' = "null_engine"
            /\ UNCHANGED stack
    /\ UNCHANGED <<task, job, dep, lock, success, script, runs>>

\* The timeout may have passed.
WaitLoop(th) ==
    /\ At(th, "wait_loop")
    /\ \/ status[Top(th).t] < RUNNING /\ Step(th, "wait_sched")
       \/ status[Top(th).t] >= RUNNING /\ Step(th, "wait_done")
       \/ Top(th).n = 1 /\ Step(th, "wait_done")
    /\ UNCHANGED <<task, job, dep, lock, success, script, fault, runs>>

WaitDone(th) ==
    /\ At(th, "wait_done")
    /\ status[Top(th).t] >= COMPLETED
    /\ Return(th)
    /\ UNCHANGED <<task, job, dep, lock, success, script, fault, runs>>

Waits(th) == Wait(th) \/ WaitStat(th) \/ WaitSched(th) \/ WaitLoop(th) \/ WaitDone(th)

-----------------------------------------------------------------------------
\* Task_add_dep and Task_rm_dep.

ReadLock(th) ==
    /\ At(th, "add_lock") \/ At(th, "rm_lock")
    /\ readers' = [readers EXCEPT ![Top(th).t] = @ \cup {th}]
    /\ Step(th, IF At(th, "add_lock") THEN "add_check" ELSE "rm_check")
    /\ UNCHANGED <<task, job, dep, tasks, listReaders, success, script, fault, runs>>

Unlock(th) == readers' = [readers EXCEPT ![Top(th).t] = @ \ {th}]

\* Only a task that is IDLE may be modified (TW_ERR_STATUS otherwise).
IdleCheck(th) ==
    /\ At(th, "add_check") \/ At(th, "rm_check")
    /\ IF status[Top(th).t] = IDLE
       THEN /\ Step(th, IF At(th, "add_check") THEN "add_push" ELSE "rm_detach")
            /\ UNCHANGED readers
       ELSE Unlock(th) /\ Return(th)
    /\ UNCHANGED <<task, job, dep, tasks, listReaders, success, script, fault, runs>>

AddPush(th) ==
    /\ At(th, "add_push")
    /\ LET d == <<Top(th).t, Top(th).p>> IN
       /\ parents' = [parents EXCEPT ![d[1]] = Append(@, d)]
       /\ depStatus' = [depStatus EXCEPT ![d] = INVAL]
       /\ depChild' = [depChild EXCEPT ![d] = TRUE]
       /\ depParent' = [depParent EXCEPT ![d] = TRUE]
    /\ Unlock(th)
    /\ Return(th)
    /\ UNCHANGED <<status, ep, childs, ndep, counter, finalized, job, tasks,
                   listReaders, success, script, fault, runs>>

\* The dependency stays in tp->parents; only its child pointer is cleared.
RmDetach(th) ==
    /\ At(th, "rm_detach")
    /\ LET d == <<Top(th).t, Top(th).p>> IN
       depChild' = [depChild EXCEPT ![d] = @ /\ ~depParent[d]]
    /\ Unlock(th)
    /\ Return(th)
    /\ UNCHANGED <<task, job, depStatus, depParent, tasks, listReaders, success,
                   script, fault, runs>>

Depend(th) == ReadLock(th) \/ IdleCheck(th) \/ AddPush(th) \/ RmDetach(th)

-----------------------------------------------------------------------------
\* Task_create and Task_create_barrier (n = 1).  Every call makes a new object.

Create(th) ==
    /\ At(th, "create")
    /\ LET t == Top(th).t IN
       /\ status[t] = INVAL
       /\ status' = [status EXCEPT ![t] = IDLE]
       /\ tasks' = Append(tasks, t)
    /\ IF Top(th).n = 1 THEN Step(th, "bar_lock") ELSE Return(th)
    /\ UNCHANGED <<ep, parents, childs, ndep, counter, finalized, job, dep, readers,
                   listReaders, success, script, fault, runs>>

\* The size of the list is read once, into n.
BarLock(th) ==
    /\ At(th, "bar_lock")
    /\ listReaders' = listReaders \cup {th}
    /\ Goto(th, [Top(th) EXCEPT !.pc = "bar_loop", !.n = Len(tasks)])
    /\ UNCHANGED <<task, job, dep, readers, tasks, success, script, fault, runs>>

BarLoop(th) ==
    /\ At(th, "bar_loop")
    /\ LET f  == Top(th)
           pp == tasks[f.i]
           next == [f EXCEPT !.i = @ + 1]
       IN IF f.i <= f.n
          THEN /\ IF pp # f.t /\ pp \in Selects[f.t]
                  THEN Call(th, Enter("add_lock", f.t, pp), next)
                  ELSE Goto(th, next)
               /\ UNCHANGED listReaders
          ELSE /\ listReaders' = listReaders \ {th}
               /\ Return(th)
    /\ UNCHANGED <<task, job, dep, readers, tasks, success, script, fault, runs>>

-----------------------------------------------------------------------------
\* Task_free.  The memory itself stays valid: the disposer of this driver
\* releases nothing before Disposer_free.

\* TWI_Ts_vector_swap_erase: the last element takes the place of x.
SwapErase(s, x) ==
    LET at == {i \in DOMAIN s : s[i] = x} IN
    IF at = {} THEN s
    ELSE LET k == CHOOSE i \in at : \A j \in at : j <= i
         IN SubSeq([s EXCEPT ![k] = s[Len(s)]], 1, Len(s) - 1)

FreeErase(th) ==
    /\ At(th, "free_erase")
    /\ listReaders = {}
    /\ tasks' = SwapErase(tasks, Top(th).t)
    /\ Step(th, "free_task")
    /\ UNCHANGED <<task, job, dep, readers, listReaders, success, script, fault, runs>>

\* "Prevent it to be ran", and detach both sides of every dependency.
FreeTask(th) ==
    /\ At(th, "free_task")
    /\ LET t == Top(th).t
           Of(s) == {s[i] : i \in DOMAIN s}
       IN /\ readers[t] = {}
          /\ jobData' = [jobData EXCEPT ![t] = @ /\ ~hasJob[t]]
          /\ depParent' = [d \in Dep |-> depParent[d] /\ d \notin Of(childs[t])]
          /\ depChild' = [d \in Dep |-> depChild[d] /\ d \notin Of(parents[t])]
    /\ Return(th)
    /\ UNCHANGED <<task, hasJob, queue, njob, depStatus, lock, success, script, fault,
                   runs>>

-----------------------------------------------------------------------------
\* The application: the next call of its script, once the handles exist.

Frames(c) ==
    CASE c.op = "commit"         -> << Update(c.t, IDLE, DEPHOLD),
                                       Enter("commit", c.t, c.t) >>
      [] c.op = "create_barrier" -> << [Enter("create", c.t, c.t) EXCEPT !.n = 1] >>
      [] c.op = "wait_timed"     -> << [Enter("wait", c.t, c.t) EXCEPT !.n = 1] >>
      [] c.op = "add_dep"        -> << Enter("add_lock", c.t, c.p) >>
      [] c.op = "rm_dep"         -> << Enter("rm_lock", c.t, c.p) >>
      [] c.op = "free"           -> << Enter("free_erase", c.t, c.t) >>
      [] OTHER                   -> << Enter(c.op, c.t, c.t) >>

NextCall(th) ==
    /\ th \in App
    /\ stack[th] = <<>>
    /\ script[th] # <<>>
    /\ LET c == Head(script[th]) IN
       /\ c.op \in {"create", "create_barrier"} <=> status[c.t] = INVAL
       /\ c.op \in {"add_dep", "rm_dep"} => status[c.p] # INVAL
       /\ stack' = [stack EXCEPT ![th] = Frames(c)]
       /\ script' = [script EXCEPT ![th] = Tail(@)]
    /\ UNCHANGED <<task, job, dep, lock, success, fault, runs>>

-----------------------------------------------------------------------------

Init ==
    /\ status = [t \in Task |-> INVAL]
    /\ ep = [t \in Task |-> FALSE]
    /\ parents = [t \in Task |-> <<>>]
    /\ childs = [t \in Task |-> <<>>]
    /\ ndep = [t \in Task |-> -1]
    /\ counter = [t \in Task |-> 0]
    /\ finalized = [t \in Task |-> FALSE]
    /\ hasJob = [t \in Task |-> FALSE]
    /\ jobData = [t \in Task |-> FALSE]
    /\ depStatus = [d \in Dep |-> INVAL]
    /\ depChild = [d \in Dep |-> FALSE]
    /\ depParent = [d \in Dep |-> FALSE]
    /\ readers = [t \in Task |-> {}]
    /\ tasks = <<>>
    /\ listReaders = {}
    /\ queue = [l \in Level |-> <<>>]
    /\ njob = 0
    /\ stack = [th \in Thread |-> <<>>]
    /\ success = [th \in Thread |-> FALSE]
    /\ script \in Scripts
    /\ fault = "none"
    /\ runs = [t \in Task |-> 0]

Run(th) ==
    \/ UpdateStatus(th) \/ Queue(th) \/ Schedule(th)
    \/ Commit(th) \/ Retract(th) \/ Retracted(th) \/ Waits(th) \/ Depend(th)
    \/ Create(th) \/ BarLock(th) \/ BarLoop(th)
    \/ FreeErase(th) \/ FreeTask(th)
    \/ NextCall(th)

\* Every call has returned and every worker sleeps; or the process is gone.
Done ==
    \/ fault # "none"
    \/ /\ \A th \in Thread : stack[th] = <<>>
       /\ \A a \in App : script[a] = <<>>
       /\ njob = 0

Next ==
    \/ fault = "none" /\ \E th \in Thread : Run(th)
    \/ Done /\ UNCHANGED vars

Spec == Init /\ [][Next]_vars

\* The operating system runs every thread.
FairSpec == Spec /\ \A th \in Thread : WF_vars(fault = "none" /\ Run(th))

-----------------------------------------------------------------------------

\* The values the variables take.
TypeOK ==
    /\ status \in [Task -> Status]
    /\ ep \in [Task -> BOOLEAN]
    /\ parents \in [Task -> Seq(Dep)]
    /\ childs \in [Task -> Seq(Dep)]
    /\ ndep \in [Task -> Nat \cup {-1}]
    /\ counter \in [Task -> Int]
    /\ finalized \in [Task -> BOOLEAN]
    /\ hasJob \in [Task -> BOOLEAN]
    /\ jobData \in [Task -> BOOLEAN]
    /\ depStatus \in [Dep -> Status]
    /\ depChild \in [Dep -> BOOLEAN]
    /\ depParent \in [Dep -> BOOLEAN]
    /\ readers \in [Task -> SUBSET Thread]
    /\ tasks \in Seq(Task)
    /\ listReaders \in SUBSET Thread
    /\ queue \in [Level -> Seq(Task)]
    /\ njob \in Nat
    /\ stack \in [Thread -> Seq(Frame)]
    /\ success \in [Thread -> BOOLEAN]
    /\ script \in [App -> Seq(ApiCall)]
    /\ fault \in {"none", "null_engine", "null_job", "stale_counter"}
    /\ runs \in [Task -> Nat]

\* The dependencies a parent knows.
Attached == {d \in Dep : \E i \in DOMAIN childs[d[2]] : childs[d[2]][i] = d}

\* The tasks t depends on.
Needs(t) == {parents[t][i][2] : i \in DOMAIN parents[t]}

\* tw_task.h:23 "The status can only increase during a single commit session":
\* whatever workers, notifications, commits and retractions race for the status
\* of a task, no compare-and-swap ever takes it back.
StatusIncreases == [][\A t \in Task : status'[t] >= status[t]]_status

\* A committed task is executed at most once, however many threads find its job
\* and however often it is notified.
RunsOnce == \A t \in Task : runs[t] <= 1

\* A task with an all_complete handler starts only after every task it depends
\* on has completed.
AfterParents ==
    \A c \in Task : runs[c] > 0 /\ HasHandler(c)
                    => \A p \in Needs(c) : status[p] = COMPLETED

\* Once a commit has counted the dependencies (CommitInit), a racing add_dep
\* can no longer slip one in that nobody would wait for.
NoLateDependency == \A t \in Task : ndep[t] # -1 => Len(parents[t]) = ndep[t]

\* A task is never released before its commit has counted what it depends on
\* and, if that is anything, one of those tasks has completed.
ReleasedByOne ==
    \A t \in Task : status[t] \in Released =>
        /\ ndep[t] # -1
        /\ Needs(t) # {} => \E p \in Needs(t) : status[p] = COMPLETED

\* When every call has returned and every worker sleeps on the semaphore, no
\* job is left in a queue: a push and its token, or two scans of the queues,
\* never miss each other.
NoJobLeft == Done /\ fault = "none" => \A l \in Level : queue[l] = <<>>

\* Nobody waits for a wake-up that has already been given: at rest, a task that
\* is still on hold depends on one that has not completed, or on one it no longer
\* hears of since rm_dep detached the two.
NoLostWakeup ==
    Done /\ fault = "none" =>
        \A c \in Task : status[c] = DEPHOLD /\ HasHandler(c)
            => \E p \in Needs(c) : status[p] # COMPLETED \/ ~depChild[<<c, p>>]

\* Every committed task comes to an end, unless the process dies: no wake-up,
\* job or semaphore token is lost on the way from one task to the next.
EveryTaskEnds ==
    \A t \in Task : status[t] = DEPHOLD ~> status[t] >= COMPLETED \/ fault # "none"

\* On hold below a task that can no longer complete.
Orphan(c) ==
    /\ status[c] = DEPHOLD
    /\ \E p \in Task : <<c, p>> \in Attached /\ status[p] \in {ABORTED, FAILED}

\* Aborting or failing a parent takes the tasks that wait for it out of the
\* graph (tw_task.h:34 "The dependency can never be satisfied (eg. parent job
\* failed). The job is removed from the flow graph").
OrphanAborted ==
    \A c \in Task : Orphan(c) ~> status[c] = ABORTED \/ fault # "none"

\* What the application may rely on as long as no task has two parents.
OneParent == \A t \in Task : Len(parents[t]) <= 1
Graph == INSTANCE TaskGraph WITH needs <- [t \in Task |-> Needs(t)]
ImplementsTaskGraph == Graph!Spec
=============================================================================
