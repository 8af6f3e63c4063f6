-------------------------------- MODULE Library --------------------------------
(***************************************************************************)
(* The life of the library's objects in the native driver: what TW_Init,   *)
(* the calls of the application and the workers allocate, who still uses   *)
(* it, and what Task_free, Engine_free and TW_Finalize give back (tw.c,    *)
(* twnative.c, tw_task.c, tw_engine.c and the free functions of the        *)
(* driver).                                                                *)
(*                                                                         *)
(* One engine, and all tasks of one priority; a task has at most one       *)
(* parent, its handler succeeds and nobody retracts it.  That a task which *)
(* is committed while its parent ends is released exactly once is the      *)
(* subject of NativeTask: here the commit looks at its parent in one step, *)
(* and READY and FINAL are never seen.  The size of a list is read when it *)
(* is locked: nobody creates a task while TW_Finalize walks the list.      *)
(***************************************************************************)
EXTENDS Integers, Sequences, FiniteSets

CONSTANTS
    Task, Worker, App,
    Lib,            \* stands for the library where an object belongs to no task
    NoTask,
    Scenarios       \* what the application does: see Init

VARIABLES
    parent,     \* parent[t]: what t will depend on
    listens,    \* the tasks with a status handler
    events,     \* there is an event driver
    script,     \* script[a]: the calls thread a still makes
    mem,        \* mem[o]: what has become of object o
    trash,      \* the objects in TWNATIVEI_Disposer, the last one first
    tasks,      \* TWNATIVEI_Tasks
    engines,    \* the engine is in TWNATIVEI_Engines
    taskLock,   \* who holds the read lock of TWNATIVEI_Tasks
    engineLock, \* who holds the read lock of TWNATIVEI_Engines
    status, ep, \* tp->status, tp->ep # NULL
    job,        \* tp->job # NULL
    wanted,     \* jobs whose data is not NULL
    dep,        \* dep[t]: the dependency of t on its parent
    queue, njob, nt, evtLock, polled,
    pc, on,     \* on[th]: the task thread th is busy with
    awaits,     \* awaits[a]: the task a waits for
    ran,        \* ran[th]: the task whose handler th has called, NoTask elsewhere
    walk,       \* how far TW_Finalize is in the list, 0 outside of it
    told,       \* the tasks whose status handler has been called
    fault,      \* "none", or why the process has died
    orderly     \* history: nothing was freed that was still in use

lists   == <<tasks, engines, taskLock, engineLock>>
objects == <<mem, trash, lists>>
taskv   == <<status, ep, job, wanted, dep>>
enginev == <<queue, njob, nt, evtLock, polled>>
config  == <<parent, listens, events>>
calls   == <<script, on, awaits, ran, walk>>
threads == <<pc, calls>>
judged  == <<told, fault, orderly>>
vars    == <<config, threads, objects, taskv, enginev, judged>>

Thread == Worker \cup App

Call ==
    [op : {"create", "dep", "commit", "wait", "told", "made", "free"}, task : Task] \cup
    [op : {"init", "engine", "mpi", "alone", "engine_free", "finalize"}, task : {NoTask}]

ASSUME LibraryAssumption ==
    /\ Worker \cap App = {} /\ IsFiniteSet(Worker)
    /\ Lib \notin Task /\ NoTask \notin Task
    /\ \A s \in Scenarios :
           /\ s.parent \in [Task -> Task \cup {NoTask}] /\ \A t \in Task : s.parent[t] # t
           /\ s.listens \subseteq Task /\ s.events \in BOOLEAN
           /\ s.script \in [App -> Seq(Call)]

\* The objects: per task itself, its handle, its job and its dependency; and once
\* the engine, its handle, its queues, the two lists, the two disposers and the data
\* of an MPI poll event.
Object ==
    ({"task", "handle", "job", "dep"} \X Task) \cup
    ({"engine", "ehandle", "queue", "tasks", "engines", "disposer", "polls", "poll"} \X {Lib})

The(kind) == <<kind, Lib>>
Usable(o) == mem[o] \in {"live", "disposed"}

Becomes(O, state) == [o \in DOMAIN mem |-> IF o \in O THEN state ELSE mem[o]]

\* The dependencies in the list of parents or of childs of task t.
HasDep(t) == mem[<<"dep", t>>] # "none"
Childs(t) == {c \in Task : parent[c] = t /\ dep[c].attached}
Lists(t)  == Childs(t) \cup {c \in {t} : HasDep(c)}
Deps(t)   == {<<"dep", c>> : c \in Lists(t)}

-----------------------------------------------------------------------------
\* What a thread is about to use: it dies when that has been freed.

Needs(th) ==
    LET t == on[th]
        Parent == IF HasDep(t) /\ ~dep[t].orphan
                  THEN {<<"dep", t>>, <<"task", parent[t]>>} ELSE {}
        First == IF queue # <<>> /\ Head(queue) \in wanted
                 THEN {<<"task", Head(queue)>>} ELSE {}
    IN CASE pc[th] \in {"create", "finalize"}  -> {The("tasks")}
         [] pc[th] = "dep"        -> {<<"task", t>>, <<"task", parent[t]>>}
         [] pc[th] = "commit"     -> {<<"handle", t>>, <<"task", t>>, The("ehandle")}
         [] pc[th] = "wait"       -> {<<"handle", t>>, <<"task", t>>}
         [] pc[th] = "wire"       -> {<<"task", t>>} \cup Parent
         [] pc[th] = "queue"      -> {<<"task", t>>, The("engine"), The("queue")}
         [] pc[th] = "token"      -> {<<"task", t>>, The("engine")}
         [] pc[th] = "spin"       -> {<<"task", awaits[th]>>}
         [] pc[th] = "free"       -> {<<"handle", t>>, <<"task", t>>, The("tasks")}
         [] pc[th] = "invalidate" -> {<<"task", t>>}
         [] pc[th] = "nulljob"    -> {<<"task", t>>, <<"job", t>>}
         [] pc[th] = "unset"      -> {<<"task", t>>} \cup Deps(t)
         [] pc[th] = "handle"     -> {<<"handle", t>>}
         [] pc[th] \in {"dispose", "edispose", "start"} -> {The("disposer")}
         [] pc[th] = "leave"      -> {The("disposer"), The("engine")}
         [] pc[th] \in {"check", "sleep", "wake", "join"} -> {The("engine")}
         [] pc[th] = "engine_free" -> {The("engine")} \cup
                                      (IF walk = 0 THEN {The("ehandle")} ELSE {})
         [] pc[th] = "loop"       -> {The("engine")} \cup (IF polled THEN {The("poll")} ELSE {})
         [] pc[th] = "pop"        -> {The("queue"), The("engine")}
         [] pc[th] = "drain"      -> {The("queue"), The("engine"), The("disposer")} \cup First
         [] pc[th] = "erase"      -> {The("engines"), The("ehandle")}
         [] pc[th] = "engines"    -> {The("engines")}
         [] pc[th] = "job"        -> {<<"job", t>>} \cup
                                     (IF t \in wanted THEN {<<"task", t>>} ELSE {})
         [] pc[th] = "final"      -> {<<"task", t>>}
         [] pc[th] = "notify"     -> {<<"task", ran[th]>>} \cup Deps(ran[th])
         [] pc[th] = "tell"       -> {<<"task", ran[th]>>} \cup
                                     (IF ran[th] \in listens THEN {<<"handle", ran[th]>>} ELSE {})
         [] pc[th] = "sweep"      -> {The("disposer")} \cup
                                     UNION {{o} \cup (IF o[1] = "task" THEN Deps(o[2]) ELSE {}) :
                                              o \in {trash[i] : i \in {1} \cap DOMAIN trash}}
         [] pc[th] \in {"mpi", "polls"} -> {The("polls")}
         [] OTHER -> {}

At(th, l) == pc[th] = l /\ fault = "none" /\ \A o \in Needs(th) : Usable(o)

Goto(th, l) == pc' = [pc EXCEPT ![th] = l]

Dies(why) == fault' = why

Crash(th) ==
    /\ fault = "none"
    /\ \E o \in Needs(th) : ~Usable(o)
    /\ Dies("freed_memory")
    /\ UNCHANGED <<config, threads, objects, taskv, enginev, told, orderly>>

-----------------------------------------------------------------------------
\* The application's calls: one step to enter them.

BeforeRun == {"IDLE", "DEPHOLD", "QUEUE"}

Ended(t)  == status[t] = "COMPLETED" /\ (t \in listens => t \in told)
NotBusy   == \A t \in Task : status[t] = "IDLE" \/ Ended(t)
Alone(a) == \A b \in App \ {a} : pc[b] = "idle" /\ script[b] = <<>>

\* Who is busy with task t, who is giving it back, and who the engine.
TaskCall   == {"create", "dep", "commit", "wire", "wait"}
TaskFree   == {"free", "invalidate", "nulljob", "unset", "dispose", "handle"}
EngineFree == {"engine_free", "wake", "join", "drain", "edispose", "erase"}
Frees(b, t) == pc[b] \in TaskFree /\ on[b] = t
Uses(b, t)  == (pc[b] \in TaskCall /\ on[b] = t) \/ (pc[b] = "dep" /\ parent[on[b]] = t)

\* The handles a client has: what it was given and nobody has given back.
Initialized == mem[The("tasks")] = "live"
HasTask(t)  == /\ mem[<<"handle", t>>] = "live" /\ mem[<<"task", t>>] = "live"
               /\ \A b \in App : ~Frees(b, t)
HasEngine   == /\ mem[The("ehandle")] = "live" /\ mem[The("engine")] = "live"
               /\ \A b \in App : pc[b] \notin EngineFree

\* What a client can call.  It passes the handles it has, frees none that another of
\* its threads is passing, and finalizes once, when its other threads have ended.
\* The engine is created once.
Possible(a, c) ==
    LET t == c.task
        Unused == \A b \in App : ~Uses(b, t)
    IN \/ c.op \in {"told", "made", "alone"}
       \/ c.op = "init"     /\ ~Initialized /\ \A b \in App : pc[b] \in {"idle", "told", "made", "alone"}
       \/ c.op = "create"   /\ Initialized /\ mem[<<"handle", t>>] = "none" /\ Unused
       \/ c.op = "dep"      /\ HasTask(t) /\ parent[t] \in Task /\ HasTask(parent[t])
                            /\ ~HasDep(t) /\ \A b \in App : ~(pc[b] = "dep" /\ on[b] = t)
       \/ c.op = "commit"   /\ HasTask(t) /\ HasEngine
       \/ c.op = "wait"     /\ HasTask(t)
       \/ c.op = "free"     /\ HasTask(t) /\ Unused
       \/ c.op = "engine"   /\ Initialized /\ mem[The("ehandle")] = "none"
                            /\ \A b \in App : pc[b] # "engine"
       \/ c.op \in {"mpi", "engine_free"} /\ HasEngine
       \/ c.op = "finalize" /\ Initialized /\ Alone(a)
                            /\ \A i \in DOMAIN tasks : mem[<<"task", tasks[i]>>] = "live"

\* A client frees what nobody works on any more, a parent only when it has ended, and
\* the engine when no thread is in a call that uses it, as a wait is until it returns.
UsesEngine == {"commit", "wire", "queue", "token", "pop", "job", "final", "notify", "tell"}

Allowed(a, c) ==
    CASE c.op = "free"        -> Ended(c.task) \/ (status[c.task] = "IDLE" /\
                                    \A k \in Task : parent[k] # c.task \/ ~HasDep(k))
      [] c.op = "engine_free" -> NotBusy /\ \A b \in App : pc[b] \notin UsesEngine
      [] c.op = "finalize"    -> NotBusy
      [] OTHER -> TRUE

Begin(a) ==
    /\ At(a, "idle") /\ script[a] # <<>>
    /\ Possible(a, Head(script[a]))
    /\ LET c == Head(script[a]) IN
        /\ Goto(a, c.op)
        /\ on' = [on EXCEPT ![a] = c.task]
        /\ awaits' = [awaits EXCEPT ![a] = c.task]
        /\ orderly' = (orderly /\ Allowed(a, c))
    /\ script' = [script EXCEPT ![a] = Tail(@)]
    /\ UNCHANGED <<config, ran, walk, objects, taskv, enginev, told, fault>>

\* TW_Init and TWNATIVE_Init, with lists of their own each time.
TW_Init(a) ==
    /\ At(a, "init")
    /\ mem' = Becomes({The(k) : k \in {"tasks", "engines", "disposer", "polls"}}, "live")
    /\ tasks' = <<>> /\ engines' = FALSE /\ taskLock' = {} /\ engineLock' = {}
    /\ Goto(a, "idle")
    /\ UNCHANGED <<config, calls, trash, taskv, enginev, judged>>

TW_Task_create(a) ==
    /\ At(a, "create")
    /\ mem' = Becomes({<<"task", on[a]>>, <<"handle", on[a]>>}, "live")
    /\ tasks' = Append(tasks, on[a])
    /\ Goto(a, "idle")
    /\ UNCHANGED <<config, calls, trash, engines, taskLock, engineLock, taskv, enginev,
                   judged>>

\* Mutant of TWNATIVE_Task_add_dep: the parent's reference is forgotten.
AddDepOnce(a) ==
    /\ At(a, "dep")
    /\ IF status[on[a]] = "IDLE"
       THEN /\ mem' = Becomes({<<"dep", on[a]>>}, "live")
            /\ dep' = [dep EXCEPT ![on[a]].ref = 1]
       ELSE UNCHANGED <<mem, dep>>
    /\ Goto(a, "idle")
    /\ UNCHANGED <<config, calls, trash, lists, status, ep, job, wanted, enginev, judged>>

\* The structure belongs to both tasks, but only the child knows it yet.
TWNATIVE_Task_add_dep(a) ==
    /\ At(a, "dep")
    /\ IF status[on[a]] = "IDLE"
       THEN /\ mem' = Becomes({<<"dep", on[a]>>}, "live")
            /\ dep' = [dep EXCEPT ![on[a]].ref = 2]
       ELSE UNCHANGED <<mem, dep>>
    /\ Goto(a, "idle")
    /\ UNCHANGED <<config, calls, trash, lists, status, ep, job, wanted, enginev, judged>>

Commit(a) ==
    /\ At(a, "commit")
    /\ IF status[on[a]] = "IDLE"
       THEN /\ status' = [status EXCEPT ![on[a]] = "DEPHOLD"]
            /\ ep' = [ep EXCEPT ![on[a]] = TRUE]
            /\ Goto(a, "wire")
       ELSE Goto(a, "idle") /\ UNCHANGED <<status, ep>>
    /\ UNCHANGED <<config, calls, objects, job, wanted, dep, enginev, judged>>

\* The dependency enters the parent's list, even one that was freed meanwhile.
CommitWire(a) ==
    /\ At(a, "wire")
    /\ LET t == on[a]
           wires == HasDep(t) /\ ~dep[t].orphan
           released == ~HasDep(t) \/ (wires /\ status[parent[t]] = "COMPLETED")
       IN /\ dep' = [dep EXCEPT ![t].attached = wires]
          /\ status' = [status EXCEPT ![t] = IF released THEN "QUEUE" ELSE @]
          /\ Goto(a, IF released THEN "queue" ELSE "idle")
    /\ UNCHANGED <<config, calls, objects, ep, job, wanted, enginev, judged>>

\* TWNATIVE_Taski_queue, by whoever releases the task.
TWNATIVE_Taski_queue(th) ==
    /\ At(th, "queue")
    /\ mem' = Becomes({<<"job", on[th]>>}, "live")
    /\ job' = [job EXCEPT ![on[th]] = TRUE]
    /\ wanted' = wanted \cup {on[th]}
    /\ queue' = Append(queue, on[th])
    /\ Goto(th, "token")
    /\ UNCHANGED <<config, calls, trash, lists, status, ep, dep, njob, nt, evtLock,
                   polled, judged>>

\* sem.inc reads tp->ep, which is NULL when the task has already run.
QueueToken(th) ==
    /\ At(th, "token")
    /\ IF ep[on[th]]
       THEN /\ njob' = njob + 1
            /\ Goto(th, IF ran[th] = NoTask THEN "idle" ELSE "notify")
            /\ UNCHANGED fault
       ELSE Dies("null_engine") /\ UNCHANGED <<njob, pc>>
    /\ UNCHANGED <<config, calls, objects, taskv, queue, nt, evtLock, polled, told,
                   orderly>>

\* The caller helps the workers until the task runs, and then waits for its end.
TW_Task_wait(a) ==
    /\ At(a, "wait")
    /\ IF status[on[a]] \notin BeforeRun
       THEN Goto(a, "spin") /\ UNCHANGED fault
       ELSE IF ep[on[a]]
            THEN Goto(a, "pop") /\ UNCHANGED fault
            ELSE Dies("null_engine") /\ UNCHANGED pc
    /\ UNCHANGED <<config, calls, objects, taskv, enginev, told, orderly>>

WaitMore(a) ==
    /\ At(a, "spin")
    /\ \/ status[awaits[a]] \in BeforeRun /\ Goto(a, "pop")
       \/ status[awaits[a]] = "COMPLETED" /\ Goto(a, "idle")
    /\ UNCHANGED <<config, calls, objects, taskv, enginev, judged>>

\* The application waits for a semaphore that its status handler increments, or for
\* the end of its other threads.
ClientWaits(a) ==
    /\ \/ At(a, "told") /\ on[a] \in told
       \/ At(a, "made") /\ mem[<<"dep", on[a]>>] # "none"
       \/ At(a, "alone") /\ Alone(a)
    /\ Goto(a, "idle")
    /\ UNCHANGED <<config, calls, objects, taskv, enginev, judged>>

\* TW_Event_arg_set_mpi, and the commit of the event: the data goes to the disposer
\* of poll data at once, which nobody joins.
SetMpi(a) ==
    /\ At(a, "mpi")
    /\ mem' = Becomes({The("poll")}, "disposed")
    /\ polled' = TRUE
    /\ Goto(a, "idle")
    /\ UNCHANGED <<config, calls, trash, lists, taskv, queue, njob, nt, evtLock, judged>>

-----------------------------------------------------------------------------
\* TWNATIVE_Task_free and TWNATIVE_Taski_free; TW_Finalize enters at "invalidate".

\* TWI_Ts_vector_swap_erase: the last element takes the place of t.
SwapErase(list, t) ==
    IF \E i \in DOMAIN list : list[i] = t
    THEN [i \in 1..(Len(list) - 1) |-> IF list[i] = t THEN list[Len(list)] ELSE list[i]]
    ELSE list

\* The erasure waits for those who walk the list.
TWNATIVE_Task_free(a) ==
    /\ At(a, "free") /\ taskLock = {}
    /\ tasks' = SwapErase(tasks, on[a])
    /\ Goto(a, "invalidate")
    /\ UNCHANGED <<config, calls, mem, trash, engines, taskLock, engineLock, taskv,
                   enginev, judged>>

FreeInvalidate(a) ==
    /\ At(a, "invalidate")
    /\ Goto(a, IF job[on[a]] THEN "nulljob" ELSE "unset")
    /\ UNCHANGED <<config, calls, objects, taskv, enginev, judged>>

\* tp->job is read again: a worker may have taken it.
FreeNullJob(a) ==
    /\ At(a, "nulljob")
    /\ IF job[on[a]]
       THEN wanted' = wanted \ {on[a]} /\ Goto(a, "unset") /\ UNCHANGED fault
       ELSE Dies("null_job") /\ UNCHANGED <<wanted, pc>>
    /\ UNCHANGED <<config, calls, objects, status, ep, job, dep, enginev, told, orderly>>

FreeUnset(a) ==
    /\ At(a, "unset")
    /\ dep' = [c \in Task |-> [dep[c] EXCEPT !.orphan = @ \/ c \in Childs(on[a]),
                                             !.childless = @ \/ c = on[a]]]
    /\ Goto(a, "dispose")
    /\ UNCHANGED <<config, calls, objects, status, ep, job, wanted, enginev, judged>>

FreeDispose(a) ==
    /\ At(a, "dispose")
    /\ mem' = Becomes({<<"task", on[a]>>}, "disposed")
    /\ trash' = << <<"task", on[a]>> >> \o trash
    /\ Goto(a, IF walk > 0 THEN "walk" ELSE "handle")
    /\ UNCHANGED <<config, calls, lists, taskv, enginev, judged>>

\* TW_Task_free frees the handle itself.
FreeHandle(a) ==
    /\ At(a, "handle")
    /\ mem' = Becomes({<<"handle", on[a]>>}, "freed")
    /\ Goto(a, "idle")
    /\ UNCHANGED <<config, calls, trash, lists, taskv, enginev, judged>>

-----------------------------------------------------------------------------
\* TWNATIVE_Engine_create: the workers start at the end of it.  The event loop is
\* paid for with the first token.
TWNATIVE_Engine_create(a) ==
    /\ At(a, "engine")
    /\ mem' = Becomes({The("engine"), The("ehandle"), The("queue")}, "live")
    /\ nt' = Cardinality(Worker)
    /\ njob' = IF events THEN 1 ELSE 0
    /\ engines' = TRUE
    /\ pc' = [th \in Thread |-> IF th \in Worker THEN "start" ELSE IF th = a THEN "idle" ELSE pc[th]]
    /\ UNCHANGED <<config, calls, trash, tasks, taskLock, engineLock, taskv, queue,
                   evtLock, polled, judged>>

\* TWNATIVE_Engine_free, which TW_Finalize enters too.
TWNATIVE_Enginei_free(a) ==
    /\ At(a, "engine_free")
    /\ nt' = 0
    /\ Goto(a, IF nt > 0 THEN "wake" ELSE "drain")
    /\ UNCHANGED <<config, calls, objects, taskv, queue, njob, evtLock, polled, judged>>

\* Mutant of EngineWake: one worker is left asleep.
EngineWakeFewer(a) ==
    /\ At(a, "wake")
    /\ njob' = njob + Cardinality(Worker) - 1
    /\ Goto(a, "join")
    /\ UNCHANGED <<config, calls, objects, taskv, queue, nt, evtLock, polled, judged>>

EngineWake(a) ==
    /\ At(a, "wake")
    /\ njob' = njob + Cardinality(Worker)
    /\ Goto(a, "join")
    /\ UNCHANGED <<config, calls, objects, taskv, queue, nt, evtLock, polled, judged>>

\* Mutant of EngineJoin: nt is read after it was set to 0, and nobody is joined.
EngineJoinNone(a) ==
    /\ At(a, "join")
    /\ Goto(a, "drain")
    /\ UNCHANGED <<config, calls, objects, taskv, enginev, judged>>

EngineJoin(a) ==
    /\ At(a, "join") /\ \A w \in Worker : pc[w] = "gone"
    /\ Goto(a, "drain")
    /\ UNCHANGED <<config, calls, objects, taskv, enginev, judged>>

\* A job that is still wanted belongs to a task in QUEUE, which cannot be retracted:
\* the call fails, and the queues of higher priority are gone by then.
DrainFails(a) ==
    /\ At(a, "drain") /\ queue # <<>> /\ Head(queue) \in wanted
    /\ queue' = Tail(queue)
    /\ mem' = Becomes({The("queue")}, "freed")
    /\ walk' = 0
    /\ Goto(a, "idle")
    /\ UNCHANGED <<config, script, on, awaits, ran, trash, lists, taskv, njob, nt, evtLock,
                   polled, judged>>

\* Mutant of DrainDisposes: the job is forgotten.
DrainForgets(a) ==
    /\ At(a, "drain") /\ queue # <<>> /\ Head(queue) \notin wanted
    /\ queue' = Tail(queue)
    /\ UNCHANGED <<config, pc, calls, objects, taskv, njob, nt, evtLock, polled, judged>>

DrainDisposes(a) ==
    /\ At(a, "drain") /\ queue # <<>> /\ Head(queue) \notin wanted
    /\ queue' = Tail(queue)
    /\ mem' = Becomes({<<"job", Head(queue)>>}, "disposed")
    /\ trash' = << <<"job", Head(queue)>> >> \o trash
    /\ UNCHANGED <<config, pc, calls, lists, taskv, njob, nt, evtLock, polled, judged>>

DrainEnds(a) ==
    /\ At(a, "drain") /\ queue = <<>>
    /\ mem' = Becomes({The("queue")}, "freed")
    /\ Goto(a, "edispose")
    /\ UNCHANGED <<config, calls, trash, lists, taskv, enginev, judged>>

EngineDispose(a) ==
    /\ At(a, "edispose")
    /\ mem' = Becomes({The("engine")}, "disposed")
    /\ trash' = <<The("engine")>> \o trash
    /\ Goto(a, IF walk > 0 THEN "lists" ELSE "erase")
    /\ UNCHANGED <<config, calls, lists, taskv, enginev, judged>>

\* The engine leaves TWNATIVEI_Engines, and TW_Engine_free frees the handle.
EngineErase(a) ==
    /\ At(a, "erase") /\ engineLock = {}
    /\ engines' = FALSE
    /\ mem' = Becomes({The("ehandle")}, "freed")
    /\ Goto(a, "idle")
    /\ UNCHANGED <<config, calls, trash, tasks, taskLock, engineLock, taskv, enginev,
                   judged>>

-----------------------------------------------------------------------------
\* TW_Finalize and TWNATIVE_Finalize.

TW_Finalize(a) ==
    /\ At(a, "finalize")
    /\ taskLock' = taskLock \cup {a}
    /\ walk' = 1
    /\ Goto(a, "walk")
    /\ UNCHANGED <<config, script, on, awaits, ran, mem, trash, tasks, engines, engineLock,
                   taskv, enginev, judged>>

\* TWNATIVE_Taski_free for the next task of the list, which stays on it.
FinalizeTask(a) ==
    /\ At(a, "walk") /\ walk <= Len(tasks)
    /\ on' = [on EXCEPT ![a] = tasks[walk]]
    /\ walk' = walk + 1
    /\ Goto(a, "invalidate")
    /\ UNCHANGED <<config, script, awaits, ran, objects, taskv, enginev, judged>>

FinalizeTasksEnd(a) ==
    /\ At(a, "walk") /\ walk > Len(tasks)
    /\ taskLock' = taskLock \ {a}
    /\ Goto(a, "engines")
    /\ UNCHANGED <<config, calls, mem, trash, tasks, engines, engineLock, taskv, enginev,
                   judged>>

FinalizeEngines(a) ==
    /\ At(a, "engines")
    /\ engineLock' = engineLock \cup {a}
    /\ Goto(a, IF engines THEN "engine_free" ELSE "lists")
    /\ UNCHANGED <<config, calls, mem, trash, tasks, engines, taskLock, taskv, enginev,
                   judged>>

FinalizeLists(a) ==
    /\ At(a, "lists")
    /\ engineLock' = engineLock \ {a}
    /\ mem' = Becomes({The("tasks"), The("engines")}, "freed")
    /\ Goto(a, "sweep")
    /\ UNCHANGED <<config, calls, trash, tasks, engines, taskLock, taskv, enginev, judged>>

\* TWI_Disposer_finalize calls the handler of the first object of its list: a task
\* gives up its references, and the last owner of a dependency frees it.
TWNATIVE_Taski_free_core(a) ==
    /\ At(a, "sweep") /\ trash # <<>>
    /\ LET o == Head(trash)
           Owned == IF o[1] = "task" THEN Lists(o[2]) ELSE {}
       IN /\ dep' = [c \in Task |-> IF c \in Owned THEN [dep[c] EXCEPT !.ref = @ - 1] ELSE dep[c]]
          /\ mem' = Becomes({o} \cup {<<"dep", c>> : c \in {d \in Owned : dep[d].ref = 1}}, "freed")
    /\ trash' = Tail(trash)
    /\ UNCHANGED <<config, pc, calls, lists, status, ep, job, wanted, enginev, judged>>

FinalizeDisposer(a) ==
    /\ At(a, "sweep") /\ trash = <<>>
    /\ mem' = Becomes({The("disposer")}, "freed")
    /\ Goto(a, "polls")
    /\ UNCHANGED <<config, calls, trash, lists, taskv, enginev, judged>>

FinalizePolls(a) ==
    /\ At(a, "polls")
    /\ mem' = Becomes({o \in {The("polls"), The("poll")} : Usable(o)}, "freed")
    /\ walk' = 0
    /\ Goto(a, "idle")
    /\ UNCHANGED <<config, script, on, awaits, ran, trash, lists, taskv, enginev, judged>>

-----------------------------------------------------------------------------
\* TWNATIVE_Engine_scheduler, and what it runs: scheduler_core, Taski_run and the two
\* changes of status.  A client that waits enters at "pop".

Home(th) == IF th \in Worker THEN "check" ELSE "spin"

WorkerStart(w) ==
    /\ At(w, "start")
    /\ Goto(w, "check")
    /\ UNCHANGED <<config, calls, objects, taskv, enginev, judged>>

WorkerCheck(w) ==
    /\ At(w, "check")
    /\ Goto(w, IF nt > 0 THEN "sleep" ELSE "leave")
    /\ UNCHANGED <<config, calls, objects, taskv, enginev, judged>>

WorkerSleep(w) ==
    /\ At(w, "sleep") /\ njob > 0
    /\ njob' = njob - 1
    /\ LET locks == events /\ ~evtLock
       IN evtLock' = (evtLock \/ locks) /\ Goto(w, IF locks THEN "loop" ELSE "pop")
    /\ UNCHANGED <<config, calls, objects, taskv, queue, nt, polled, judged>>

WorkerLoop(w) ==
    /\ At(w, "loop")
    /\ evtLock' = FALSE
    /\ njob' = njob + 1
    /\ Goto(w, "check")
    /\ UNCHANGED <<config, calls, objects, taskv, queue, nt, polled, judged>>

Pop(th) ==
    /\ At(th, "pop")
    /\ IF queue = <<>>
       THEN Goto(th, Home(th)) /\ UNCHANGED <<on, queue>>
       ELSE /\ on' = [on EXCEPT ![th] = Head(queue)]
            /\ queue' = Tail(queue)
            /\ Goto(th, "job")
    /\ UNCHANGED <<config, script, awaits, ran, walk, objects, taskv, njob, nt, evtLock,
                   polled, judged>>

\* A job without data makes the thread follow NULL.  A job whose task runs is never
\* disposed.
RunJob(th) ==
    /\ At(th, "job")
    /\ LET t == on[th] IN
        IF t \in wanted
        THEN /\ job' = [job EXCEPT ![t] = FALSE]
             /\ status' = [status EXCEPT ![t] = "RUNNING"]
             /\ ran' = [ran EXCEPT ![th] = t]
             /\ Goto(th, "final")
             /\ UNCHANGED fault
        ELSE Dies("null_job") /\ UNCHANGED <<job, status, ran, pc>>
    /\ UNCHANGED <<config, script, on, awaits, walk, objects, ep, wanted, dep, enginev, told,
                   orderly>>

\* The handler returns 0: FINAL, and COMPLETED.
TaskFinal(th) ==
    /\ At(th, "final")
    /\ ep' = [ep EXCEPT ![on[th]] = FALSE]
    /\ status' = [status EXCEPT ![on[th]] = "COMPLETED"]
    /\ Goto(th, "notify")
    /\ UNCHANGED <<config, calls, objects, job, wanted, dep, enginev, judged>>

Held(t) == {c \in Childs(t) : ~dep[c].childless /\ status[c] = "DEPHOLD"}

NotifyChild(th) ==
    /\ At(th, "notify")
    /\ \E c \in Held(ran[th]) :
        /\ status' = [status EXCEPT ![c] = "QUEUE"]
        /\ on' = [on EXCEPT ![th] = c]
    /\ Goto(th, "queue")
    /\ UNCHANGED <<config, script, awaits, ran, walk, objects, ep, job, wanted, dep, enginev,
                   judged>>

NotifyEnds(th) ==
    /\ At(th, "notify") /\ Held(ran[th]) = {}
    /\ Goto(th, "tell")
    /\ UNCHANGED <<config, calls, objects, taskv, enginev, judged>>

\* The status handler gets the handle of the task, COMPLETED since TaskFinal.
StatusHandler(th) ==
    /\ At(th, "tell")
    /\ told' = told \cup ({ran[th]} \cap listens)
    /\ ran' = [ran EXCEPT ![th] = NoTask]
    /\ Goto(th, Home(th))
    /\ UNCHANGED <<config, script, on, awaits, walk, objects, taskv, enginev, fault, orderly>>

\* TWI_Disposer_leave, and the thread ends.
WorkerLeaves(w) ==
    /\ At(w, "leave")
    /\ Goto(w, "gone")
    /\ UNCHANGED <<config, calls, objects, taskv, enginev, judged>>

-----------------------------------------------------------------------------
Init ==
    /\ \E s \in Scenarios :
        /\ parent = s.parent
        /\ listens = s.listens
        /\ events = s.events
        /\ script = s.script
    /\ mem = [o \in Object |-> "none"]
    /\ trash = <<>> /\ tasks = <<>> /\ engines = FALSE /\ taskLock = {} /\ engineLock = {}
    /\ status = [t \in Task |-> "IDLE"]
    /\ ep = [t \in Task |-> FALSE] /\ job = [t \in Task |-> FALSE]
    /\ wanted = {}
    /\ dep = [t \in Task |-> [ref |-> 0, attached |-> FALSE, orphan |-> FALSE, childless |-> FALSE]]
    /\ queue = <<>> /\ njob = 0 /\ nt = 0 /\ evtLock = FALSE /\ polled = FALSE
    /\ pc = [th \in Thread |-> IF th \in App THEN "idle" ELSE "gone"]
    /\ on = [th \in Thread |-> NoTask] /\ ran = [th \in Thread |-> NoTask]
    /\ awaits = [a \in App |-> NoTask]
    /\ walk = 0 /\ told = {} /\ fault = "none" /\ orderly = TRUE

Runs(th) ==
    \/ Pop(th) \/ RunJob(th) \/ TaskFinal(th) \/ NotifyChild(th) \/ NotifyEnds(th)
    \/ StatusHandler(th) \/ TWNATIVE_Taski_queue(th) \/ QueueToken(th)

AppStep(a) ==
    \/ Begin(a) \/ TW_Init(a) \/ TW_Task_create(a) \/ TWNATIVE_Task_add_dep(a)
    \/ Commit(a) \/ CommitWire(a) \/ TW_Task_wait(a) \/ WaitMore(a) \/ ClientWaits(a)
    \/ SetMpi(a)
    \/ TWNATIVE_Task_free(a) \/ FreeInvalidate(a) \/ FreeNullJob(a) \/ FreeUnset(a)
    \/ FreeDispose(a) \/ FreeHandle(a)
    \/ TWNATIVE_Engine_create(a) \/ TWNATIVE_Enginei_free(a) \/ EngineWake(a)
    \/ EngineJoin(a) \/ DrainFails(a) \/ DrainDisposes(a) \/ DrainEnds(a)
    \/ EngineDispose(a) \/ EngineErase(a)
    \/ TW_Finalize(a) \/ FinalizeTask(a) \/ FinalizeTasksEnd(a) \/ FinalizeEngines(a)
    \/ FinalizeLists(a) \/ TWNATIVE_Taski_free_core(a) \/ FinalizeDisposer(a)
    \/ FinalizePolls(a)
    \/ Runs(a) \/ Crash(a)

WorkerStep(w) ==
    \/ WorkerStart(w) \/ WorkerCheck(w) \/ WorkerSleep(w) \/ WorkerLoop(w)
    \/ WorkerLeaves(w) \/ Runs(w) \/ Crash(w)

Next == (\E a \in App : AppStep(a)) \/ (\E w \in Worker : WorkerStep(w))

\* The application goes on with its script, and the system schedules every thread.
FairSpec ==
    /\ Init /\ [][Next]_vars
    /\ \A a \in App : WF_vars(AppStep(a))
    /\ \A w \in Worker : WF_vars(WorkerStep(w))

-----------------------------------------------------------------------------
\* Properties

TypeOK ==
    /\ mem \in [Object -> {"none", "live", "disposed", "freed"}]
    /\ status \in [Task -> {"IDLE", "DEPHOLD", "QUEUE", "RUNNING", "COMPLETED"}]
    /\ wanted \subseteq Task /\ told \subseteq listens
    /\ njob \in Nat /\ nt \in {0, Cardinality(Worker)} /\ walk \in Nat
    /\ fault \in {"none", "freed_memory", "null_engine", "null_job"}

\* A client that frees what has ended, and finalizes when its threads are done, never
\* makes a thread use memory that was freed, although the workers still notify
\* children, call handlers and leave the disposer then: nothing is reclaimed before
\* TW_Finalize has joined them.  The NULL engine of QueueToken is NativeTask's.
NoUseAfterFree == TypeOK /\ (orderly => fault \in {"none", "null_engine"})

\* "All resource will be freed" (tw.c:150), even when queued tasks were freed: what is
\* left when TW_Finalize has succeeded is the job of every task that ran, the handles
\* the client did not free itself, and the dependencies of tasks never committed.
Leaked ==
    {<<"job", t>> : t \in {u \in Task : status[u] = "COMPLETED"}} \cup
    {<<"dep", t>> : t \in {u \in Task : HasDep(u) /\ ~dep[u].attached}} \cup
    {o \in {The("ehandle")} \cup {<<"handle", t>> : t \in Task} : mem[o] = "live"}

AllFreed ==
    (mem[The("polls")] = "freed" /\ fault = "none") => {o \in Object : Usable(o)} = Leaked

\* The references of a dependency are the tasks that still list it, and it is freed
\* with the last: whichever of child and parent goes first, and when.
Owners(t) ==
    {u \in {t, parent[t]} : ~(mem[<<"task", u>>] = "freed" /\ (u = t \/ dep[t].attached))}

RefsCounted ==
    \A t \in Task : HasDep(t) =>
        /\ dep[t].ref = Cardinality(Owners(t))
        /\ mem[<<"dep", t>>] = "freed" <=> dep[t].ref = 0

\* Every call of an orderly client returns, TW_Engine_free and TW_Finalize with
\* workers asleep, running and in the event loop included.
ClientCallsReturn ==
    \A a \in App : (pc[a] # "idle") ~> (pc[a] = "idle" \/ fault # "none" \/ ~orderly)
================================================================================
