----------------------------- MODULE NativeEngine -----------------------------
(***************************************************************************)
(* The engine of the native driver: worker threads that sleep on the       *)
(* semaphore njob, look for events and run jobs from the priority queues   *)
(* (twnative_engine_sched.c), and the calls that create it, run jobs on    *)
(* the caller, change the number of workers and free it                    *)
(* (twnative_engine.c, twnative_engine_int.c).                             *)
(*                                                                         *)
(* What a job does is module NativeTask's and NativeEvent's subject; here  *)
(* a job is pushed, popped, and may push others while it runs.  The order  *)
(* inside a queue is module NbQueue's subject: here a queue is a set.      *)
(* One application thread makes the calls on the engine.                   *)
(***************************************************************************)
EXTENDS Integers, FiniteSets

CONSTANTS
    MaxWorkers,     \* bound: no call asks for more workers
    App,            \* the application thread
    Job,
    EventJob,       \* the jobs that are events; the others are tasks
    Stale,          \* the jobs whose task is no longer QUEUE when it is popped
    Level,          \* Level[j]: the queue job j is pushed to
    Last,           \* the last queue, TW_TASK_PRIORITY_LAZY
    Sizes,          \* the num_worker of Engine_create
    Resizes,        \* the num_worker of Engine_set_num_workers
    Backends        \* the event drivers: TRUE for one, FALSE for none

Worker == 0..(MaxWorkers - 1)
Thread == Worker \cup {App}

ASSUME EngineAssumption ==
    /\ MaxWorkers \in Nat /\ Last \in Nat
    /\ App \notin Int
    /\ IsFiniteSet(Job)
    /\ EventJob \subseteq Job /\ Stale \subseteq Job \ EventJob
    /\ Level \in [Job -> 0..(Last - 1)]     \* the dispatcher refuses LAZY
    /\ Sizes \cup Resizes \subseteq 0..MaxWorkers
    /\ Backends \subseteq BOOLEAN

VARIABLES
    evt,        \* ep->evt_driver # NULL
    nt,         \* ep->nt
    ntAlloc,    \* ep->nt_alloc
    curNt,      \* ep->cur_nt
    sleepNt,    \* ep->sleep_nt
    njob,       \* the value of the semaphore ep->njob
    evtLock,    \* ep->evt_lock is held
    queue,      \* queue[l]: the jobs in ep->queue[l]
    fresh,      \* the jobs that have not been pushed yet
    pc,
    back,       \* where a thread goes on after sem.inc
    lvl,        \* the locals of scheduler_core: cur_priority,
    limit,      \* and max_priority_level
    i,          \* the loop counter of the application's call
    goal,       \* what the loop counts to: num_worker, or nt in Enginei_free
    engine      \* the application's handle: "open", "freed", or "failed" to free

size   == <<nt, ntAlloc, curNt>>
sems   == <<sleepNt, njob, evtLock>>
jobs   == <<queue, fresh>>
scan   == <<lvl, limit>>
call   == <<i, goal, engine>>
vars   == <<evt, size, sems, jobs, pc, back, scan, call>>

At(th, l)     == pc[th] = l
Goto(th, l)   == pc' = [pc EXCEPT ![th] = l]

-----------------------------------------------------------------------------
\* Taski_queue and Eventi_queue: the push, then sem.inc.  A running handler
\* pushes the children it completes, a firing event its own job, and the
\* application what it commits.

PushesFrom(th) == IF th = App THEN {"idle", "run"} ELSE {"run", "watch"}

Push(th) ==
    \E j \in fresh, l \in PushesFrom(th) :
        /\ At(th, l)
        /\ l = "idle" => j \notin EventJob /\ engine = "open"
        /\ (l = "watch") = (j \in EventJob)
        /\ queue' = [queue EXCEPT ![Level[j]] = @ \cup {j}]
        /\ fresh' = fresh \ {j}
        /\ back' = [back EXCEPT ![th] = l]
        /\ Goto(th, "inc")
        /\ UNCHANGED <<evt, size, sems, scan, call>>

\* Mutant of Inc: the queue is filled and nobody is woken.
IncNot(th) ==
    /\ At(th, "inc")
    /\ Goto(th, back[th])
    /\ back' = [back EXCEPT ![th] = "idle"]
    /\ UNCHANGED <<evt, size, sems, jobs, scan, call>>

Inc(th) ==
    /\ At(th, "inc")
    /\ njob' = njob + 1
    /\ Goto(th, back[th])
    /\ back' = [back EXCEPT ![th] = "idle"]
    /\ UNCHANGED <<evt, size, sleepNt, evtLock, jobs, scan, call>>

-----------------------------------------------------------------------------
\* TWNATIVE_Engine_scheduler_core

\* Mutant of Scan: the last level that tasks use is left out.
ScanShort(th) ==
    /\ At(th, "scan")
    /\ lvl' = [lvl EXCEPT ![th] = 0]
    /\ limit' = [limit EXCEPT ![th] = Last - 1]
    /\ Goto(th, "pop")
    /\ UNCHANGED <<evt, size, sems, jobs, back, call>>

\* The LAZY queue is looked at while somebody else sleeps.
Scan(th) ==
    /\ At(th, "scan")
    /\ lvl' = [lvl EXCEPT ![th] = 0]
    /\ limit' = [limit EXCEPT ![th] = IF sleepNt > 0 /\ nt > 1 THEN Last + 1 ELSE Last]
    /\ Goto(th, "pop")
    /\ UNCHANGED <<evt, size, sems, jobs, back, call>>

\* The scan ends and its locals are gone.
Leave(th, l) ==
    /\ Goto(th, l)
    /\ lvl' = [lvl EXCEPT ![th] = 0]
    /\ limit' = [limit EXCEPT ![th] = 0]

Pop(th) ==
    /\ At(th, "pop")
    /\ lvl[th] < limit[th]
    /\ \E j \in queue[lvl[th]] :
        /\ queue' = [queue EXCEPT ![lvl[th]] = @ \ {j}]
        /\ IF j \in Stale THEN UNCHANGED <<pc, scan>> ELSE Leave(th, "run")
    /\ UNCHANGED <<evt, size, sems, fresh, back, call>>

PopEmpty(th) ==
    /\ At(th, "pop")
    /\ lvl[th] < limit[th]
    /\ queue[lvl[th]] = {}
    /\ lvl' = [lvl EXCEPT ![th] = @ + 1]
    /\ UNCHANGED <<evt, size, sems, jobs, pc, back, limit, call>>

Returns(th) == IF th = App THEN "idle" ELSE "check"

ScanFails(th) ==
    /\ At(th, "pop")
    /\ lvl[th] = limit[th]
    /\ Leave(th, Returns(th))
    /\ UNCHANGED <<evt, size, sems, jobs, back, call>>

\* The handler returns.  Engine_do_work goes on while there is time.
Ran(th) ==
    /\ At(th, "run")
    /\ \/ Goto(th, Returns(th))
       \/ th = App /\ Goto(th, "scan")
    /\ UNCHANGED <<evt, size, sems, jobs, back, scan, call>>

-----------------------------------------------------------------------------
\* TWNATIVE_Engine_scheduler: the body of worker w

Start(w) ==
    /\ At(w, "start")
    /\ curNt' = curNt + 1
    /\ Goto(w, "check")
    /\ UNCHANGED <<evt, nt, ntAlloc, sems, jobs, back, scan, call>>

Check(w) ==
    /\ At(w, "check")
    /\ Goto(w, IF w < nt THEN "sleep" ELSE "exit")
    /\ UNCHANGED <<evt, size, sems, jobs, back, scan, call>>

Sleep(w) ==
    /\ At(w, "sleep")
    /\ sleepNt' = sleepNt + 1
    /\ Goto(w, "dec")
    /\ UNCHANGED <<evt, size, njob, evtLock, jobs, back, scan, call>>

Dec(w) ==
    /\ At(w, "dec")
    /\ njob > 0
    /\ njob' = njob - 1
    /\ Goto(w, "awake")
    /\ UNCHANGED <<evt, size, sleepNt, evtLock, jobs, back, scan, call>>

Awake(w) ==
    /\ At(w, "awake")
    /\ sleepNt' = sleepNt - 1
    /\ Goto(w, IF evt THEN "try" ELSE "scan")
    /\ UNCHANGED <<evt, size, njob, evtLock, jobs, back, scan, call>>

TryLock(w) ==
    /\ At(w, "try")
    /\ evtLock' = TRUE
    /\ Goto(w, IF evtLock THEN "scan" ELSE "watch")
    /\ UNCHANGED <<evt, size, sleepNt, njob, jobs, back, scan, call>>

\* Loop_check_events returns.
Watched(w) ==
    /\ At(w, "watch")
    /\ evtLock' = FALSE
    /\ Goto(w, "release")
    /\ UNCHANGED <<evt, size, sleepNt, njob, jobs, back, scan, call>>

\* Mutant of Release: the token is kept.
ReleaseNot(w) ==
    /\ At(w, "release")
    /\ Goto(w, "check")
    /\ UNCHANGED <<evt, size, sems, jobs, back, scan, call>>

\* "Release another thread to check for events"
Release(w) ==
    /\ At(w, "release")
    /\ njob' = njob + 1
    /\ Goto(w, "check")
    /\ UNCHANGED <<evt, size, sleepNt, evtLock, jobs, back, scan, call>>

Exit(w) ==
    /\ At(w, "exit")
    /\ curNt' = curNt - 1
    /\ Goto(w, "gone")
    /\ UNCHANGED <<evt, nt, ntAlloc, sems, jobs, back, scan, call>>

-----------------------------------------------------------------------------
\* The application's calls

\* Engine_create and Engine_set_num_workers start the threads one by one.
StartThread ==
    /\ At(App, "threads")
    /\ i < goal
    /\ pc' = [pc EXCEPT ![i] = "start"]
    /\ i' = i + 1
    /\ UNCHANGED <<evt, size, sems, jobs, back, scan, goal, engine>>

ThreadsStarted ==
    /\ At(App, "threads")
    /\ i >= goal
    /\ Goto(App, "idle")
    /\ UNCHANGED <<evt, size, sems, jobs, back, scan, call>>

DoWork ==
    /\ At(App, "idle") /\ engine = "open"
    /\ Goto(App, "scan")
    /\ UNCHANGED <<evt, size, sems, jobs, back, scan, call>>

SetNumWorkers ==
    /\ At(App, "idle") /\ engine = "open"
    /\ \E n \in Resizes : goal' = n
    /\ Goto(App, "spin")
    /\ UNCHANGED <<evt, size, sems, jobs, back, scan, i, engine>>

\* "prev adjustment to finish"
SpinEnds ==
    /\ At(App, "spin")
    /\ nt = curNt
    /\ Goto(App, "grow")
    /\ UNCHANGED <<evt, size, sems, jobs, back, scan, call>>

\* nt_alloc stays 0 when it is 0.
Double ==
    /\ At(App, "grow")
    /\ goal > ntAlloc
    /\ ntAlloc' = 2 * ntAlloc
    /\ UNCHANGED <<evt, nt, curNt, sems, jobs, pc, back, scan, call>>

SetTarget ==
    /\ At(App, "grow")
    /\ goal <= ntAlloc
    /\ i' = nt
    /\ nt' = goal
    /\ Goto(App, "threads")
    /\ UNCHANGED <<evt, ntAlloc, curNt, sems, jobs, back, scan, goal, engine>>

\* Enginei_free: stop the workers, wake them, join them ...
Free ==
    /\ At(App, "idle") /\ engine \in {"open", "failed"}
    /\ goal' = nt
    /\ nt' = 0
    /\ i' = 0
    /\ Goto(App, "wake")
    /\ UNCHANGED <<evt, ntAlloc, curNt, sems, jobs, back, scan, engine>>

\* Mutant of Wake: one worker is not woken.
WakeFew ==
    /\ At(App, "wake")
    /\ IF i + 1 < goal
       THEN njob' = njob + 1 /\ i' = i + 1 /\ UNCHANGED pc
       ELSE i' = 0 /\ Goto(App, "join") /\ UNCHANGED njob
    /\ UNCHANGED <<evt, size, sleepNt, evtLock, jobs, back, scan, goal, engine>>

Wake ==
    /\ At(App, "wake")
    /\ IF i < goal
       THEN njob' = njob + 1 /\ i' = i + 1 /\ UNCHANGED pc
       ELSE i' = 0 /\ Goto(App, "join") /\ UNCHANGED njob
    /\ UNCHANGED <<evt, size, sleepNt, evtLock, jobs, back, scan, goal, engine>>

\* Mutant of Join: the last worker is not joined.
JoinFew ==
    /\ At(App, "join")
    /\ IF i + 1 < goal
       THEN At(i, "gone") /\ i' = i + 1 /\ UNCHANGED pc
       ELSE i' = 0 /\ Goto(App, "drain")
    /\ UNCHANGED <<evt, size, sems, jobs, back, scan, goal, engine>>

Join ==
    /\ At(App, "join")
    /\ IF i < goal
       THEN At(i, "gone") /\ i' = i + 1 /\ UNCHANGED pc
       ELSE i' = 0 /\ Goto(App, "drain")
    /\ UNCHANGED <<evt, size, sems, jobs, back, scan, goal, engine>>

\* ... and retract what is queued.  The task of a job is QUEUE, or was run by
\* another thread: Task_retract refuses both, and Enginei_free gives up.
DrainTask ==
    /\ At(App, "drain")
    /\ i <= Last
    /\ \E j \in queue[i] \ EventJob : queue' = [queue EXCEPT ![i] = @ \ {j}]
    /\ engine' = "failed"
    /\ Goto(App, "idle")
    /\ UNCHANGED <<evt, size, sems, fresh, back, scan, i, goal>>

DrainEvent ==
    /\ At(App, "drain")
    /\ i <= Last
    /\ \E j \in queue[i] \cap EventJob : queue' = [queue EXCEPT ![i] = @ \ {j}]
    /\ UNCHANGED <<evt, size, sems, fresh, pc, back, scan, call>>

DrainLevel ==
    /\ At(App, "drain")
    /\ i <= Last
    /\ queue[i] = {}
    /\ i' = i + 1
    /\ UNCHANGED <<evt, size, sems, jobs, pc, back, scan, goal, engine>>

Freed ==
    /\ At(App, "drain")
    /\ i > Last
    /\ engine' = "freed"
    /\ Goto(App, "idle")
    /\ UNCHANGED <<evt, size, sems, jobs, back, scan, i, goal>>

-----------------------------------------------------------------------------

\* The engine is set up and its first thread is about to be created.
Init ==
    /\ evt \in Backends
    /\ nt \in Sizes
    /\ ntAlloc = nt
    /\ curNt = nt
    /\ sleepNt = 0
    /\ njob = IF evt THEN 1 ELSE 0
    /\ evtLock = FALSE
    /\ queue = [l \in 0..Last |-> {}]
    /\ fresh = Job
    /\ pc = [th \in Thread |-> IF th = App THEN "threads" ELSE "none"]
    /\ back = [th \in Thread |-> "idle"]
    /\ lvl = [th \in Thread |-> 0]
    /\ limit = [th \in Thread |-> 0]
    /\ i = 0
    /\ goal = nt
    /\ engine = "open"

Runs(th) ==
    Inc(th) \/ Scan(th) \/ Pop(th) \/ PopEmpty(th) \/ ScanFails(th) \/ Ran(th)

Works(w) ==
    \/ Start(w) \/ Check(w) \/ Sleep(w) \/ Dec(w) \/ Awake(w)
    \/ TryLock(w) \/ Watched(w) \/ Release(w) \/ Exit(w)

Creating == StartThread \/ ThreadsStarted
Resizing == SpinEnds \/ Double \/ SetTarget
Freeing  == Wake \/ Join \/ DrainTask \/ DrainEvent \/ DrainLevel \/ Freed

Next ==
    \/ \E th \in Thread : Push(th) \/ Runs(th)
    \/ \E w \in Worker : Works(w)
    \/ DoWork \/ SetNumWorkers \/ Free
    \/ Creating \/ Resizing \/ Freeing

Spec == Init /\ [][Next]_vars

\* The operating system runs every thread, handlers return, and a call that has
\* been made goes on.  Nobody has to make a call, and no event has to fire.
FairSpec ==
    /\ Spec
    /\ \A w \in Worker : WF_vars(Runs(w) \/ Works(w))
    /\ WF_vars(Runs(App) \/ Creating \/ Resizing \/ Freeing)

-----------------------------------------------------------------------------

Label == {"none", "start", "check", "sleep", "dec", "awake", "try", "watch", "release",
          "exit", "gone", "scan", "pop", "run", "inc",
          "idle", "threads", "spin", "grow", "wake", "join", "drain"}

\* The values the variables take (a part of Tokens): a semaphore has no negative value.
TypeOK ==
    /\ evt \in BOOLEAN /\ evtLock \in BOOLEAN
    /\ nt \in 0..MaxWorkers
    /\ ntAlloc \in Nat /\ curNt \in Int /\ sleepNt \in Int /\ njob \in Nat
    /\ queue \in [0..Last -> SUBSET Job]
    /\ fresh \in SUBSET Job
    /\ pc \in [Thread -> Label]
    /\ back \in [Thread -> Label]
    /\ lvl \in [Thread -> 0..(Last + 1)]
    /\ limit \in [Thread -> 0..(Last + 1)]
    /\ i \in Nat /\ goal \in 0..MaxWorkers
    /\ engine \in {"open", "freed", "failed"}

\* The jobs in the queues up to level l, and the workers that have taken a token
\* from the semaphore and have not yet looked beyond level l.
Queued(l)   == {j \in Job : \E k \in 0..l : j \in queue[k]}
Watching(w) == At(w, "watch") \/ (At(w, "inc") /\ back[w] = "watch")
Holders     == {w \in Worker : pc[w] \in {"awake", "try", "release"} \/ Watching(w)}
Looking(l)  == {w \in Worker : At(w, "scan") \/ (At(w, "pop") /\ lvl[w] <= l)}
Promised    == {th \in Thread : At(th, "inc")}

\* One thread at a time is in the event loop, and only with its lock.
OneWatcher ==
    /\ \A w1, w2 \in Worker : Watching(w1) /\ Watching(w2) => w1 = w2
    /\ evtLock <=> \E w \in Worker : Watching(w)

\* However many threads scan the queues while jobs of every priority come and
\* go, no job is forgotten: up to every level there are at most as many jobs as
\* tokens, promised tokens and workers that still have to look there, and one
\* token more when somebody has to watch the events, which one thread does at a time.
Tokens ==
    /\ TypeOK
    /\ OneWatcher
    /\ \A l \in 0..(Last - 1) :
        Cardinality(Queued(l)) + (IF evt THEN 1 ELSE 0)
            <= njob + Cardinality(Promised) + Cardinality(Holders) + Cardinality(Looking(l))

\* When Engine_free has returned, no worker uses the engine any more and no job
\* is left behind.
FreedForGood ==
    engine = "freed" =>
        /\ \A w \in Worker : pc[w] \in {"none", "gone"}
        /\ \A l \in 0..Last : queue[l] = {}

\* As long as the engine has workers, somebody goes to the event loop again and
\* again.
EventsChecked ==
    (evt /\ engine = "open" /\ nt > 0) ~>
        (nt = 0 \/ \E w \in Worker : At(w, "watch"))

\* Without an event driver every job is run by a worker or by a caller, unless
\* there is no worker.
JobsRun ==
    \A j \in Job : (~evt /\ \E l \in 0..Last : j \in queue[l]) ~>
                        (nt = 0 \/ \A l \in 0..Last : j \notin queue[l])

\* Engine_free returns: the tokens it adds wake every worker that sleeps or goes
\* to sleep at that moment, and nobody takes two of them.
FreeReturns == pc[App] \in {"wake", "join", "drain"} ~> At(App, "idle")
=============================================================================
