----------------------------- MODULE LibraryProofs -----------------------------
(***************************************************************************)
(* What TLAPS proves of Library for any tasks, workers, application        *)
(* threads and scripts.                                                    *)
(*                                                                         *)
(* Almost nothing is freed before TW_Finalize sweeps the disposer, and     *)
(* then nobody else is in the library: the workers are gone and the other  *)
(* threads of the application have ended.  What is freed earlier are the   *)
(* handles and the queue of the engine, and that these are no longer used  *)
(* is what a client has to take care of.                                   *)
(***************************************************************************)
EXTENDS Library, FiniteSetTheorems, SequenceTheorems, TLAPS

-----------------------------------------------------------------------------
(* Where a thread is, and what it has in hand. *)

Outside     == {"idle", "told", "made", "alone"}
Running     == {"pop", "job", "final", "notify", "tell", "queue", "token"}
Working     == {"gone", "start", "check", "sleep", "loop", "leave"}
Freeing     == {"invalidate", "nulljob", "unset", "dispose"}
Finalizing  == {"walk", "engines", "lists", "sweep", "polls"}
ClosePath   == Finalizing \cup Freeing \cup (EngineFree \ {"erase"})
AppLabel    == Outside \cup Running \cup TaskCall \cup TaskFree \cup EngineFree \cup Finalizing
                   \cup {"init", "spin", "mpi", "engine", "finalize"}
WorkerLabel == Working \cup Running

\* The labels at which a thread's task is on[th], and at which it is ran[th].
OnLabel  == TaskCall \cup TaskFree \cup {"told", "made", "queue", "token", "job", "final"}
RanLabel == {"final", "notify", "tell"}
Commits  == {"queue", "token"}

Elems(seq)     == {seq[i] : i \in DOMAIN seq}
Different(seq) == \A i, j \in DOMAIN seq : seq[i] = seq[j] => i = j

Gone == \A w \in Worker : pc[w] = "gone"

\* The memory and the dependencies, kind by kind.
LibKind   == {"engine", "ehandle", "queue", "tasks", "engines", "disposer", "polls", "poll"}
taskMem   == [t \in Task |-> mem[<<"task", t>>]]
handleMem == [t \in Task |-> mem[<<"handle", t>>]]
jobMem    == [t \in Task |-> mem[<<"job", t>>]]
depMem    == [t \in Task |-> mem[<<"dep", t>>]]
libMem    == [k \in LibKind |-> mem[The(k)]]
attached  == [t \in Task |-> dep[t].attached]
refs      == [t \in Task |-> dep[t].ref]
memory    == <<taskMem, handleMem, jobMem, depMem, libMem>>

Present(t) == taskMem[t] \in {"live", "disposed"}
Open       == libMem["tasks"] = "live"

\* A thread that has t from its commit to its end, outside of the queue.
Hand(th, t) == on[th] = t /\ pc[th] \in {"wire", "queue", "job", "final"}

\* TW_Engine_free has failed.
Failed ==
    /\ libMem["queue"] = "freed" /\ libMem["engine"] = "live"
    /\ \A a \in App : pc[a] # "edispose"

\* From the first step of TW_Engine_free or TW_Finalize.
Ending ==
    \/ libMem["queue"] = "freed" \/ walk > 0
    \/ \E a \in App : pc[a] \in EngineFree \cup {"finalize"}

-----------------------------------------------------------------------------
(* The inductive invariant. *)

ConfigTyped ==
    /\ parent \in [Task -> Task \cup {NoTask}] /\ \A t \in Task : parent[t] # t
    /\ listens \subseteq Task /\ events \in BOOLEAN
    /\ script \in [App -> Seq(Call)]

PcTyped ==
    /\ pc \in [Thread -> AppLabel \cup WorkerLabel]
    /\ \A a \in App : pc[a] \in AppLabel
    /\ \A w \in Worker : pc[w] \in WorkerLabel

ThreadsTyped ==
    /\ on \in [Thread -> Task \cup {NoTask}] /\ ran \in [Thread -> Task \cup {NoTask}]
    /\ awaits \in [App -> Task \cup {NoTask}]
    /\ \A th \in Thread :
        /\ pc[th] \in OnLabel => on[th] \in Task
        /\ pc[th] \in RanLabel => ran[th] \in Task
        /\ pc[th] \in Commits /\ th \in Worker => ran[th] \in Task
        /\ pc[th] \notin RanLabel \cup Commits => ran[th] = NoTask
        /\ pc[th] = "final" => on[th] = ran[th]
        /\ pc[th] = "dep" => parent[on[th]] \in Task

ObjectsTyped ==
    /\ mem \in [Object -> {"none", "live", "disposed", "freed"}]
    /\ taskMem \in [Task -> {"none", "live", "disposed", "freed"}]
    /\ handleMem \in [Task -> {"none", "live", "freed"}]
    /\ jobMem \in [Task -> {"none", "live", "disposed", "freed"}]
    /\ depMem \in [Task -> {"none", "live", "freed"}]
    /\ libMem \in [LibKind -> {"none", "live", "disposed", "freed"}]
    /\ \A k \in LibKind \ {"engine", "poll"} : libMem[k] # "disposed"
    /\ libMem["poll"] # "live"
    /\ trash \in Seq(({"task", "job"} \X Task) \cup {The("engine")})
    /\ tasks \in Seq(Task) /\ queue \in Seq(Task)
    /\ engines \in BOOLEAN /\ taskLock \subseteq App /\ engineLock \subseteq App

StateTyped ==
    /\ status \in [Task -> {"IDLE", "DEPHOLD", "QUEUE", "RUNNING", "COMPLETED"}]
    /\ ep \in [Task -> BOOLEAN] /\ job \in [Task -> BOOLEAN] /\ wanted \subseteq Task
    /\ dep \in [Task -> [ref : Int, attached : BOOLEAN, orphan : BOOLEAN, childless : BOOLEAN]]
    /\ njob \in Nat /\ nt \in {0, Cardinality(Worker)} /\ evtLock \in BOOLEAN
    /\ polled \in BOOLEAN /\ walk \in Nat /\ told \subseteq listens
    /\ fault \in {"none", "freed_memory", "null_engine", "null_job"} /\ orderly \in BOOLEAN

Typed == ConfigTyped /\ PcTyped /\ ThreadsTyped /\ ObjectsTyped /\ StateTyped

\* Between TW_Init and the end of TW_Finalize the library is there, and outside of
\* that time nobody is in it but who calls them.
LibOK ==
    /\ Open =>
        /\ \A k \in {"engines", "disposer", "polls"} : libMem[k] = "live"
        /\ \A b \in App : pc[b] \notin {"init", "sweep", "polls"}
    /\ ~Open =>
        /\ Gone /\ \A b \in App : pc[b] \in Outside \cup {"init", "sweep", "polls"}
        /\ libMem["engines"] # "live"
        /\ walk = 0 => /\ trash = <<>> /\ libMem["poll"] # "disposed"
                       /\ libMem["disposer"] # "live" /\ libMem["polls"] # "live"
    /\ \A a \in App :
        /\ pc[a] = "init" => walk = 0 /\ \A b \in App \ {a} : pc[b] \in Outside
        /\ pc[a] = "sweep" => libMem["disposer"] = "live"
        /\ pc[a] \in {"sweep", "polls"} => libMem["polls"] = "live"
        /\ pc[a] = "polls" => trash = <<>> /\ libMem["disposer"] # "live"

\* Who finalizes is the only one left.
CloseOK ==
    /\ \A a \in App :
        /\ pc[a] = "finalize" => walk = 0 /\ Alone(a)
        /\ pc[a] \in Finalizing => walk > 0
        /\ pc[a] \in {"free", "handle", "erase"} => walk = 0
        /\ walk > 0 /\ pc[a] # "idle" =>
            Alone(a) /\ pc[a] \in ClosePath
    /\ walk > 0 => \E a \in App : pc[a] # "idle"

\* A task lives until it is freed by the client, or by the walk of TW_Finalize over
\* the list of tasks.
Done(a) == IF pc[a] \in Freeing THEN walk - 1 ELSE walk

TasksOK ==
    /\ Different(tasks)
    /\ Open => \A t \in Elems(tasks) : Present(t)
    /\ \A t \in Task : taskMem[t] = "live" =>
        /\ Open
        /\ t \in Elems(tasks) \/ \E a \in App : pc[a] \in Freeing /\ on[a] = t
    /\ \A t \in Task : ~Open /\ walk = 0 => ~Present(t)
    /\ \A t \in Task : handleMem[t] = "none" <=> taskMem[t] = "none"
    /\ \A a \in App :
        /\ pc[a] \in Freeing \cup {"free"} => taskMem[on[a]] = "live"
        /\ pc[a] \in Freeing /\ walk = 0 => on[a] \notin Elems(tasks)
        /\ pc[a] = "finalize" => \A t \in Elems(tasks) : taskMem[t] = "live"
        /\ walk > 0 /\ pc[a] \in Freeing =>
               walk - 1 \in DOMAIN tasks /\ on[a] = tasks[walk - 1]
        /\ walk > 0 /\ pc[a] \in Freeing \cup {"walk"} =>
               \A i \in DOMAIN tasks : taskMem[tasks[i]] = "live" <=> i >= Done(a)
        /\ walk > 0 /\ pc[a] \notin Freeing \cup {"walk", "idle"} =>
               \A t \in Task : taskMem[t] # "live"

\* What the disposer has, it has once.
TrashOK ==
    /\ Different(trash)
    /\ \A t \in Task : taskMem[t] = "disposed" <=> <<"task", t>> \in Elems(trash)
    /\ \A t \in Task : jobMem[t] = "disposed" <=> <<"job", t>> \in Elems(trash)
    /\ libMem["engine"] = "disposed" <=> The("engine") \in Elems(trash)

EngineOK ==
    /\ libMem["engine"] = "none" <=> libMem["ehandle"] = "none"
    /\ libMem["engine"] = "none" <=> libMem["queue"] = "none"
    /\ libMem["engine"] = "none" =>
        /\ Gone /\ queue = <<>> /\ ~polled
        /\ \A t \in Task : status[t] = "IDLE"
        /\ \A a \in App : pc[a] \notin EngineFree \cup UsesEngine \cup {"mpi"}
    /\ ~Gone => libMem["queue"] = "live" /\ (polled => libMem["poll"] = "disposed")
    /\ libMem["queue"] = "live" => libMem["engine"] = "live"
    /\ libMem["engine"] = "live" => Open /\ engines /\ libMem["ehandle"] = "live"
    /\ libMem["engine"] # "live" => queue = <<>>
    /\ libMem["engine"] = "disposed" => Open \/ walk > 0
    /\ Open /\ engines => libMem["engine"] = "live" \/ \E a \in App : pc[a] \in {"erase", "lists"}
    /\ nt = 0 => Gone \/ \E a \in App : pc[a] \in {"wake", "join"}
    /\ \A a, b \in App : pc[a] \in EngineFree /\ pc[b] \in EngineFree => a = b
    /\ \A a, b \in App : pc[a] = "engine" /\ pc[b] = "engine" => a = b
    /\ \A a \in App :
        /\ pc[a] = "engine" => libMem["engine"] = "none"
        /\ pc[a] \in EngineFree \ {"erase"} => libMem["engine"] = "live"
        /\ pc[a] \in {"drain", "edispose"} => Gone
        /\ pc[a] = "edispose" => queue = <<>> /\ libMem["queue"] = "freed"
        /\ pc[a] = "erase" => libMem["engine"] = "disposed" /\ libMem["ehandle"] = "live"
        /\ pc[a] \in {"lists", "sweep", "polls"} => libMem["engine"] # "live"

\* From its commit to its end a task is in one hand, and has one job.
HandsOK ==
    /\ Different(queue)
    /\ \A th1, th2 \in Thread : \A t \in Task : Hand(th1, t) /\ Hand(th2, t) => th1 = th2
    /\ \A t \in Elems(queue) :
        /\ status[t] = "QUEUE" /\ jobMem[t] = "live"
        /\ \A th \in Thread : ~Hand(th, t)
    /\ \A th \in Thread :
        /\ pc[th] = "wire" => status[on[th]] = "DEPHOLD" /\ ~attached[on[th]]
        /\ pc[th] = "queue" => status[on[th]] = "QUEUE" /\ jobMem[on[th]] = "none"
        /\ pc[th] = "job" => status[on[th]] = "QUEUE" /\ jobMem[on[th]] = "live"
        /\ pc[th] = "final" => status[on[th]] = "RUNNING"
    /\ \A t \in Task :
        /\ status[t] \in {"IDLE", "DEPHOLD"} =>
               jobMem[t] = "none" /\ ~job[t] /\ t \notin wanted
        /\ status[t] \in {"RUNNING", "COMPLETED"} => jobMem[t] = "live"
        /\ ep[t] => status[t] # "IDLE"
        /\ jobMem[t] = "live" =>
               \/ status[t] = "COMPLETED" \/ Failed \/ t \in Elems(queue)
               \/ \E th \in Thread : Hand(th, t)

\* A thread that runs a task is the only one, and calls the status handler once.
RunnersOK ==
    /\ \A t \in told : status[t] = "COMPLETED"
    /\ \A th \in Thread : ran[th] # NoTask =>
        /\ ran[th] \notin told
        /\ pc[th] = "final" \/ status[ran[th]] = "COMPLETED"
    /\ \A th1, th2 \in Thread : ran[th1] = ran[th2] /\ ran[th1] # NoTask => th1 = th2

\* A thread's tasks have not been freed.
HeldOK ==
    /\ \A t \in Elems(queue) : Present(t)
    /\ \A th \in Thread :
        /\ pc[th] \in {"wire", "queue", "token", "job", "final"} => Present(on[th])
        /\ ran[th] # NoTask => Present(ran[th])
    /\ \A a \in App :
        /\ pc[a] \in {"commit", "dep", "wait"} => handleMem[on[a]] = "live"
        /\ pc[a] \in TaskFree /\ walk = 0 => handleMem[on[a]] = "live"
        /\ pc[a] \in {"commit", "dep", "wait", "wire"} => taskMem[on[a]] = "live"
        /\ pc[a] = "dep" => taskMem[parent[on[a]]] = "live" /\ depMem[on[a]] = "none"
        /\ pc[a] = "create" => handleMem[on[a]] = "none"
        /\ pc[a] = "handle" => taskMem[on[a]] = "disposed"
        /\ pc[a] = "wait" => awaits[a] = on[a]
        /\ pc[a] \in {"wait", "spin"} \cup Running /\ (pc[a] \in Commits => ran[a] # NoTask) =>
               awaits[a] \in Task /\ Present(awaits[a])
        /\ pc[a] \in {"spin"} \cup Running /\ (pc[a] \in Commits => ran[a] # NoTask) =>
               status[awaits[a]] # "IDLE"

\* Nobody passes a handle that another is giving back.
ApartOK ==
    \A a, b \in App : \A t \in Task :
        /\ ~(Frees(a, t) /\ Uses(b, t))
        /\ Frees(a, t) /\ Frees(b, t) => a = b
        /\ pc[a] = "create" /\ Uses(a, t) /\ Uses(b, t) => a = b
        /\ pc[a] = "dep" /\ pc[b] = "dep" /\ on[a] = on[b] => a = b

\* Child and parent come and go together, but for the sweep.
DepsOK ==
    \A t \in Task :
        /\ depMem[t] = "none" => ~attached[t]
        /\ status[t] = "IDLE" => ~attached[t]
        /\ depMem[t] # "none" =>
            /\ parent[t] \in Task
            /\ taskMem[t] # "none" /\ taskMem[parent[t]] # "none"
            /\ (\A a \in App : pc[a] # "sweep") => (Present(t) <=> Present(parent[t]))
            /\ refs[t] = (IF taskMem[t] = "freed" THEN 0 ELSE 1)
                       + (IF taskMem[parent[t]] = "freed" /\ attached[t] THEN 0 ELSE 1)
            /\ depMem[t] = "freed" <=> refs[t] = 0

\* What an orderly client has seen to.
OrderlyOK ==
    orderly =>
        /\ ~Failed
        /\ Ending => NotBusy /\ \A a \in App : pc[a] \notin UsesEngine
        /\ \A t \in Elems(queue) : t \in wanted
        /\ \A th \in Thread : pc[th] = "job" => on[th] \in wanted
        /\ \A t \in Task : job[t] => status[t] = "QUEUE"
        /\ \A a \in App : pc[a] \in TaskFree => status[on[a]] = "IDLE" \/ Ended(on[a])
        /\ \A t \in Task : handleMem[t] = "freed" => status[t] = "IDLE" \/ Ended(t)
        /\ \A a \in App : pc[a] # "nulljob"

IInv ==
    /\ Typed /\ LibOK /\ CloseOK /\ TasksOK /\ TrashOK /\ EngineOK /\ HandsOK /\ RunnersOK
    /\ HeldOK /\ ApartOK /\ DepsOK /\ OrderlyOK

-----------------------------------------------------------------------------
(* Moves: a thread goes to label l, and what a part is about is left alone. *)

LEMMA Moved ==
  ASSUME PcTyped, NEW th \in Thread, NEW l, Goto(th, l)
  PROVE  pc'[th] = l /\ \A x \in Thread : x # th => pc'[x] = pc[x]
  BY DEF Goto, PcTyped

LEMMA Roles == Thread = Worker \cup App /\ \A w \in Worker : w \notin App
  BY LibraryAssumption DEF Thread

LEMMA LibMove ==
  ASSUME PcTyped, LibOK, NEW th \in Thread, NEW l, Goto(th, l),
         UNCHANGED <<libMem, trash, walk>>,
         l \in Outside \/ (Open /\ l \notin {"init", "sweep", "polls"}),
         pc[th] # "gone"
  PROVE  LibOK'
<1>1. th \in Worker => Open
  BY DEF LibOK, Gone
<1>2. \A a \in App : pc'[a] \in {"init", "sweep", "polls"} => pc'[a] = pc[a]
  BY Moved, Roles DEF Outside
<1>3. Open' <=> Open
  BY DEF Open
<1>4. ~Open => Gone' /\ \A b \in App : pc'[b] \in Outside \cup {"init", "sweep", "polls"}
  BY <1>1, Moved, Roles DEF LibOK, Gone
<1>5. \A a \in App : pc[a] = "init" => \A b \in App \ {a} : pc'[b] \in Outside
  BY Moved, Roles DEF LibOK, Outside
<1> QED
  BY <1>2, <1>3, <1>4, <1>5 DEF LibOK

LEMMA CloseMove ==
  ASSUME PcTyped, CloseOK, NEW th \in Thread, NEW l, Goto(th, l), UNCHANGED <<script, walk>>,
         th \in App => /\ pc[th] # "idle" /\ l # "finalize"
                       /\ walk > 0 => l \in ClosePath
                       /\ walk = 0 => l \notin Finalizing,
         walk \in Nat
  PROVE  CloseOK'
<1>1. ASSUME NEW a \in App
      PROVE  /\ pc'[a] = "finalize" => walk = 0 /\ Alone(a)'
             /\ pc'[a] \in Finalizing => walk > 0
             /\ pc'[a] \in {"free", "handle", "erase"} => walk = 0
             /\ walk > 0 /\ pc'[a] # "idle" => Alone(a)' /\ pc'[a] \in ClosePath
  <2>1. CASE th \in App /\ a = th
    <3>1. walk > 0 => Alone(th)'
      BY <2>1, Moved, Roles DEF CloseOK, Alone
    <3> QED
      BY <2>1, <3>1, Moved, Roles DEF ClosePath, Finalizing, Freeing, EngineFree
  <2>2. CASE a # th
    <3>1. pc'[a] = pc[a]
      BY <2>2, Moved, Roles
    <3>2. Alone(a) /\ pc[a] # "idle" => th \notin App
      BY <2>2 DEF Alone
    <3>3. Alone(a) /\ th \notin App => Alone(a)'
      BY Moved, Roles DEF Alone
    <3> QED
      BY <3>1, <3>2, <3>3 DEF CloseOK
  <2> QED
    BY <2>1, <2>2, Roles
<1>2. walk > 0 => \E a \in App : pc'[a] # "idle"
  <2>1. CASE th \in App
    BY <2>1, Moved DEF ClosePath, Finalizing, Freeing, EngineFree
  <2>2. CASE th \notin App
    BY <2>2, Moved, Roles DEF CloseOK
  <2> QED
    BY <2>1, <2>2
<1> QED
  BY <1>1, <1>2 DEF CloseOK

LEMMA TasksMove ==
  ASSUME PcTyped, TasksOK, NEW th \in Thread, NEW l, Goto(th, l),
         UNCHANGED <<taskMem, libMem, tasks, on, walk>>,
         \A t \in Task : handleMem'[t] = "none" <=> handleMem[t] = "none",
         th \in App =>
            /\ l \notin {"free", "finalize", "walk"} /\ pc[th] # "walk"
            /\ l \in Freeing <=> pc[th] \in Freeing
            /\ walk > 0 => pc[th] # "idle"
  PROVE  TasksOK'
<1>1. Open' <=> Open
  BY DEF Open
<1>2. \A t : Present(t)' <=> Present(t)
  BY DEF Present
<1>3. \A a \in App : pc'[a] \in Freeing <=> pc[a] \in Freeing
  BY Moved, Roles
<1>4. \A a \in App : pc'[a] \in {"free", "finalize", "walk"} => pc'[a] = pc[a]
  BY Moved, Roles
<1>5. \A a \in App : walk > 0 /\ pc'[a] \notin Freeing \cup {"walk", "idle"}
                     => pc[a] \notin Freeing \cup {"walk", "idle"}
  BY <1>3, Moved, Roles
<1>6. \A a : Done(a)' = IF pc'[a] \in Freeing THEN walk - 1 ELSE walk
  BY DEF Done
<1>7. \A a \in App : pc'[a] \in Freeing \cup {"walk"} =>
         pc[a] \in Freeing \cup {"walk"} /\ Done(a)' = Done(a)
  BY <1>3, <1>4, <1>6 DEF Done
<1> QED
  BY <1>1, <1>2, <1>3, <1>4, <1>5, <1>7 DEF TasksOK, Different, Elems

\* Who the engine belongs to.
EngineStays(th, l) ==
    /\ pc[th] # "gone"
    /\ th \in App =>
        /\ l # "engine" /\ l # "erase" /\ l # "edispose"
        /\ l \in EngineFree => pc[th] \in EngineFree
        /\ l = "drain" => Gone
        /\ l \in EngineFree => libMem["engine"] = "live"
        /\ l \in UsesEngine \cup {"mpi"} => libMem["engine"] # "none"
        /\ l \in {"lists", "sweep", "polls"} => libMem["engine"] # "live"
        /\ pc[th] \in {"wake", "join"} => Gone \/ l \in {"wake", "join"}
        /\ pc[th] \notin {"erase", "lists"}

LEMMA EngineMove ==
  ASSUME PcTyped, EngineOK, NEW th \in Thread, NEW l, Goto(th, l), EngineStays(th, l),
         UNCHANGED <<libMem, queue, polled, status, engines, nt>>, walk > 0 => walk' > 0
  PROVE  EngineOK'
<1>1. Open' <=> Open
  BY DEF Open
<1>2. Gone => Gone'
  BY Moved, Roles DEF Gone, EngineStays
<1>3. ~Gone' => ~Gone
  BY <1>2
<1>4. \A a \in App : /\ pc'[a] \in EngineFree => pc[a] \in EngineFree
                     /\ pc'[a] = "engine" => pc[a] = "engine"
  BY Moved, Roles DEF EngineStays
<1>5. \A a \in App : libMem["engine"] = "none" => pc'[a] \notin EngineFree \cup UsesEngine \cup {"mpi"}
  BY Moved, Roles DEF EngineStays, EngineOK
<1>6. nt = 0 => Gone' \/ \E a \in App : pc'[a] \in {"wake", "join"}
  <2>1. CASE Gone
    BY <1>2, <2>1
  <2>2. CASE ~Gone
    BY <2>2, Moved, Roles DEF EngineStays, EngineOK
  <2> QED
    BY <2>1, <2>2
<1>7. \A a \in App :
        /\ pc'[a] = "engine" => libMem["engine"] = "none"
        /\ pc'[a] \in EngineFree \ {"erase"} => libMem["engine"] = "live"
        /\ pc'[a] \in {"drain", "edispose"} => Gone'
        /\ pc'[a] = "edispose" => queue = <<>> /\ libMem["queue"] = "freed"
        /\ pc'[a] = "erase" => libMem["engine"] = "disposed" /\ libMem["ehandle"] = "live"
        /\ pc'[a] \in {"lists", "sweep", "polls"} => libMem["engine"] # "live"
  <2> TAKE a \in App
  <2>1. CASE a = th
    BY <1>2, <2>1, Moved, Roles DEF EngineStays
  <2>2. CASE a # th
    BY <1>2, <2>2, Moved, Roles DEF EngineOK
  <2> QED
    BY <2>1, <2>2
<1>8. \A a, b \in App : pc'[a] \in EngineFree /\ pc'[b] \in EngineFree => a = b
  BY <1>4 DEF EngineOK
<1>9. \A a, b \in App : pc'[a] = "engine" /\ pc'[b] = "engine" => a = b
  BY <1>4 DEF EngineOK
<1>10. (\E a \in App : pc[a] \in {"erase", "lists"}) => \E a \in App : pc'[a] \in {"erase", "lists"}
  BY Moved, Roles DEF EngineStays
<1> QED
  BY <1>1, <1>2, <1>3, <1>5, <1>6, <1>7, <1>8, <1>9, <1>10 DEF EngineOK

HandLabel == {"wire", "queue", "job", "final"}

LEMMA HandsMove ==
  ASSUME PcTyped, HandsOK, NEW th \in Thread, NEW l, Goto(th, l),
         UNCHANGED <<queue, status, jobMem, attached, job, ep>>, wanted' \subseteq wanted,
         \A x \in Thread : x # th => on'[x] = on[x],
         l \notin HandLabel, pc[th] \notin HandLabel, Failed => Failed'
  PROVE  HandsOK'
<1>1. \A x \in Thread : \A t : Hand(x, t)' <=> Hand(x, t)
  BY Moved DEF Hand, HandLabel
<1>3. \A x \in Thread : pc'[x] \in HandLabel => x # th /\ pc'[x] = pc[x] /\ on'[x] = on[x]
  BY Moved
<1> QED
  BY <1>1, <1>3 DEF HandsOK, Different, Elems, HandLabel

LEMMA RunnersMove ==
  ASSUME PcTyped, RunnersOK, NEW th \in Thread, NEW l, Goto(th, l),
         UNCHANGED <<told, status, ran>>, pc[th] # "final"
  PROVE  RunnersOK'
  BY Moved DEF RunnersOK

\* What a thread has in hand at label l is there.
Holds(th, l) ==
    /\ l \notin {"wire", "queue", "token", "job", "final", "commit", "dep", "wait", "create",
                 "handle"}
    /\ th \in App =>
        /\ l \in TaskFree => pc[th] \in TaskFree
        /\ l \in {"spin"} \cup Running =>
            awaits[th] \in Task /\ Present(awaits[th]) /\ status[awaits[th]] # "IDLE"

LEMMA HeldMove ==
  ASSUME PcTyped, HeldOK, NEW th \in Thread, NEW l, Goto(th, l), Holds(th, l),
         UNCHANGED <<queue, on, ran, awaits, taskMem, handleMem, depMem, parent, status>>,
         walk' = 0 => walk = 0
  PROVE  HeldOK'
<1>1. \A t : Present(t)' <=> Present(t)
  BY DEF Present
<1>2. ASSUME NEW x \in Thread
      PROVE  /\ pc'[x] \in {"wire", "queue", "token", "job", "final"} => Present(on[x])
             /\ ran[x] # NoTask => Present(ran[x])
  BY Moved DEF HeldOK, Holds
<1>3. ASSUME NEW a \in App
      PROVE  /\ pc'[a] \in {"commit", "dep", "wait"} => handleMem[on[a]] = "live"
             /\ pc'[a] \in TaskFree /\ walk' = 0 => handleMem[on[a]] = "live"
             /\ pc'[a] \in {"commit", "dep", "wait", "wire"} => taskMem[on[a]] = "live"
             /\ pc'[a] = "dep" => taskMem[parent[on[a]]] = "live" /\ depMem[on[a]] = "none"
             /\ pc'[a] = "create" => handleMem[on[a]] = "none"
             /\ pc'[a] = "handle" => taskMem[on[a]] = "disposed"
             /\ pc'[a] = "wait" => awaits[a] = on[a]
             /\ pc'[a] \in {"wait", "spin"} \cup Running /\ (pc'[a] \in Commits => ran[a] # NoTask) =>
                    awaits[a] \in Task /\ Present(awaits[a])
             /\ pc'[a] \in {"spin"} \cup Running /\ (pc'[a] \in Commits => ran[a] # NoTask) =>
                    status[awaits[a]] # "IDLE"
  <2>1. CASE a = th
    BY <2>1, Moved, Roles DEF HeldOK, Holds
  <2>2. CASE a # th
    BY <2>2, Moved, Roles DEF HeldOK
  <2> QED
    BY <2>1, <2>2
<1> QED
  BY <1>1, <1>2, <1>3 DEF HeldOK

LEMMA ApartMove ==
  ASSUME PcTyped, ApartOK, NEW th \in Thread, NEW l, Goto(th, l), UNCHANGED <<on, parent>>,
         th \in App => /\ l \in TaskFree => pc[th] \in TaskFree
                       /\ l \in TaskCall => pc[th] \in TaskCall
                       /\ l \notin {"create", "dep"}
  PROVE  ApartOK'
<1>1. \A a \in App : \A t : (Frees(a, t)' => Frees(a, t)) /\ (Uses(a, t)' => Uses(a, t))
  BY Moved, Roles DEF Frees, Uses
<1>2. \A a \in App : /\ pc'[a] = "create" => pc[a] = "create"
                     /\ pc'[a] = "dep" => pc[a] = "dep"
  BY Moved, Roles
<1>3. ASSUME NEW a \in App, NEW b \in App, NEW t \in Task
      PROVE  /\ ~(Frees(a, t)' /\ Uses(b, t)')
             /\ Frees(a, t)' /\ Frees(b, t)' => a = b
             /\ pc'[a] = "create" /\ Uses(a, t)' /\ Uses(b, t)' => a = b
             /\ pc'[a] = "dep" /\ pc'[b] = "dep" /\ on[a] = on[b] => a = b
  BY <1>1, <1>2 DEF ApartOK
<1> QED
  BY <1>3 DEF ApartOK

LEMMA DepsMove ==
  ASSUME PcTyped, DepsOK, NEW th \in Thread, NEW l, Goto(th, l), pc[th] # "sweep",
         UNCHANGED <<depMem, attached, refs, status, taskMem, parent>>
  PROVE  DepsOK'
<1>1. \A t : Present(t)' <=> Present(t)
  BY DEF Present
<1>2. (\A a \in App : pc'[a] # "sweep") => \A a \in App : pc[a] # "sweep"
  BY Moved, Roles
<1> QED
  BY <1>1, <1>2 DEF DepsOK

OrderlyStays(th, l) ==
    /\ l # "job"
    /\ th \in App =>
        /\ l \notin EngineFree \cup {"finalize"} \/ Ending
        /\ l # "nulljob"
        /\ l \in TaskFree => pc[th] \in TaskFree
        /\ l \in UsesEngine /\ Ending => pc[th] \in UsesEngine

LEMMA FailedMove ==
  ASSUME PcTyped, NEW th \in Thread, NEW l, Goto(th, l),
         libMem'["queue"] = libMem["queue"], libMem'["engine"] = libMem["engine"]
  PROVE  /\ l # "edispose" => (Failed => Failed')
         /\ pc[th] # "edispose" => (Failed' => Failed)
  BY Moved, Roles DEF Failed

LEMMA EndingMove ==
  ASSUME PcTyped, NEW th \in Thread, NEW l, Goto(th, l), libMem'["queue"] = libMem["queue"],
         th \in App => l \notin EngineFree \cup {"finalize"} \/ Ending,
         walk' > 0 => Ending
  PROVE  Ending' => Ending
  BY Moved, Roles DEF Ending

LEMMA OrderlyMove ==
  ASSUME PcTyped, OrderlyOK, NEW th \in Thread, NEW l, Goto(th, l), orderly => OrderlyStays(th, l),
         UNCHANGED <<orderly, status, told, listens, queue, wanted, job, on>>,
         \A t \in Task : handleMem'[t] = "freed" => handleMem[t] = "freed" \/ status[t] = "IDLE" \/ Ended(t),
         orderly => (Failed' => Failed), Ending' => Ending
  PROVE  OrderlyOK'
<1> SUFFICES ASSUME orderly PROVE OrderlyOK'
  BY DEF OrderlyOK
<1>3. NotBusy' <=> NotBusy
  BY DEF NotBusy, Ended
<1>4. Ending => \A a \in App : pc'[a] \notin UsesEngine
  BY Moved, Roles DEF OrderlyStays, OrderlyOK
<1>5. \A x \in Thread : pc'[x] = "job" => pc[x] = "job"
  BY Moved DEF OrderlyStays
<1>6. \A a \in App : pc'[a] \in TaskFree => pc[a] \in TaskFree
  BY Moved, Roles DEF OrderlyStays
<1>7. \A a \in App : pc'[a] # "nulljob"
  BY Moved, Roles DEF OrderlyStays, OrderlyOK
<1>8. \A t : Ended(t)' <=> Ended(t)
  BY DEF Ended
<1> QED
  BY <1>3, <1>4, <1>5, <1>6, <1>7, <1>8 DEF OrderlyOK, Elems

-----------------------------------------------------------------------------
(* Steps that only move a thread. *)

LEMMA SameMemory ==
  ASSUME mem' = mem
  PROVE  UNCHANGED <<taskMem, handleMem, jobMem, depMem, libMem>>
  BY DEF taskMem, handleMem, jobMem, depMem, libMem

LEMMA SameDeps ==
  ASSUME dep' = dep
  PROVE  UNCHANGED <<attached, refs>>
  BY DEF attached, refs

\* Which labels a thread of its kind, with the tasks it has, may be at.
Fits(th, l) ==
    /\ th \in App => l \in AppLabel
    /\ th \in Worker => l \in WorkerLabel
    /\ l \in OnLabel => on[th] \in Task
    /\ l \in RanLabel => ran[th] \in Task
    /\ l \in Commits /\ th \in Worker => ran[th] \in Task
    /\ l \notin RanLabel \cup Commits => ran[th] = NoTask
    /\ l = "final" => on[th] = ran[th]
    /\ l = "dep" => parent[on[th]] \in Task

LEMMA PcMove ==
  ASSUME PcTyped, NEW th \in Thread, NEW l, Goto(th, l),
         th \in App => l \in AppLabel, th \in Worker => l \in WorkerLabel
  PROVE  PcTyped'
  BY Moved, Roles DEF PcTyped, Goto

LEMMA ThreadsMove ==
  ASSUME PcTyped, ThreadsTyped, NEW th \in Thread, NEW l, Goto(th, l), Fits(th, l),
         UNCHANGED <<on, ran, awaits, parent>>
  PROVE  ThreadsTyped'
<1>1. ASSUME NEW x \in Thread
      PROVE  /\ pc'[x] \in OnLabel => on[x] \in Task
             /\ pc'[x] \in RanLabel => ran[x] \in Task
             /\ pc'[x] \in Commits /\ x \in Worker => ran[x] \in Task
             /\ pc'[x] \notin RanLabel \cup Commits => ran[x] = NoTask
             /\ pc'[x] = "final" => on[x] = ran[x]
             /\ pc'[x] = "dep" => parent[on[x]] \in Task
  <2>1. CASE x = th
    BY <2>1, Moved DEF Fits
  <2>2. CASE x # th
    <3>1. pc'[x] = pc[x]
      BY <2>2, Moved
    <3> QED
      BY <3>1 DEF ThreadsTyped
  <2> QED
    BY <2>1, <2>2
<1> QED
  BY <1>1 DEF ThreadsTyped

LEMMA ConfigSame ==
  ASSUME ConfigTyped, UNCHANGED <<parent, listens, events, script>>
  PROVE  ConfigTyped'
  BY DEF ConfigTyped

LEMMA ObjectsSame ==
  ASSUME ObjectsTyped, UNCHANGED <<mem, trash, tasks, queue, engines, taskLock, engineLock>>
  PROVE  ObjectsTyped'
  BY SameMemory DEF ObjectsTyped

LEMMA TrashSame ==
  ASSUME TrashOK, UNCHANGED <<trash, taskMem, jobMem>>, libMem'["engine"] = libMem["engine"]
  PROVE  TrashOK'
  BY DEF TrashOK, Different, Elems

\* What thread th may do by itself, in all parts but those of the tasks and of the engine.
Passes(th, l) ==
    /\ Fits(th, l)
    /\ l \in Outside \/ (Open /\ l \notin {"init", "sweep", "polls"})
    /\ th \in App => /\ pc[th] # "idle"
                     /\ l \notin {"free", "finalize", "create", "dep"}
                     /\ walk > 0 => l \in ClosePath
                     /\ walk = 0 => l \notin Finalizing
                     /\ l \in TaskCall => pc[th] \in TaskCall
    /\ l \notin HandLabel \cup {"edispose"}
    /\ pc[th] \notin HandLabel \cup {"edispose", "sweep", "gone"}
    /\ Holds(th, l)
    /\ orderly => OrderlyStays(th, l)

Moves(th, l) ==
    /\ Passes(th, l)
    /\ th \in App => /\ l # "walk" /\ pc[th] # "walk"
                     /\ l \in Freeing <=> pc[th] \in Freeing
    /\ EngineStays(th, l)

\* All that a part but the types is about.
shown == <<taskMem, handleMem, jobMem, depMem, libMem, attached, refs, trash, tasks,
           queue, polled, status, ep, job, wanted, told, orderly, on, ran, awaits, walk,
           script, parent, listens>>

LEMMA Pass ==
  ASSUME IInv, NEW th \in Thread, NEW l, Goto(th, l), Passes(th, l), UNCHANGED shown
  PROVE  /\ LibOK' /\ CloseOK' /\ TrashOK' /\ HandsOK' /\ RunnersOK'
         /\ HeldOK' /\ ApartOK' /\ DepsOK' /\ OrderlyOK'
<1> USE DEF Passes
<1>0. /\ PcTyped /\ walk \in Nat
      /\ UNCHANGED <<taskMem, handleMem, jobMem, depMem, libMem, attached, refs>>
      /\ UNCHANGED <<trash, tasks, queue, polled, status, ep, job, wanted, told>>
      /\ UNCHANGED <<orderly, on, ran, awaits, walk, script, parent, listens>>
  BY DEF IInv, Typed, StateTyped, shown
<1>1. LibOK'
  BY <1>0, LibMove DEF IInv
<1>2. CloseOK'
  BY <1>0, CloseMove DEF IInv
<1>3. TrashOK'
  BY <1>0, TrashSame DEF IInv
<1>4. Failed <=> Failed'
  BY <1>0, FailedMove
<1>5. HandsOK'
  BY <1>0, <1>4, HandsMove DEF IInv
<1>6. RunnersOK'
  BY <1>0, RunnersMove DEF IInv, HandLabel
<1>7. HeldOK'
  BY <1>0, HeldMove DEF IInv
<1>8. ApartOK'
  <2>1. th \in App /\ l \in TaskFree => pc[th] \in TaskFree
    BY DEF Holds
  <2> QED
    BY <1>0, <2>1, ApartMove DEF IInv
<1>9. DepsOK'
  BY <1>0, DepsMove DEF IInv
<1>10. OrderlyOK'
  <2>1. CASE orderly
    <3>1. Ending' => Ending
      BY <1>0, <2>1, EndingMove DEF OrderlyStays, Ending
    <3> QED
      BY <1>0, <1>4, <3>1, OrderlyMove DEF IInv
  <2>2. CASE ~orderly
    BY <1>0, <2>2 DEF OrderlyOK
  <2> QED
    BY <2>1, <2>2
<1> QED
  BY <1>1, <1>2, <1>3, <1>5, <1>6, <1>7, <1>8, <1>9, <1>10

LEMMA Move ==
  ASSUME IInv, NEW th \in Thread, NEW l, Goto(th, l), Moves(th, l), UNCHANGED <<shown, engines, nt>>
  PROVE  /\ LibOK' /\ CloseOK' /\ TasksOK' /\ TrashOK' /\ EngineOK' /\ HandsOK' /\ RunnersOK'
         /\ HeldOK' /\ ApartOK' /\ DepsOK' /\ OrderlyOK'
<1>0. /\ PcTyped /\ TasksOK /\ EngineOK /\ Passes(th, l)
      /\ th \in App => l \notin {"free", "finalize"} /\ pc[th] # "idle"
      /\ UNCHANGED <<taskMem, handleMem, libMem, tasks, on, walk, queue, polled, status, engines, nt>>
  BY DEF IInv, Typed, shown, Moves, Passes
<1>1. TasksOK'
  BY <1>0, TasksMove DEF Moves
<1>2. EngineOK'
  BY <1>0, EngineMove DEF Moves
<1> QED
  BY <1>0, <1>1, <1>2, Pass

\* A step of one thread that leaves all but its place, the locks and the tokens alone.
LEMMA TypedSteps ==
  ASSUME IInv, NEW th \in Thread, NEW l, Goto(th, l), Fits(th, l),
         UNCHANGED <<config, calls, mem, trash, tasks, engines, taskv, queue, nt, polled, judged>>,
         taskLock' \subseteq App, engineLock' \subseteq App, njob' \in Nat, evtLock' \in BOOLEAN
  PROVE  Typed' /\ UNCHANGED <<shown, engines, nt>>
<1>1. /\ UNCHANGED <<parent, listens, events, script, on, awaits, ran, walk, mem, trash, tasks, engines>>
      /\ UNCHANGED <<status, ep, job, wanted, dep, queue, nt, polled, told, fault, orderly>>
  BY DEF config, calls, taskv, judged
<1>2. UNCHANGED shown
  BY <1>1, SameMemory, SameDeps DEF shown
<1>3. ConfigTyped' /\ PcTyped' /\ ThreadsTyped'
  BY <1>1, ConfigSame, PcMove, ThreadsMove DEF IInv, Typed, Fits
<1>4. ObjectsTyped'
  BY <1>1, SameMemory DEF ObjectsTyped, IInv, Typed
<1>5. StateTyped'
  BY <1>1 DEF StateTyped, IInv, Typed
<1> QED
  BY <1>2, <1>3, <1>4, <1>5 DEF Typed

LEMMA Steps ==
  ASSUME IInv, NEW th \in Thread, NEW l, Goto(th, l), Moves(th, l),
         UNCHANGED <<config, calls, mem, trash, tasks, engines, taskv, queue, nt, polled, judged>>,
         taskLock' \subseteq App, engineLock' \subseteq App, njob' \in Nat, evtLock' \in BOOLEAN
  PROVE  IInv'
<1>1. Typed' /\ UNCHANGED <<shown, engines, nt>>
  BY TypedSteps DEF Moves, Passes
<1> QED
  BY <1>1, Move DEF IInv

\* What the labels of a thread say, in the parts that every move asks about.
LEMMA Placed ==
  ASSUME IInv, NEW th \in Thread
  PROVE  /\ th \in App => pc[th] \in AppLabel
         /\ th \in Worker => pc[th] \in WorkerLabel
         /\ th \in Worker /\ pc[th] # "gone" => Open
         /\ th \in App /\ pc[th] \notin Outside \cup {"init", "sweep", "polls"} => Open
         /\ th \in App /\ pc[th] # "idle" /\ walk > 0 => pc[th] \in ClosePath
         /\ th \in App /\ pc[th] \in Finalizing => walk > 0
         /\ walk \in Nat
  BY Roles DEF IInv, Typed, PcTyped, StateTyped, LibOK, CloseOK, Gone

LEMMA WorkerStartStep ==
  ASSUME IInv, NEW w \in Worker, WorkerStart(w) \/ WorkerCheck(w) \/ WorkerLeaves(w)
  PROVE  IInv'
<1> w \in Thread /\ w \notin App
  BY Roles
<1>1. PICK l \in {"check", "sleep", "leave", "gone"} : Goto(w, l)
  BY DEF WorkerStart, WorkerCheck, WorkerLeaves
<1>2. pc[w] \in {"start", "check", "leave"} /\ UNCHANGED <<config, calls, objects, taskv, enginev, judged>>
  BY DEF WorkerStart, WorkerCheck, WorkerLeaves, At
<1>3. Moves(w, l)
  <2>1. Fits(w, l)
    BY <1>2 DEF Fits, IInv, Typed, ThreadsTyped, WorkerLabel, Working, OnLabel, RanLabel, Commits, TaskCall, TaskFree
  <2> QED
    BY <1>2, <2>1, Placed DEF Moves, Passes, EngineStays, HandLabel, Holds, OrderlyStays
<1> QED
  BY <1>1, <1>2, <1>3, Steps DEF objects, lists, enginev, IInv, Typed, StateTyped, ObjectsTyped

LEMMA WorkerSleepStep ==
  ASSUME IInv, NEW w \in Worker, WorkerSleep(w) \/ WorkerLoop(w)
  PROVE  IInv'
<1> w \in Thread /\ w \notin App
  BY Roles
<1>1. PICK l \in {"loop", "pop", "check"} : Goto(w, l)
  BY DEF WorkerSleep, WorkerLoop
<1>2. /\ pc[w] \in {"sleep", "loop"}
      /\ UNCHANGED <<config, calls, objects, taskv, queue, nt, polled, judged>>
  BY DEF WorkerSleep, WorkerLoop, At
<1>3. njob' \in Nat /\ evtLock' \in BOOLEAN
  <2> njob \in Nat /\ evtLock \in BOOLEAN /\ events \in BOOLEAN
    BY DEF IInv, Typed, StateTyped, ConfigTyped
  <2>1. njob' \in Nat
    BY DEF WorkerSleep, WorkerLoop
  <2>2. evtLock' \in BOOLEAN
    BY Zenon DEF WorkerSleep, WorkerLoop
  <2> QED
    BY <2>1, <2>2
<1>4. Moves(w, l)
  <2>1. Fits(w, l)
    BY <1>2 DEF Fits, IInv, Typed, ThreadsTyped, WorkerLabel, Working, Running, OnLabel, RanLabel, Commits, TaskCall, TaskFree
  <2> QED
    BY <1>2, <2>1, Placed DEF Moves, Passes, EngineStays, HandLabel, Holds, OrderlyStays
<1> QED
  BY <1>1, <1>2, <1>3, <1>4, Steps DEF objects, lists, IInv, Typed, StateTyped, ObjectsTyped

LEMMA NotifyEndsStep ==
  ASSUME IInv, NEW th \in Thread, NotifyEnds(th)
  PROVE  IInv'
<1>1. /\ pc[th] = "notify" /\ Goto(th, "tell")
      /\ UNCHANGED <<config, calls, objects, taskv, enginev, judged>>
  BY DEF NotifyEnds, At
<1>2. Fits(th, "tell")
  BY <1>1, Roles DEF Fits, IInv, Typed, ThreadsTyped, AppLabel, WorkerLabel, Running, OnLabel, RanLabel, Commits, TaskCall, TaskFree
<1>3. EngineStays(th, "tell")
  BY <1>1 DEF EngineStays, IInv, EngineOK, UsesEngine, EngineFree
<1>4. Holds(th, "tell")
  BY <1>1 DEF Holds, IInv, HeldOK, Running, TaskFree, Commits
<1>5. Moves(th, "tell")
  BY <1>1, <1>2, <1>3, <1>4, Placed, Roles DEF Moves, Passes, HandLabel, OrderlyStays, TaskFree, Freeing, TaskCall, ClosePath,
     Finalizing, EngineFree, UsesEngine, Outside
<1> QED
  BY <1>1, <1>5, Steps DEF objects, lists, enginev, IInv, Typed, StateTyped, ObjectsTyped

LEMMA QueueTokenStep ==
  ASSUME IInv, NEW th \in Thread, QueueToken(th), fault' = fault
  PROVE  IInv'
<1> DEFINE l == IF ran[th] = NoTask THEN "idle" ELSE "notify"
<1>1. /\ pc[th] = "token" /\ Goto(th, l) /\ njob' = njob + 1
      /\ UNCHANGED <<config, calls, objects, taskv, queue, nt, evtLock, polled, judged>>
  BY DEF QueueToken, At, Dies, judged
<1>2. th \in Worker => l = "notify"
  BY <1>1, LibraryAssumption DEF IInv, Typed, ThreadsTyped, Commits
<1>3. l \in {"idle", "notify"}
  OBVIOUS
<1>4. Fits(th, l)
  BY <1>1, <1>2, Roles DEF Fits, IInv, Typed, ThreadsTyped, AppLabel, WorkerLabel, Running, Outside, OnLabel, RanLabel, Commits, TaskCall, TaskFree
<1>5. EngineStays(th, l)
  BY <1>1, <1>3 DEF EngineStays, IInv, EngineOK, UsesEngine, EngineFree
<1>6. Holds(th, l)
  BY <1>1, <1>3 DEF Holds, IInv, HeldOK, Running, TaskFree, Commits
<1>7. Moves(th, l)
  <2> HIDE DEF l
  <2> QED
    BY <1>1, <1>3, <1>4, <1>5, <1>6, Placed, Roles DEF Moves, Passes, HandLabel, OrderlyStays, TaskFree, Freeing, TaskCall, ClosePath,
     Finalizing, EngineFree, UsesEngine, Outside
<1>8. taskLock' \subseteq App /\ engineLock' \subseteq App /\ njob' \in Nat /\ evtLock' \in BOOLEAN
  BY <1>1 DEF objects, lists, IInv, Typed, StateTyped, ObjectsTyped
<1> HIDE DEF l
<1> QED
  BY <1>1, <1>7, <1>8, Steps DEF objects, lists

\* A task that is committed and has not ended keeps an orderly client from the end.
LEMMA Busy ==
  ASSUME IInv, orderly, NEW t \in Task, status[t] # "IDLE", status[t] \in BeforeRun
  PROVE  ~Ending
  BY DEF IInv, OrderlyOK, NotBusy, Ended, BeforeRun

LEMMA WaitStep ==
  ASSUME IInv, NEW a \in App, TW_Task_wait(a) \/ WaitMore(a), fault' = fault
  PROVE  IInv'
<1> a \in Thread
  BY Roles
<1>1. PICK l \in {"spin", "pop", "idle"} :
        /\ Goto(a, l)
        /\ pc[a] \in {"wait", "spin"}
        /\ UNCHANGED <<config, calls, objects, taskv, enginev, judged>>
        /\ \/ l = "idle"
           \/ l = "spin" /\ status[awaits[a]] \notin BeforeRun
           \/ l = "pop" /\ status[awaits[a]] \in BeforeRun /\ (pc[a] = "wait" => ep[awaits[a]])
  BY DEF TW_Task_wait, WaitMore, At, Dies, judged, IInv, HeldOK
<1>2. awaits[a] \in Task /\ Present(awaits[a])
  BY <1>1 DEF IInv, HeldOK, Commits
<1>3. l # "idle" => status[awaits[a]] # "IDLE"
  BY <1>1, <1>2 DEF IInv, HeldOK, HandsOK, Commits, BeforeRun
<1>4. Fits(a, l)
  BY <1>1, Roles DEF Fits, IInv, Typed, ThreadsTyped, AppLabel, Running, Outside, OnLabel, RanLabel, Commits, TaskCall, TaskFree
<1>5. EngineStays(a, l)
  BY <1>1, <1>2, <1>3 DEF EngineStays, IInv, EngineOK, UsesEngine, EngineFree
<1>6. Holds(a, l)
  BY <1>1, <1>2, <1>3, Roles DEF Holds, Running, TaskFree
<1>7. orderly => OrderlyStays(a, l)
  <2>1. orderly /\ l = "pop" => ~Ending
    BY <1>1, <1>2, <1>3, Busy
  <2> QED
    BY <1>1, <2>1 DEF OrderlyStays, TaskFree, EngineFree, UsesEngine
<1>8. Moves(a, l)
  BY <1>1, <1>4, <1>5, <1>6, <1>7, Placed, Roles DEF Moves, Passes, HandLabel, Freeing, TaskCall, ClosePath,
     Finalizing, EngineFree, Outside
<1>9. taskLock' \subseteq App /\ engineLock' \subseteq App /\ njob' \in Nat /\ evtLock' \in BOOLEAN
  BY <1>1 DEF objects, lists, enginev, IInv, Typed, StateTyped, ObjectsTyped
<1> QED
  BY <1>1, <1>8, <1>9, Steps DEF objects, lists, enginev

LEMMA ClientWaitsStep ==
  ASSUME IInv, NEW a \in App, ClientWaits(a)
  PROVE  IInv'
<1> a \in Thread
  BY Roles
<1>1. /\ Goto(a, "idle") /\ pc[a] \in {"told", "made", "alone"}
      /\ UNCHANGED <<config, calls, objects, taskv, enginev, judged>>
  BY DEF ClientWaits, At
<1>2. Fits(a, "idle")
  BY <1>1, Roles DEF Fits, IInv, Typed, ThreadsTyped, AppLabel, Outside, OnLabel, RanLabel, Commits, TaskCall, TaskFree
<1>3. Moves(a, "idle")
  BY <1>1, <1>2, Placed, Roles DEF Moves, Passes, EngineStays, Holds, OrderlyStays, HandLabel, Freeing, TaskCall, TaskFree,
     UsesEngine, Running, ClosePath, Finalizing, EngineFree, Outside
<1>4. taskLock' \subseteq App /\ engineLock' \subseteq App /\ njob' \in Nat /\ evtLock' \in BOOLEAN
  BY <1>1 DEF objects, lists, enginev, IInv, Typed, StateTyped, ObjectsTyped
<1> QED
  BY <1>1, <1>3, <1>4, Steps DEF objects, lists, enginev

LEMMA InvalidateStep ==
  ASSUME IInv, NEW a \in App, FreeInvalidate(a)
  PROVE  IInv'
<1> a \in Thread
  BY Roles
<1>1. PICK l \in {"nulljob", "unset"} : Goto(a, l) /\ (l = "nulljob" => job[on[a]])
  BY DEF FreeInvalidate
<1>2. /\ pc[a] = "invalidate" /\ on[a] \in Task
      /\ UNCHANGED <<config, calls, objects, taskv, enginev, judged>>
  BY DEF FreeInvalidate, At, IInv, Typed, ThreadsTyped, OnLabel, TaskFree
<1>3. Fits(a, l)
  BY <1>1, <1>2, Roles DEF Fits, IInv, Typed, ThreadsTyped, AppLabel, OnLabel, RanLabel, Commits, TaskCall, TaskFree
<1>4. orderly => l # "nulljob"
  BY <1>1, <1>2 DEF IInv, OrderlyOK, TaskFree, Ended
<1>5. Moves(a, l)
  BY <1>1, <1>2, <1>3, <1>4, Placed, Roles DEF Moves, Passes, EngineStays, Holds, OrderlyStays, HandLabel, Freeing, TaskCall, TaskFree,
     UsesEngine, Running, ClosePath, Finalizing, EngineFree, Outside
<1>6. taskLock' \subseteq App /\ engineLock' \subseteq App /\ njob' \in Nat /\ evtLock' \in BOOLEAN
  BY <1>2 DEF objects, lists, enginev, IInv, Typed, StateTyped, ObjectsTyped
<1> QED
  BY <1>1, <1>2, <1>5, <1>6, Steps DEF objects, lists, enginev

LEMMA WakeStep ==
  ASSUME IInv, NEW a \in App, EngineWake(a) \/ EngineJoin(a)
  PROVE  IInv'
<1> a \in Thread
  BY Roles
<1>1. PICK l \in {"join", "drain"} : Goto(a, l) /\ (l = "drain" => Gone)
  BY DEF EngineWake, EngineJoin, Gone
<1>2. /\ pc[a] \in {"wake", "join"} /\ UNCHANGED <<config, calls, objects, taskv, queue, nt, polled, judged>>
  BY DEF EngineWake, EngineJoin, At, enginev
<1>3. njob' \in Nat /\ evtLock' \in BOOLEAN
  <2>1. Cardinality(Worker) \in Nat
    BY LibraryAssumption, FS_CardinalityType
  <2>2. njob' \in {njob, njob + Cardinality(Worker)} /\ evtLock' = evtLock
    BY DEF EngineWake, EngineJoin, enginev
  <2> QED
    BY <2>1, <2>2 DEF IInv, Typed, StateTyped
<1>4. Fits(a, l)
  BY <1>1, <1>2, Roles DEF Fits, IInv, Typed, ThreadsTyped, AppLabel, OnLabel, RanLabel, Commits, TaskCall, TaskFree, EngineFree
<1>5. EngineStays(a, l)
  BY <1>1, <1>2 DEF EngineStays, IInv, EngineOK, EngineFree, UsesEngine
<1>6. Ending
  BY <1>2 DEF Ending, EngineFree
<1>7. Moves(a, l)
  BY <1>1, <1>2, <1>4, <1>5, <1>6, Placed, Roles DEF Moves, Passes, Holds, OrderlyStays, HandLabel, Freeing, TaskCall, TaskFree,
     UsesEngine, Running, ClosePath, Finalizing, EngineFree, Outside
<1> QED
  BY <1>1, <1>2, <1>3, <1>7, Steps DEF objects, lists, IInv, Typed, ObjectsTyped

-----------------------------------------------------------------------------
(* TW_Finalize. *)

LEMMA LibOpen ==
  ASSUME PcTyped, LibOK, Open, NEW th \in Thread, NEW l, Goto(th, l),
         \A k \in {"tasks", "engines", "disposer", "polls"} : libMem'[k] = libMem[k],
         th \in App => l \notin {"init", "sweep", "polls"}
  PROVE  LibOK'
<1>1. Open' /\ \A k \in {"engines", "disposer", "polls"} : libMem'[k] = "live"
  BY DEF Open, LibOK
<1>2. \A b \in App : pc'[b] \notin {"init", "sweep", "polls"}
  BY Moved, Roles DEF LibOK
<1> QED
  BY <1>1, <1>2 DEF LibOK

\* Who finalizes is alone.
LEMMA Closing ==
  ASSUME IInv, NEW a \in App, pc[a] \in Finalizing \/ (walk > 0 /\ pc[a] # "idle")
  PROVE  /\ walk > 0 /\ Alone(a)
         /\ \A b \in App \ {a} : pc[b] = "idle"
         /\ \A b \in App : script[b] = <<>> \/ b = a
  BY DEF IInv, CloseOK, Alone, Finalizing

LEMMA FinalizeTasksEndStep ==
  ASSUME IInv, NEW a \in App, FinalizeTasksEnd(a)
  PROVE  IInv'
<1> a \in Thread
  BY Roles
<1>1. /\ pc[a] = "walk" /\ walk > Len(tasks) /\ Goto(a, "engines")
      /\ UNCHANGED <<config, calls, mem, trash, tasks, engines, engineLock, taskv, enginev, judged>>
      /\ taskLock' = taskLock \ {a}
  BY DEF FinalizeTasksEnd, At
<1>2. walk > 0 /\ \A b \in App \ {a} : pc[b] = "idle"
  BY <1>1, Closing DEF Finalizing
<1>3. Fits(a, "engines")
  BY <1>1, Roles DEF Fits, IInv, Typed, ThreadsTyped, AppLabel, Finalizing, OnLabel, RanLabel, Commits, TaskCall, TaskFree
<1>4. Passes(a, "engines")
  BY <1>1, <1>3, Placed, Roles DEF Passes, Holds, OrderlyStays, HandLabel, Freeing, TaskCall, TaskFree,
     UsesEngine, Running, ClosePath, Finalizing, EngineFree, Outside
<1>5. EngineStays(a, "engines")
  BY <1>1 DEF EngineStays, EngineFree, UsesEngine
<1>6. Typed' /\ UNCHANGED <<shown, engines, nt>>
  BY <1>1, <1>3, TypedSteps DEF enginev, IInv, Typed, StateTyped, ObjectsTyped
<1>7. EngineOK'
  BY <1>1, <1>5, <1>6, EngineMove DEF IInv, Typed, shown, StateTyped
<1>8. TasksOK'
  <2>1. \A t \in Task : taskMem[t] # "live"
    <3> SUFFICES ASSUME NEW t \in Task, taskMem[t] = "live" PROVE FALSE
      OBVIOUS
    <3>1. t \in Elems(tasks)
      BY <1>1, <1>2 DEF IInv, TasksOK, Freeing
    <3>2. PICK i \in DOMAIN tasks : tasks[i] = t
      BY <3>1 DEF Elems
    <3>3. i >= walk
      BY <1>1, <1>2, <3>2 DEF IInv, TasksOK, Done, Freeing
    <3> QED
      BY <1>1, <3>2, <3>3 DEF IInv, Typed, ObjectsTyped, StateTyped
  <2>2. pc'[a] = "engines" /\ \A b \in App \ {a} : pc'[b] = "idle"
    BY <1>1, <1>2, Moved, Roles DEF IInv, Typed
  <2>3. UNCHANGED <<taskMem, handleMem, libMem, tasks, on, walk>>
    BY <1>6 DEF shown
  <2> QED
    BY <1>2, <2>1, <2>2, <2>3 DEF IInv, TasksOK, Different, Elems, Open, Present, Freeing
<1> QED
  BY <1>1, <1>4, <1>6, <1>7, <1>8, Pass DEF IInv

LEMMA FinalizeEnginesStep ==
  ASSUME IInv, NEW a \in App, FinalizeEngines(a)
  PROVE  IInv'
<1> a \in Thread
  BY Roles
<1>1. PICK l \in {"engine_free", "lists"} : Goto(a, l) /\ (engines <=> l = "engine_free")
  BY DEF FinalizeEngines
<1>2. /\ pc[a] = "engines"
      /\ UNCHANGED <<config, calls, mem, trash, tasks, engines, taskLock, taskv, enginev, judged>>
      /\ engineLock' = engineLock \cup {a}
  BY DEF FinalizeEngines, At
<1>3. walk > 0 /\ \A b \in App \ {a} : pc[b] = "idle"
  BY <1>2, Closing DEF Finalizing
<1>4. Open
  BY <1>2, Placed DEF Outside
<1>5. Fits(a, l)
  BY <1>2, Roles DEF Fits, IInv, Typed, ThreadsTyped, AppLabel, Finalizing, EngineFree, OnLabel, RanLabel, Commits, TaskCall, TaskFree
<1>6. Passes(a, l)
  BY <1>2, <1>3, <1>4, <1>5, Placed, Roles DEF Passes, Holds, OrderlyStays, HandLabel, Freeing, TaskCall, TaskFree,
     UsesEngine, Running, ClosePath, Finalizing, EngineFree, Outside, Ending
<1>7. Typed' /\ UNCHANGED <<shown, engines, nt>>
  BY <1>1, <1>2, <1>5, TypedSteps DEF enginev, IInv, Typed, StateTyped, ObjectsTyped
<1>8. TasksOK'
  BY <1>1, <1>2, <1>7, TasksMove DEF IInv, Typed, shown, Freeing
<1>9. pc'[a] = l /\ \A b \in App \ {a} : pc'[b] = "idle" /\ pc[b] = "idle"
  BY <1>1, <1>3, Moved, Roles DEF IInv, Typed
<1>10. EngineOK'
  <2>1. engines => libMem["engine"] = "live"
    BY <1>2, <1>3, <1>4 DEF IInv, EngineOK
  <2>2. libMem["engine"] = "live" => engines
    BY DEF IInv, EngineOK
  <2>3. \A w \in Worker : pc'[w] = pc[w]
    BY <1>1, Moved, Roles DEF IInv, Typed
  <2>4. Gone' <=> Gone
    BY <2>3 DEF Gone
  <2>5. UNCHANGED <<libMem, queue, polled, status, engines, nt, walk>> /\ Open'
    BY <1>4, <1>7 DEF shown, Open
  <2>6. \A b \in App : pc'[b] \in EngineFree \cup UsesEngine \cup {"mpi", "engine", "lists", "sweep", "polls"} => b = a
    BY <1>9 DEF EngineFree, UsesEngine
  <2>7. nt = 0 => Gone
    BY <1>2, <1>3 DEF IInv, EngineOK
  <2> QED
    BY <1>1, <1>4, <1>9, <2>1, <2>2, <2>4, <2>5, <2>6, <2>7 DEF IInv, EngineOK, EngineFree, UsesEngine
<1> QED
  BY <1>1, <1>6, <1>7, <1>8, <1>10, Pass DEF IInv

LEMMA FinalizeStep ==
  ASSUME IInv, NEW a \in App, TW_Finalize(a)
  PROVE  IInv'
<1> a \in Thread
  BY Roles
<1>1. /\ pc[a] = "finalize" /\ Goto(a, "walk") /\ walk' = 1
      /\ UNCHANGED <<config, script, on, awaits, ran, mem, trash, tasks, engines, engineLock, taskv,
                     enginev, judged>>
      /\ taskLock' = taskLock \cup {a}
  BY DEF TW_Finalize, At
<1>2. /\ UNCHANGED <<parent, listens, events, script, on, awaits, ran, mem, trash, tasks, engines>>
      /\ UNCHANGED <<status, ep, job, wanted, dep, queue, nt, njob, evtLock, polled, told, fault, orderly>>
      /\ UNCHANGED <<taskMem, handleMem, jobMem, depMem, libMem, attached, refs>>
  BY <1>1, SameMemory, SameDeps DEF config, taskv, enginev, judged
<1>3. PcTyped /\ walk \in Nat
  BY DEF IInv, Typed, StateTyped
<1>4. Open /\ Alone(a) /\ \A b \in App \ {a} : pc[b] = "idle" /\ script[b] = <<>>
  BY <1>1 DEF IInv, LibOK, CloseOK, Alone, Outside
<1>5. Fits(a, "walk")
  BY <1>1, Roles DEF Fits, IInv, Typed, ThreadsTyped, AppLabel, Finalizing, OnLabel, RanLabel, Commits, TaskCall, TaskFree
<1>6. Typed'
  <2>1. ConfigTyped' /\ PcTyped' /\ ThreadsTyped'
    BY <1>1, <1>2, <1>5, ConfigSame, PcMove, ThreadsMove DEF IInv, Typed, Fits
  <2>2. ObjectsTyped'
    BY <1>1, <1>2 DEF ObjectsTyped, IInv, Typed
  <2>3. StateTyped'
    BY <1>1, <1>2 DEF StateTyped, IInv, Typed
  <2> QED
    BY <2>1, <2>2, <2>3 DEF Typed
<1>7. LibOK'
  BY <1>1, <1>2, <1>3, <1>4, LibOpen DEF IInv
<1>8. pc'[a] = "walk" /\ \A b \in App \ {a} : pc'[b] = "idle"
  BY <1>1, <1>3, <1>4, Moved, Roles
<1>9. CloseOK'
  BY <1>1, <1>2, <1>4, <1>8 DEF CloseOK, Alone, ClosePath, Finalizing, Freeing, EngineFree
<1>10. TasksOK'
  <2>1. \A t \in Elems(tasks) : taskMem[t] = "live"
    BY <1>1 DEF IInv, TasksOK
  <2>2. \A t \in Task : taskMem[t] = "live" => t \in Elems(tasks)
    BY <1>1, <1>4 DEF IInv, TasksOK, Freeing
  <2>3. /\ \A i \in DOMAIN tasks : i >= 1
        /\ Done(a)' = 1
    BY <1>1, <1>8 DEF Done, Freeing, IInv, Typed, ObjectsTyped
  <2>4. \A i \in DOMAIN tasks : taskMem[tasks[i]] = "live"
    BY <2>1 DEF Elems
  <2> QED
    BY <1>1, <1>2, <1>4, <1>8, <2>1, <2>2, <2>3, <2>4 DEF IInv, TasksOK, Different, Elems, Open, Present, Freeing
<1>11. EngineOK'
  <2>1. EngineStays(a, "walk")
    BY <1>1 DEF EngineStays, EngineFree, UsesEngine
  <2> QED
    BY <1>1, <1>2, <1>3, <2>1, EngineMove DEF IInv
<1>12. (Failed <=> Failed') /\ (Ending' => Ending)
  BY <1>1, <1>2, <1>3, FailedMove, EndingMove DEF Ending, EngineFree
<1>13. TrashOK' /\ RunnersOK' /\ DepsOK'
  BY <1>1, <1>2, <1>3, TrashSame, RunnersMove, DepsMove DEF IInv
<1>14. HandsOK' /\ ApartOK'
  BY <1>1, <1>2, <1>3, <1>12, HandsMove, ApartMove DEF IInv, HandLabel, TaskFree, TaskCall
<1>15. HeldOK'
  <2>1. Holds(a, "walk")
    BY <1>1 DEF Holds, TaskFree, Running
  <2> QED
    BY <1>1, <1>2, <1>3, <2>1, HeldMove DEF IInv
<1>16. OrderlyOK'
  <2>1. OrderlyStays(a, "walk")
    BY <1>1 DEF OrderlyStays, EngineFree, TaskFree, UsesEngine
  <2> QED
    BY <1>1, <1>2, <1>3, <1>12, <2>1, OrderlyMove DEF IInv
<1> QED
  BY <1>6, <1>7, <1>9, <1>10, <1>11, <1>13, <1>14, <1>15, <1>16 DEF IInv

LEMMA FinalizeTaskStep ==
  ASSUME IInv, NEW a \in App, FinalizeTask(a)
  PROVE  IInv'
<1> a \in Thread
  BY Roles
<1>1. /\ pc[a] = "walk" /\ walk <= Len(tasks) /\ Goto(a, "invalidate") /\ walk' = walk + 1
      /\ on' = [on EXCEPT ![a] = tasks[walk]]
      /\ UNCHANGED <<config, script, awaits, ran, objects, taskv, enginev, judged>>
  BY DEF FinalizeTask, At
<1>2. /\ UNCHANGED <<parent, listens, events, script, awaits, ran, mem, trash, tasks, engines>>
      /\ UNCHANGED <<taskLock, engineLock>>
      /\ UNCHANGED <<status, ep, job, wanted, dep, queue, nt, njob, evtLock, polled, told, fault, orderly>>
      /\ UNCHANGED <<taskMem, handleMem, jobMem, depMem, libMem, attached, refs>>
  BY <1>1, SameMemory, SameDeps DEF config, taskv, enginev, judged, objects, lists
<1>3. PcTyped /\ walk \in Nat /\ tasks \in Seq(Task) /\ on \in [Thread -> Task \cup {NoTask}]
  BY DEF IInv, Typed, StateTyped, ObjectsTyped, ThreadsTyped
<1>4. walk > 0 /\ Alone(a) /\ \A b \in App \ {a} : pc[b] = "idle" /\ script[b] = <<>>
  BY <1>1, Closing DEF Finalizing
<1>5. Open
  BY <1>1, Placed DEF Outside
<1>6. walk \in DOMAIN tasks /\ tasks[walk] \in Task
  BY <1>1, <1>3, <1>4
<1>7. on'[a] = tasks[walk] /\ \A x \in Thread : x # a => on'[x] = on[x]
  BY <1>1, <1>3
<1>8. pc'[a] = "invalidate" /\ \A b \in App \ {a} : pc'[b] = "idle"
  BY <1>1, <1>3, <1>4, Moved, Roles
<1>9. Typed'
  <2>1. ConfigTyped' /\ PcTyped'
    BY <1>1, <1>2, ConfigSame, PcMove, Roles DEF IInv, Typed, AppLabel, TaskFree
  <2>2. ObjectsTyped' /\ StateTyped'
    BY <1>1, <1>2 DEF ObjectsTyped, IInv, Typed, StateTyped
  <2>3. ThreadsTyped'
    <3>1. ASSUME NEW x \in Thread, x # a
          PROVE  pc'[x] = pc[x] /\ on'[x] = on[x]
      BY <1>1, <1>3, <1>7, <3>1, Moved
    <3>2. on' \in [Thread -> Task \cup {NoTask}]
      BY <1>1, <1>3, <1>6
    <3>3. ran[a] = NoTask
      BY <1>1 DEF IInv, Typed, ThreadsTyped, RanLabel, Commits
    <3> QED
      BY <1>2, <1>6, <1>7, <1>8, <3>1, <3>2, <3>3, Roles DEF IInv, Typed, ThreadsTyped, RanLabel, Commits
  <2> QED
    BY <2>1, <2>2, <2>3 DEF Typed
<1>10. LibOK'
  BY <1>1, <1>2, <1>3, <1>5, LibOpen DEF IInv
<1>11. CloseOK'
  BY <1>1, <1>2, <1>3, <1>4, <1>8 DEF CloseOK, Alone, ClosePath, Finalizing, Freeing, EngineFree
<1>12. TasksOK'
  <2>1. \A i \in DOMAIN tasks : taskMem[tasks[i]] = "live" <=> i >= walk
    BY <1>1, <1>4 DEF IInv, TasksOK, Done, Freeing
  <2>2. taskMem[tasks[walk]] = "live"
    BY <1>3, <1>6, <2>1
  <2>3. Done(a)' = walk /\ walk' - 1 = walk /\ walk' > 0
    BY <1>1, <1>3, <1>8 DEF Done, Freeing
  <2>4. \A t \in Task : taskMem[t] = "live" => t \in Elems(tasks)
    BY <1>1, <1>4 DEF IInv, TasksOK, Freeing
  <2> QED
    BY <1>2, <1>4, <1>6, <1>7, <1>8, <2>1, <2>2, <2>3, <2>4 DEF IInv, TasksOK, Different, Elems, Open, Present, Freeing
<1>13. EngineOK'
  <2>1. EngineStays(a, "invalidate")
    BY <1>1 DEF EngineStays, EngineFree, UsesEngine
  <2> QED
    BY <1>1, <1>2, <1>3, <2>1, EngineMove DEF IInv
<1>14. (Failed <=> Failed') /\ (Ending' => Ending)
  BY <1>1, <1>2, <1>3, <1>4, FailedMove, EndingMove DEF Ending, EngineFree
<1>15. TrashOK' /\ RunnersOK' /\ DepsOK'
  BY <1>1, <1>2, <1>3, TrashSame, RunnersMove, DepsMove DEF IInv
<1>16. HandsOK'
  BY <1>1, <1>2, <1>3, <1>7, <1>14, HandsMove DEF IInv, HandLabel
<1>17. ApartOK'
  BY <1>8 DEF ApartOK, Frees, Uses, TaskFree, TaskCall
<1>18. HeldOK'
  <2>1. \A t : Present(t)' <=> Present(t)
    BY <1>2 DEF Present
  <2>2. ran[a] = NoTask
    BY <1>1 DEF IInv, Typed, ThreadsTyped, RanLabel, Commits
  <2>3. ASSUME NEW x \in Thread
        PROVE  /\ pc'[x] \in {"wire", "queue", "token", "job", "final"} => Present(on'[x])
               /\ ran[x] # NoTask => Present(ran[x])
    BY <1>1, <1>3, <1>7, <2>2, Moved DEF IInv, HeldOK
  <2> QED
    BY <1>1, <1>2, <1>3, <1>8, <2>1, <2>3 DEF IInv, HeldOK, TaskFree, Running
<1>19. OrderlyOK'
  <2> SUFFICES ASSUME orderly PROVE OrderlyOK'
    BY <1>2 DEF OrderlyOK
  <2>1. NotBusy
    BY <1>4 DEF IInv, OrderlyOK, Ending
  <2>2. \A t : Ended(t)' <=> Ended(t)
    BY <1>2 DEF Ended
  <2>3. NotBusy'
    BY <1>2, <2>1, <2>2 DEF NotBusy
  <2>4. \A x \in Thread : pc'[x] = "job" => pc[x] = "job" /\ on'[x] = on[x]
    BY <1>1, <1>3, <1>7, Moved
  <2>5. status[on'[a]] = "IDLE" \/ Ended(on'[a])
    BY <1>6, <1>7, <2>1 DEF NotBusy
  <2> QED
    BY <1>2, <1>8, <1>14, <2>2, <2>3, <2>4, <2>5 DEF IInv, OrderlyOK, Elems, UsesEngine, TaskFree
<1> QED
  BY <1>9, <1>10, <1>11, <1>12, <1>13, <1>15, <1>16, <1>17, <1>18, <1>19 DEF IInv

LEMMA EngineFreeStep ==
  ASSUME IInv, NEW a \in App, TWNATIVE_Enginei_free(a)
  PROVE  IInv'
<1> a \in Thread
  BY Roles
<1>1. PICK l \in {"wake", "drain"} : Goto(a, l) /\ (l = "wake" <=> nt > 0)
  BY DEF TWNATIVE_Enginei_free
<1>2. /\ pc[a] = "engine_free" /\ nt' = 0
      /\ UNCHANGED <<config, calls, objects, taskv, queue, njob, evtLock, polled, judged>>
  BY DEF TWNATIVE_Enginei_free, At
<1>3. /\ UNCHANGED <<parent, listens, events, script, on, awaits, ran, walk, mem, trash, tasks, engines>>
      /\ UNCHANGED <<status, ep, job, wanted, dep, queue, njob, evtLock, polled, told, fault, orderly>>
      /\ UNCHANGED <<taskMem, handleMem, jobMem, depMem, libMem, attached, refs, taskLock, engineLock>>
  BY <1>2, SameMemory, SameDeps DEF config, calls, taskv, judged, objects, lists
<1>4. UNCHANGED shown
  BY <1>3 DEF shown
<1>5. Fits(a, l)
  BY <1>1, <1>2, Roles DEF Fits, IInv, Typed, ThreadsTyped, AppLabel, EngineFree, OnLabel, RanLabel, Commits, TaskCall, TaskFree
<1>6. Passes(a, l)
  BY <1>1, <1>2, <1>5, Placed, Roles DEF Passes, Holds, OrderlyStays, HandLabel, Freeing, TaskCall, TaskFree,
     UsesEngine, Running, ClosePath, Finalizing, EngineFree, Outside, Ending
<1>7. Typed'
  <2>1. ConfigTyped' /\ PcTyped' /\ ThreadsTyped'
    BY <1>1, <1>3, <1>5, ConfigSame, PcMove, ThreadsMove DEF IInv, Typed, Fits
  <2>2. ObjectsTyped'
    BY <1>3 DEF ObjectsTyped, IInv, Typed
  <2>3. StateTyped'
    BY <1>2, <1>3 DEF StateTyped, IInv, Typed
  <2> QED
    BY <2>1, <2>2, <2>3 DEF Typed
<1>8. TasksOK'
  BY <1>1, <1>2, <1>3, TasksMove DEF IInv, Typed, Freeing
<1>9. EngineOK'
  <2>1. pc'[a] = l /\ \A x \in Thread : x # a => pc'[x] = pc[x]
    BY <1>1, Moved DEF IInv, Typed
  <2>2. \A w \in Worker : pc'[w] = pc[w]
    BY <2>1, Roles
  <2>3. \A b \in App : b # a => pc'[b] = pc[b]
    BY <2>1, Roles
  <2>4. (Gone' <=> Gone) /\ (Open' <=> Open)
    BY <1>3, <2>2 DEF Gone, Open
  <2>5. \A b \in App : pc[b] \in EngineFree => b = a
    BY <1>2 DEF IInv, EngineOK, EngineFree
  <2>6. nt \in Nat /\ (nt = 0 => Gone)
    <3>1. Cardinality(Worker) \in Nat
      BY LibraryAssumption, FS_CardinalityType
    <3> QED
      BY <1>2, <2>5, <3>1 DEF IInv, EngineOK, Typed, StateTyped, EngineFree
  <2>7. l = "drain" => Gone
    BY <1>1, <2>6
  <2>8. \A b \in App : pc[b] = "lists" => pc'[b] = "lists"
    BY <1>2, <2>3
  <2>9. libMem["engine"] = "live"
    BY <1>2 DEF IInv, EngineOK, EngineFree
  <2>10. \E b \in App : pc'[b] \in {"wake", "join"} \/ Gone
    BY <2>1, <2>7
  <2>11. ASSUME NEW b \in App
         PROVE  /\ pc'[b] = "engine" => libMem["engine"] = "none"
                /\ pc'[b] \in {"drain", "edispose"} => Gone
                /\ pc'[b] # "edispose" /\ pc'[b] # "erase"
                /\ pc'[b] \in {"lists", "sweep", "polls"} => libMem["engine"] # "live"
    BY <2>1, <2>3, <2>5, <2>7 DEF IInv, EngineOK, EngineFree
  <2>12. \A b, c \in App : pc'[b] \in EngineFree /\ pc'[c] \in EngineFree => b = c
    BY <2>3, <2>5
  <2>13. \A b, c \in App : pc'[b] = "engine" /\ pc'[c] = "engine" => b = c
    BY <2>9, <2>11
  <2> QED
    BY <1>2, <1>3, <2>4, <2>9, <2>10, <2>11, <2>12, <2>13 DEF IInv, EngineOK
<1> QED
  BY <1>1, <1>4, <1>6, <1>7, <1>8, <1>9, Pass DEF IInv

-----------------------------------------------------------------------------
(* What a step does to the memory. *)

States == {"none", "live", "disposed", "freed"}

LEMMA IsObject ==
  /\ \A t \in Task : /\ <<"task", t>> \in Object /\ <<"handle", t>> \in Object
                     /\ <<"job", t>> \in Object /\ <<"dep", t>> \in Object
  /\ \A k \in LibKind : The(k) \in Object
  BY DEF Object, The, LibKind

LEMMA Become ==
  ASSUME mem \in [Object -> States], NEW O, NEW s \in States, mem' = Becomes(O, s)
  PROVE  /\ mem' \in [Object -> States]
         /\ taskMem'   = [t \in Task |-> IF <<"task", t>> \in O THEN s ELSE taskMem[t]]
         /\ handleMem' = [t \in Task |-> IF <<"handle", t>> \in O THEN s ELSE handleMem[t]]
         /\ jobMem'    = [t \in Task |-> IF <<"job", t>> \in O THEN s ELSE jobMem[t]]
         /\ depMem'    = [t \in Task |-> IF <<"dep", t>> \in O THEN s ELSE depMem[t]]
         /\ libMem'    = [k \in LibKind |-> IF The(k) \in O THEN s ELSE libMem[k]]
<1>1. mem' = [o \in Object |-> IF o \in O THEN s ELSE mem[o]]
  BY DEF Becomes
<1>2. mem' \in [Object -> States]
  BY <1>1
<1>3. \A o \in Object : mem'[o] = IF o \in O THEN s ELSE mem[o]
  BY <1>1
<1>4. taskMem' = [t \in Task |-> IF <<"task", t>> \in O THEN s ELSE taskMem[t]]
  BY <1>3, IsObject DEF taskMem
<1>5. handleMem' = [t \in Task |-> IF <<"handle", t>> \in O THEN s ELSE handleMem[t]]
  BY <1>3, IsObject DEF handleMem
<1>6. jobMem' = [t \in Task |-> IF <<"job", t>> \in O THEN s ELSE jobMem[t]]
  BY <1>3, IsObject DEF jobMem
<1>7. depMem' = [t \in Task |-> IF <<"dep", t>> \in O THEN s ELSE depMem[t]]
  BY <1>3, IsObject DEF depMem
<1>8. libMem' = [k \in LibKind |-> IF The(k) \in O THEN s ELSE libMem[k]]
  BY <1>3, IsObject DEF libMem
<1> QED
  BY <1>2, <1>4, <1>5, <1>6, <1>7, <1>8

\* When only objects of the library change, and when only those of one task do.
LEMMA BecomeLib ==
  ASSUME ObjectsTyped, NEW K \in SUBSET LibKind, NEW s \in States, mem' = Becomes({The(k) : k \in K}, s)
  PROVE  /\ mem' \in [Object -> States] /\ UNCHANGED <<taskMem, handleMem, jobMem, depMem>>
         /\ libMem' = [k \in LibKind |-> IF k \in K THEN s ELSE libMem[k]]
<1>1. mem \in [Object -> States]
  BY DEF ObjectsTyped, States
<1>2. \A t \in Task : /\ <<"task", t>> \notin {The(k) : k \in K} /\ <<"handle", t>> \notin {The(k) : k \in K}
                      /\ <<"job", t>> \notin {The(k) : k \in K} /\ <<"dep", t>> \notin {The(k) : k \in K}
  BY DEF The, LibKind
<1>3. \A k \in LibKind : The(k) \in {The(i) : i \in K} <=> k \in K
  BY DEF The
<1>4. taskMem' = taskMem /\ handleMem' = handleMem
  BY <1>1, <1>2, Become DEF taskMem, handleMem
<1>5. jobMem' = jobMem /\ depMem' = depMem
  BY <1>1, <1>2, Become DEF jobMem, depMem
<1> QED
  BY <1>1, <1>3, <1>4, <1>5, Become

LEMMA ObjectsLib ==
  ASSUME ObjectsTyped, NEW K \in SUBSET LibKind, NEW s \in States,
         mem' \in [Object -> States], UNCHANGED <<taskMem, handleMem, jobMem, depMem>>,
         libMem' = [k \in LibKind |-> IF k \in K THEN s ELSE libMem[k]],
         s = "disposed" => K \subseteq {"engine", "poll"}, s = "live" => "poll" \notin K,
         trash' \in Seq(({"task", "job"} \X Task) \cup {The("engine")}),
         tasks' \in Seq(Task), queue' \in Seq(Task), engines' \in BOOLEAN,
         taskLock' \subseteq App, engineLock' \subseteq App
  PROVE  ObjectsTyped'
<1>1. libMem' \in [LibKind -> States]
  BY DEF ObjectsTyped, States
<1>2. \A k \in LibKind \ {"engine", "poll"} : libMem'[k] # "disposed"
  BY DEF ObjectsTyped
<1>3. libMem'["poll"] # "live"
  BY DEF ObjectsTyped, LibKind
<1> QED
  BY <1>1, <1>2, <1>3 DEF ObjectsTyped, States

-----------------------------------------------------------------------------
(* The end of TW_Finalize: nobody else is there. *)

LEMMA FinalizeListsStep ==
  ASSUME IInv, NEW a \in App, FinalizeLists(a)
  PROVE  IInv'
<1> a \in Thread
  BY Roles
<1>1. /\ pc[a] = "lists" /\ Goto(a, "sweep") /\ engineLock' = engineLock \ {a}
      /\ mem' = Becomes({The("tasks"), The("engines")}, "freed")
      /\ UNCHANGED <<config, calls, trash, tasks, engines, taskLock, taskv, enginev, judged>>
  BY DEF FinalizeLists, At
<1>2. /\ UNCHANGED <<parent, listens, events, script, on, awaits, ran, walk, trash, tasks, engines, taskLock>>
      /\ UNCHANGED <<status, ep, job, wanted, dep, queue, nt, njob, evtLock, polled, told, fault, orderly>>
      /\ UNCHANGED <<attached, refs>>
  BY <1>1, SameDeps DEF config, calls, taskv, enginev, judged
<1>3. /\ mem' \in [Object -> States] /\ UNCHANGED <<taskMem, handleMem, jobMem, depMem>>
      /\ libMem' = [k \in LibKind |-> IF k \in {"tasks", "engines"} THEN "freed" ELSE libMem[k]]
  <2>1. {The("tasks"), The("engines")} = {The(k) : k \in {"tasks", "engines"}}
    OBVIOUS
  <2>2. {"tasks", "engines"} \in SUBSET LibKind
    BY DEF LibKind
  <2> QED
    BY <1>1, <2>1, <2>2, BecomeLib DEF IInv, Typed, States
<1>4. /\ PcTyped /\ walk \in Nat
      /\ libMem'["tasks"] = "freed" /\ libMem'["engines"] = "freed"
      /\ \A k \in LibKind \ {"tasks", "engines"} : libMem'[k] = libMem[k]
  BY <1>3 DEF IInv, Typed, StateTyped, LibKind
<1>5. walk > 0 /\ \A b \in App \ {a} : pc[b] = "idle" /\ script[b] = <<>>
  BY <1>1, Closing DEF Finalizing
<1>6. pc'[a] = "sweep" /\ (\A b \in App \ {a} : pc'[b] = "idle") /\ \A w \in Worker : pc'[w] = pc[w]
  BY <1>1, <1>4, <1>5, Moved, Roles
<1>7. Open /\ ~Open'
  BY <1>1, <1>4, Placed DEF Outside, Open
<1>8. libMem["engine"] # "live" /\ Gone /\ Gone'
  BY <1>1, <1>6 DEF IInv, EngineOK, Gone
<1>9. Typed'
  <2>1. Fits(a, "sweep")
    BY <1>1, Roles DEF Fits, IInv, Typed, ThreadsTyped, AppLabel, Finalizing, OnLabel, RanLabel, Commits, TaskCall, TaskFree
  <2>2. ConfigTyped' /\ PcTyped' /\ ThreadsTyped'
    BY <1>1, <1>2, <2>1, ConfigSame, PcMove, ThreadsMove DEF IInv, Typed, Fits
  <2>3. ObjectsTyped'
    <3>1. {"tasks", "engines"} \in SUBSET LibKind
      BY DEF LibKind
    <3>2. /\ trash' \in Seq(({"task", "job"} \X Task) \cup {The("engine")})
          /\ tasks' \in Seq(Task) /\ queue' \in Seq(Task) /\ engines' \in BOOLEAN
          /\ taskLock' \subseteq App /\ engineLock' \subseteq App
      BY <1>1, <1>2 DEF ObjectsTyped, IInv, Typed
    <3> QED
      BY <1>3, <3>1, <3>2, ObjectsLib DEF IInv, Typed, States
  <2>4. StateTyped'
    BY <1>2 DEF StateTyped, IInv, Typed
  <2> QED
    BY <2>2, <2>3, <2>4 DEF Typed
<1>10. LibOK'
  BY <1>1, <1>2, <1>4, <1>5, <1>6, <1>7, <1>8 DEF IInv, LibOK, LibKind, Outside
<1>11. CloseOK'
  BY <1>1, <1>2, <1>4, <1>5, CloseMove DEF IInv, ClosePath, Finalizing
<1>12. TasksOK'
  BY <1>1, <1>2, <1>3, <1>5, <1>6, <1>7 DEF IInv, TasksOK, Different, Elems, Freeing
<1>13. EngineOK'
  BY <1>1, <1>2, <1>4, <1>5, <1>6, <1>7, <1>8 DEF IInv, EngineOK, LibKind, EngineFree, UsesEngine
<1>14. (Failed <=> Failed') /\ (Ending' => Ending)
  <2>1. libMem'["engine"] = libMem["engine"] /\ libMem'["queue"] = libMem["queue"]
    BY <1>4 DEF LibKind
  <2> QED
    BY <1>1, <1>2, <1>4, <1>5, <2>1, FailedMove, EndingMove DEF Ending
<1>15. TrashOK' /\ RunnersOK' /\ DepsOK'
  <2>1. libMem'["engine"] = libMem["engine"]
    BY <1>4 DEF LibKind
  <2> QED
    BY <1>1, <1>2, <1>3, <1>4, <2>1, TrashSame, RunnersMove, DepsMove DEF IInv
<1>16. HandsOK' /\ ApartOK'
  BY <1>1, <1>2, <1>3, <1>4, <1>14, HandsMove, ApartMove DEF IInv, HandLabel, TaskFree, TaskCall
<1>17. HeldOK'
  <2>1. Holds(a, "sweep")
    BY <1>1 DEF Holds, TaskFree, Running
  <2> QED
    BY <1>1, <1>2, <1>3, <1>4, <2>1, HeldMove DEF IInv
<1>18. OrderlyOK'
  <2>1. OrderlyStays(a, "sweep")
    BY <1>1 DEF OrderlyStays, EngineFree, TaskFree, UsesEngine
  <2> QED
    BY <1>1, <1>2, <1>3, <1>4, <1>14, <2>1, OrderlyMove DEF IInv
<1> QED
  BY <1>9, <1>10, <1>11, <1>12, <1>13, <1>15, <1>16, <1>17, <1>18 DEF IInv

LEMMA Sweeping ==
  ASSUME IInv, NEW a \in App, pc[a] \in {"sweep", "polls"}
  PROVE  /\ ~Open /\ Gone /\ walk > 0 /\ libMem["engine"] # "live" /\ queue = <<>>
         /\ \A b \in App \ {a} : pc[b] = "idle" /\ script[b] = <<>>
         /\ \A t \in Task : taskMem[t] # "live"
  BY Closing DEF IInv, LibOK, EngineOK, TasksOK, Finalizing, Freeing

LEMMA FinalizeDisposerStep ==
  ASSUME IInv, NEW a \in App, FinalizeDisposer(a)
  PROVE  IInv'
<1> a \in Thread
  BY Roles
<1>1. /\ pc[a] = "sweep" /\ Goto(a, "polls") /\ trash = <<>>
      /\ mem' = Becomes({The("disposer")}, "freed")
      /\ UNCHANGED <<config, calls, trash, lists, taskv, enginev, judged>>
  BY DEF FinalizeDisposer, At
<1>2. /\ UNCHANGED <<parent, listens, events, script, on, awaits, ran, walk, trash, tasks, engines, taskLock>>
      /\ UNCHANGED <<status, ep, job, wanted, dep, queue, nt, njob, evtLock, polled, told, fault, orderly>>
      /\ UNCHANGED <<attached, refs, engineLock>>
  BY <1>1, SameDeps DEF config, calls, taskv, enginev, judged, lists
<1>3. /\ mem' \in [Object -> States] /\ UNCHANGED <<taskMem, handleMem, jobMem, depMem>>
      /\ libMem' = [k \in LibKind |-> IF k \in {"disposer"} THEN "freed" ELSE libMem[k]]
      /\ ObjectsTyped'
  <2>1. {The("disposer")} = {The(k) : k \in {"disposer"}}
    OBVIOUS
  <2>2. {"disposer"} \in SUBSET LibKind /\ "freed" \in States
    BY DEF LibKind, States
  <2>3. /\ mem' \in [Object -> States] /\ UNCHANGED <<taskMem, handleMem, jobMem, depMem>>
        /\ libMem' = [k \in LibKind |-> IF k \in {"disposer"} THEN "freed" ELSE libMem[k]]
    BY <1>1, <2>1, <2>2, BecomeLib DEF IInv, Typed
  <2>4. /\ trash' \in Seq(({"task", "job"} \X Task) \cup {The("engine")})
        /\ tasks' \in Seq(Task) /\ queue' \in Seq(Task) /\ engines' \in BOOLEAN
        /\ taskLock' \subseteq App /\ engineLock' \subseteq App
    BY <1>2 DEF ObjectsTyped, IInv, Typed
  <2> QED
    BY <2>2, <2>3, <2>4, ObjectsLib DEF IInv, Typed
<1>4. /\ PcTyped /\ walk \in Nat /\ libMem'["disposer"] = "freed"
      /\ \A k \in LibKind \ {"disposer"} : libMem'[k] = libMem[k]
  BY <1>3 DEF IInv, Typed, StateTyped, LibKind
<1>5. /\ ~Open /\ Gone /\ walk > 0 /\ libMem["engine"] # "live" /\ queue = <<>>
      /\ \A b \in App \ {a} : pc[b] = "idle" /\ script[b] = <<>>
      /\ \A t \in Task : taskMem[t] # "live"
  BY <1>1, Sweeping
<1>6. pc'[a] = "polls" /\ (\A b \in App \ {a} : pc'[b] = "idle") /\ \A w \in Worker : pc'[w] = pc[w]
  BY <1>1, <1>4, <1>5, Moved, Roles
<1>7. ~Open' /\ Gone'
  BY <1>4, <1>5, <1>6 DEF Open, LibKind, Gone
<1>8. Typed'
  <2>1. Fits(a, "polls")
    BY <1>1, Roles DEF Fits, IInv, Typed, ThreadsTyped, AppLabel, Finalizing, OnLabel, RanLabel, Commits, TaskCall, TaskFree
  <2>2. ConfigTyped' /\ PcTyped' /\ ThreadsTyped'
    BY <1>1, <1>2, <2>1, ConfigSame, PcMove, ThreadsMove DEF IInv, Typed, Fits
  <2>3. StateTyped'
    BY <1>2 DEF StateTyped, IInv, Typed
  <2> QED
    BY <1>3, <2>2, <2>3 DEF Typed
<1>9. LibOK'
  BY <1>1, <1>2, <1>4, <1>5, <1>6, <1>7 DEF IInv, LibOK, LibKind, Outside
<1>10. CloseOK'
  BY <1>1, <1>2, <1>4, <1>5, CloseMove DEF IInv, ClosePath, Finalizing
<1>11. TasksOK'
  BY <1>1, <1>2, <1>3, <1>5, <1>6, <1>7 DEF IInv, TasksOK, Different, Elems, Freeing
<1>12. EngineOK'
  BY <1>1, <1>2, <1>4, <1>5, <1>6, <1>7 DEF IInv, EngineOK, LibKind, EngineFree, UsesEngine
<1>13. libMem'["engine"] = libMem["engine"] /\ libMem'["queue"] = libMem["queue"]
  BY <1>4 DEF LibKind
<1>14. (Failed <=> Failed') /\ (Ending' => Ending)
  BY <1>1, <1>2, <1>4, <1>5, <1>13, FailedMove, EndingMove DEF Ending
<1>15. TrashOK' /\ RunnersOK'
  BY <1>1, <1>2, <1>3, <1>4, <1>13, TrashSame, RunnersMove DEF IInv
<1>16. DepsOK'
  <2>1. \A t \in Task : taskMem[t] # "disposed"
    BY <1>1 DEF IInv, TrashOK, Elems
  <2>2. \A t \in Task : ~Present(t)' /\ taskMem'[t] = taskMem[t]
    BY <1>3, <1>5, <2>1 DEF Present
  <2> QED
    BY <1>2, <1>3, <2>2, LibraryAssumption DEF IInv, DepsOK
<1>17. HandsOK' /\ ApartOK'
  BY <1>1, <1>2, <1>3, <1>4, <1>14, HandsMove, ApartMove DEF IInv, HandLabel, TaskFree, TaskCall
<1>18. HeldOK'
  <2>1. Holds(a, "polls")
    BY <1>1 DEF Holds, TaskFree, Running
  <2> QED
    BY <1>1, <1>2, <1>3, <1>4, <2>1, HeldMove DEF IInv
<1>19. OrderlyOK'
  <2>1. OrderlyStays(a, "polls")
    BY <1>1 DEF OrderlyStays, EngineFree, TaskFree, UsesEngine
  <2> QED
    BY <1>1, <1>2, <1>3, <1>4, <1>14, <2>1, OrderlyMove DEF IInv
<1> QED
  BY <1>8, <1>9, <1>10, <1>11, <1>12, <1>15, <1>16, <1>17, <1>18, <1>19 DEF IInv

LEMMA FinalizePollsStep ==
  ASSUME IInv, NEW a \in App, FinalizePolls(a)
  PROVE  IInv'
<1> a \in Thread
  BY Roles
<1> DEFINE K == {k \in {"polls", "poll"} : libMem[k] \in {"live", "disposed"}}
<1>1. /\ pc[a] = "polls" /\ Goto(a, "idle") /\ walk' = 0
      /\ mem' = Becomes({o \in {The("polls"), The("poll")} : Usable(o)}, "freed")
      /\ UNCHANGED <<config, script, on, awaits, ran, trash, lists, taskv, enginev, judged>>
  BY DEF FinalizePolls, At
<1>2. /\ UNCHANGED <<parent, listens, events, script, on, awaits, ran, trash, tasks, engines, taskLock>>
      /\ UNCHANGED <<status, ep, job, wanted, dep, queue, nt, njob, evtLock, polled, told, fault, orderly>>
      /\ UNCHANGED <<attached, refs, engineLock>>
  BY <1>1, SameDeps DEF config, taskv, enginev, judged, lists
<1>3. /\ mem' \in [Object -> States] /\ UNCHANGED <<taskMem, handleMem, jobMem, depMem>>
      /\ libMem' = [k \in LibKind |-> IF k \in K THEN "freed" ELSE libMem[k]]
      /\ ObjectsTyped'
  <2>1. {o \in {The("polls"), The("poll")} : Usable(o)} = {The(k) : k \in K}
    BY DEF Usable, libMem, LibKind, The
  <2>2. K \in SUBSET LibKind /\ "freed" \in States
    BY DEF LibKind, States
  <2>3. /\ mem' \in [Object -> States] /\ UNCHANGED <<taskMem, handleMem, jobMem, depMem>>
        /\ libMem' = [k \in LibKind |-> IF k \in K THEN "freed" ELSE libMem[k]]
    BY <1>1, <2>1, <2>2, BecomeLib DEF IInv, Typed
  <2>4. /\ trash' \in Seq(({"task", "job"} \X Task) \cup {The("engine")})
        /\ tasks' \in Seq(Task) /\ queue' \in Seq(Task) /\ engines' \in BOOLEAN
        /\ taskLock' \subseteq App /\ engineLock' \subseteq App
    BY <1>2 DEF ObjectsTyped, IInv, Typed
  <2> QED
    BY <2>2, <2>3, <2>4, ObjectsLib DEF IInv, Typed
<1>4. /\ PcTyped /\ walk \in Nat /\ libMem'["polls"] # "live" /\ libMem'["poll"] # "disposed"
      /\ \A k \in LibKind \ {"polls", "poll"} : libMem'[k] = libMem[k]
  BY <1>3 DEF IInv, Typed, StateTyped, LibKind
<1>5. /\ ~Open /\ Gone /\ walk > 0 /\ libMem["engine"] # "live" /\ queue = <<>>
      /\ \A b \in App \ {a} : pc[b] = "idle" /\ script[b] = <<>>
      /\ \A t \in Task : taskMem[t] # "live"
  BY <1>1, Sweeping
<1>6. (\A b \in App : pc'[b] = "idle") /\ \A w \in Worker : pc'[w] = pc[w]
  BY <1>1, <1>4, <1>5, Moved, Roles
<1>7. ~Open' /\ Gone'
  BY <1>4, <1>5, <1>6 DEF Open, LibKind, Gone
<1>8. trash = <<>> /\ libMem["disposer"] # "live"
  BY <1>1 DEF IInv, LibOK
<1>9. /\ \A t \in Task : taskMem[t] # "disposed"
      /\ libMem["engine"] # "disposed"
  BY <1>8 DEF IInv, TrashOK, Elems
<1>10. Typed'
  <2>1. Fits(a, "idle")
    BY <1>1, Roles DEF Fits, IInv, Typed, ThreadsTyped, AppLabel, Outside, OnLabel, RanLabel, Commits, TaskCall, TaskFree
  <2>2. ConfigTyped' /\ PcTyped' /\ ThreadsTyped'
    BY <1>1, <1>2, <2>1, ConfigSame, PcMove, ThreadsMove DEF IInv, Typed, Fits
  <2>3. StateTyped'
    BY <1>1, <1>2 DEF StateTyped, IInv, Typed
  <2> QED
    BY <1>3, <2>2, <2>3 DEF Typed
<1>11. LibOK'
  BY <1>1, <1>2, <1>4, <1>5, <1>6, <1>7, <1>8 DEF IInv, LibOK, LibKind, Outside
<1>12. CloseOK'
  BY <1>1, <1>6 DEF CloseOK, Finalizing
<1>13. TasksOK'
  BY <1>1, <1>2, <1>3, <1>5, <1>6, <1>7, <1>9 DEF IInv, TasksOK, Different, Elems, Freeing, Present
<1>14. EngineOK'
  BY <1>1, <1>2, <1>4, <1>5, <1>6, <1>7, <1>9 DEF IInv, EngineOK, LibKind, EngineFree, UsesEngine
<1>15. libMem'["engine"] = libMem["engine"] /\ libMem'["queue"] = libMem["queue"]
  BY <1>4 DEF LibKind
<1>16. (Failed <=> Failed') /\ (Ending' => Ending)
  BY <1>1, <1>2, <1>4, <1>5, <1>15, FailedMove, EndingMove DEF Ending, EngineFree
<1>17. TrashOK' /\ RunnersOK'
  BY <1>1, <1>2, <1>3, <1>4, <1>15, TrashSame, RunnersMove DEF IInv
<1>18. DepsOK'
  <2>1. \A t \in Task : ~Present(t)' /\ ~Present(t) /\ taskMem'[t] = taskMem[t]
    BY <1>3, <1>5, <1>9 DEF Present
  <2> QED
    BY <1>2, <1>3, <2>1, LibraryAssumption DEF IInv, DepsOK
<1>19. HandsOK' /\ ApartOK'
  BY <1>1, <1>2, <1>3, <1>4, <1>16, HandsMove, ApartMove DEF IInv, HandLabel, TaskFree, TaskCall
<1>20. HeldOK'
  <2>1. /\ \A x \in Thread : pc'[x] \notin {"wire", "queue", "token", "job", "final"}
        /\ \A x \in Thread : ran[x] = NoTask
    BY <1>1, <1>5, <1>6, <1>7, Roles DEF Gone, IInv, Typed, ThreadsTyped, RanLabel, Commits
  <2>2. \A x \in Elems(queue) : FALSE
    BY <1>5 DEF Elems
  <2> QED
    BY <1>2, <1>6, <2>1, <2>2 DEF HeldOK, Elems, TaskFree, Running
<1>21. OrderlyOK'
  <2>1. OrderlyStays(a, "idle")
    BY <1>1 DEF OrderlyStays, EngineFree, TaskFree, UsesEngine
  <2> QED
    BY <1>1, <1>2, <1>3, <1>4, <1>16, <2>1, OrderlyMove DEF IInv
<1> QED
  BY <1>10, <1>11, <1>12, <1>13, <1>14, <1>17, <1>18, <1>19, <1>20, <1>21 DEF IInv

-----------------------------------------------------------------------------
(* Lists without repetition. *)

LEMMA TailElems ==
  ASSUME NEW S, NEW s \in Seq(S), s # <<>>, Different(s)
  PROVE  /\ Head(s) \in S /\ Tail(s) \in Seq(S) /\ Head(s) \in Elems(s)
         /\ Different(Tail(s)) /\ Elems(Tail(s)) = Elems(s) \ {Head(s)}
<1>1. Len(s) \in Nat /\ Len(s) > 0 /\ Head(s) = s[1] /\ 1 \in DOMAIN s
  OBVIOUS
<1>2. /\ Tail(s) \in Seq(S) /\ DOMAIN Tail(s) = 1..(Len(s) - 1)
      /\ \A i \in DOMAIN Tail(s) : Tail(s)[i] = s[i + 1]
  OBVIOUS
<1>3. \A i \in DOMAIN Tail(s) : i + 1 \in DOMAIN s /\ i + 1 # 1 /\ i \in Nat
  BY <1>2
<1>4. \A i \in DOMAIN s : i # 1 => i - 1 \in DOMAIN Tail(s) /\ Tail(s)[i - 1] = s[i]
  BY <1>2
<1>5. Different(Tail(s))
  BY <1>2, <1>3 DEF Different
<1>6. Elems(Tail(s)) \subseteq Elems(s) \ {Head(s)}
  BY <1>1, <1>2, <1>3 DEF Different, Elems
<1>7. Elems(s) \ {Head(s)} \subseteq Elems(Tail(s))
  <2> SUFFICES ASSUME NEW x \in Elems(s), x # Head(s) PROVE x \in Elems(Tail(s))
    OBVIOUS
  <2>1. PICK i \in DOMAIN s : s[i] = x
    BY DEF Elems
  <2>2. i # 1
    BY <1>1, <2>1
  <2> QED
    BY <1>4, <2>1, <2>2 DEF Elems
<1>8. Head(s) \in S /\ Head(s) \in Elems(s)
  BY <1>1 DEF Elems
<1> QED
  BY <1>2, <1>5, <1>6, <1>7, <1>8

LEMMA ConsElems ==
  ASSUME NEW S, NEW s \in Seq(S), NEW x \in S
  PROVE  /\ <<x>> \o s \in Seq(S)
         /\ Elems(<<x>> \o s) = {x} \cup Elems(s)
         /\ Different(s) /\ x \notin Elems(s) => Different(<<x>> \o s)
<1> DEFINE c == <<x>> \o s
<1>1. /\ c \in Seq(S) /\ DOMAIN c = 1..(Len(s) + 1) /\ c[1] = x /\ Len(s) \in Nat
      /\ \A i \in DOMAIN c : i # 1 => c[i] = s[i - 1]
  OBVIOUS
<1>2. \A i \in DOMAIN s : i + 1 \in DOMAIN c /\ c[i + 1] = s[i] /\ i + 1 # 1
  BY <1>1
<1>3. \A i \in DOMAIN c : i # 1 => i - 1 \in DOMAIN s
  BY <1>1
<1>4. 1 \in DOMAIN c
  BY <1>1
<1> HIDE DEF c
<1>5. Elems(c) = {x} \cup Elems(s)
  <2>1. Elems(c) \subseteq {x} \cup Elems(s)
    BY <1>1, <1>3 DEF Elems
  <2>2. Elems(s) \subseteq Elems(c)
    <3> SUFFICES ASSUME NEW i \in DOMAIN s PROVE s[i] \in Elems(c)
      BY DEF Elems
    <3> QED
      BY <1>2 DEF Elems
  <2>3. x \in Elems(c)
    BY <1>1, <1>4 DEF Elems
  <2> QED
    BY <2>1, <2>2, <2>3
<1>6. ASSUME Different(s), x \notin Elems(s)
      PROVE  Different(c)
  <2> SUFFICES ASSUME NEW i \in DOMAIN c, NEW j \in DOMAIN c, c[i] = c[j] PROVE i = j
    BY DEF Different
  <2>1. i \in Int /\ j \in Int
    BY <1>1
  <2>2. (i = 1 /\ j # 1) \/ (j = 1 /\ i # 1) => FALSE
    BY <1>1, <1>3, <1>6 DEF Elems
  <2>3. i # 1 /\ j # 1 => i - 1 = j - 1
    BY <1>1, <1>3, <1>6 DEF Different
  <2> QED
    BY <2>1, <2>2, <2>3
<1> QED
  BY <1>1, <1>5, <1>6 DEF c

LEMMA AppendElems ==
  ASSUME NEW S, NEW s \in Seq(S), NEW x \in S
  PROVE  /\ Append(s, x) \in Seq(S)
         /\ Elems(Append(s, x)) = Elems(s) \cup {x}
         /\ Different(s) /\ x \notin Elems(s) => Different(Append(s, x))
<1> DEFINE c == Append(s, x)
<1>1. /\ c \in Seq(S) /\ DOMAIN c = 1..(Len(s) + 1) /\ c[Len(s) + 1] = x /\ Len(s) \in Nat
      /\ \A i \in DOMAIN c : i # Len(s) + 1 => c[i] = s[i] /\ i \in DOMAIN s
      /\ \A i \in DOMAIN s : i \in DOMAIN c /\ i # Len(s) + 1
  OBVIOUS
<1>2. Len(s) + 1 \in DOMAIN c
  BY <1>1
<1> HIDE DEF c
<1>3. Elems(c) = Elems(s) \cup {x}
  BY <1>1, <1>2 DEF Elems
<1>4. ASSUME Different(s), x \notin Elems(s)
      PROVE  Different(c)
  BY <1>1, <1>4 DEF Different, Elems
<1> QED
  BY <1>1, <1>3, <1>4 DEF c

-----------------------------------------------------------------------------
(* The sweep of the disposer. *)

\* The dependencies that a task gives up.
GivesUp(o, t) ==
    \E u \in Task : o = <<"task", u>> /\ ((parent[t] = u /\ attached[t]) \/ (t = u /\ depMem[t] # "none"))

LEMMA SweepDoes ==
  ASSUME IInv, NEW a \in App, TWNATIVE_Taski_free_core(a), NEW o, o = Head(trash)
  PROVE  /\ mem' \in [Object -> States] /\ handleMem' = handleMem
         /\ \A t \in Task : taskMem'[t] = IF o = <<"task", t>> THEN "freed" ELSE taskMem[t]
         /\ \A t \in Task : jobMem'[t] = IF o = <<"job", t>> THEN "freed" ELSE jobMem[t]
         /\ \A k \in LibKind : libMem'[k] = IF o = The(k) THEN "freed" ELSE libMem[k]
         /\ \A t \in Task : refs'[t] = IF GivesUp(o, t) THEN refs[t] - 1 ELSE refs[t]
         /\ \A t \in Task : depMem'[t] = IF GivesUp(o, t) /\ refs[t] = 1 THEN "freed" ELSE depMem[t]
         /\ UNCHANGED attached
         /\ dep' \in [Task -> [ref : Int, attached : BOOLEAN, orphan : BOOLEAN, childless : BOOLEAN]]
         /\ o \in ({"task", "job"} \X Task) \cup {The("engine")}
<1> DEFINE Owned == IF o[1] = "task" THEN Lists(o[2]) ELSE {}
           O     == {o} \cup {<<"dep", c>> : c \in {d \in Owned : dep[d].ref = 1}}
<1>1. /\ dep' = [c \in Task |-> IF c \in Owned THEN [dep[c] EXCEPT !.ref = @ - 1] ELSE dep[c]]
      /\ mem' = Becomes(O, "freed") /\ trash # <<>>
  BY DEF TWNATIVE_Taski_free_core
<1>2. /\ trash \in Seq(({"task", "job"} \X Task) \cup {The("engine")})
      /\ mem \in [Object -> States] /\ "freed" \in States
      /\ dep \in [Task -> [ref : Int, attached : BOOLEAN, orphan : BOOLEAN, childless : BOOLEAN]]
  BY DEF IInv, Typed, ObjectsTyped, StateTyped, States
<1>3. o \in ({"task", "job"} \X Task) \cup {The("engine")}
  BY <1>1, <1>2
<1>4. \A t \in Task : t \in Owned <=> GivesUp(o, t)
  <2>1. \A t \in Task : (HasDep(t) <=> depMem[t] # "none") /\ (dep[t].attached <=> attached[t])
    BY DEF HasDep, depMem, attached
  <2>2. CASE o = The("engine")
    BY <2>2 DEF GivesUp, The
  <2>3. ASSUME NEW u \in Task, o = <<"job", u>> PROVE \A t \in Task : t \in Owned <=> GivesUp(o, t)
    BY <2>3 DEF GivesUp
  <2>4. ASSUME NEW u \in Task, o = <<"task", u>> PROVE \A t \in Task : t \in Owned <=> GivesUp(o, t)
    <3>1. Owned = Lists(u)
      BY <2>4
    <3>2. \A v \in Task : o = <<"task", v>> => u = v
      BY <2>4
    <3> QED
      BY <2>1, <2>4, <3>1, <3>2 DEF GivesUp, Lists, Childs
  <2> QED
    BY <1>3, <2>2, <2>3, <2>4
<1>5. Owned \subseteq Task
  <2>1. \A u \in Task : Lists(u) \subseteq Task
    BY DEF Lists, Childs
  <2> QED
    BY <1>3, <2>1 DEF The
<1> HIDE DEF Owned
<1>6. \A t \in Task : /\ <<"task", t>> \in O <=> o = <<"task", t>>
                      /\ <<"job", t>> \in O <=> o = <<"job", t>>
                      /\ <<"handle", t>> \notin O
                      /\ <<"dep", t>> \in O <=> t \in Owned /\ dep[t].ref = 1
  BY <1>3 DEF The
<1>7. \A k \in LibKind : The(k) \in O <=> o = The(k)
  BY DEF The, LibKind
<1> HIDE DEF O
<1>8. /\ mem' \in [Object -> States]
      /\ taskMem'   = [t \in Task |-> IF <<"task", t>> \in O THEN "freed" ELSE taskMem[t]]
      /\ handleMem' = [t \in Task |-> IF <<"handle", t>> \in O THEN "freed" ELSE handleMem[t]]
      /\ jobMem'    = [t \in Task |-> IF <<"job", t>> \in O THEN "freed" ELSE jobMem[t]]
      /\ depMem'    = [t \in Task |-> IF <<"dep", t>> \in O THEN "freed" ELSE depMem[t]]
      /\ libMem'    = [k \in LibKind |-> IF The(k) \in O THEN "freed" ELSE libMem[k]]
  BY <1>1, <1>2, Become
<1>9. handleMem' = handleMem
  BY <1>6, <1>8 DEF handleMem
<1>10. \A t \in Task : /\ dep'[t] = IF t \in Owned THEN [dep[t] EXCEPT !.ref = dep[t].ref - 1] ELSE dep[t]
                       /\ dep[t] \in [ref : Int, attached : BOOLEAN, orphan : BOOLEAN, childless : BOOLEAN]
  BY <1>1, <1>2
<1>11. \A t \in Task : /\ dep'[t] \in [ref : Int, attached : BOOLEAN, orphan : BOOLEAN, childless : BOOLEAN]
                       /\ dep'[t].attached = dep[t].attached
                       /\ dep'[t].ref = IF t \in Owned THEN dep[t].ref - 1 ELSE dep[t].ref
  <2> TAKE t \in Task
  <2>1. CASE t \notin Owned
    BY <1>10, <2>1
  <2>2. CASE t \in Owned
    <3>1. dep'[t] = [dep[t] EXCEPT !.ref = dep[t].ref - 1]
      BY <1>10, <2>2
    <3>2. dep[t] \in [ref : Int, attached : BOOLEAN, orphan : BOOLEAN, childless : BOOLEAN]
      BY <1>10
    <3>3. dep[t].ref - 1 \in Int
      BY <3>2
    <3> QED
      BY <2>2, <3>1, <3>2, <3>3
  <2> QED
    BY <2>1, <2>2
<1>12. dep' \in [Task -> [ref : Int, attached : BOOLEAN, orphan : BOOLEAN, childless : BOOLEAN]]
  <2>1. dep' = [c \in Task |-> dep'[c]]
    BY <1>1
  <2> QED
    BY <1>11, <2>1
<1>13. attached' = attached /\ \A t \in Task : refs[t] = dep[t].ref /\ refs'[t] = dep'[t].ref
  BY <1>11 DEF attached, refs
<1>14. \A t \in Task : refs'[t] = IF GivesUp(o, t) THEN refs[t] - 1 ELSE refs[t]
  BY <1>4, <1>11, <1>13
<1>15. \A t \in Task : depMem'[t] = IF GivesUp(o, t) /\ refs[t] = 1 THEN "freed" ELSE depMem[t]
  BY <1>4, <1>6, <1>8, <1>13
<1> QED
  BY <1>3, <1>6, <1>7, <1>8, <1>9, <1>12, <1>13, <1>14, <1>15

LEMMA SweepStep ==
  ASSUME IInv, NEW a \in App, TWNATIVE_Taski_free_core(a)
  PROVE  IInv'
<1> a \in Thread
  BY Roles
<1> DEFINE o == Head(trash)
<1>1. /\ pc[a] = "sweep" /\ trash # <<>> /\ trash' = Tail(trash)
      /\ UNCHANGED <<config, pc, calls, lists, status, ep, job, wanted, enginev, judged>>
  BY DEF TWNATIVE_Taski_free_core, At
<1>2. /\ UNCHANGED <<parent, listens, events, script, on, awaits, ran, walk, tasks, engines, taskLock>>
      /\ UNCHANGED <<pc, status, ep, job, wanted, queue, nt, njob, evtLock, polled, told, fault, orderly>>
      /\ UNCHANGED engineLock
  BY <1>1 DEF config, calls, enginev, judged, lists
<1>3. /\ mem' \in [Object -> States] /\ UNCHANGED <<handleMem, attached>>
      /\ \A t \in Task : taskMem'[t] = IF o = <<"task", t>> THEN "freed" ELSE taskMem[t]
      /\ \A t \in Task : jobMem'[t] = IF o = <<"job", t>> THEN "freed" ELSE jobMem[t]
      /\ \A k \in LibKind : libMem'[k] = IF o = The(k) THEN "freed" ELSE libMem[k]
      /\ \A t \in Task : refs'[t] = IF GivesUp(o, t) THEN refs[t] - 1 ELSE refs[t]
      /\ \A t \in Task : depMem'[t] = IF GivesUp(o, t) /\ refs[t] = 1 THEN "freed" ELSE depMem[t]
      /\ dep' \in [Task -> [ref : Int, attached : BOOLEAN, orphan : BOOLEAN, childless : BOOLEAN]]
      /\ o \in ({"task", "job"} \X Task) \cup {The("engine")}
  BY SweepDoes
<1>4. /\ trash \in Seq(({"task", "job"} \X Task) \cup {The("engine")}) /\ Different(trash)
      /\ PcTyped /\ walk \in Nat
  BY DEF IInv, Typed, ObjectsTyped, TrashOK, StateTyped
<1>5. /\ o \in Elems(trash) /\ Different(Tail(trash)) /\ Elems(Tail(trash)) = Elems(trash) \ {o}
      /\ Tail(trash) \in Seq(({"task", "job"} \X Task) \cup {The("engine")})
  BY <1>1, <1>4, TailElems
<1> HIDE DEF o
<1>6. /\ \A t \in Task : o = <<"task", t>> => taskMem[t] = "disposed"
      /\ \A t \in Task : o = <<"job", t>> => jobMem[t] = "disposed"
      /\ o = The("engine") => libMem["engine"] = "disposed"
  BY <1>5 DEF IInv, TrashOK
<1>7. \A k \in LibKind \ {"engine"} : libMem'[k] = libMem[k]
  BY <1>3 DEF The, LibKind
<1>8. /\ ~Open /\ Gone /\ walk > 0 /\ libMem["engine"] # "live" /\ queue = <<>>
      /\ \A b \in App \ {a} : pc[b] = "idle" /\ script[b] = <<>>
      /\ \A t \in Task : taskMem[t] # "live"
  BY <1>1, Sweeping
<1>9. libMem'["engine"] = (IF o = The("engine") THEN "freed" ELSE libMem["engine"])
  BY <1>3 DEF LibKind
<1>10. ~Open' /\ Gone'
  BY <1>2, <1>7, <1>8 DEF Open, LibKind, Gone
<1>11. Typed'
  <2>1. ConfigTyped' /\ PcTyped' /\ ThreadsTyped' /\ StateTyped'
    BY <1>2, <1>3 DEF IInv, Typed, ConfigTyped, PcTyped, ThreadsTyped, StateTyped
  <2>2. ObjectsTyped'
    <3>1. taskMem' \in [Task -> States]
      <4>1. taskMem' = [t \in Task |-> taskMem'[t]]
        BY DEF taskMem
      <4> QED
        BY <1>3, <4>1 DEF IInv, Typed, ObjectsTyped, States
    <3>2. jobMem' \in [Task -> States]
      <4>1. jobMem' = [t \in Task |-> jobMem'[t]]
        BY DEF jobMem
      <4> QED
        BY <1>3, <4>1 DEF IInv, Typed, ObjectsTyped, States
    <3>3. depMem' \in [Task -> {"none", "live", "freed"}]
      <4>1. depMem' = [t \in Task |-> depMem'[t]]
        BY DEF depMem
      <4> QED
        BY <1>3, <4>1 DEF IInv, Typed, ObjectsTyped
    <3>4. libMem' \in [LibKind -> States]
      <4>1. libMem' = [k \in LibKind |-> libMem'[k]]
        BY DEF libMem
      <4> QED
        BY <1>3, <4>1 DEF IInv, Typed, ObjectsTyped, States
    <3>5. handleMem' = handleMem /\ libMem'["poll"] = libMem["poll"]
      BY <1>3, <1>7 DEF LibKind
    <3>6. \A k \in LibKind \ {"engine", "poll"} : libMem'[k] # "disposed"
      BY <1>7 DEF IInv, Typed, ObjectsTyped
    <3> QED
      BY <1>1, <1>2, <1>3, <1>5, <3>1, <3>2, <3>3, <3>4, <3>5, <3>6 DEF IInv, Typed, ObjectsTyped, States
  <2> QED
    BY <2>1, <2>2 DEF Typed
<1>12. LibOK'
  BY <1>1, <1>2, <1>7, <1>8, <1>10 DEF IInv, LibOK, LibKind
<1>13. CloseOK'
  BY <1>2 DEF IInv, CloseOK, Alone
<1>14. TasksOK'
  <2>1. \A t \in Task : /\ taskMem'[t] # "live"
                        /\ taskMem'[t] = "none" <=> taskMem[t] = "none"
    BY <1>3, <1>6, <1>8
  <2> QED
    BY <1>1, <1>2, <1>3, <1>8, <1>10, <2>1 DEF IInv, TasksOK, Different, Elems, Freeing
<1>15. TrashOK'
  <2>1. ASSUME NEW t \in Task
        PROVE  /\ taskMem'[t] = "disposed" <=> <<"task", t>> \in Elems(Tail(trash))
               /\ jobMem'[t] = "disposed" <=> <<"job", t>> \in Elems(Tail(trash))
    BY <1>3, <1>5 DEF IInv, TrashOK
  <2>2. libMem'["engine"] = "disposed" <=> The("engine") \in Elems(Tail(trash))
    BY <1>5, <1>9 DEF IInv, TrashOK
  <2> QED
    <3>1. Elems(trash)' = Elems(Tail(trash)) /\ Different(trash)'
      BY <1>1, <1>5 DEF Elems, Different
    <3> QED
      BY <2>1, <2>2, <3>1 DEF TrashOK
<1>16. EngineOK'
  BY <1>1, <1>2, <1>6, <1>7, <1>8, <1>9, <1>10 DEF IInv, EngineOK, LibKind, EngineFree, UsesEngine
<1>17. \A t \in Task : (jobMem'[t] = "live" <=> jobMem[t] = "live") /\ (jobMem'[t] = "none" <=> jobMem[t] = "none")
  BY <1>3, <1>6
<1>18. ~Failed' /\ ~Failed
  BY <1>8, <1>9 DEF Failed
<1>19. HandsOK'
  <2>1. \A x \in Thread : \A t : Hand(x, t)' <=> Hand(x, t)
    BY <1>2 DEF Hand
  <2>2. Elems(queue)' = Elems(queue) /\ Different(queue)' /\ Elems(queue) = {}
    BY <1>2, <1>8 DEF Elems, Different
  <2>3. ASSUME NEW x \in Thread
        PROVE  /\ pc[x] = "wire" => status[on[x]] = "DEPHOLD" /\ ~attached[on[x]]
               /\ pc[x] = "queue" => FALSE
               /\ pc[x] = "job" => FALSE
               /\ pc[x] = "final" => status[on[x]] = "RUNNING"
    BY <1>1, <1>8, Roles DEF IInv, HandsOK, Gone
  <2>4. ASSUME NEW t \in Task
        PROVE  /\ status[t] \in {"IDLE", "DEPHOLD"} => jobMem'[t] = "none" /\ ~job[t] /\ t \notin wanted
               /\ status[t] \in {"RUNNING", "COMPLETED"} => jobMem'[t] = "live"
               /\ ep[t] => status[t] # "IDLE"
               /\ jobMem'[t] = "live" => status[t] = "COMPLETED" \/ \E x \in Thread : Hand(x, t)
    BY <1>17, <1>18, <2>2 DEF IInv, HandsOK
  <2>5. \A x1, x2 \in Thread : \A t \in Task : Hand(x1, t) /\ Hand(x2, t) => x1 = x2
    BY DEF IInv, HandsOK
  <2> QED
    BY <1>2, <1>3, <2>1, <2>2, <2>3, <2>4, <2>5 DEF HandsOK
<1>20. RunnersOK' /\ ApartOK'
  BY <1>2 DEF IInv, RunnersOK, ApartOK, Frees, Uses
<1>21. HeldOK'
  <2>1. \A x \in Thread : /\ pc'[x] \notin {"wire", "queue", "token", "job", "final"}
                          /\ ran'[x] = NoTask
    BY <1>1, <1>2, <1>8, <1>10, Roles DEF Gone, IInv, Typed, ThreadsTyped, RanLabel, Commits
  <2>2. \A x \in Elems(queue) : FALSE
    BY <1>8 DEF Elems
  <2> QED
    BY <1>1, <1>2, <1>8, <2>1, <2>2 DEF HeldOK, Elems, TaskFree, Running
<1>22. DepsOK'
  <2> SUFFICES ASSUME NEW t \in Task
               PROVE  /\ depMem'[t] = "none" => ~attached[t]
                      /\ status[t] = "IDLE" => ~attached[t]
                      /\ depMem'[t] # "none" =>
                          /\ parent[t] \in Task
                          /\ taskMem'[t] # "none" /\ taskMem'[parent[t]] # "none"
                          /\ refs'[t] = (IF taskMem'[t] = "freed" THEN 0 ELSE 1)
                                      + (IF taskMem'[parent[t]] = "freed" /\ attached[t] THEN 0 ELSE 1)
                          /\ depMem'[t] = "freed" <=> refs'[t] = 0
    BY <1>1, <1>2, <1>3 DEF DepsOK
  <2>1. /\ depMem[t] = "none" => ~attached[t]
        /\ status[t] = "IDLE" => ~attached[t]
        /\ depMem[t] # "none" =>
            /\ parent[t] \in Task /\ parent[t] # t
            /\ taskMem[t] # "none" /\ taskMem[parent[t]] # "none"
            /\ refs[t] = (IF taskMem[t] = "freed" THEN 0 ELSE 1)
                       + (IF taskMem[parent[t]] = "freed" /\ attached[t] THEN 0 ELSE 1)
            /\ depMem[t] = "freed" <=> refs[t] = 0
    BY DEF IInv, DepsOK, Typed, ConfigTyped
  <2>2. CASE depMem[t] = "none"
    <3>1. ~GivesUp(o, t)
      BY <2>1, <2>2 DEF GivesUp
    <3> QED
      BY <1>3, <2>1, <2>2, <3>1
  <2>3. CASE depMem[t] # "none"
    <3>1. CASE o = <<"task", t>>
      <4>1. GivesUp(o, t) /\ o # <<"task", parent[t]>> /\ taskMem[t] = "disposed"
        BY <1>6, <2>1, <2>3, <3>1 DEF GivesUp
      <4> QED
        BY <1>3, <2>1, <2>3, <3>1, <4>1
    <3>2. CASE o = <<"task", parent[t]>> /\ attached[t]
      <4>1. GivesUp(o, t) /\ o # <<"task", t>> /\ taskMem[parent[t]] = "disposed"
        BY <1>6, <2>1, <2>3, <3>2 DEF GivesUp
      <4> QED
        BY <1>3, <2>1, <2>3, <3>2, <4>1
    <3>3. CASE o # <<"task", t>> /\ ~(o = <<"task", parent[t]>> /\ attached[t])
      <4>1. ~GivesUp(o, t)
        BY <2>1, <2>3, <3>3 DEF GivesUp
      <4>2. taskMem'[t] = taskMem[t]
        BY <1>3, <3>3
      <4>3. taskMem'[parent[t]] # taskMem[parent[t]] =>
               ~attached[t] /\ taskMem'[parent[t]] = "freed"
        BY <1>3, <2>1, <2>3, <3>3
      <4> QED
        BY <1>3, <2>1, <2>3, <4>1, <4>2, <4>3
    <3> QED
      BY <3>1, <3>2, <3>3
  <2> QED
    BY <2>2, <2>3
<1>23. OrderlyOK'
  <2>1. Ending' <=> Ending
    BY <1>2, <1>8 DEF Ending
  <2>2. (\A t : Ended(t)' <=> Ended(t)) /\ (NotBusy' <=> NotBusy)
    BY <1>2 DEF Ended, NotBusy
  <2> QED
    BY <1>2, <1>3, <1>18, <2>1, <2>2 DEF IInv, OrderlyOK, Elems
<1> QED
  BY <1>11, <1>12, <1>13, <1>14, <1>15, <1>16, <1>19, <1>20, <1>21, <1>22, <1>23 DEF IInv

-----------------------------------------------------------------------------
(* The engine. *)

LEMMA QueueNeeds ==
  ASSUME NEW th \in Thread, pc[th] \in {"drain", "queue", "pop"}
  PROVE  The("queue") \in Needs(th)
<1>1. CASE pc[th] = "drain"
  BY <1>1 DEF Needs
<1>2. CASE pc[th] = "queue"
  BY <1>2 DEF Needs
<1>3. CASE pc[th] = "pop"
  BY <1>3 DEF Needs
<1> QED
  BY <1>1, <1>2, <1>3

LEMMA QueueThere ==
  ASSUME IInv, NEW th \in Thread, NEW l \in {"drain", "queue", "pop"}, At(th, l)
  PROVE  libMem["queue"] = "live" /\ libMem["engine"] = "live" /\ Open /\ ~Failed
<1>1. Usable(The("queue"))
  BY QueueNeeds DEF At
<1>2. libMem["queue"] = "live"
  BY <1>1 DEF Usable, libMem, LibKind, IInv, Typed, ObjectsTyped
<1> QED
  BY <1>2 DEF IInv, EngineOK, Failed

LEMMA SetMpiStep ==
  ASSUME IInv, NEW a \in App, SetMpi(a)
  PROVE  IInv'
<1> a \in Thread
  BY Roles
<1>1. /\ pc[a] = "mpi" /\ Goto(a, "idle") /\ polled' = TRUE
      /\ mem' = Becomes({The("poll")}, "disposed")
      /\ UNCHANGED <<config, calls, trash, lists, taskv, queue, njob, nt, evtLock, judged>>
  BY DEF SetMpi, At
<1>2. /\ UNCHANGED <<parent, listens, events, script, on, awaits, ran, walk, trash, tasks, engines, taskLock>>
      /\ UNCHANGED <<status, ep, job, wanted, dep, queue, nt, njob, evtLock, told, fault, orderly>>
      /\ UNCHANGED <<attached, refs, engineLock>>
  BY <1>1, SameDeps DEF config, calls, taskv, judged, lists
<1>3. /\ mem' \in [Object -> States] /\ UNCHANGED <<taskMem, handleMem, jobMem, depMem>>
      /\ libMem' = [k \in LibKind |-> IF k \in {"poll"} THEN "disposed" ELSE libMem[k]]
      /\ ObjectsTyped'
  <2>1. {The("poll")} = {The(k) : k \in {"poll"}}
    OBVIOUS
  <2>2. {"poll"} \in SUBSET LibKind /\ "disposed" \in States
    BY DEF LibKind, States
  <2>3. /\ mem' \in [Object -> States] /\ UNCHANGED <<taskMem, handleMem, jobMem, depMem>>
        /\ libMem' = [k \in LibKind |-> IF k \in {"poll"} THEN "disposed" ELSE libMem[k]]
    BY <1>1, <2>1, <2>2, BecomeLib DEF IInv, Typed
  <2>4. /\ trash' \in Seq(({"task", "job"} \X Task) \cup {The("engine")})
        /\ tasks' \in Seq(Task) /\ queue' \in Seq(Task) /\ engines' \in BOOLEAN
        /\ taskLock' \subseteq App /\ engineLock' \subseteq App
    BY <1>2 DEF ObjectsTyped, IInv, Typed
  <2> QED
    BY <2>2, <2>3, <2>4, ObjectsLib DEF IInv, Typed
<1>4. /\ PcTyped /\ walk \in Nat /\ libMem'["poll"] = "disposed"
      /\ \A k \in LibKind \ {"poll"} : libMem'[k] = libMem[k]
  BY <1>3 DEF IInv, Typed, StateTyped, LibKind
<1>5. Open /\ walk = 0
  BY <1>1, Placed DEF Outside, ClosePath, Freeing, Finalizing, EngineFree
<1>6. /\ pc'[a] = "idle" /\ \A b \in App \ {a} : pc'[b] = pc[b]
      /\ \A w \in Worker : pc'[w] = pc[w]
  BY <1>1, <1>4, <1>5, Moved, Roles
<1>7. /\ libMem'["engine"] = libMem["engine"] /\ libMem'["queue"] = libMem["queue"]
      /\ Open'
  BY <1>4, <1>5 DEF LibKind, Open
<1>8. Typed'
  <2>1. Fits(a, "idle")
    BY <1>1, Roles DEF Fits, IInv, Typed, ThreadsTyped, AppLabel, Outside, OnLabel, RanLabel, Commits, TaskCall, TaskFree
  <2>2. ConfigTyped' /\ PcTyped' /\ ThreadsTyped'
    BY <1>1, <1>2, <2>1, ConfigSame, PcMove, ThreadsMove DEF IInv, Typed, Fits
  <2>3. StateTyped'
    BY <1>1, <1>2 DEF StateTyped, IInv, Typed
  <2> QED
    BY <1>3, <2>2, <2>3 DEF Typed
<1>9. LibOK'
  BY <1>1, <1>2, <1>4, <1>5, LibOpen DEF IInv, LibKind
<1>10. CloseOK'
  BY <1>1, <1>2, <1>4, <1>5, CloseMove DEF IInv, Finalizing
<1>11. TasksOK'
  BY <1>1, <1>2, <1>3, <1>5, <1>6, <1>7 DEF IInv, TasksOK, Different, Elems, Freeing, Present, Done
<1>12. EngineOK'
  <2>1. Gone' <=> Gone
    BY <1>6 DEF Gone
  <2>2. libMem["engine"] # "none"
    BY <1>1 DEF IInv, EngineOK
  <2>3. \A b \in App : pc'[b] = pc[b] \/ pc'[b] \notin EngineFree \cup UsesEngine \cup {"mpi", "lists", "sweep", "polls", "engine"}
    BY <1>6 DEF EngineFree, UsesEngine
  <2>4. \A b \in App : pc[b] \in {"erase", "lists", "wake", "join"} => pc'[b] = pc[b]
    BY <1>1, <1>6
  <2>5. libMem'["ehandle"] = libMem["ehandle"]
    BY <1>4 DEF LibKind
  <2> QED
    BY <1>1, <1>2, <1>4, <1>5, <1>7, <2>1, <2>2, <2>3, <2>4, <2>5 DEF IInv, EngineOK, EngineFree
<1>13. (Failed <=> Failed') /\ (Ending' => Ending)
  BY <1>1, <1>2, <1>4, <1>5, <1>7, FailedMove, EndingMove DEF Ending, EngineFree
<1>14. TrashOK' /\ RunnersOK' /\ DepsOK'
  BY <1>1, <1>2, <1>3, <1>4, <1>7, TrashSame, RunnersMove, DepsMove DEF IInv
<1>15. HandsOK' /\ ApartOK'
  BY <1>1, <1>2, <1>3, <1>4, <1>13, HandsMove, ApartMove DEF IInv, HandLabel, TaskFree, TaskCall
<1>16. HeldOK'
  <2>1. Holds(a, "idle")
    BY <1>1 DEF Holds, TaskFree, Running
  <2> QED
    BY <1>1, <1>2, <1>3, <1>4, <2>1, HeldMove DEF IInv
<1>17. OrderlyOK'
  <2>1. OrderlyStays(a, "idle")
    BY <1>1 DEF OrderlyStays, EngineFree, TaskFree, UsesEngine
  <2> QED
    BY <1>1, <1>2, <1>3, <1>4, <1>13, <2>1, OrderlyMove DEF IInv
<1> QED
  BY <1>8, <1>9, <1>10, <1>11, <1>12, <1>14, <1>15, <1>16, <1>17 DEF IInv

LEMMA DrainEndsStep ==
  ASSUME IInv, NEW a \in App, DrainEnds(a)
  PROVE  IInv'
<1> a \in Thread
  BY Roles
<1>1. /\ pc[a] = "drain" /\ Goto(a, "edispose") /\ queue = <<>>
      /\ mem' = Becomes({The("queue")}, "freed")
      /\ UNCHANGED <<config, calls, trash, lists, taskv, enginev, judged>>
  BY DEF DrainEnds, At
<1>2. /\ UNCHANGED <<parent, listens, events, script, on, awaits, ran, walk, trash, tasks, engines, taskLock>>
      /\ UNCHANGED <<status, ep, job, wanted, dep, queue, nt, njob, evtLock, polled, told, fault, orderly>>
      /\ UNCHANGED <<attached, refs, engineLock>>
  BY <1>1, SameDeps DEF config, calls, taskv, enginev, judged, lists
<1>3. /\ mem' \in [Object -> States] /\ UNCHANGED <<taskMem, handleMem, jobMem, depMem>>
      /\ libMem' = [k \in LibKind |-> IF k \in {"queue"} THEN "freed" ELSE libMem[k]]
      /\ ObjectsTyped'
  <2>1. {The("queue")} = {The(k) : k \in {"queue"}}
    OBVIOUS
  <2>2. {"queue"} \in SUBSET LibKind /\ "freed" \in States
    BY DEF LibKind, States
  <2>3. /\ mem' \in [Object -> States] /\ UNCHANGED <<taskMem, handleMem, jobMem, depMem>>
        /\ libMem' = [k \in LibKind |-> IF k \in {"queue"} THEN "freed" ELSE libMem[k]]
    BY <1>1, <2>1, <2>2, BecomeLib DEF IInv, Typed
  <2>4. /\ trash' \in Seq(({"task", "job"} \X Task) \cup {The("engine")})
        /\ tasks' \in Seq(Task) /\ queue' \in Seq(Task) /\ engines' \in BOOLEAN
        /\ taskLock' \subseteq App /\ engineLock' \subseteq App
    BY <1>2 DEF ObjectsTyped, IInv, Typed
  <2> QED
    BY <2>2, <2>3, <2>4, ObjectsLib DEF IInv, Typed
<1>4. /\ PcTyped /\ walk \in Nat /\ libMem'["queue"] = "freed"
      /\ \A k \in LibKind \ {"queue"} : libMem'[k] = libMem[k]
  BY <1>3 DEF IInv, Typed, StateTyped, LibKind
<1>5. libMem["queue"] = "live" /\ libMem["engine"] = "live" /\ Open /\ ~Failed
  BY QueueThere DEF DrainEnds
<1>6. /\ pc'[a] = "edispose" /\ \A b \in App \ {a} : pc'[b] = pc[b]
      /\ \A w \in Worker : pc'[w] = pc[w]
  BY <1>1, <1>4, <1>5, Moved, Roles
<1>7. libMem'["engine"] = "live" /\ libMem'["ehandle"] = libMem["ehandle"] /\ Open'
  BY <1>4, <1>5 DEF LibKind, Open
<1>8. Typed'
  <2>1. Fits(a, "edispose")
    BY <1>1, Roles DEF Fits, IInv, Typed, ThreadsTyped, AppLabel, EngineFree, OnLabel, RanLabel, Commits, TaskCall, TaskFree
  <2>2. ConfigTyped' /\ PcTyped' /\ ThreadsTyped'
    BY <1>1, <1>2, <2>1, ConfigSame, PcMove, ThreadsMove DEF IInv, Typed, Fits
  <2>3. StateTyped'
    BY <1>1, <1>2 DEF StateTyped, IInv, Typed
  <2> QED
    BY <1>3, <2>2, <2>3 DEF Typed
<1>9. LibOK'
  BY <1>1, <1>2, <1>4, <1>5, LibOpen DEF IInv, LibKind
<1>10. CloseOK'
  BY <1>1, <1>2, <1>4, <1>5, CloseMove DEF IInv, Finalizing, ClosePath, EngineFree
<1>11. TasksOK'
  BY <1>1, <1>2, <1>3, <1>5, <1>6, <1>7 DEF IInv, TasksOK, Different, Elems, Freeing, Present, Done
<1>12. EngineOK'
  <2>1. Gone /\ Gone'
    BY <1>1, <1>6 DEF Gone, IInv, EngineOK
  <2>2. ASSUME NEW b \in App, b # a
        PROVE  /\ pc'[b] = pc[b] /\ pc[b] \notin EngineFree \cup {"engine", "lists", "sweep", "polls"}
    BY <1>1, <1>5, <1>6, <2>2 DEF IInv, EngineOK, EngineFree
  <2> QED
    BY <1>1, <1>2, <1>4, <1>5, <1>6, <1>7, <2>1, <2>2 DEF IInv, EngineOK, EngineFree, UsesEngine
<1>13. ~Failed' /\ Ending /\ (Ending' => Ending)
  BY <1>1, <1>6 DEF Failed, Ending, EngineFree
<1>14. TrashOK' /\ RunnersOK' /\ DepsOK'
  BY <1>1, <1>2, <1>3, <1>4, <1>5, <1>7, TrashSame, RunnersMove, DepsMove DEF IInv
<1>15. HandsOK' /\ ApartOK'
  BY <1>1, <1>2, <1>3, <1>4, <1>5, <1>13, HandsMove, ApartMove DEF IInv, HandLabel, TaskFree, TaskCall
<1>16. HeldOK'
  <2>1. Holds(a, "edispose")
    BY <1>1 DEF Holds, TaskFree, Running
  <2> QED
    BY <1>1, <1>2, <1>3, <1>4, <2>1, HeldMove DEF IInv
<1>17. OrderlyOK'
  <2>1. OrderlyStays(a, "edispose")
    BY <1>1, <1>13 DEF OrderlyStays, TaskFree, UsesEngine
  <2> QED
    BY <1>1, <1>2, <1>3, <1>4, <1>13, <2>1, OrderlyMove DEF IInv
<1> QED
  BY <1>8, <1>9, <1>10, <1>11, <1>12, <1>14, <1>15, <1>16, <1>17 DEF IInv

LEMMA EngineDisposeStep ==
  ASSUME IInv, NEW a \in App, EngineDispose(a)
  PROVE  IInv'
<1> a \in Thread
  BY Roles
<1>1. PICK l \in {"lists", "erase"} : Goto(a, l) /\ (l = "lists" <=> walk > 0)
  BY DEF EngineDispose
<1>2. /\ pc[a] = "edispose" /\ trash' = <<The("engine")>> \o trash
      /\ mem' = Becomes({The("engine")}, "disposed")
      /\ UNCHANGED <<config, calls, lists, taskv, enginev, judged>>
  BY DEF EngineDispose, At
<1>3. /\ UNCHANGED <<parent, listens, events, script, on, awaits, ran, walk, tasks, engines, taskLock>>
      /\ UNCHANGED <<status, ep, job, wanted, dep, queue, nt, njob, evtLock, polled, told, fault, orderly>>
      /\ UNCHANGED <<attached, refs, engineLock>>
  BY <1>2, SameDeps DEF config, calls, taskv, enginev, judged, lists
<1>4. /\ libMem["engine"] = "live" /\ libMem["ehandle"] = "live" /\ libMem["queue"] = "freed"
      /\ queue = <<>> /\ Gone /\ Open /\ engines
  BY <1>2 DEF IInv, EngineOK, EngineFree
<1>5. The("engine") \notin Elems(trash) /\ trash \in Seq(({"task", "job"} \X Task) \cup {The("engine")})
  BY <1>4 DEF IInv, TrashOK, Typed, ObjectsTyped
<1>6. /\ trash' \in Seq(({"task", "job"} \X Task) \cup {The("engine")})
      /\ Elems(trash') = {The("engine")} \cup Elems(trash) /\ Different(trash')
  <2> DEFINE S == ({"task", "job"} \X Task) \cup {The("engine")}
  <2> DEFINE x == The("engine")
  <2>1. x \in S /\ x \notin Elems(trash) /\ trash \in Seq(S)
    BY <1>5
  <2>2. Different(trash)
    BY DEF IInv, TrashOK
  <2>3. trash' = <<x>> \o trash
    BY <1>2
  <2> HIDE DEF S, x
  <2>4. <<x>> \o trash \in Seq(S) /\ Elems(<<x>> \o trash) = {x} \cup Elems(trash) /\ Different(<<x>> \o trash)
    BY <2>1, <2>2, ConsElems
  <2> QED
    BY <2>3, <2>4 DEF S, x
<1>7. /\ mem' \in [Object -> States] /\ UNCHANGED <<taskMem, handleMem, jobMem, depMem>>
      /\ libMem' = [k \in LibKind |-> IF k \in {"engine"} THEN "disposed" ELSE libMem[k]]
      /\ ObjectsTyped'
  <2>1. {The("engine")} = {The(k) : k \in {"engine"}}
    OBVIOUS
  <2>2. {"engine"} \in SUBSET LibKind /\ "disposed" \in States
    BY DEF LibKind, States
  <2>3. /\ mem' \in [Object -> States] /\ UNCHANGED <<taskMem, handleMem, jobMem, depMem>>
        /\ libMem' = [k \in LibKind |-> IF k \in {"engine"} THEN "disposed" ELSE libMem[k]]
    BY <1>2, <2>1, <2>2, BecomeLib DEF IInv, Typed
  <2>4. /\ trash' \in Seq(({"task", "job"} \X Task) \cup {The("engine")})
        /\ tasks' \in Seq(Task) /\ queue' \in Seq(Task) /\ engines' \in BOOLEAN
        /\ taskLock' \subseteq App /\ engineLock' \subseteq App
    BY <1>3, <1>6 DEF ObjectsTyped, IInv, Typed
  <2> QED
    BY <2>2, <2>3, <2>4, ObjectsLib DEF IInv, Typed
<1>8. /\ PcTyped /\ walk \in Nat /\ libMem'["engine"] = "disposed"
      /\ \A k \in LibKind \ {"engine"} : libMem'[k] = libMem[k]
  BY <1>7 DEF IInv, Typed, StateTyped, LibKind
<1>9. /\ pc'[a] = l /\ \A b \in App \ {a} : pc'[b] = pc[b]
      /\ \A w \in Worker : pc'[w] = pc[w]
  BY <1>1, <1>8, Moved, Roles
<1>10. libMem'["queue"] = "freed" /\ libMem'["ehandle"] = "live" /\ Open'
  BY <1>4, <1>8 DEF LibKind, Open
<1>11. Typed'
  <2>1. Fits(a, l)
    BY <1>1, <1>2, Roles DEF Fits, IInv, Typed, ThreadsTyped, AppLabel, EngineFree, Finalizing, OnLabel, RanLabel, Commits, TaskCall, TaskFree
  <2>2. ConfigTyped' /\ PcTyped' /\ ThreadsTyped'
    BY <1>1, <1>3, <2>1, ConfigSame, PcMove, ThreadsMove DEF IInv, Typed, Fits
  <2>3. StateTyped'
    BY <1>3 DEF StateTyped, IInv, Typed
  <2> QED
    BY <1>7, <2>2, <2>3 DEF Typed
<1>12. LibOK'
  BY <1>1, <1>2, <1>4, <1>8, LibOpen DEF IInv, LibKind
<1>13. CloseOK'
  <2>1. pc[a] # "idle" /\ l # "finalize" /\ (walk > 0 => l \in ClosePath) /\ (walk = 0 => l \notin Finalizing)
    BY <1>1, <1>2 DEF ClosePath, Finalizing
  <2> QED
    BY <1>1, <1>3, <1>8, <2>1, CloseMove DEF IInv
<1>14. TasksOK'
  BY <1>1, <1>2, <1>3, <1>4, <1>7, <1>9, <1>10 DEF IInv, TasksOK, Different, Elems, Freeing, Present, Done
<1>15. TrashOK'
  <2>1. \A t \in Task : <<"task", t>> # The("engine") /\ <<"job", t>> # The("engine")
    BY DEF The
  <2>2. Elems(trash)' = {The("engine")} \cup Elems(trash) /\ Different(trash)'
    BY <1>6 DEF Elems, Different
  <2> QED
    BY <1>7, <1>8, <2>1, <2>2 DEF IInv, TrashOK
<1>16. EngineOK'
  <2>1. Gone'
    BY <1>4, <1>9 DEF Gone
  <2>2. ASSUME NEW b \in App, b # a
        PROVE  /\ pc'[b] = pc[b] /\ pc[b] \notin EngineFree \cup {"engine", "lists", "sweep", "polls"}
    BY <1>2, <1>4, <1>9, <2>2 DEF IInv, EngineOK, EngineFree
  <2> QED
    BY <1>1, <1>3, <1>4, <1>8, <1>9, <1>10, <2>1, <2>2 DEF IInv, EngineOK, EngineFree, UsesEngine
<1>17. ~Failed' /\ ~Failed /\ Ending
  BY <1>2, <1>4, <1>8 DEF Failed, Ending
<1>18. RunnersOK' /\ DepsOK'
  BY <1>1, <1>2, <1>3, <1>7, <1>8, RunnersMove, DepsMove DEF IInv
<1>19. HandsOK' /\ ApartOK'
  BY <1>1, <1>2, <1>3, <1>7, <1>8, <1>17, HandsMove, ApartMove DEF IInv, HandLabel, TaskFree, TaskCall
<1>20. HeldOK'
  <2>1. Holds(a, l)
    BY <1>1, <1>2 DEF Holds, TaskFree, Running
  <2> QED
    BY <1>1, <1>3, <1>7, <1>8, <2>1, HeldMove DEF IInv
<1>21. OrderlyOK'
  <2>1. OrderlyStays(a, l)
    BY <1>1, <1>17 DEF OrderlyStays, TaskFree, UsesEngine
  <2> QED
    BY <1>1, <1>3, <1>7, <1>8, <1>17, <2>1, OrderlyMove DEF IInv
<1> QED
  BY <1>11, <1>12, <1>13, <1>14, <1>15, <1>16, <1>18, <1>19, <1>20, <1>21 DEF IInv

LEMMA EngineEraseStep ==
  ASSUME IInv, NEW a \in App, EngineErase(a)
  PROVE  IInv'
<1> a \in Thread
  BY Roles
<1>1. /\ pc[a] = "erase" /\ Goto(a, "idle") /\ engines' = FALSE
      /\ mem' = Becomes({The("ehandle")}, "freed")
      /\ UNCHANGED <<config, calls, trash, tasks, taskLock, engineLock, taskv, enginev, judged>>
  BY DEF EngineErase, At
<1>2. /\ UNCHANGED <<parent, listens, events, script, on, awaits, ran, walk, trash, tasks, taskLock>>
      /\ UNCHANGED <<status, ep, job, wanted, dep, queue, nt, njob, evtLock, polled, told, fault, orderly>>
      /\ UNCHANGED <<attached, refs, engineLock>>
  BY <1>1, SameDeps DEF config, calls, taskv, enginev, judged
<1>3. /\ mem' \in [Object -> States] /\ UNCHANGED <<taskMem, handleMem, jobMem, depMem>>
      /\ libMem' = [k \in LibKind |-> IF k \in {"ehandle"} THEN "freed" ELSE libMem[k]]
      /\ ObjectsTyped'
  <2>1. {The("ehandle")} = {The(k) : k \in {"ehandle"}}
    OBVIOUS
  <2>2. {"ehandle"} \in SUBSET LibKind /\ "freed" \in States
    BY DEF LibKind, States
  <2>3. /\ mem' \in [Object -> States] /\ UNCHANGED <<taskMem, handleMem, jobMem, depMem>>
        /\ libMem' = [k \in LibKind |-> IF k \in {"ehandle"} THEN "freed" ELSE libMem[k]]
    BY <1>1, <2>1, <2>2, BecomeLib DEF IInv, Typed
  <2>4. /\ trash' \in Seq(({"task", "job"} \X Task) \cup {The("engine")})
        /\ tasks' \in Seq(Task) /\ queue' \in Seq(Task) /\ engines' \in BOOLEAN
        /\ taskLock' \subseteq App /\ engineLock' \subseteq App
    BY <1>1, <1>2 DEF ObjectsTyped, IInv, Typed
  <2> QED
    BY <2>2, <2>3, <2>4, ObjectsLib DEF IInv, Typed
<1>4. /\ PcTyped /\ walk \in Nat /\ libMem'["ehandle"] = "freed"
      /\ \A k \in LibKind \ {"ehandle"} : libMem'[k] = libMem[k]
  BY <1>3 DEF IInv, Typed, StateTyped, LibKind
<1>5. Open /\ walk = 0 /\ libMem["engine"] = "disposed" /\ libMem["ehandle"] = "live"
  BY <1>1, Placed DEF Outside, ClosePath, Freeing, Finalizing, EngineFree, IInv, EngineOK
<1>6. /\ pc'[a] = "idle" /\ \A b \in App \ {a} : pc'[b] = pc[b]
      /\ \A w \in Worker : pc'[w] = pc[w]
  BY <1>1, <1>4, <1>5, Moved, Roles
<1>7. libMem'["engine"] = libMem["engine"] /\ libMem'["queue"] = libMem["queue"] /\ Open'
      /\ libMem'["poll"] = libMem["poll"]
  BY <1>4, <1>5 DEF LibKind, Open
<1>8. Typed'
  <2>1. Fits(a, "idle")
    BY <1>1, Roles DEF Fits, IInv, Typed, ThreadsTyped, AppLabel, Outside, OnLabel, RanLabel, Commits, TaskCall, TaskFree
  <2>2. ConfigTyped' /\ PcTyped' /\ ThreadsTyped'
    BY <1>1, <1>2, <2>1, ConfigSame, PcMove, ThreadsMove DEF IInv, Typed, Fits
  <2>3. StateTyped'
    BY <1>1, <1>2 DEF StateTyped, IInv, Typed
  <2> QED
    BY <1>3, <2>2, <2>3 DEF Typed
<1>9. LibOK'
  BY <1>1, <1>2, <1>4, <1>5, LibOpen DEF IInv, LibKind
<1>10. CloseOK'
  BY <1>1, <1>2, <1>4, <1>5, CloseMove DEF IInv, Finalizing
<1>11. TasksOK'
  BY <1>1, <1>2, <1>3, <1>5, <1>6, <1>7 DEF IInv, TasksOK, Different, Elems, Freeing, Present, Done
<1>12. EngineOK'
  <2>1. Gone' <=> Gone
    BY <1>6 DEF Gone
  <2>2. ASSUME NEW b \in App, b # a
        PROVE  /\ pc'[b] = pc[b] /\ pc[b] \notin EngineFree \cup {"engine"}
    BY <1>1, <1>5, <1>6, <2>2 DEF IInv, EngineOK, EngineFree
  <2>3. nt = 0 => Gone
    BY <1>1, <2>2 DEF IInv, EngineOK, EngineFree
  <2> QED
    BY <1>1, <1>2, <1>4, <1>5, <1>6, <1>7, <2>1, <2>2, <2>3 DEF IInv, EngineOK, EngineFree, UsesEngine
<1>13. (Failed <=> Failed') /\ (Ending' => Ending)
  BY <1>1, <1>2, <1>4, <1>5, <1>7, FailedMove, EndingMove DEF Ending, EngineFree
<1>14. TrashOK' /\ RunnersOK' /\ DepsOK'
  BY <1>1, <1>2, <1>3, <1>4, <1>7, TrashSame, RunnersMove, DepsMove DEF IInv
<1>15. HandsOK' /\ ApartOK'
  BY <1>1, <1>2, <1>3, <1>4, <1>13, HandsMove, ApartMove DEF IInv, HandLabel, TaskFree, TaskCall
<1>16. HeldOK'
  <2>1. Holds(a, "idle")
    BY <1>1 DEF Holds, TaskFree, Running
  <2> QED
    BY <1>1, <1>2, <1>3, <1>4, <2>1, HeldMove DEF IInv
<1>17. OrderlyOK'
  <2>1. OrderlyStays(a, "idle")
    BY <1>1 DEF OrderlyStays, EngineFree, TaskFree, UsesEngine
  <2> QED
    BY <1>1, <1>2, <1>3, <1>4, <1>13, <2>1, OrderlyMove DEF IInv
<1> QED
  BY <1>8, <1>9, <1>10, <1>11, <1>12, <1>14, <1>15, <1>16, <1>17 DEF IInv

LEMMA EngineCreateStep ==
  ASSUME IInv, NEW a \in App, TWNATIVE_Engine_create(a)
  PROVE  IInv'
<1> a \in Thread
  BY Roles
<1> DEFINE K == {"engine", "ehandle", "queue"}
<1>1. /\ pc[a] = "engine" /\ engines' = TRUE
      /\ nt' = Cardinality(Worker) /\ njob' = IF events THEN 1 ELSE 0
      /\ mem' = Becomes({The("engine"), The("ehandle"), The("queue")}, "live")
      /\ pc' = [th \in Thread |-> IF th \in Worker THEN "start" ELSE IF th = a THEN "idle" ELSE pc[th]]
      /\ UNCHANGED <<config, calls, trash, tasks, taskLock, engineLock, taskv, queue,
                     evtLock, polled, judged>>
  BY DEF TWNATIVE_Engine_create, At
<1>2. /\ UNCHANGED <<parent, listens, events, script, on, awaits, ran, walk, trash, tasks, taskLock>>
      /\ UNCHANGED <<status, ep, job, wanted, dep, queue, evtLock, polled, told, fault, orderly>>
      /\ UNCHANGED <<attached, refs, engineLock>>
  BY <1>1, SameDeps DEF config, calls, taskv, judged
<1>3. /\ mem' \in [Object -> States] /\ UNCHANGED <<taskMem, handleMem, jobMem, depMem>>
      /\ libMem' = [k \in LibKind |-> IF k \in K THEN "live" ELSE libMem[k]]
      /\ ObjectsTyped'
  <2>1. {The("engine"), The("ehandle"), The("queue")} = {The(k) : k \in K}
    OBVIOUS
  <2>2. K \in SUBSET LibKind /\ "live" \in States
    BY DEF LibKind, States
  <2>3. /\ mem' \in [Object -> States] /\ UNCHANGED <<taskMem, handleMem, jobMem, depMem>>
        /\ libMem' = [k \in LibKind |-> IF k \in K THEN "live" ELSE libMem[k]]
    BY <1>1, <2>1, <2>2, BecomeLib DEF IInv, Typed
  <2>4. /\ trash' \in Seq(({"task", "job"} \X Task) \cup {The("engine")})
        /\ tasks' \in Seq(Task) /\ queue' \in Seq(Task) /\ engines' \in BOOLEAN
        /\ taskLock' \subseteq App /\ engineLock' \subseteq App
    BY <1>1, <1>2 DEF ObjectsTyped, IInv, Typed
  <2> QED
    BY <2>2, <2>3, <2>4, ObjectsLib DEF IInv, Typed
<1>4. /\ PcTyped /\ libMem'["engine"] = "live" /\ libMem'["ehandle"] = "live" /\ libMem'["queue"] = "live"
      /\ \A k \in LibKind \ K : libMem'[k] = libMem[k]
  BY <1>3 DEF IInv, Typed, LibKind
<1>5. Open /\ walk = 0 /\ libMem["engine"] = "none"
  BY <1>1, Placed DEF Outside, ClosePath, Freeing, Finalizing, EngineFree, IInv, EngineOK
<1>6. /\ Gone /\ queue = <<>> /\ ~polled /\ \A t \in Task : status[t] = "IDLE"
      /\ \A b \in App : pc[b] \notin EngineFree \cup UsesEngine \cup {"mpi"}
  BY <1>5 DEF IInv, EngineOK
<1>7. /\ pc'[a] = "idle" /\ \A b \in App \ {a} : pc'[b] = pc[b]
      /\ \A w \in Worker : pc'[w] = "start" /\ pc[w] = "gone"
  BY <1>1, <1>6, Roles DEF Gone
<1>8. Open'
  BY <1>4, <1>5 DEF LibKind, Open
<1>9. Typed'
  <2>1. ConfigTyped'
    BY <1>2, ConfigSame DEF IInv, Typed
  <2>2. PcTyped'
    BY <1>1, <1>4, <1>7, Roles DEF PcTyped, AppLabel, WorkerLabel, Outside, Working
  <2>3. ThreadsTyped'
    <3>1. ASSUME NEW x \in Thread
          PROVE  \/ pc'[x] = pc[x] 
                 \/ pc'[x] \notin OnLabel \cup RanLabel \cup Commits \cup {"final", "dep"} /\ ran[x] = NoTask
      <4>1. \A w \in Worker : ran[w] = NoTask
        BY <1>7, Roles DEF IInv, Typed, ThreadsTyped, RanLabel, Commits
      <4>2. ran[a] = NoTask
        BY <1>1 DEF IInv, Typed, ThreadsTyped, RanLabel, Commits
      <4> QED
        BY <1>7, <4>1, <4>2, Roles DEF OnLabel, RanLabel, Commits, TaskCall, TaskFree
    <3> QED
      BY <1>2, <3>1 DEF IInv, Typed, ThreadsTyped
  <2>4. StateTyped'
    <3>1. Cardinality(Worker) \in Nat /\ events \in BOOLEAN
      BY LibraryAssumption, FS_CardinalityType DEF IInv, Typed, ConfigTyped
    <3>2. njob' \in Nat
      BY <1>1, <3>1
    <3> QED
      BY <1>1, <1>2, <3>2 DEF StateTyped, IInv, Typed
  <2> QED
    BY <1>3, <2>1, <2>2, <2>3, <2>4 DEF Typed
<1>10. LibOK'
  <2>1. \A k \in {"engines", "disposer", "polls"} : libMem'[k] = "live"
    BY <1>4, <1>5 DEF IInv, LibOK, LibKind
  <2> QED
    BY <1>5, <1>7, <1>8, <2>1 DEF IInv, LibOK
<1>11. CloseOK'
  BY <1>2, <1>5, <1>7 DEF IInv, CloseOK, Finalizing, Alone
<1>12. TasksOK'
  <2>1. \A b \in App : /\ pc'[b] \in Freeing <=> pc[b] \in Freeing
                       /\ pc'[b] \in {"free", "finalize"} => pc'[b] = pc[b]
    BY <1>1, <1>7 DEF Freeing
  <2>2. \A t : Present(t)' <=> Present(t)
    BY <1>3 DEF Present
  <2> QED
    BY <1>2, <1>3, <1>5, <1>8, <2>1, <2>2 DEF IInv, TasksOK, Different, Elems
<1>13. EngineOK'
  <2>1. \A b \in App : pc'[b] \notin EngineFree \cup UsesEngine \cup {"mpi", "engine", "lists", "sweep", "polls"}
    <3>1. \A b \in App \ {a} : pc[b] # "engine"
      BY <1>1 DEF IInv, EngineOK
    <3>2. \A b \in App : pc[b] \notin {"lists", "sweep", "polls"}
      BY <1>5 DEF IInv, CloseOK, Finalizing
    <3> QED
      BY <1>6, <1>7, <3>1, <3>2 DEF EngineFree, UsesEngine
  <2>2. nt' = 0 => Gone'
    <3>1. Cardinality(Worker) = 0 => Worker = {}
      BY LibraryAssumption, FS_EmptySet
    <3> QED
      BY <1>1, <3>1 DEF Gone
  <2>3. engines' /\ ~polled'
    BY <1>1, <1>2, <1>6
  <2> QED
    BY <1>4, <1>8, <2>1, <2>2, <2>3 DEF EngineOK, EngineFree
<1>14. ~Failed /\ ~Failed' /\ (Ending' => Ending)
  BY <1>2, <1>4, <1>5, <1>7 DEF Failed, Ending, EngineFree
<1>15. TrashOK'
  BY <1>2, <1>3, <1>4, <1>5 DEF IInv, TrashOK, Different, Elems
<1>16. RunnersOK'
  <2>1. \A x \in Thread : pc'[x] = "final" <=> pc[x] = "final"
    BY <1>1, <1>7, Roles
  <2> QED
    BY <1>2, <2>1 DEF IInv, RunnersOK
<1>17. DepsOK'
  BY <1>1, <1>2, <1>3, <1>7 DEF IInv, DepsOK, Present
<1>18. \A x \in Thread : \/ pc'[x] = pc[x]
                         \/ pc'[x] \in {"start", "idle"} /\ pc[x] \in {"gone", "engine"}
  BY <1>1, <1>7, Roles
<1>19. HandsOK'
  <2>1. \A x \in Thread : \A t : Hand(x, t)' <=> Hand(x, t)
    BY <1>2, <1>18 DEF Hand
  <2>2. \A x \in Thread : pc'[x] \in HandLabel => pc'[x] = pc[x]
    BY <1>18 DEF HandLabel
  <2> QED
    BY <1>2, <1>3, <1>14, <2>1, <2>2 DEF IInv, HandsOK, Different, Elems, HandLabel
<1>20. ApartOK'
  <2>1. \A b \in App : \A t : (Frees(b, t)' => Frees(b, t)) /\ (Uses(b, t)' => Uses(b, t))
    BY <1>1, <1>2, <1>7 DEF Frees, Uses, TaskFree, TaskCall
  <2>2. \A b \in App : /\ pc'[b] = "create" => pc[b] = "create"
                       /\ pc'[b] = "dep" => pc[b] = "dep"
    BY <1>7
  <2>3. ASSUME NEW b \in App, NEW c \in App, NEW t \in Task
        PROVE  /\ ~(Frees(b, t)' /\ Uses(c, t)')
               /\ Frees(b, t)' /\ Frees(c, t)' => b = c
               /\ pc'[b] = "create" /\ Uses(b, t)' /\ Uses(c, t)' => b = c
               /\ pc'[b] = "dep" /\ pc'[c] = "dep" /\ on[b] = on[c] => b = c
    BY <2>1, <2>2 DEF IInv, ApartOK
  <2> QED
    BY <1>2, <2>3 DEF ApartOK
<1>21. HeldOK'
  <2>1. \A t : Present(t)' <=> Present(t)
    BY <1>3 DEF Present
  <2>2. ASSUME NEW x \in Thread
        PROVE  /\ pc'[x] \in {"wire", "queue", "token", "job", "final"} => Present(on[x])
               /\ ran[x] # NoTask => Present(ran[x])
    BY <1>18 DEF IInv, HeldOK
  <2>3. \A b \in App : pc'[b] = pc[b] \/ pc'[b] \notin {"wait", "spin", "commit", "dep", "wire", "create", "handle"}
                                            \cup Running \cup TaskFree
    BY <1>7 DEF Running, TaskFree
  <2> QED
    BY <1>2, <1>3, <1>6, <2>1, <2>2, <2>3 DEF IInv, HeldOK, Elems
<1>22. OrderlyOK'
  <2> SUFFICES ASSUME orderly PROVE OrderlyOK'
    BY <1>2 DEF OrderlyOK
  <2>1. (\A t : Ended(t)' <=> Ended(t)) /\ (NotBusy' <=> NotBusy)
    BY <1>2 DEF Ended, NotBusy
  <2>2. \A b \in App : /\ pc'[b] \in UsesEngine \cup TaskFree => pc'[b] = pc[b]
                       /\ pc'[b] # "nulljob"
    BY <1>7 DEF UsesEngine, TaskFree, IInv, OrderlyOK
  <2>3. \A x \in Thread : pc'[x] = "job" => pc[x] = "job"
    BY <1>18
  <2> QED
    BY <1>2, <1>3, <1>6, <1>14, <2>1, <2>2, <2>3 DEF IInv, OrderlyOK, Elems
<1> QED
  BY <1>9, <1>10, <1>11, <1>12, <1>13, <1>15, <1>16, <1>17, <1>19, <1>20, <1>21, <1>22 DEF IInv

LEMMA InitStep ==
  ASSUME IInv, NEW a \in App, TW_Init(a)
  PROVE  IInv'
<1> a \in Thread
  BY Roles
<1> DEFINE K == {"tasks", "engines", "disposer", "polls"}
<1>1. /\ pc[a] = "init" /\ Goto(a, "idle")
      /\ mem' = Becomes({The(k) : k \in {"tasks", "engines", "disposer", "polls"}}, "live")
      /\ tasks' = <<>> /\ engines' = FALSE /\ taskLock' = {} /\ engineLock' = {}
      /\ UNCHANGED <<config, calls, trash, taskv, enginev, judged>>
  BY DEF TW_Init, At
<1>2. /\ UNCHANGED <<parent, listens, events, script, on, awaits, ran, walk, trash>>
      /\ UNCHANGED <<status, ep, job, wanted, dep, queue, nt, njob, evtLock, polled, told, fault, orderly>>
      /\ UNCHANGED <<attached, refs>>
  BY <1>1, SameDeps DEF config, calls, taskv, enginev, judged
<1>3. /\ mem' \in [Object -> States] /\ UNCHANGED <<taskMem, handleMem, jobMem, depMem>>
      /\ libMem' = [k \in LibKind |-> IF k \in K THEN "live" ELSE libMem[k]]
      /\ ObjectsTyped'
  <2>1. K \in SUBSET LibKind /\ "live" \in States
    BY DEF LibKind, States
  <2>2. /\ mem' \in [Object -> States] /\ UNCHANGED <<taskMem, handleMem, jobMem, depMem>>
        /\ libMem' = [k \in LibKind |-> IF k \in K THEN "live" ELSE libMem[k]]
    BY <1>1, <2>1, BecomeLib DEF IInv, Typed
  <2>3. /\ trash' \in Seq(({"task", "job"} \X Task) \cup {The("engine")})
        /\ tasks' \in Seq(Task) /\ queue' \in Seq(Task) /\ engines' \in BOOLEAN
        /\ taskLock' \subseteq App /\ engineLock' \subseteq App
    <3>1. tasks' \in Seq(Task)
      BY <1>1
    <3>2. trash' \in Seq(({"task", "job"} \X Task) \cup {The("engine")}) /\ queue' \in Seq(Task)
      BY <1>2 DEF ObjectsTyped, IInv, Typed
    <3>3. engines' \in BOOLEAN /\ taskLock' \subseteq App /\ engineLock' \subseteq App
      BY <1>1
    <3> QED
      BY <3>1, <3>2, <3>3
  <2> QED
    BY <2>1, <2>2, <2>3, ObjectsLib DEF IInv, Typed
<1>4. /\ PcTyped /\ walk \in Nat
      /\ \A k \in LibKind : libMem'[k] = IF k \in K THEN "live" ELSE libMem[k]
  BY <1>3 DEF IInv, Typed, StateTyped
<1>5. ~Open /\ walk = 0 /\ \A b \in App \ {a} : pc[b] \in Outside
  BY <1>1 DEF IInv, LibOK
<1>6. /\ pc'[a] = "idle" /\ \A b \in App \ {a} : pc'[b] = pc[b]
      /\ \A w \in Worker : pc'[w] = pc[w]
  BY <1>1, <1>4, <1>5, Moved, Roles
<1>7. /\ libMem'["engine"] = libMem["engine"] /\ libMem'["queue"] = libMem["queue"]
      /\ libMem'["ehandle"] = libMem["ehandle"] /\ libMem'["poll"] = libMem["poll"]
      /\ Open' /\ \A k \in {"engines", "disposer", "polls"} : libMem'[k] = "live"
  BY <1>4 DEF LibKind, Open
<1>8. \A b \in App : pc'[b] \in Outside
  BY <1>5, <1>6 DEF Outside
<1>9. Typed'
  <2>1. Fits(a, "idle")
    BY <1>1, Roles DEF Fits, IInv, Typed, ThreadsTyped, AppLabel, Outside, OnLabel, RanLabel, Commits, TaskCall, TaskFree
  <2>2. ConfigTyped' /\ PcTyped' /\ ThreadsTyped'
    BY <1>1, <1>2, <2>1, ConfigSame, PcMove, ThreadsMove DEF IInv, Typed, Fits
  <2>3. StateTyped'
    BY <1>1, <1>2 DEF StateTyped, IInv, Typed
  <2> QED
    BY <1>3, <2>2, <2>3 DEF Typed
<1>10. LibOK'
  BY <1>7, <1>8 DEF LibOK, Outside
<1>11. CloseOK'
  BY <1>2, <1>5, <1>8 DEF CloseOK, Finalizing, Outside
<1>12. TasksOK'
  <2>1. \A t \in Task : ~Present(t)' /\ taskMem[t] # "live"
    BY <1>3, <1>5 DEF IInv, TasksOK, Present
  <2>2. Elems(tasks)' = {} /\ Different(tasks)'
    BY <1>1 DEF Elems, Different
  <2> QED
    BY <1>2, <1>3, <1>5, <1>7, <1>8, <2>1, <2>2 DEF IInv, TasksOK, Outside, Freeing
<1>13. EngineOK'
  <2>1. Gone /\ Gone' /\ libMem["engine"] # "live"
    BY <1>5, <1>6 DEF IInv, LibOK, Gone, EngineOK
  <2> QED
    BY <1>1, <1>2, <1>7, <1>8, <2>1 DEF IInv, EngineOK, Outside, EngineFree, UsesEngine
<1>14. (Failed <=> Failed') /\ (Ending' => Ending)
  BY <1>1, <1>2, <1>4, <1>5, <1>7, FailedMove, EndingMove DEF Ending, EngineFree
<1>15. TrashOK' /\ RunnersOK' /\ DepsOK'
  BY <1>1, <1>2, <1>3, <1>4, <1>7, TrashSame, RunnersMove, DepsMove DEF IInv
<1>16. HandsOK' /\ ApartOK'
  BY <1>1, <1>2, <1>3, <1>4, <1>14, HandsMove, ApartMove DEF IInv, HandLabel, TaskFree, TaskCall
<1>17. HeldOK'
  <2>1. Holds(a, "idle")
    BY <1>1 DEF Holds, TaskFree, Running
  <2> QED
    BY <1>1, <1>2, <1>3, <1>4, <2>1, HeldMove DEF IInv
<1>18. OrderlyOK'
  <2>1. OrderlyStays(a, "idle")
    BY <1>1 DEF OrderlyStays, EngineFree, TaskFree, UsesEngine
  <2> QED
    BY <1>1, <1>2, <1>3, <1>4, <1>14, <2>1, OrderlyMove DEF IInv
<1> QED
  BY <1>9, <1>10, <1>11, <1>12, <1>13, <1>15, <1>16, <1>17, <1>18 DEF IInv

LEMMA DrainFailsStep ==
  ASSUME IInv, NEW a \in App, DrainFails(a)
  PROVE  IInv'
<1> a \in Thread
  BY Roles
<1>1. /\ pc[a] = "drain" /\ Goto(a, "idle") /\ walk' = 0
      /\ queue # <<>> /\ Head(queue) \in wanted /\ queue' = Tail(queue)
      /\ mem' = Becomes({The("queue")}, "freed")
      /\ UNCHANGED <<config, script, on, awaits, ran, trash, lists, taskv, njob, nt, evtLock, polled, judged>>
  BY DEF DrainFails, At
<1>2. /\ UNCHANGED <<parent, listens, events, script, on, awaits, ran, trash, tasks, engines, taskLock>>
      /\ UNCHANGED <<status, ep, job, wanted, dep, nt, njob, evtLock, polled, told, fault, orderly>>
      /\ UNCHANGED <<attached, refs, engineLock>>
  BY <1>1, SameDeps DEF config, taskv, judged, lists
<1>3. /\ Head(queue) \in Elems(queue) /\ Different(queue') /\ Elems(queue') \subseteq Elems(queue)
      /\ queue' \in Seq(Task)
  BY <1>1, TailElems DEF IInv, HandsOK, Typed, ObjectsTyped
<1>4. Elems(queue)' = Elems(queue') /\ (Different(queue)' <=> Different(queue'))
  BY DEF Elems, Different
<1>5. /\ mem' \in [Object -> States] /\ UNCHANGED <<taskMem, handleMem, jobMem, depMem>>
      /\ libMem' = [k \in LibKind |-> IF k \in {"queue"} THEN "freed" ELSE libMem[k]]
      /\ ObjectsTyped'
  <2>1. {The("queue")} = {The(k) : k \in {"queue"}}
    OBVIOUS
  <2>2. {"queue"} \in SUBSET LibKind /\ "freed" \in States
    BY DEF LibKind, States
  <2>3. /\ mem' \in [Object -> States] /\ UNCHANGED <<taskMem, handleMem, jobMem, depMem>>
        /\ libMem' = [k \in LibKind |-> IF k \in {"queue"} THEN "freed" ELSE libMem[k]]
    BY <1>1, <2>1, <2>2, BecomeLib DEF IInv, Typed
  <2>4. /\ trash' \in Seq(({"task", "job"} \X Task) \cup {The("engine")})
        /\ tasks' \in Seq(Task) /\ queue' \in Seq(Task) /\ engines' \in BOOLEAN
        /\ taskLock' \subseteq App /\ engineLock' \subseteq App
    BY <1>2, <1>3 DEF ObjectsTyped, IInv, Typed
  <2> QED
    BY <2>2, <2>3, <2>4, ObjectsLib DEF IInv, Typed
<1>6. /\ PcTyped /\ walk \in Nat /\ libMem'["queue"] = "freed"
      /\ \A k \in LibKind \ {"queue"} : libMem'[k] = libMem[k]
  BY <1>5 DEF IInv, Typed, StateTyped, LibKind
<1>7. libMem["queue"] = "live" /\ libMem["engine"] = "live" /\ Open /\ ~Failed
  BY QueueThere DEF DrainFails
<1>8. /\ pc'[a] = "idle" /\ \A b \in App \ {a} : pc'[b] = pc[b]
      /\ \A w \in Worker : pc'[w] = pc[w]
  BY <1>1, <1>6, <1>7, Moved, Roles
<1>9. libMem'["engine"] = "live" /\ libMem'["ehandle"] = libMem["ehandle"] /\ Open'
  BY <1>6, <1>7 DEF LibKind, Open
<1>10. walk > 0 => \A b \in App \ {a} : pc[b] = "idle"
  BY <1>1, Closing
<1>11. Typed'
  <2>1. Fits(a, "idle")
    BY <1>1, Roles DEF Fits, IInv, Typed, ThreadsTyped, AppLabel, Outside, OnLabel, RanLabel, Commits, TaskCall, TaskFree
  <2>2. ConfigTyped' /\ PcTyped' /\ ThreadsTyped'
    BY <1>1, <1>2, <1>6, <2>1, ConfigSame, PcMove, ThreadsMove DEF IInv, Typed, Fits
  <2>3. StateTyped'
    BY <1>1, <1>2 DEF StateTyped, IInv, Typed
  <2> QED
    BY <1>5, <2>2, <2>3 DEF Typed
<1>12. LibOK'
  BY <1>1, <1>6, <1>7, LibOpen DEF IInv, LibKind
<1>13. CloseOK'
  <2>1. \A b \in App : pc'[b] \notin Finalizing
    BY <1>6, <1>8, <1>10 DEF IInv, CloseOK, Finalizing
  <2>2. \A b \in App : pc'[b] = "finalize" => pc[b] = "finalize" /\ b # a
    BY <1>8
  <2>3. \A b \in App : pc[b] = "finalize" /\ b # a => FALSE
    BY <1>1 DEF IInv, CloseOK, Alone
  <2> QED
    BY <1>1, <2>1, <2>2, <2>3 DEF CloseOK
<1>14. TasksOK'
  <2>1. \A b \in App : pc'[b] \in Freeing \cup {"free", "finalize"} =>
                          pc'[b] = pc[b] /\ walk = 0
    BY <1>6, <1>8, <1>10 DEF Freeing
  <2>2. \A b \in App : pc[b] \in Freeing => pc'[b] = pc[b]
    BY <1>1, <1>8 DEF Freeing
  <2>3. \A t : Present(t)' <=> Present(t)
    BY <1>5 DEF Present
  <2> QED
    BY <1>1, <1>2, <1>5, <1>7, <1>9, <2>1, <2>2, <2>3 DEF IInv, TasksOK, Different, Elems
<1>15. EngineOK'
  <2>1. Gone /\ Gone'
    BY <1>1, <1>8 DEF Gone, IInv, EngineOK
  <2>2. ASSUME NEW b \in App, b # a
        PROVE  /\ pc'[b] = pc[b] /\ pc[b] \notin EngineFree \cup {"engine", "lists", "sweep", "polls"}
    BY <1>1, <1>7, <1>8, <2>2 DEF IInv, EngineOK, EngineFree
  <2> QED
    BY <1>1, <1>2, <1>6, <1>7, <1>8, <1>9, <2>1, <2>2 DEF IInv, EngineOK, EngineFree, UsesEngine
<1>16. TrashOK' /\ RunnersOK' /\ DepsOK'
  BY <1>1, <1>2, <1>5, <1>6, <1>7, <1>9, TrashSame, RunnersMove, DepsMove DEF IInv
<1>17. Failed'
  <2>1. \A b \in App : pc'[b] # "edispose"
    BY <1>1, <1>8 DEF IInv, EngineOK, EngineFree
  <2> QED
    BY <1>6, <1>9, <2>1 DEF Failed
<1>18. HandsOK'
  <2>1. \A x \in Thread : pc'[x] \in HandLabel => pc'[x] = pc[x]
    BY <1>1, <1>6, Moved DEF HandLabel
  <2>2. \A x \in Thread : \A t : Hand(x, t)' => Hand(x, t)
    BY <1>2, <2>1 DEF Hand, HandLabel
  <2> QED
    BY <1>2, <1>3, <1>4, <1>5, <1>17, <2>1, <2>2 DEF IInv, HandsOK, HandLabel
<1>19. ApartOK'
  BY <1>1, <1>2, <1>6, ApartMove DEF IInv, TaskFree, TaskCall
<1>20. HeldOK'
  <2>1. \A t : Present(t)' <=> Present(t)
    BY <1>5 DEF Present
  <2>2. ASSUME NEW x \in Thread
        PROVE  /\ pc'[x] \in {"wire", "queue", "token", "job", "final"} => Present(on[x])
               /\ ran[x] # NoTask => Present(ran[x])
    BY <1>1, <1>6, Moved DEF IInv, HeldOK
  <2>3. \A b \in App : \/ pc'[b] = pc[b] /\ (pc[b] \in TaskFree => walk = 0)
                       \/ pc'[b] \notin {"wait", "spin", "commit", "dep", "wire", "create", "handle"}
                                            \cup Running \cup TaskFree
    BY <1>6, <1>8, <1>10 DEF Running, TaskFree
  <2> QED
    BY <1>2, <1>3, <1>4, <1>5, <2>1, <2>2, <2>3 DEF IInv, HeldOK
<1>21. OrderlyOK'
  <2>1. ~orderly
    <3> SUFFICES ASSUME orderly PROVE FALSE
      OBVIOUS
    <3>1. Head(queue) \in Task /\ status[Head(queue)] = "QUEUE"
      BY <1>3 DEF IInv, HandsOK, Typed, StateTyped, ObjectsTyped, Elems
    <3>2. NotBusy
      BY <1>1 DEF IInv, OrderlyOK, Ending, EngineFree
    <3> QED
      BY <3>1, <3>2 DEF NotBusy, Ended
  <2> QED
    BY <1>2, <2>1 DEF OrderlyOK
<1> QED
  BY <1>11, <1>12, <1>13, <1>14, <1>15, <1>16, <1>18, <1>19, <1>20, <1>21 DEF IInv

-----------------------------------------------------------------------------
(* What a step does to the memory of one task. *)

LEMMA BecomeTask ==
  ASSUME ObjectsTyped, NEW t \in Task, NEW s \in States
  PROVE  /\ mem' = Becomes({<<"task", t>>}, s) =>
              /\ mem' \in [Object -> States] /\ taskMem' = [taskMem EXCEPT ![t] = s]
              /\ UNCHANGED <<handleMem, jobMem, depMem, libMem>>
         /\ mem' = Becomes({<<"handle", t>>}, s) =>
              /\ mem' \in [Object -> States] /\ handleMem' = [handleMem EXCEPT ![t] = s]
              /\ UNCHANGED <<taskMem, jobMem, depMem, libMem>>
         /\ mem' = Becomes({<<"job", t>>}, s) =>
              /\ mem' \in [Object -> States] /\ jobMem' = [jobMem EXCEPT ![t] = s]
              /\ UNCHANGED <<taskMem, handleMem, depMem, libMem>>
         /\ mem' = Becomes({<<"dep", t>>}, s) =>
              /\ mem' \in [Object -> States] /\ depMem' = [depMem EXCEPT ![t] = s]
              /\ UNCHANGED <<taskMem, handleMem, jobMem, libMem>>
         /\ mem' = Becomes({<<"task", t>>, <<"handle", t>>}, s) =>
              /\ mem' \in [Object -> States] /\ taskMem' = [taskMem EXCEPT ![t] = s]
              /\ handleMem' = [handleMem EXCEPT ![t] = s]
              /\ UNCHANGED <<jobMem, depMem, libMem>>
<1>1. mem \in [Object -> States]
  BY DEF ObjectsTyped, States
<1>2. /\ taskMem = [u \in Task |-> taskMem[u]] /\ handleMem = [u \in Task |-> handleMem[u]]
      /\ jobMem = [u \in Task |-> jobMem[u]] /\ depMem = [u \in Task |-> depMem[u]]
      /\ libMem = [k \in LibKind |-> libMem[k]]
  BY DEF taskMem, handleMem, jobMem, depMem, libMem
<1>3. \A k \in LibKind : \A u \in Task : /\ The(k) # <<"task", u>> /\ The(k) # <<"handle", u>>
                                         /\ The(k) # <<"job", u>> /\ The(k) # <<"dep", u>>
  BY DEF The, LibKind
<1>4. ASSUME mem' = Becomes({<<"task", t>>}, s)
      PROVE  /\ mem' \in [Object -> States] /\ taskMem' = [taskMem EXCEPT ![t] = s]
             /\ UNCHANGED <<handleMem, jobMem, depMem, libMem>>
  <2> DEFINE O == {<<"task", t>>}
  <2>1. /\ \A u \in Task : /\ <<"task", u>> \in O <=> u = t
                           /\ <<"handle", u>> \notin O
                           /\ <<"job", u>> \notin O
                           /\ <<"dep", u>> \notin O
        /\ \A k \in LibKind : The(k) \notin O
    BY <1>3
  <2>0. mem' = Becomes(O, s)
    BY <1>4
  <2> HIDE DEF O
  <2>2. /\ mem' \in [Object -> States]
        /\ taskMem' = [u \in Task |-> IF <<"task", u>> \in O THEN s ELSE taskMem[u]]
        /\ handleMem' = [u \in Task |-> IF <<"handle", u>> \in O THEN s ELSE handleMem[u]]
        /\ jobMem' = [u \in Task |-> IF <<"job", u>> \in O THEN s ELSE jobMem[u]]
        /\ depMem' = [u \in Task |-> IF <<"dep", u>> \in O THEN s ELSE depMem[u]]
        /\ libMem' = [k \in LibKind |-> IF The(k) \in O THEN s ELSE libMem[k]]
    BY <1>1, <2>0, Become
  <2>3. taskMem' = [taskMem EXCEPT ![t] = s]
    BY <2>1, <2>2 DEF taskMem
  <2>4. handleMem' = handleMem
    BY <2>1, <2>2 DEF handleMem
  <2>5. jobMem' = jobMem
    BY <2>1, <2>2 DEF jobMem
  <2>6. depMem' = depMem
    BY <2>1, <2>2 DEF depMem
  <2>7. libMem' = libMem
    BY <2>1, <2>2 DEF libMem
  <2> QED
    BY <2>2, <2>3, <2>4, <2>5, <2>6, <2>7
<1>5. ASSUME mem' = Becomes({<<"handle", t>>}, s)
      PROVE  /\ mem' \in [Object -> States] /\ handleMem' = [handleMem EXCEPT ![t] = s]
             /\ UNCHANGED <<taskMem, jobMem, depMem, libMem>>
  <2> DEFINE O == {<<"handle", t>>}
  <2>1. /\ \A u \in Task : /\ <<"task", u>> \notin O
                           /\ <<"handle", u>> \in O <=> u = t
                           /\ <<"job", u>> \notin O
                           /\ <<"dep", u>> \notin O
        /\ \A k \in LibKind : The(k) \notin O
    BY <1>3
  <2>0. mem' = Becomes(O, s)
    BY <1>5
  <2> HIDE DEF O
  <2>2. /\ mem' \in [Object -> States]
        /\ taskMem' = [u \in Task |-> IF <<"task", u>> \in O THEN s ELSE taskMem[u]]
        /\ handleMem' = [u \in Task |-> IF <<"handle", u>> \in O THEN s ELSE handleMem[u]]
        /\ jobMem' = [u \in Task |-> IF <<"job", u>> \in O THEN s ELSE jobMem[u]]
        /\ depMem' = [u \in Task |-> IF <<"dep", u>> \in O THEN s ELSE depMem[u]]
        /\ libMem' = [k \in LibKind |-> IF The(k) \in O THEN s ELSE libMem[k]]
    BY <1>1, <2>0, Become
  <2>3. taskMem' = taskMem
    BY <2>1, <2>2 DEF taskMem
  <2>4. handleMem' = [handleMem EXCEPT ![t] = s]
    BY <2>1, <2>2 DEF handleMem
  <2>5. jobMem' = jobMem
    BY <2>1, <2>2 DEF jobMem
  <2>6. depMem' = depMem
    BY <2>1, <2>2 DEF depMem
  <2>7. libMem' = libMem
    BY <2>1, <2>2 DEF libMem
  <2> QED
    BY <2>2, <2>3, <2>4, <2>5, <2>6, <2>7
<1>6. ASSUME mem' = Becomes({<<"job", t>>}, s)
      PROVE  /\ mem' \in [Object -> States] /\ jobMem' = [jobMem EXCEPT ![t] = s]
             /\ UNCHANGED <<taskMem, handleMem, depMem, libMem>>
  <2> DEFINE O == {<<"job", t>>}
  <2>1. /\ \A u \in Task : /\ <<"task", u>> \notin O
                           /\ <<"handle", u>> \notin O
                           /\ <<"job", u>> \in O <=> u = t
                           /\ <<"dep", u>> \notin O
        /\ \A k \in LibKind : The(k) \notin O
    BY <1>3
  <2>0. mem' = Becomes(O, s)
    BY <1>6
  <2> HIDE DEF O
  <2>2. /\ mem' \in [Object -> States]
        /\ taskMem' = [u \in Task |-> IF <<"task", u>> \in O THEN s ELSE taskMem[u]]
        /\ handleMem' = [u \in Task |-> IF <<"handle", u>> \in O THEN s ELSE handleMem[u]]
        /\ jobMem' = [u \in Task |-> IF <<"job", u>> \in O THEN s ELSE jobMem[u]]
        /\ depMem' = [u \in Task |-> IF <<"dep", u>> \in O THEN s ELSE depMem[u]]
        /\ libMem' = [k \in LibKind |-> IF The(k) \in O THEN s ELSE libMem[k]]
    BY <1>1, <2>0, Become
  <2>3. taskMem' = taskMem
    BY <2>1, <2>2 DEF taskMem
  <2>4. handleMem' = handleMem
    BY <2>1, <2>2 DEF handleMem
  <2>5. jobMem' = [jobMem EXCEPT ![t] = s]
    BY <2>1, <2>2 DEF jobMem
  <2>6. depMem' = depMem
    BY <2>1, <2>2 DEF depMem
  <2>7. libMem' = libMem
    BY <2>1, <2>2 DEF libMem
  <2> QED
    BY <2>2, <2>3, <2>4, <2>5, <2>6, <2>7
<1>7. ASSUME mem' = Becomes({<<"dep", t>>}, s)
      PROVE  /\ mem' \in [Object -> States] /\ depMem' = [depMem EXCEPT ![t] = s]
             /\ UNCHANGED <<taskMem, handleMem, jobMem, libMem>>
  <2> DEFINE O == {<<"dep", t>>}
  <2>1. /\ \A u \in Task : /\ <<"task", u>> \notin O
                           /\ <<"handle", u>> \notin O
                           /\ <<"job", u>> \notin O
                           /\ <<"dep", u>> \in O <=> u = t
        /\ \A k \in LibKind : The(k) \notin O
    BY <1>3
  <2>0. mem' = Becomes(O, s)
    BY <1>7
  <2> HIDE DEF O
  <2>2. /\ mem' \in [Object -> States]
        /\ taskMem' = [u \in Task |-> IF <<"task", u>> \in O THEN s ELSE taskMem[u]]
        /\ handleMem' = [u \in Task |-> IF <<"handle", u>> \in O THEN s ELSE handleMem[u]]
        /\ jobMem' = [u \in Task |-> IF <<"job", u>> \in O THEN s ELSE jobMem[u]]
        /\ depMem' = [u \in Task |-> IF <<"dep", u>> \in O THEN s ELSE depMem[u]]
        /\ libMem' = [k \in LibKind |-> IF The(k) \in O THEN s ELSE libMem[k]]
    BY <1>1, <2>0, Become
  <2>3. taskMem' = taskMem
    BY <2>1, <2>2 DEF taskMem
  <2>4. handleMem' = handleMem
    BY <2>1, <2>2 DEF handleMem
  <2>5. jobMem' = jobMem
    BY <2>1, <2>2 DEF jobMem
  <2>6. depMem' = [depMem EXCEPT ![t] = s]
    BY <2>1, <2>2 DEF depMem
  <2>7. libMem' = libMem
    BY <2>1, <2>2 DEF libMem
  <2> QED
    BY <2>2, <2>3, <2>4, <2>5, <2>6, <2>7
<1>8. ASSUME mem' = Becomes({<<"task", t>>, <<"handle", t>>}, s)
      PROVE  /\ mem' \in [Object -> States] /\ taskMem' = [taskMem EXCEPT ![t] = s]
             /\ handleMem' = [handleMem EXCEPT ![t] = s]
             /\ UNCHANGED <<jobMem, depMem, libMem>>
  <2> DEFINE O == {<<"task", t>>, <<"handle", t>>}
  <2>1. /\ \A u \in Task : /\ <<"task", u>> \in O <=> u = t
                           /\ <<"handle", u>> \in O <=> u = t
                           /\ <<"job", u>> \notin O
                           /\ <<"dep", u>> \notin O
        /\ \A k \in LibKind : The(k) \notin O
    BY <1>3
  <2>0. mem' = Becomes(O, s)
    BY <1>8
  <2> HIDE DEF O
  <2>2. /\ mem' \in [Object -> States]
        /\ taskMem' = [u \in Task |-> IF <<"task", u>> \in O THEN s ELSE taskMem[u]]
        /\ handleMem' = [u \in Task |-> IF <<"handle", u>> \in O THEN s ELSE handleMem[u]]
        /\ jobMem' = [u \in Task |-> IF <<"job", u>> \in O THEN s ELSE jobMem[u]]
        /\ depMem' = [u \in Task |-> IF <<"dep", u>> \in O THEN s ELSE depMem[u]]
        /\ libMem' = [k \in LibKind |-> IF The(k) \in O THEN s ELSE libMem[k]]
    BY <1>1, <2>0, Become
  <2>3. taskMem' = [taskMem EXCEPT ![t] = s]
    BY <2>1, <2>2 DEF taskMem
  <2>4. handleMem' = [handleMem EXCEPT ![t] = s]
    BY <2>1, <2>2 DEF handleMem
  <2>5. jobMem' = jobMem
    BY <2>1, <2>2 DEF jobMem
  <2>6. depMem' = depMem
    BY <2>1, <2>2 DEF depMem
  <2>7. libMem' = libMem
    BY <2>1, <2>2 DEF libMem
  <2> QED
    BY <2>2, <2>3, <2>4, <2>5, <2>6, <2>7
<1> QED
  BY <1>4, <1>5, <1>6, <1>7, <1>8

LEMMA DrainDisposesStep ==
  ASSUME IInv, NEW a \in App, DrainDisposes(a)
  PROVE  IInv'
<1> a \in Thread
  BY Roles
<1> DEFINE h == Head(queue)
<1>1. /\ pc[a] = "drain" /\ queue # <<>> /\ h \notin wanted /\ queue' = Tail(queue)
      /\ mem' = Becomes({<<"job", h>>}, "disposed") /\ trash' = << <<"job", h>> >> \o trash
      /\ UNCHANGED <<config, pc, calls, lists, taskv, njob, nt, evtLock, polled, judged>>
  BY DEF DrainDisposes, At
<1>2. /\ UNCHANGED <<pc, parent, listens, events, script, on, awaits, ran, walk, tasks, engines, taskLock>>
      /\ UNCHANGED <<status, ep, job, wanted, dep, nt, njob, evtLock, polled, told, fault, orderly>>
      /\ UNCHANGED <<attached, refs, engineLock>>
  BY <1>1, SameDeps DEF config, calls, taskv, judged, lists
<1>3. /\ h \in Task /\ h \in Elems(queue) /\ Different(queue') /\ Elems(queue') = Elems(queue) \ {h}
      /\ queue' \in Seq(Task)
  BY <1>1, TailElems DEF IInv, HandsOK, Typed, ObjectsTyped
<1>4. Elems(queue)' = Elems(queue') /\ (Different(queue)' <=> Different(queue'))
  BY DEF Elems, Different
<1> HIDE DEF h
<1>5. libMem["queue"] = "live" /\ libMem["engine"] = "live" /\ Open /\ ~Failed
  BY QueueThere DEF DrainDisposes
<1>6. /\ status[h] = "QUEUE" /\ jobMem[h] = "live" /\ \A x \in Thread : ~Hand(x, h)
  BY <1>3 DEF IInv, HandsOK
<1>7. /\ mem' \in [Object -> States] /\ UNCHANGED <<taskMem, handleMem, depMem, libMem>>
      /\ jobMem' = [jobMem EXCEPT ![h] = "disposed"]
  BY <1>1, <1>3, BecomeTask DEF IInv, Typed, States
<1>8. /\ jobMem'[h] = "disposed" /\ \A t \in Task : t # h => jobMem'[t] = jobMem[t]
      /\ jobMem' \in [Task -> States]
  BY <1>3, <1>7 DEF IInv, Typed, ObjectsTyped, States
<1>9. /\ <<"job", h>> \notin Elems(trash)
      /\ trash \in Seq(({"task", "job"} \X Task) \cup {The("engine")}) /\ Different(trash)
  BY <1>3, <1>6 DEF IInv, TrashOK, Typed, ObjectsTyped
<1>10. /\ trash' \in Seq(({"task", "job"} \X Task) \cup {The("engine")})
       /\ Elems(trash') = {<<"job", h>>} \cup Elems(trash) /\ Different(trash')
  <2> DEFINE S == ({"task", "job"} \X Task) \cup {The("engine")}
  <2> DEFINE x == <<"job", h>>
  <2>1. x \in S
    BY <1>3
  <2>2. x \notin Elems(trash) /\ trash \in Seq(S) /\ Different(trash)
    BY <1>9
  <2>3. trash' = <<x>> \o trash
    BY <1>1
  <2> HIDE DEF S, x
  <2>4. <<x>> \o trash \in Seq(S) /\ Elems(<<x>> \o trash) = {x} \cup Elems(trash) /\ Different(<<x>> \o trash)
    BY <2>1, <2>2, ConsElems
  <2> QED
    BY <2>3, <2>4 DEF S, x
<1>11. Typed'
  <2>1. ConfigTyped' /\ PcTyped' /\ ThreadsTyped' /\ StateTyped'
    BY <1>2 DEF IInv, Typed, ConfigTyped, PcTyped, ThreadsTyped, StateTyped
  <2>2. ObjectsTyped'
    BY <1>2, <1>3, <1>7, <1>8, <1>10 DEF IInv, Typed, ObjectsTyped, States
  <2> QED
    BY <2>1, <2>2 DEF Typed
<1>12. LibOK' /\ Open'
  BY <1>2, <1>5, <1>7 DEF IInv, LibOK, Open
<1>13. CloseOK' /\ RunnersOK' /\ ApartOK'
  BY <1>2 DEF IInv, CloseOK, Alone, RunnersOK, ApartOK, Frees, Uses
<1>14. TasksOK'
  BY <1>2, <1>5, <1>7, <1>12 DEF IInv, TasksOK, Different, Elems, Present, Done
<1>15. TrashOK'
  <2>1. \A t \in Task : <<"task", t>> # <<"job", h>> /\ (<<"job", t>> = <<"job", h>> <=> t = h)
    OBVIOUS
  <2>2. The("engine") # <<"job", h>>
    BY DEF The
  <2>3. Elems(trash)' = {<<"job", h>>} \cup Elems(trash) /\ Different(trash)'
    BY <1>10 DEF Elems, Different
  <2> QED
    BY <1>7, <1>8, <2>1, <2>2, <2>3 DEF IInv, TrashOK
<1>16. EngineOK'
  BY <1>2, <1>5, <1>7, <1>12, <1>1 DEF IInv, EngineOK, EngineFree, Gone
<1>17. (Failed <=> Failed') /\ (Ending' <=> Ending)
  BY <1>2, <1>7 DEF Failed, Ending
<1>18. HandsOK'
  <2>1. \A x \in Thread : \A t : Hand(x, t)' <=> Hand(x, t)
    BY <1>2 DEF Hand
  <2>2. \A x \in Thread : pc[x] \in HandLabel => on[x] # h /\ on[x] \in Task
    BY <1>6 DEF Hand, HandLabel, IInv, Typed, ThreadsTyped, OnLabel, TaskCall
  <2>3. \A t \in Elems(queue)' : status[t] = "QUEUE" /\ jobMem'[t] = "live" /\ \A x \in Thread : ~Hand(x, t)
    <3>1. \A t \in Elems(queue) : t \in Task
      BY DEF Elems, IInv, Typed, ObjectsTyped
    <3> QED
      BY <1>3, <1>4, <1>8, <3>1 DEF IInv, HandsOK
  <2>4. ASSUME NEW x \in Thread
        PROVE  /\ pc[x] = "wire" => status[on[x]] = "DEPHOLD" /\ ~attached[on[x]]
               /\ pc[x] = "queue" => status[on[x]] = "QUEUE" /\ jobMem'[on[x]] = "none"
               /\ pc[x] = "job" => status[on[x]] = "QUEUE" /\ jobMem'[on[x]] = "live"
               /\ pc[x] = "final" => status[on[x]] = "RUNNING"
    BY <1>8, <2>2 DEF IInv, HandsOK, HandLabel
  <2>5. ASSUME NEW t \in Task
        PROVE  /\ status[t] \in {"IDLE", "DEPHOLD"} => jobMem'[t] = "none" /\ ~job[t] /\ t \notin wanted
               /\ status[t] \in {"RUNNING", "COMPLETED"} => jobMem'[t] = "live"
               /\ ep[t] => status[t] # "IDLE"
               /\ jobMem'[t] = "live" => \/ status[t] = "COMPLETED" \/ Failed \/ t \in Elems(queue)'
                                         \/ \E x \in Thread : Hand(x, t)
    BY <1>3, <1>4, <1>6, <1>8 DEF IInv, HandsOK
  <2>6. \A x1, x2 \in Thread : \A t \in Task : Hand(x1, t) /\ Hand(x2, t) => x1 = x2
    BY DEF IInv, HandsOK
  <2> QED
    BY <1>2, <1>3, <1>4, <1>17, <2>1, <2>3, <2>4, <2>5, <2>6 DEF HandsOK
<1>19. HeldOK'
  <2>1. \A t : Present(t)' <=> Present(t)
    BY <1>7 DEF Present
  <2> QED
    BY <1>2, <1>3, <1>4, <1>7, <2>1 DEF IInv, HeldOK
<1>20. DepsOK'
  BY <1>2, <1>7 DEF IInv, DepsOK, Present
<1>21. OrderlyOK'
  <2>1. (\A t : Ended(t)' <=> Ended(t)) /\ (NotBusy' <=> NotBusy)
    BY <1>2 DEF Ended, NotBusy
  <2> QED
    BY <1>2, <1>3, <1>4, <1>7, <1>17, <2>1 DEF IInv, OrderlyOK
<1> QED
  BY <1>11, <1>12, <1>13, <1>14, <1>15, <1>16, <1>18, <1>19, <1>20, <1>21 DEF IInv

-----------------------------------------------------------------------------
(* The life of a task. *)

LEMMA CreateStep ==
  ASSUME IInv, NEW a \in App, TW_Task_create(a)
  PROVE  IInv'
<1> a \in Thread
  BY Roles
<1> DEFINE t == on[a]
<1>1. /\ pc[a] = "create" /\ Goto(a, "idle")
      /\ mem' = Becomes({<<"task", t>>, <<"handle", t>>}, "live") /\ tasks' = Append(tasks, t)
      /\ UNCHANGED <<config, calls, trash, engines, taskLock, engineLock, taskv, enginev, judged>>
  BY DEF TW_Task_create, At
<1>2. /\ UNCHANGED <<parent, listens, events, script, on, awaits, ran, walk, trash, engines, taskLock>>
      /\ UNCHANGED <<status, ep, job, wanted, dep, queue, nt, njob, evtLock, polled, told, fault, orderly>>
      /\ UNCHANGED <<attached, refs, engineLock>>
  BY <1>1, SameDeps DEF config, calls, taskv, enginev, judged
<1>3. /\ t \in Task /\ handleMem[t] = "none" /\ taskMem[t] = "none"
  BY <1>1 DEF IInv, HeldOK, TasksOK, Typed, ThreadsTyped, OnLabel, TaskCall
<1> t' = t
  BY <1>2
<1> HIDE DEF t
<1>4. /\ mem' \in [Object -> States] /\ UNCHANGED <<jobMem, depMem, libMem>>
      /\ taskMem' = [taskMem EXCEPT ![t] = "live"] /\ handleMem' = [handleMem EXCEPT ![t] = "live"]
  BY <1>1, <1>3, BecomeTask DEF IInv, Typed, States
<1>5. /\ taskMem'[t] = "live" /\ \A u \in Task : u # t => taskMem'[u] = taskMem[u]
      /\ handleMem'[t] = "live" /\ \A u \in Task : u # t => handleMem'[u] = handleMem[u]
      /\ taskMem' \in [Task -> States] /\ handleMem' \in [Task -> {"none", "live", "freed"}]
  BY <1>3, <1>4 DEF IInv, Typed, ObjectsTyped, States
<1>6. PcTyped /\ walk \in Nat /\ Open /\ walk = 0
  BY <1>1, Placed DEF IInv, Typed, Outside, ClosePath, Finalizing, Freeing, EngineFree
<1>7. t \notin Elems(tasks)
  BY <1>3, <1>6 DEF IInv, TasksOK, Present
<1>8. tasks' \in Seq(Task) /\ Elems(tasks') = Elems(tasks) \cup {t} /\ Different(tasks')
  BY <1>1, <1>3, <1>7, AppendElems DEF IInv, Typed, ObjectsTyped, TasksOK
<1>9. pc'[a] = "idle" /\ \A b \in App \ {a} : pc'[b] = pc[b]
  BY <1>1, <1>6, Moved, Roles
<1>10. Typed'
  <2>1. Fits(a, "idle")
    BY <1>1, Roles DEF Fits, IInv, Typed, ThreadsTyped, AppLabel, Outside, OnLabel, RanLabel, Commits, TaskCall, TaskFree
  <2>2. ConfigTyped' /\ PcTyped' /\ ThreadsTyped'
    BY <1>1, <1>2, <2>1, ConfigSame, PcMove, ThreadsMove DEF IInv, Typed, Fits
  <2>3. StateTyped'
    BY <1>1, <1>2 DEF StateTyped, IInv, Typed
  <2>4. ObjectsTyped'
    BY <1>1, <1>2, <1>4, <1>5, <1>8 DEF ObjectsTyped, IInv, Typed, States
  <2> QED
    BY <2>2, <2>3, <2>4 DEF Typed
<1>11. LibOK'
  BY <1>1, <1>4, <1>6, LibOpen DEF IInv
<1>12. CloseOK'
  BY <1>1, <1>2, <1>6, CloseMove DEF IInv, Finalizing
<1>13. Present(t)' /\ ~Present(t) /\ \A u \in Task : u # t => (Present(u)' <=> Present(u))
  BY <1>3, <1>5 DEF Present
<1>14. TasksOK'
  <2>1. Elems(tasks)' = Elems(tasks) \cup {t} /\ Different(tasks)'
    BY <1>8 DEF Elems, Different
  <2>2. \A b \in App : pc'[b] \in Freeing \cup {"free"} => b # a /\ pc'[b] = pc[b] /\ on[b] # t
    BY <1>3, <1>9 DEF Freeing, IInv, TasksOK
  <2>3. \A b \in App : pc'[b] # "finalize"
    BY <1>1, <1>9 DEF IInv, CloseOK, Alone
  <2>4. \A b \in App : pc[b] \in Freeing => pc'[b] = pc[b]
    BY <1>1, <1>9 DEF Freeing
  <2>5. Open' /\ walk' = 0
    BY <1>2, <1>4, <1>6 DEF Open
  <2>6. \A u \in Elems(tasks) : u \in Task
    BY DEF Elems, IInv, Typed, ObjectsTyped
  <2>7. \A u \in Task : taskMem'[u] = "live" => u \in Elems(tasks)' \/ \E b \in App : pc'[b] \in Freeing /\ on'[b] = u
    BY <1>2, <1>5, <2>1, <2>4 DEF IInv, TasksOK
  <2>8. \A u \in Elems(tasks)' : Present(u)'
    BY <1>6, <1>13, <2>1, <2>6 DEF IInv, TasksOK
  <2>9. \A b \in App : pc[b] \in OnLabel => on[b] \in Task
    BY Roles DEF IInv, Typed, ThreadsTyped
  <2>10. \A b \in App : pc'[b] \in Freeing \cup {"free"} => taskMem'[on'[b]] = "live"
    BY <1>2, <1>5, <2>2, <2>9 DEF IInv, TasksOK, OnLabel, Freeing, TaskFree
  <2>11. \A b \in App : pc'[b] \in Freeing => on'[b] \notin Elems(tasks)'
    BY <1>2, <1>6, <2>1, <2>2 DEF IInv, TasksOK
  <2>12. \A u \in Task : handleMem'[u] = "none" <=> taskMem'[u] = "none"
    BY <1>5 DEF IInv, TasksOK
  <2> QED
    BY <2>1, <2>3, <2>5, <2>7, <2>8, <2>10, <2>11, <2>12 DEF TasksOK
<1>15. TrashOK'
  BY <1>2, <1>3, <1>4, <1>5 DEF IInv, TrashOK, Elems, Different
<1>16. EngineOK'
  <2>1. EngineStays(a, "idle")
    BY <1>1 DEF EngineStays, EngineFree, UsesEngine
  <2> QED
    BY <1>1, <1>2, <1>4, <1>6, <2>1, EngineMove DEF IInv
<1>17. (Failed <=> Failed') /\ (Ending' => Ending)
  BY <1>1, <1>2, <1>4, <1>6, FailedMove, EndingMove DEF Ending, EngineFree
<1>18. RunnersOK' /\ HandsOK' /\ ApartOK'
  BY <1>1, <1>2, <1>4, <1>6, <1>17, RunnersMove, HandsMove, ApartMove DEF IInv, HandLabel, TaskFree, TaskCall
<1>19. HeldOK'
  <2>1. \A u \in Task : Present(u) => Present(u)'
    BY <1>13
  <2>2. ASSUME NEW x \in Thread
        PROVE  /\ pc'[x] \in {"wire", "queue", "token", "job", "final"} => Present(on[x])'
               /\ ran[x] # NoTask => Present(ran[x])'
    <3>1. \/ pc'[x] = pc[x] 
          \/ pc'[x] = "idle"
      BY <1>1, <1>6, Moved
    <3>2. pc[x] \in OnLabel => on[x] \in Task
      BY DEF IInv, Typed, ThreadsTyped
    <3>3. ran[x] # NoTask => ran[x] \in Task
      BY DEF IInv, Typed, ThreadsTyped
    <3>4. Present(on[x]) /\ on[x] \in Task => Present(on[x])'
      BY <1>2, <2>1
    <3>5. Present(ran[x]) /\ ran[x] \in Task => Present(ran[x])'
      BY <1>2, <2>1
    <3> QED
      BY <3>1, <3>2, <3>3, <3>4, <3>5 DEF IInv, HeldOK, OnLabel, TaskCall
  <2>3. \A u \in Elems(queue) : u \in Task
    BY DEF Elems, IInv, Typed, ObjectsTyped
  <2>4. ASSUME NEW b \in App
        PROVE  /\ pc'[b] \in {"commit", "dep", "wait"} => handleMem'[on[b]] = "live"
               /\ pc'[b] \in TaskFree /\ walk = 0 => handleMem'[on[b]] = "live"
               /\ pc'[b] \in {"commit", "dep", "wait", "wire"} => taskMem'[on[b]] = "live"
               /\ pc'[b] = "dep" => taskMem'[parent[on[b]]] = "live" /\ depMem[on[b]] = "none"
               /\ pc'[b] = "create" => handleMem'[on[b]] = "none"
               /\ pc'[b] = "handle" => taskMem'[on[b]] = "disposed"
               /\ pc'[b] = "wait" => awaits[b] = on[b]
               /\ pc'[b] \in {"wait", "spin"} \cup Running /\ (pc'[b] \in Commits => ran[b] # NoTask) =>
                      awaits[b] \in Task /\ Present(awaits[b])'
               /\ pc'[b] \in {"spin"} \cup Running /\ (pc'[b] \in Commits => ran[b] # NoTask) =>
                      status[awaits[b]] # "IDLE"
    <3>1. CASE b = a
      BY <1>9, <3>1 DEF TaskFree, Running
    <3>2. CASE b # a
      <4>1. pc'[b] = pc[b]
        BY <1>9, <3>2
      <4>2. pc[b] \in TaskCall \cup TaskFree => on[b] \in Task
        BY Roles DEF IInv, Typed, ThreadsTyped, OnLabel
      <4>3. pc[b] = "create" => on[b] # t
        BY <1>1, <1>3, <3>2 DEF t, IInv, ApartOK, Uses, TaskCall
      <4>4. /\ pc[b] \in {"commit", "dep", "wait"} => handleMem[on[b]] = "live"
            /\ pc[b] \in TaskFree /\ walk = 0 => handleMem[on[b]] = "live"
            /\ pc[b] \in {"commit", "dep", "wait", "wire"} => taskMem[on[b]] = "live"
            /\ pc[b] = "dep" => taskMem[parent[on[b]]] = "live" /\ depMem[on[b]] = "none" /\ parent[on[b]] \in Task
            /\ pc[b] = "create" => handleMem[on[b]] = "none"
            /\ pc[b] = "handle" => taskMem[on[b]] = "disposed"
            /\ pc[b] = "wait" => awaits[b] = on[b]
            /\ pc[b] \in {"wait", "spin"} \cup Running /\ (pc[b] \in Commits => ran[b] # NoTask) =>
                   awaits[b] \in Task /\ Present(awaits[b])
            /\ pc[b] \in {"spin"} \cup Running /\ (pc[b] \in Commits => ran[b] # NoTask) =>
                   status[awaits[b]] # "IDLE"
        BY Roles DEF IInv, HeldOK, Typed, ThreadsTyped
      <4>5. Present(awaits[b]) /\ awaits[b] \in Task => Present(awaits[b])'
        BY <1>2, <2>1
      <4> QED
        BY <1>3, <1>5, <4>1, <4>2, <4>3, <4>4, <4>5 DEF TaskCall, TaskFree
    <3> QED
      BY <3>1, <3>2
  <2>5. \A u \in Elems(queue)' : Present(u)'
    BY <1>2, <2>1, <2>3 DEF IInv, HeldOK, Elems
  <2> QED
    BY <1>2, <1>4, <2>2, <2>4, <2>5 DEF HeldOK
<1>20. DepsOK'
  <2>1. \A u \in Task : depMem[u] # "none" => u # t /\ parent[u] # t /\ parent[u] \in Task
    BY <1>3 DEF IInv, DepsOK
  <2>2. (\A b \in App : pc'[b] # "sweep") => \A b \in App : pc[b] # "sweep"
    BY <1>1, <1>9
  <2> QED
    BY <1>2, <1>4, <1>5, <1>13, <2>1, <2>2 DEF IInv, DepsOK
<1>21. OrderlyOK'
  <2>1. OrderlyStays(a, "idle")
    BY <1>1 DEF OrderlyStays, EngineFree, TaskFree, UsesEngine
  <2>2. \A u \in Task : handleMem'[u] = "freed" => handleMem[u] = "freed"
    BY <1>5
  <2> QED
    BY <1>1, <1>2, <1>6, <1>17, <2>1, <2>2, OrderlyMove DEF IInv
<1> QED
  BY <1>10, <1>11, <1>12, <1>14, <1>15, <1>16, <1>18, <1>19, <1>20, <1>21 DEF IInv

-----------------------------------------------------------------------------
(* Steps by which a task gets on: a thread between its commit and its end. *)

Advances(th, l) ==
    /\ Goto(th, l)
    /\ pc[th] \in {"commit", "wire"} \cup Running
    /\ l \in {"idle", "wire", "spin", "check"} \cup Running
    /\ l = "wire" => pc[th] = "commit" /\ on'[th] = on[th]
    /\ th \in Worker => l # "idle" /\ l # "spin"
    /\ \A x \in Thread : x # th => on'[x] = on[x]
    /\ UNCHANGED <<script, walk, taskMem, handleMem, libMem, trash, tasks, polled, engines, nt, parent>>
    /\ libMem["engine"] # "none"
    /\ queue' = queue \/ libMem["queue"] = "live"

LEMMA Advance ==
  ASSUME IInv, NEW th \in Thread, NEW l, Advances(th, l)
  PROVE  LibOK' /\ CloseOK' /\ TasksOK' /\ EngineOK' /\ ApartOK'
<1>1. /\ PcTyped /\ walk \in Nat /\ Goto(th, l)
      /\ UNCHANGED <<script, walk, taskMem, handleMem, libMem, trash, tasks, polled, engines, nt, parent>>
  BY DEF Advances, IInv, Typed, StateTyped
<1>2. pc[th] \in {"commit", "wire"} \cup Running /\ l \in {"idle", "wire", "spin", "check"} \cup Running
  BY DEF Advances
<1>3. Open
  BY <1>2, Placed, Roles DEF Running, Outside
<1>4. th \in App => walk = 0
  BY <1>1, <1>2, Placed DEF Running, ClosePath, Finalizing, Freeing, EngineFree
<1>5. LibOK'
  BY <1>1, <1>2, <1>3, LibOpen DEF IInv, Running
<1>6. CloseOK'
  <2>1. th \in App => /\ pc[th] # "idle" /\ l # "finalize" /\ (walk > 0 => l \in ClosePath)
                      /\ (walk = 0 => l \notin Finalizing)
    BY <1>2, <1>4 DEF Running, Finalizing
  <2> QED
    BY <1>1, <2>1, CloseMove DEF IInv
<1>7. \A x \in Thread : x # th => pc'[x] = pc[x] /\ on'[x] = on[x]
  BY <1>1, Moved DEF Advances
<1>8. pc'[th] = l
  BY <1>1, Moved
<1>9. TasksOK'
  <2>1. Open' /\ \A t : Present(t)' <=> Present(t)
    BY <1>1, <1>3 DEF Open, Present
  <2>2. \A b \in App : b # th => pc'[b] = pc[b] /\ on'[b] = on[b] /\ Done(b)' = Done(b)
    BY <1>1, <1>7, Roles DEF Done
  <2>3. l \notin Freeing \cup {"free", "finalize", "walk"} /\ pc[th] \notin Freeing
    BY <1>2 DEF Freeing, Running
  <2>4. \A b \in App : b = th => walk = 0
    BY <1>4
  <2> QED
    BY <1>1, <1>3, <1>8, <2>1, <2>2, <2>3, <2>4 DEF IInv, TasksOK, Different, Elems
<1>10. ApartOK'
  <2>1. ASSUME NEW b \in App, NEW t \in Task
        PROVE  (Frees(b, t)' => Frees(b, t)) /\ (Uses(b, t)' => Uses(b, t))
    <3>1. CASE b = th
      BY <1>2, <1>8, <3>1 DEF Frees, Uses, Running, TaskFree, TaskCall, Advances
    <3>2. CASE b # th
      BY <1>1, <1>7, <3>2, Roles DEF Frees, Uses
    <3> QED
      BY <3>1, <3>2
  <2>2. \A b \in App : /\ pc'[b] = "create" => pc[b] = "create"
                       /\ pc'[b] = "dep" => pc[b] = "dep" /\ on'[b] = on[b]
    BY <1>2, <1>7, <1>8, Roles DEF Running
  <2>3. ASSUME NEW b \in App, NEW c \in App, NEW t \in Task
        PROVE  /\ ~(Frees(b, t)' /\ Uses(c, t)')
               /\ Frees(b, t)' /\ Frees(c, t)' => b = c
               /\ pc'[b] = "create" /\ Uses(b, t)' /\ Uses(c, t)' => b = c
               /\ pc'[b] = "dep" /\ pc'[c] = "dep" /\ on'[b] = on'[c] => b = c
    BY <2>1, <2>2 DEF IInv, ApartOK
  <2> QED
    BY <2>3 DEF ApartOK
<1>11. EngineOK'
  <2>1. Open' /\ libMem["engine"] # "none" /\ (queue' = queue \/ libMem["queue"] = "live")
    BY <1>1, <1>3 DEF Open, Advances
  <2>2. pc[th] # "gone" /\ l # "gone"
    BY <1>2 DEF Running
  <2>3. Gone' <=> Gone
    BY <1>7, <1>8, <2>2, Roles DEF Gone
  <2>4. l \notin EngineFree \cup {"engine", "lists", "sweep", "polls"}
    BY <1>2 DEF EngineFree, Running
  <2>5. pc[th] \notin EngineFree \cup {"lists"}
    BY <1>2 DEF EngineFree, Running
  <2>6. \A b \in App : pc'[b] \in EngineFree \cup {"engine", "lists", "sweep", "polls"} => b # th /\ pc'[b] = pc[b]
    BY <1>7, <1>8, <2>4, Roles
  <2>7. \A b \in App : pc[b] \in EngineFree \cup {"lists"} => pc'[b] = pc[b]
    BY <1>7, <2>5, Roles
  <2>8. libMem["queue"] = "live" => libMem["engine"] = "live" /\ \A b \in App : pc[b] # "edispose"
    BY DEF IInv, EngineOK
  <2>9. nt = 0 => Gone' \/ \E b \in App : pc'[b] \in {"wake", "join"}
    BY <2>3, <2>7 DEF IInv, EngineOK, EngineFree
  <2>10. (\E b \in App : pc[b] \in {"erase", "lists"}) => \E b \in App : pc'[b] \in {"erase", "lists"}
    BY <2>7 DEF EngineFree
  <2>11. (libMem["engine"] # "live" => queue' = <<>>) /\ \A b \in App : pc'[b] = "edispose" => queue' = <<>>
    BY <2>1, <2>6, <2>8 DEF IInv, EngineOK, EngineFree
  <2>12. ASSUME NEW b \in App
         PROVE  /\ pc'[b] = "engine" => libMem["engine"] = "none"
                /\ pc'[b] \in EngineFree \ {"erase"} => libMem["engine"] = "live"
                /\ pc'[b] \in {"drain", "edispose"} => Gone'
                /\ pc'[b] = "edispose" => libMem["queue"] = "freed"
                /\ pc'[b] = "erase" => libMem["engine"] = "disposed" /\ libMem["ehandle"] = "live"
                /\ pc'[b] \in {"lists", "sweep", "polls"} => libMem["engine"] # "live"
    BY <2>3, <2>6 DEF IInv, EngineOK, EngineFree
  <2>13. \A b, c \in App : pc'[b] \in EngineFree /\ pc'[c] \in EngineFree => b = c
    BY <2>6 DEF IInv, EngineOK
  <2>14. \A b, c \in App : pc'[b] = "engine" /\ pc'[c] = "engine" => b = c
    BY <2>6 DEF IInv, EngineOK
  <2> QED
    BY <1>1, <1>3, <2>1, <2>3, <2>9, <2>10, <2>11, <2>12, <2>13, <2>14 DEF IInv, EngineOK
<1> QED
  BY <1>5, <1>6, <1>9, <1>10, <1>11

\* The hands, when only task t gets on.
LEMMA HandsKeep ==
  ASSUME PcTyped, HandsOK, NEW th \in Thread, NEW l, Goto(th, l), NEW t \in Task,
         Failed => Failed',
         \A x \in Thread : x # th => on'[x] = on[x],
         \A u \in Task : u # t =>
            /\ status'[u] = status[u] /\ jobMem'[u] = jobMem[u] /\ attached'[u] = attached[u]
            /\ (job'[u] => job[u]) /\ ep'[u] = ep[u] /\ (u \in wanted' => u \in wanted)
            /\ u \in Elems(queue') <=> u \in Elems(queue),
         \A x \in Thread : pc[x] \in HandLabel => on[x] \in Task,
         \A x \in Thread : x # th => ~Hand(x, t),
         pc[th] \in HandLabel => on[th] = t, l \in HandLabel => on'[th] = t,
         Elems(queue') \subseteq Task, Different(queue'),
         t \in Elems(queue') => l \notin HandLabel /\ status'[t] = "QUEUE" /\ jobMem'[t] = "live",
         l = "wire" => status'[t] = "DEPHOLD" /\ ~attached'[t],
         l = "queue" => status'[t] = "QUEUE" /\ jobMem'[t] = "none",
         l = "job" => status'[t] = "QUEUE" /\ jobMem'[t] = "live",
         l = "final" => status'[t] = "RUNNING",
         status'[t] \in {"IDLE", "DEPHOLD"} => jobMem'[t] = "none" /\ ~job'[t] /\ t \notin wanted',
         status'[t] \in {"RUNNING", "COMPLETED"} => jobMem'[t] = "live",
         ep'[t] => status'[t] # "IDLE",
         jobMem'[t] = "live" => status'[t] = "COMPLETED" \/ t \in Elems(queue') \/ l \in HandLabel
  PROVE  HandsOK'
<1>1. pc'[th] = l /\ \A x \in Thread : x # th => pc'[x] = pc[x] /\ on'[x] = on[x]
  BY Moved
<1>2. Elems(queue)' = Elems(queue') /\ (Different(queue)' <=> Different(queue'))
  BY DEF Elems, Different
<1>3. \A x \in Thread : \A u \in Task : u # t => (Hand(x, u)' <=> Hand(x, u))
  BY <1>1 DEF Hand, HandLabel
<1>4. \A x \in Thread : Hand(x, t)' <=> x = th /\ l \in HandLabel
  BY <1>1 DEF Hand, HandLabel
<1>5. \A th1, th2 \in Thread : \A u \in Task : Hand(th1, u)' /\ Hand(th2, u)' => th1 = th2
  <2> TAKE th1, th2 \in Thread
  <2> TAKE u \in Task
  <2>1. CASE u = t
    BY <1>4, <2>1
  <2>2. CASE u # t
    BY <1>3, <2>2 DEF HandsOK
  <2> QED
    BY <2>1, <2>2
<1>6. ASSUME NEW u \in Elems(queue')
      PROVE  status'[u] = "QUEUE" /\ jobMem'[u] = "live" /\ \A x \in Thread : ~Hand(x, u)'
  <2>1. CASE u = t
    BY <1>4, <2>1
  <2>2. CASE u # t
    BY <1>3, <2>2 DEF HandsOK
  <2> QED
    BY <2>1, <2>2
<1>7. ASSUME NEW x \in Thread
      PROVE  /\ pc'[x] = "wire" => status'[on'[x]] = "DEPHOLD" /\ ~attached'[on'[x]]
             /\ pc'[x] = "queue" => status'[on'[x]] = "QUEUE" /\ jobMem'[on'[x]] = "none"
             /\ pc'[x] = "job" => status'[on'[x]] = "QUEUE" /\ jobMem'[on'[x]] = "live"
             /\ pc'[x] = "final" => status'[on'[x]] = "RUNNING"
  <2>1. CASE x = th
    BY <1>1, <2>1 DEF HandLabel
  <2>2. CASE x # th
    <3>1. pc[x] \in HandLabel => on[x] \in Task /\ on[x] # t
      BY <2>2 DEF Hand, HandLabel
    <3> QED
      BY <1>1, <2>2, <3>1 DEF HandsOK, HandLabel
  <2> QED
    BY <2>1, <2>2
<1>8. ASSUME NEW u \in Task
      PROVE  /\ status'[u] \in {"IDLE", "DEPHOLD"} => jobMem'[u] = "none" /\ ~job'[u] /\ u \notin wanted'
             /\ status'[u] \in {"RUNNING", "COMPLETED"} => jobMem'[u] = "live"
             /\ ep'[u] => status'[u] # "IDLE"
             /\ jobMem'[u] = "live" => \/ status'[u] = "COMPLETED" \/ Failed' \/ u \in Elems(queue')
                                       \/ \E x \in Thread : Hand(x, u)'
  <2>1. CASE u = t
    BY <1>4, <2>1
  <2>2. CASE u # t
    BY <1>3, <2>2 DEF HandsOK
  <2> QED
    BY <2>1, <2>2
<1> QED
  BY <1>2, <1>5, <1>6, <1>7, <1>8 DEF HandsOK

\* The runners, when nobody begins or ends a task.
LEMMA RunnersKeep ==
  ASSUME IInv, NEW th \in Thread, NEW l, Goto(th, l), pc[th] # "final", UNCHANGED <<told, ran>>,
         \A u \in Task : status[u] = "COMPLETED" => status'[u] = "COMPLETED"
  PROVE  RunnersOK'
<1>1. \A x \in Thread : pc[x] = "final" => pc'[x] = "final"
  BY Moved DEF IInv, Typed
<1>2. told \subseteq Task /\ \A x \in Thread : ran[x] # NoTask => ran[x] \in Task
  BY DEF IInv, Typed, StateTyped, ThreadsTyped, ConfigTyped
<1> QED
  BY <1>1, <1>2 DEF IInv, RunnersOK

\* The dependencies, when none is wired.
LEMMA DepsKeep ==
  ASSUME PcTyped, DepsOK, NEW th \in Thread, NEW l, Goto(th, l), pc[th] # "sweep",
         UNCHANGED <<depMem, attached, refs, taskMem, parent>>,
         \A u \in Task : status'[u] = "IDLE" => status[u] = "IDLE"
  PROVE  DepsOK'
<1>1. \A t : Present(t)' <=> Present(t)
  BY DEF Present
<1>2. (\A a \in App : pc'[a] # "sweep") => \A a \in App : pc[a] # "sweep"
  BY Moved, Roles
<1> QED
  BY <1>1, <1>2 DEF DepsOK

\* What thread x has in hand, as HeldOK says it.
HeldBy(x) ==
    /\ pc[x] \in {"wire", "queue", "token", "job", "final"} => Present(on[x])
    /\ ran[x] # NoTask => Present(ran[x])

Awaited(a) ==
    /\ pc[a] \in {"wait", "spin"} \cup Running /\ (pc[a] \in Commits => ran[a] # NoTask) =>
           awaits[a] \in Task /\ Present(awaits[a])
    /\ pc[a] \in {"spin"} \cup Running /\ (pc[a] \in Commits => ran[a] # NoTask) =>
           status[awaits[a]] # "IDLE"

HeldIn(a) ==
    /\ pc[a] \in {"commit", "dep", "wait"} => handleMem[on[a]] = "live"
    /\ pc[a] \in TaskFree /\ walk = 0 => handleMem[on[a]] = "live"
    /\ pc[a] \in {"commit", "dep", "wait", "wire"} => taskMem[on[a]] = "live"
    /\ pc[a] = "dep" => taskMem[parent[on[a]]] = "live" /\ depMem[on[a]] = "none"
    /\ pc[a] = "create" => handleMem[on[a]] = "none"
    /\ pc[a] = "handle" => taskMem[on[a]] = "disposed"
    /\ pc[a] = "wait" => awaits[a] = on[a]
    /\ Awaited(a)

LEMMA HeldParts ==
  HeldOK <=> /\ \A t \in Elems(queue) : Present(t)
             /\ \A x \in Thread : HeldBy(x)
             /\ \A a \in App : HeldIn(a)
  BY DEF HeldOK, HeldBy, HeldIn, Awaited

\* What a step must leave to thread b of the application.
Spared(b) ==
    /\ pc[b] \in {"commit", "dep", "wait", "create"} \cup TaskFree => handleMem'[on[b]] = handleMem[on[b]]
    /\ pc[b] \in {"commit", "dep", "wait", "wire", "handle"} => taskMem'[on[b]] = taskMem[on[b]]
    /\ pc[b] = "dep" => /\ taskMem'[parent[on[b]]] = taskMem[parent[on[b]]]
                        /\ depMem'[on[b]] = depMem[on[b]]

LEMMA HeldKeep ==
  ASSUME PcTyped, ThreadsTyped, HeldOK, NEW th \in Thread, NEW l, Goto(th, l), UNCHANGED <<parent, walk>>,
         \A x \in Thread : x # th => on'[x] = on[x] /\ ran'[x] = ran[x],
         \A b \in App : b # th => awaits'[b] = awaits[b] /\ Spared(b),
         \A t \in Task : Present(t) => Present(t)',
         \A t \in Task : status[t] # "IDLE" => status'[t] # "IDLE",
         \A t \in Elems(queue') : Present(t)',
         HeldBy(th)', th \in App => HeldIn(th)'
  PROVE  HeldOK'
<1>1. \A x \in Thread : x # th => pc'[x] = pc[x]
  BY Moved
<1>2. \A t \in Elems(queue)' : Present(t)'
  BY DEF Elems
<1>3. ASSUME NEW x \in Thread
      PROVE  HeldBy(x)'
  <2>1. CASE x = th
    BY <2>1
  <2>2. CASE x # th
    <3>1. HeldBy(x) /\ pc'[x] = pc[x] /\ on'[x] = on[x] /\ ran'[x] = ran[x]
      BY <1>1, <2>2, HeldParts
    <3>2. /\ pc[x] \in {"wire", "queue", "token", "job", "final"} => on[x] \in Task
          /\ ran[x] # NoTask => ran[x] \in Task
      BY DEF ThreadsTyped, OnLabel, TaskCall
    <3>3. \A t \in Task : taskMem[t] \in {"live", "disposed"} => taskMem'[t] \in {"live", "disposed"}
      BY DEF Present
    <3> QED
      BY <3>1, <3>2, <3>3 DEF HeldBy, Present
  <2> QED
    BY <2>1, <2>2
<1>4. ASSUME NEW b \in App
      PROVE  HeldIn(b)'
  <2>1. CASE b = th
    BY <2>1
  <2>2. CASE b # th
    <3>1. /\ HeldIn(b) /\ pc'[b] = pc[b] /\ on'[b] = on[b] /\ ran'[b] = ran[b] /\ awaits'[b] = awaits[b]
          /\ Spared(b)
      BY <1>1, <2>2, Roles, HeldParts
    <3>2. Awaited(b)'
      <4>1. \A t \in Task : taskMem[t] \in {"live", "disposed"} => taskMem'[t] \in {"live", "disposed"}
        BY DEF Present
      <4> QED
        BY <3>1, <4>1 DEF HeldIn, Awaited, Present
    <3> QED
      BY <3>1, <3>2 DEF HeldIn, Spared
  <2> QED
    BY <2>1, <2>2
<1> QED
  BY <1>2, <1>3, <1>4 DEF HeldOK, HeldBy, HeldIn, Awaited

\* An orderly client, when task t gets on.
LEMMA OrderlyKeep ==
  ASSUME PcTyped, OrderlyOK, NEW th \in Thread, NEW l, Goto(th, l), NEW t \in Task,
         UNCHANGED <<orderly, walk, libMem, handleMem, told, listens>>, orderly => ~Ending,
         pc[th] # "edispose",
         th \in App => l \notin EngineFree \cup TaskFree \cup {"finalize"},
         \A x \in Thread : x # th => on'[x] = on[x],
         \A x \in App : pc[x] \in TaskFree => on[x] \in Task,
         \A u \in Task : u # t => status'[u] = status[u] /\ (job'[u] => job[u]),
         status[t] = "COMPLETED" => status'[t] = "COMPLETED",
         status[t] = "IDLE" => \/ status'[t] = "IDLE"
                               \/ handleMem[t] = "live" /\ \A b \in App : ~Frees(b, t),
         wanted \subseteq wanted', \A u \in Elems(queue') : u \in Elems(queue) \/ u \in wanted',
         orderly /\ l = "job" => on'[th] \in wanted',
         orderly /\ job'[t] => status'[t] = "QUEUE"
  PROVE  OrderlyOK'
<1> SUFFICES ASSUME orderly PROVE OrderlyOK'
  BY DEF OrderlyOK
<1>1. pc'[th] = l /\ \A x \in Thread : x # th => pc'[x] = pc[x] /\ on'[x] = on[x]
  BY Moved
<1>2. \A b \in App : pc'[b] \in TaskFree \cup EngineFree \cup {"finalize"} => b # th /\ pc'[b] = pc[b]
  BY <1>1, Roles
<1>3. ~Failed' /\ ~Ending'
  <2>1. ~Failed'
    BY FailedMove DEF OrderlyOK
  <2>2. ~Ending'
    BY <1>2 DEF Ending
  <2> QED
    BY <2>1, <2>2
<1>4. Elems(queue)' = Elems(queue')
  BY DEF Elems
<1>5. \A u \in Task : (status[u] = "IDLE" \/ Ended(u)) /\ (u = t /\ status[t] = "IDLE" => status'[t] = "IDLE")
                      => status'[u] = "IDLE" \/ Ended(u)'
  BY DEF Ended
<1>6. \A b \in App : (pc[b] \in TaskFree => status[on[b]] = "IDLE" \/ Ended(on[b]))'
  <2> SUFFICES ASSUME NEW b \in App, pc'[b] \in TaskFree
               PROVE  status'[on'[b]] = "IDLE" \/ Ended(on[b])'
    OBVIOUS
  <2>1. pc[b] \in TaskFree /\ on'[b] = on[b] /\ on[b] \in Task
    BY <1>1, <1>2, Roles
  <2>2. status[on[b]] = "IDLE" \/ Ended(on[b])
    BY <2>1 DEF OrderlyOK
  <2>3. on[b] = t /\ status[t] = "IDLE" => status'[t] = "IDLE"
    BY <2>1 DEF Frees
  <2> QED
    BY <2>1, <2>2, <2>3 DEF Ended
<1>7. \A u \in Task : handleMem'[u] = "freed" => status'[u] = "IDLE" \/ Ended(u)'
  BY <1>5 DEF OrderlyOK
<1>8. \A b \in App : pc'[b] # "nulljob"
  BY <1>2 DEF OrderlyOK, TaskFree
<1>9. \A x \in Thread : pc'[x] = "job" => on'[x] \in wanted'
  BY <1>1 DEF OrderlyOK
<1>10. \A u \in Task : job'[u] => status'[u] = "QUEUE"
  BY DEF OrderlyOK
<1>11. \A u \in Elems(queue') : u \in wanted'
  BY DEF OrderlyOK
<1> QED
  BY <1>3, <1>4, <1>6, <1>7, <1>8, <1>9, <1>10, <1>11 DEF OrderlyOK

LEMMA AddDepStep ==
  ASSUME IInv, NEW a \in App, TWNATIVE_Task_add_dep(a)
  PROVE  IInv'
<1> a \in Thread
  BY Roles
<1> DEFINE t == on[a]
<1>1. /\ pc[a] = "dep" /\ Goto(a, "idle")
      /\ UNCHANGED <<config, calls, trash, lists, status, ep, job, wanted, enginev, judged>>
      /\ \/ status[t] # "IDLE" /\ UNCHANGED <<mem, dep>>
         \/ status[t] = "IDLE" /\ mem' = Becomes({<<"dep", t>>}, "live") /\ dep' = [dep EXCEPT ![t].ref = 2]
  BY DEF TWNATIVE_Task_add_dep, At
<1>2. /\ UNCHANGED <<parent, listens, events, script, on, awaits, ran, walk, trash, tasks, engines, taskLock>>
      /\ UNCHANGED <<status, ep, job, wanted, queue, nt, njob, evtLock, polled, told, fault, orderly>>
      /\ UNCHANGED engineLock
  BY <1>1 DEF config, calls, enginev, judged, lists
<1>3. /\ t \in Task /\ handleMem[t] = "live" /\ taskMem[t] = "live" /\ depMem[t] = "none"
      /\ parent[t] \in Task /\ taskMem[parent[t]] = "live"
  BY <1>1 DEF IInv, HeldOK, Typed, ThreadsTyped, OnLabel, TaskCall
<1> t' = t
  BY <1>2
<1>4. Fits(a, "idle")
  BY <1>1, Roles DEF Fits, IInv, Typed, ThreadsTyped, AppLabel, Outside, OnLabel, RanLabel, Commits, TaskCall, TaskFree
<1>5. EngineStays(a, "idle") /\ OrderlyStays(a, "idle")
  BY <1>1 DEF EngineStays, OrderlyStays, EngineFree, TaskFree, UsesEngine
<1>6. CASE UNCHANGED <<mem, dep>>
  <2>1. Moves(a, "idle")
    BY <1>1, <1>4, <1>5, Placed, Roles DEF Moves, Passes, Holds, HandLabel, Freeing, TaskCall, TaskFree,
       Running, ClosePath, Finalizing, EngineFree, Outside
  <2>2. taskLock' \subseteq App /\ engineLock' \subseteq App /\ njob' \in Nat /\ evtLock' \in BOOLEAN
    BY <1>2 DEF IInv, Typed, StateTyped, ObjectsTyped
  <2> QED
    BY <1>1, <1>6, <2>1, <2>2, Steps DEF lists, enginev, taskv
<1>7. CASE mem' = Becomes({<<"dep", t>>}, "live") /\ dep' = [dep EXCEPT ![t].ref = 2] /\ status[t] = "IDLE"
  <2> HIDE DEF t
  <2>1. /\ mem' \in [Object -> States] /\ UNCHANGED <<taskMem, handleMem, jobMem, libMem>>
        /\ depMem' = [depMem EXCEPT ![t] = "live"]
    BY <1>3, <1>7, BecomeTask DEF IInv, Typed, States
  <2>2. /\ dep' \in [Task -> [ref : Int, attached : BOOLEAN, orphan : BOOLEAN, childless : BOOLEAN]]
        /\ \A u \in Task : dep'[u].attached = dep[u].attached
        /\ dep'[t].ref = 2 /\ \A u \in Task : u # t => dep'[u].ref = dep[u].ref
    BY <1>3, <1>7 DEF IInv, Typed, StateTyped
  <2>3. attached' = attached /\ refs'[t] = 2 /\ \A u \in Task : u # t => refs'[u] = refs[u]
    BY <1>3, <2>2 DEF attached, refs
  <2>4. /\ depMem'[t] = "live" /\ \A u \in Task : u # t => depMem'[u] = depMem[u]
        /\ depMem' \in [Task -> {"none", "live", "freed"}]
    BY <1>3, <2>1 DEF IInv, Typed, ObjectsTyped
  <2>5. PcTyped /\ walk \in Nat /\ Open /\ walk = 0
    BY <1>1, Placed DEF IInv, Typed, Outside, ClosePath, Finalizing, Freeing, EngineFree
  <2>6. pc'[a] = "idle" /\ \A b \in App \ {a} : pc'[b] = pc[b]
    BY <1>1, <2>5, Moved, Roles
  <2>7. Typed'
    <3>1. ConfigTyped' /\ PcTyped' /\ ThreadsTyped'
      BY <1>1, <1>2, <1>4, ConfigSame, PcMove, ThreadsMove DEF IInv, Typed, Fits
    <3>2. StateTyped'
      BY <1>2, <2>2 DEF StateTyped, IInv, Typed
    <3>3. ObjectsTyped'
      BY <1>2, <2>1, <2>4 DEF ObjectsTyped, IInv, Typed, States
    <3> QED
      BY <3>1, <3>2, <3>3 DEF Typed
  <2>8. LibOK'
    BY <1>1, <2>1, <2>5, LibOpen DEF IInv
  <2>9. CloseOK'
    BY <1>1, <1>2, <2>5, CloseMove DEF IInv, Finalizing
  <2>10. TasksOK'
    BY <1>1, <1>2, <2>1, <2>5, TasksMove DEF IInv, Freeing
  <2>11. TrashOK'
    BY <1>2, <2>1, TrashSame DEF IInv
  <2>12. EngineOK'
    BY <1>1, <1>2, <1>5, <2>1, <2>5, EngineMove DEF IInv
  <2>13. (Failed <=> Failed') /\ (Ending' => Ending)
    BY <1>1, <1>2, <2>1, <2>5, FailedMove, EndingMove DEF Ending, EngineFree
  <2>14. RunnersOK' /\ HandsOK' /\ ApartOK'
    BY <1>1, <1>2, <2>1, <2>3, <2>5, <2>13, RunnersMove, HandsMove, ApartMove DEF IInv, HandLabel, TaskFree, TaskCall
  <2>15. HeldOK'
    <3>1. \A b \in App : b # a => Spared(b)
      <4> SUFFICES ASSUME NEW b \in App, b # a PROVE Spared(b)
        OBVIOUS
      <4>1. pc[b] = "dep" => on[b] # t /\ on[b] \in Task
        BY <1>1, Roles DEF t, IInv, ApartOK, Typed, ThreadsTyped, OnLabel, TaskCall
      <4> QED
        BY <1>2, <2>1, <2>4, <4>1 DEF Spared
    <3>2. HeldBy(a)'
      BY <1>1, <1>2, <2>6 DEF HeldBy, IInv, Typed, ThreadsTyped, RanLabel, Commits
    <3>3. HeldIn(a)'
      BY <2>6 DEF HeldIn, Awaited, TaskFree, Running
    <3>4. \A u : Present(u)' <=> Present(u)
      BY <2>1 DEF Present
    <3>5. \A u \in Elems(queue') : Present(u)'
      BY <1>2, <3>4 DEF IInv, HeldOK
    <3> QED
      BY <1>1, <1>2, <2>5, <3>1, <3>2, <3>3, <3>4, <3>5, HeldKeep DEF IInv, Typed
  <2>16. DepsOK'
    <3>1. \A u : Present(u)' <=> Present(u)
      BY <2>1 DEF Present
    <3>2. (\A b \in App : pc'[b] # "sweep") => \A b \in App : pc[b] # "sweep"
      BY <1>1, <2>6
    <3>3. Present(t) /\ Present(parent[t]) /\ ~attached[t]
      BY <1>3 DEF Present, IInv, DepsOK
    <3>4. refs'[t] = (IF taskMem[t] = "freed" THEN 0 ELSE 1)
                   + (IF taskMem[parent[t]] = "freed" /\ attached[t] THEN 0 ELSE 1)
      BY <1>3, <2>3
    <3> QED
      BY <1>2, <1>3, <2>1, <2>3, <2>4, <3>1, <3>2, <3>3, <3>4 DEF IInv, DepsOK
  <2>17. OrderlyOK'
    BY <1>1, <1>2, <1>5, <2>1, <2>5, <2>13, OrderlyMove DEF IInv
  <2> QED
    BY <2>7, <2>8, <2>9, <2>10, <2>11, <2>12, <2>14, <2>15, <2>16, <2>17 DEF IInv
<1> QED
  BY <1>1, <1>6, <1>7

LEMMA CommitStep ==
  ASSUME IInv, NEW a \in App, Commit(a)
  PROVE  IInv'
<1> a \in Thread
  BY Roles
<1> DEFINE t == on[a]
<1>1. /\ pc[a] = "commit" /\ UNCHANGED <<config, calls, objects, job, wanted, dep, enginev, judged>>
      /\ \/ Goto(a, "idle") /\ UNCHANGED <<status, ep>>
         \/ /\ Goto(a, "wire") /\ status[t] = "IDLE"
            /\ status' = [status EXCEPT ![t] = "DEPHOLD"] /\ ep' = [ep EXCEPT ![t] = TRUE]
  BY DEF Commit, At
<1>2. /\ UNCHANGED <<parent, listens, events, script, on, awaits, ran, walk, mem, trash, tasks, engines, taskLock>>
      /\ UNCHANGED <<job, wanted, dep, queue, nt, njob, evtLock, polled, told, fault, orderly>>
      /\ UNCHANGED <<taskMem, handleMem, jobMem, depMem, libMem, attached, refs, engineLock>>
  BY <1>1, SameMemory, SameDeps DEF config, calls, enginev, judged, objects, lists
<1>3. /\ t \in Task /\ handleMem[t] = "live" /\ taskMem[t] = "live" /\ libMem["engine"] # "none"
  BY <1>1 DEF IInv, HeldOK, EngineOK, UsesEngine, Typed, ThreadsTyped, OnLabel, TaskCall
<1> t' = t
  BY <1>2
<1>4. CASE Goto(a, "idle") /\ UNCHANGED <<status, ep>>
  <2>1. Fits(a, "idle")
    BY <1>1, Roles DEF Fits, IInv, Typed, ThreadsTyped, AppLabel, Outside, OnLabel, RanLabel, Commits, TaskCall, TaskFree
  <2>2. EngineStays(a, "idle") /\ OrderlyStays(a, "idle")
    BY <1>1 DEF EngineStays, OrderlyStays, EngineFree, TaskFree, UsesEngine
  <2>3. Moves(a, "idle")
    BY <1>1, <2>1, <2>2, Placed, Roles DEF Moves, Passes, Holds, HandLabel, Freeing, TaskCall, TaskFree,
       Running, ClosePath, Finalizing, EngineFree, Outside
  <2>4. taskLock' \subseteq App /\ engineLock' \subseteq App /\ njob' \in Nat /\ evtLock' \in BOOLEAN
    BY <1>2 DEF IInv, Typed, StateTyped, ObjectsTyped
  <2> QED
    BY <1>1, <1>4, <2>3, <2>4, Steps DEF objects, lists, enginev, taskv
<1>5. CASE /\ Goto(a, "wire") /\ status[t] = "IDLE"
           /\ status' = [status EXCEPT ![t] = "DEPHOLD"] /\ ep' = [ep EXCEPT ![t] = TRUE]
  <2> HIDE DEF t
  <2>1. /\ status'[t] = "DEPHOLD" /\ \A u \in Task : u # t => status'[u] = status[u] /\ ep'[u] = ep[u]
        /\ status' \in [Task -> {"IDLE", "DEPHOLD", "QUEUE", "RUNNING", "COMPLETED"}] /\ ep' \in [Task -> BOOLEAN]
    BY <1>3, <1>5 DEF IInv, Typed, StateTyped
  <2>2. PcTyped /\ walk \in Nat /\ ThreadsTyped
    BY DEF IInv, Typed, StateTyped
  <2>3. pc'[a] = "wire" /\ \A x \in Thread : x # a => pc'[x] = pc[x]
    BY <1>5, <2>2, Moved
  <2>4. Typed'
    <3>1. Fits(a, "wire")
      BY <1>1, Roles DEF Fits, IInv, Typed, ThreadsTyped, AppLabel, OnLabel, RanLabel, Commits, TaskCall, TaskFree
    <3>2. ConfigTyped' /\ PcTyped' /\ ThreadsTyped'
      BY <1>2, <1>5, <3>1, ConfigSame, PcMove, ThreadsMove DEF IInv, Typed, Fits
    <3>3. StateTyped' /\ ObjectsTyped'
      BY <1>2, <2>1 DEF StateTyped, ObjectsTyped, IInv, Typed
    <3> QED
      BY <3>2, <3>3 DEF Typed
  <2>5. LibOK' /\ CloseOK' /\ TasksOK' /\ EngineOK' /\ ApartOK'
    <3>1. Advances(a, "wire")
      BY <1>1, <1>2, <1>3, <1>5, Roles DEF Advances
    <3> QED
      BY <3>1, Advance
  <2>6. TrashOK'
    BY <1>2, TrashSame DEF IInv
  <2>7. Failed => Failed'
    BY <1>2, <1>5, <2>2, FailedMove
  <2>8. ~attached[t] /\ jobMem[t] = "none" /\ ~job[t] /\ t \notin wanted /\ t \notin Elems(queue)
    BY <1>3, <1>5 DEF IInv, DepsOK, HandsOK
  <2>9. \A x \in Thread : x # a => ~Hand(x, t)
    BY <1>5 DEF IInv, HandsOK, Hand
  <2>10. HandsOK'
    <3>1. \A x \in Thread : pc[x] \in HandLabel => on[x] \in Task
      BY DEF IInv, Typed, ThreadsTyped, OnLabel, TaskCall, HandLabel
    <3>2. Elems(queue) \subseteq Task /\ Different(queue)
      BY DEF IInv, HandsOK, Elems, Typed, ObjectsTyped
    <3>3. on[a] = t
      BY DEF t
    <3>4. \A u \in Task : u # t =>
            /\ status'[u] = status[u] /\ jobMem'[u] = jobMem[u] /\ attached'[u] = attached[u]
            /\ (job'[u] => job[u]) /\ ep'[u] = ep[u] /\ (u \in wanted' => u \in wanted)
            /\ u \in Elems(queue') <=> u \in Elems(queue)
      BY <1>2, <2>1
    <3>5. /\ on'[a] = t /\ t \notin Elems(queue') /\ status'[t] = "DEPHOLD" /\ jobMem'[t] = "none"
          /\ ~attached'[t] /\ ~job'[t] /\ t \notin wanted'
          /\ Elems(queue') \subseteq Task /\ Different(queue') /\ \A x \in Thread : x # a => on'[x] = on[x]
      BY <1>2, <2>1, <2>8, <3>2, <3>3
    <3>6. HandsOK /\ PcTyped /\ pc[a] \notin HandLabel /\ Goto(a, "wire") /\ t \in Task
      BY <1>1, <1>3, <1>5, <2>2 DEF IInv, HandLabel
    <3> QED
      BY <2>7, <2>9, <3>1, <3>4, <3>5, <3>6, HandsKeep DEF HandLabel
  <2>11. RunnersOK'
    BY <1>1, <1>2, <1>5, <2>1, RunnersKeep
  <2>12. DepsOK'
    BY <1>1, <1>2, <1>5, <2>1, <2>2, DepsKeep DEF IInv
  <2>13. HeldOK'
    <3>1. \A b \in App : b # a => Spared(b)
      BY <1>2 DEF Spared
    <3>2. HeldBy(a)'
      BY <1>1, <1>2, <1>3, <2>3 DEF t, HeldBy, Present, IInv, Typed, ThreadsTyped, RanLabel, Commits
    <3>3. HeldIn(a)'
      BY <1>2, <1>3, <2>3 DEF t, HeldIn, Awaited, TaskFree, Running
    <3>4. \A u : Present(u)' <=> Present(u)
      BY <1>2 DEF Present
    <3>5. \A u \in Elems(queue') : Present(u)'
      BY <1>2, <3>4 DEF IInv, HeldOK
    <3> QED
      BY <1>2, <1>5, <2>1, <2>2, <3>1, <3>2, <3>3, <3>4, <3>5, HeldKeep DEF IInv
  <2>14. OrderlyOK'
    <3>1. orderly => ~Ending
      BY <1>1 DEF IInv, OrderlyOK, UsesEngine
    <3>2. \A b \in App : ~Frees(b, t)
      BY <1>1, <1>3 DEF t, IInv, ApartOK, Uses, TaskCall
    <3>3. \A x \in App : pc[x] \in TaskFree => on[x] \in Task
      BY Roles DEF IInv, Typed, ThreadsTyped, OnLabel
    <3> QED
      BY <1>1, <1>2, <1>3, <1>5, <2>1, <2>2, <2>8, <3>1, <3>2, <3>3, OrderlyKeep DEF IInv, EngineFree, TaskFree
  <2> QED
    BY <2>4, <2>5, <2>6, <2>10, <2>11, <2>12, <2>13, <2>14 DEF IInv
<1> QED
  BY <1>1, <1>4, <1>5

LEMMA CommitWireStep ==
  ASSUME IInv, NEW a \in App, CommitWire(a)
  PROVE  IInv'
<1> a \in Thread
  BY Roles
<1> DEFINE t == on[a]
<1>1. PICK wires \in BOOLEAN, l \in {"queue", "idle"} :
        /\ Goto(a, l) /\ (wires => HasDep(t))
        /\ dep' = [dep EXCEPT ![t].attached = wires]
        /\ status' = [status EXCEPT ![t] = IF l = "queue" THEN "QUEUE" ELSE @]
  BY DEF CommitWire
<1>2. pc[a] = "wire" /\ UNCHANGED <<config, calls, objects, ep, job, wanted, enginev, judged>>
  BY DEF CommitWire, At
<1>3. /\ UNCHANGED <<parent, listens, events, script, on, awaits, ran, walk, mem, trash, tasks, engines, taskLock>>
      /\ UNCHANGED <<ep, job, wanted, queue, nt, njob, evtLock, polled, told, fault, orderly>>
      /\ UNCHANGED <<taskMem, handleMem, jobMem, depMem, libMem, engineLock>>
  BY <1>2, SameMemory DEF config, calls, enginev, judged, objects, lists
<1>4. t \in Task /\ taskMem[t] = "live" /\ libMem["engine"] # "none" /\ status[t] = "DEPHOLD"
  BY <1>2 DEF IInv, HeldOK, EngineOK, UsesEngine, HandsOK, Typed, ThreadsTyped, OnLabel, TaskCall
<1>5. wires => depMem[t] # "none"
  BY <1>1, <1>4 DEF HasDep, depMem
<1> t' = t
  BY <1>3
<1> HIDE DEF t
<1>6. /\ status'[t] = (IF l = "queue" THEN "QUEUE" ELSE "DEPHOLD")
      /\ \A u \in Task : u # t => status'[u] = status[u]
      /\ status' \in [Task -> {"IDLE", "DEPHOLD", "QUEUE", "RUNNING", "COMPLETED"}]
  BY <1>1, <1>4 DEF IInv, Typed, StateTyped
<1>7. /\ dep' \in [Task -> [ref : Int, attached : BOOLEAN, orphan : BOOLEAN, childless : BOOLEAN]]
      /\ \A u \in Task : dep'[u].ref = dep[u].ref
      /\ dep'[t].attached = wires /\ \A u \in Task : u # t => dep'[u].attached = dep[u].attached
  BY <1>1, <1>4 DEF IInv, Typed, StateTyped
<1>8. refs' = refs /\ attached'[t] = wires /\ \A u \in Task : u # t => attached'[u] = attached[u]
  BY <1>4, <1>7 DEF attached, refs
<1>9. PcTyped /\ walk \in Nat /\ ThreadsTyped
  BY DEF IInv, Typed, StateTyped
<1>10. pc'[a] = l /\ \A x \in Thread : x # a => pc'[x] = pc[x]
  BY <1>1, <1>9, Moved
<1>11. on[a] = t /\ ran[a] = NoTask
  BY <1>2 DEF t, IInv, Typed, ThreadsTyped, RanLabel, Commits
<1>12. Typed'
  <2>1. Fits(a, l)
    BY <1>2, <1>4, <1>11, Roles DEF Fits, AppLabel, Running, Outside, OnLabel, RanLabel, Commits, TaskCall, TaskFree
  <2>2. ConfigTyped' /\ PcTyped' /\ ThreadsTyped'
    BY <1>1, <1>3, <2>1, ConfigSame, PcMove, ThreadsMove DEF IInv, Typed, Fits
  <2>3. StateTyped' /\ ObjectsTyped'
    BY <1>3, <1>6, <1>7 DEF StateTyped, ObjectsTyped, IInv, Typed
  <2> QED
    BY <2>2, <2>3 DEF Typed
<1>13. LibOK' /\ CloseOK' /\ TasksOK' /\ EngineOK' /\ ApartOK'
  <2>1. Advances(a, l)
    BY <1>1, <1>2, <1>3, <1>4, Roles DEF Advances, Running
  <2> QED
    BY <2>1, Advance
<1>14. TrashOK'
  BY <1>3, TrashSame DEF IInv
<1>15. Failed => Failed'
  BY <1>1, <1>3, <1>9, FailedMove
<1>16. jobMem[t] = "none" /\ ~job[t] /\ t \notin wanted /\ t \notin Elems(queue) /\ ~attached[t]
  BY <1>2, <1>4, <1>11 DEF IInv, HandsOK
<1>17. HandsOK'
  <2>1. \A x \in Thread : pc[x] \in HandLabel => on[x] \in Task
    BY DEF IInv, Typed, ThreadsTyped, OnLabel, TaskCall, HandLabel
  <2>2. Elems(queue) \subseteq Task /\ Different(queue)
    BY DEF IInv, HandsOK, Elems, Typed, ObjectsTyped
  <2>3. \A x \in Thread : x # a => ~Hand(x, t)
    BY <1>2, <1>4, <1>11 DEF IInv, HandsOK, Hand
  <2> QED
    BY <1>1, <1>2, <1>3, <1>4, <1>6, <1>8, <1>9, <1>11, <1>15, <1>16, <2>1, <2>2, <2>3, HandsKeep DEF IInv, HandLabel
<1>18. RunnersOK'
  BY <1>1, <1>2, <1>3, <1>4, <1>6, RunnersKeep
<1>19. HeldOK'
  <2>1. \A b \in App : b # a => Spared(b)
    BY <1>3 DEF Spared
  <2>2. HeldBy(a)'
    BY <1>3, <1>4, <1>10, <1>11 DEF HeldBy, Present
  <2>3. HeldIn(a)'
    BY <1>3, <1>10, <1>11 DEF HeldIn, Awaited, TaskFree, Running, Commits
  <2>4. \A u : Present(u)' <=> Present(u)
    BY <1>3 DEF Present
  <2>5. \A u \in Elems(queue') : Present(u)'
    BY <1>3, <2>4 DEF IInv, HeldOK
  <2> QED
    BY <1>1, <1>3, <1>4, <1>6, <1>9, <2>1, <2>2, <2>3, <2>4, <2>5, HeldKeep DEF IInv
<1>20. DepsOK'
  <2>1. \A b \in App : pc[b] # "sweep"
    BY <1>2, Placed DEF Outside, IInv, LibOK
  <2>2. \A u : Present(u)' <=> Present(u)
    BY <1>3 DEF Present
  <2>3. depMem[t] # "none" => /\ parent[t] \in Task /\ taskMem[parent[t]] # "none"
                              /\ taskMem[parent[t]] # "freed" /\ refs[t] = 2 /\ depMem[t] # "freed"
                              /\ Present(t) /\ Present(parent[t])
    BY <1>4, <2>1 DEF IInv, DepsOK, Present
  <2>4. \A u \in Task : status'[u] = "IDLE" => u # t /\ status[u] = "IDLE"
    BY <1>4, <1>6
  <2> QED
    BY <1>3, <1>4, <1>5, <1>8, <2>1, <2>2, <2>3, <2>4 DEF IInv, DepsOK
<1>21. OrderlyOK'
  <2>1. orderly => ~Ending
    BY <1>2 DEF IInv, OrderlyOK, UsesEngine
  <2>2. \A x \in App : pc[x] \in TaskFree => on[x] \in Task
    BY Roles DEF IInv, Typed, ThreadsTyped, OnLabel
  <2> QED
    BY <1>1, <1>2, <1>3, <1>4, <1>6, <1>9, <1>16, <2>1, <2>2, OrderlyKeep DEF IInv, EngineFree, TaskFree
<1> QED
  BY <1>12, <1>13, <1>14, <1>17, <1>18, <1>19, <1>20, <1>21 DEF IInv

LEMMA QueueStep ==
  ASSUME IInv, NEW th \in Thread, TWNATIVE_Taski_queue(th)
  PROVE  IInv'
<1> DEFINE t == on[th]
<1>1. /\ pc[th] = "queue" /\ Goto(th, "token") /\ mem' = Becomes({<<"job", t>>}, "live")
      /\ job' = [job EXCEPT ![t] = TRUE] /\ wanted' = wanted \cup {t} /\ queue' = Append(queue, t)
      /\ UNCHANGED <<config, calls, trash, lists, status, ep, dep, njob, nt, evtLock, polled, judged>>
  BY DEF TWNATIVE_Taski_queue, At
<1>2. /\ UNCHANGED <<parent, listens, events, script, on, awaits, ran, walk, trash, tasks, engines, taskLock>>
      /\ UNCHANGED <<status, ep, dep, nt, njob, evtLock, polled, told, fault, orderly>>
      /\ UNCHANGED <<attached, refs, engineLock>>
  BY <1>1, SameDeps DEF config, calls, judged, lists
<1>3. t \in Task /\ Present(t) /\ status[t] = "QUEUE" /\ jobMem[t] = "none"
  BY <1>1 DEF IInv, HeldOK, HandsOK, Typed, ThreadsTyped, OnLabel
<1>4. libMem["queue"] = "live" /\ libMem["engine"] = "live" /\ Open /\ ~Failed
  BY QueueThere DEF TWNATIVE_Taski_queue
<1>5. \A x \in Thread : Hand(x, t) <=> x = th
  BY <1>1, <1>3 DEF IInv, HandsOK, Hand
<1>6. t \notin Elems(queue)
  BY <1>5 DEF IInv, HandsOK
<1> t' = t
  BY <1>2
<1>7. on[th] = t
  BY DEF t
<1> HIDE DEF t
<1>8. /\ mem' \in [Object -> States] /\ UNCHANGED <<taskMem, handleMem, depMem, libMem>>
      /\ jobMem' = [jobMem EXCEPT ![t] = "live"]
  BY <1>1, <1>3, BecomeTask DEF IInv, Typed, States
<1>9. /\ jobMem'[t] = "live" /\ \A u \in Task : u # t => jobMem'[u] = jobMem[u]
      /\ jobMem' \in [Task -> States]
  BY <1>3, <1>8 DEF IInv, Typed, ObjectsTyped, States
<1>10. job' \in [Task -> BOOLEAN] /\ \A u \in Task : u # t => job'[u] = job[u]
  BY <1>1, <1>3 DEF IInv, Typed, StateTyped
<1>11. queue' \in Seq(Task) /\ Elems(queue') = Elems(queue) \cup {t} /\ Different(queue')
  BY <1>1, <1>3, <1>6, AppendElems DEF IInv, Typed, ObjectsTyped, HandsOK
<1>12. PcTyped /\ walk \in Nat /\ ThreadsTyped
  BY DEF IInv, Typed, StateTyped
<1>13. pc'[th] = "token" /\ \A x \in Thread : x # th => pc'[x] = pc[x]
  BY <1>1, <1>12, Moved
<1>14. Typed'
  <2>1. Fits(th, "token")
    BY <1>1, <1>3, <1>7, Roles DEF Fits, IInv, Typed, ThreadsTyped, AppLabel, WorkerLabel, Running, OnLabel, RanLabel, Commits, TaskCall, TaskFree
  <2>2. ConfigTyped' /\ PcTyped' /\ ThreadsTyped'
    BY <1>1, <1>2, <2>1, ConfigSame, PcMove, ThreadsMove DEF IInv, Typed, Fits
  <2>3. StateTyped' /\ ObjectsTyped'
    <3>1. wanted' \subseteq Task
      BY <1>1, <1>3 DEF StateTyped, IInv, Typed
    <3>2. StateTyped'
      BY <1>2, <1>10, <3>1 DEF StateTyped, IInv, Typed
    <3>3. ObjectsTyped'
      BY <1>2, <1>8, <1>9, <1>11 DEF ObjectsTyped, IInv, Typed, States
    <3> QED
      BY <3>2, <3>3
  <2> QED
    BY <2>2, <2>3 DEF Typed
<1>15. LibOK' /\ CloseOK' /\ TasksOK' /\ EngineOK' /\ ApartOK'
  <2>1. Advances(th, "token")
    BY <1>1, <1>2, <1>4, <1>8, Roles DEF Advances, Running
  <2> QED
    BY <2>1, Advance
<1>16. TrashOK'
  BY <1>2, <1>3, <1>8, <1>9 DEF IInv, TrashOK, Elems, Different
<1>17. Failed => Failed'
  BY <1>4
<1>18. HandsOK'
  <2>1. \A x \in Thread : pc[x] \in HandLabel => on[x] \in Task
    BY DEF IInv, Typed, ThreadsTyped, OnLabel, TaskCall, HandLabel
  <2>2. Elems(queue') \subseteq Task
    BY <1>11 DEF Elems
  <2> QED
    BY <1>1, <1>2, <1>3, <1>5, <1>6, <1>7, <1>9, <1>10, <1>11, <1>12, <1>17, <2>1, <2>2, HandsKeep DEF IInv, HandLabel
<1>19. RunnersOK'
  BY <1>1, <1>2, <1>12, RunnersMove DEF IInv
<1>20. HeldOK'
  <2>1. \A b \in App : b # th => Spared(b)
    BY <1>2, <1>8 DEF Spared
  <2>2. \A u : Present(u)' <=> Present(u)
    BY <1>8 DEF Present
  <2>3. HeldBy(th) /\ (th \in App => HeldIn(th))
    BY HeldParts DEF IInv
  <2>4. HeldBy(th)'
    BY <1>1, <1>2, <1>13, <2>2, <2>3 DEF HeldBy
  <2>5. th \in App => HeldIn(th)'
    <3>1. th \in App => Awaited(th)'
      BY <1>1, <1>2, <1>13, <2>2, <2>3 DEF HeldIn, Awaited, Running, Commits
    <3> QED
      BY <1>13, <3>1 DEF HeldIn, TaskFree
  <2>6. \A u \in Elems(queue') : Present(u)'
    BY <1>3, <1>11, <2>2 DEF IInv, HeldOK
  <2> QED
    BY <1>1, <1>2, <1>12, <2>1, <2>2, <2>4, <2>5, <2>6, HeldKeep DEF IInv
<1>21. DepsOK'
  BY <1>1, <1>2, <1>8, <1>12, DepsMove DEF IInv
<1>22. OrderlyOK'
  <2>1. orderly => ~Ending
    BY <1>3, Busy DEF BeforeRun
  <2>2. \A x \in App : pc[x] \in TaskFree => on[x] \in Task
    BY Roles DEF IInv, Typed, ThreadsTyped, OnLabel
  <2> QED
    BY <1>1, <1>2, <1>3, <1>8, <1>10, <1>11, <1>12, <2>1, <2>2, OrderlyKeep DEF IInv, EngineFree, TaskFree
<1> QED
  BY <1>14, <1>15, <1>16, <1>18, <1>19, <1>20, <1>21, <1>22 DEF IInv

LEMMA PopStep ==
  ASSUME IInv, NEW th \in Thread, Pop(th)
  PROVE  IInv'
<1> DEFINE t == Head(queue)
<1>1. /\ pc[th] = "pop"
      /\ UNCHANGED <<config, script, awaits, ran, walk, objects, taskv, njob, nt, evtLock, polled>>
      /\ UNCHANGED judged
      /\ \/ queue = <<>> /\ Goto(th, Home(th)) /\ UNCHANGED <<on, queue>>
         \/ /\ queue # <<>> /\ Goto(th, "job") /\ on' = [on EXCEPT ![th] = t] /\ queue' = Tail(queue)
  BY DEF Pop, At
<1>2. /\ UNCHANGED <<parent, listens, events, script, awaits, ran, walk, mem, trash, tasks, engines, taskLock>>
      /\ UNCHANGED <<status, ep, job, wanted, dep, nt, njob, evtLock, polled, told, fault, orderly>>
      /\ UNCHANGED <<taskMem, handleMem, jobMem, depMem, libMem, attached, refs, engineLock>>
  BY <1>1, SameMemory, SameDeps DEF config, taskv, judged, objects, lists
<1>3. CASE queue = <<>> /\ Goto(th, Home(th)) /\ UNCHANGED <<on, queue>>
  <2>1. Home(th) \in {"check", "spin"} /\ (th \in Worker <=> Home(th) = "check")
    BY DEF Home
  <2>2. Fits(th, Home(th))
    BY <1>1, <2>1, Roles DEF Fits, IInv, Typed, ThreadsTyped, AppLabel, WorkerLabel, Working, OnLabel, RanLabel, Commits, TaskCall, TaskFree
  <2>3. EngineStays(th, Home(th)) /\ OrderlyStays(th, Home(th))
    BY <1>1, <2>1 DEF EngineStays, OrderlyStays, EngineFree, TaskFree, UsesEngine
  <2>4. Holds(th, Home(th))
    BY <1>1, <2>1 DEF Holds, IInv, HeldOK, Running, TaskFree, Commits
  <2>5. Moves(th, Home(th))
    BY <1>1, <2>1, <2>2, <2>3, <2>4, Placed, Roles DEF Moves, Passes, HandLabel, Freeing, TaskCall, TaskFree,
       Running, ClosePath, Finalizing, EngineFree, Outside
  <2>6. taskLock' \subseteq App /\ engineLock' \subseteq App /\ njob' \in Nat /\ evtLock' \in BOOLEAN
    BY <1>2 DEF IInv, Typed, StateTyped, ObjectsTyped
  <2> QED
    BY <1>1, <1>3, <2>5, <2>6, Steps DEF objects, lists, enginev, taskv, calls
<1>4. CASE queue # <<>> /\ Goto(th, "job") /\ on' = [on EXCEPT ![th] = t] /\ queue' = Tail(queue)
  <2>1. /\ t \in Task /\ t \in Elems(queue) /\ Different(queue') /\ Elems(queue') = Elems(queue) \ {t}
        /\ queue' \in Seq(Task)
    BY <1>4, TailElems DEF IInv, HandsOK, Typed, ObjectsTyped
  <2> HIDE DEF t
  <2>2. /\ status[t] = "QUEUE" /\ jobMem[t] = "live" /\ Present(t) /\ \A x \in Thread : ~Hand(x, t)
    BY <2>1 DEF IInv, HandsOK, HeldOK
  <2>3. PcTyped /\ walk \in Nat /\ ThreadsTyped
    BY DEF IInv, Typed, StateTyped
  <2>4. /\ on' \in [Thread -> Task \cup {NoTask}] /\ on'[th] = t
        /\ \A x \in Thread : x # th => on'[x] = on[x]
    BY <1>4, <2>1, <2>3 DEF ThreadsTyped
  <2>5. pc'[th] = "job" /\ \A x \in Thread : x # th => pc'[x] = pc[x]
    BY <1>4, <2>3, Moved
  <2>6. ran[th] = NoTask
    BY <1>1, <2>3 DEF ThreadsTyped, RanLabel, Commits
  <2>7. Typed'
    <3>1. ConfigTyped' /\ PcTyped'
      BY <1>1, <1>2, <1>4, ConfigSame, PcMove DEF IInv, Typed, AppLabel, WorkerLabel, Running
    <3>2. StateTyped' /\ ObjectsTyped'
      BY <1>2, <2>1 DEF StateTyped, ObjectsTyped, IInv, Typed
    <3>3. ThreadsTyped'
      <4>1. ASSUME NEW x \in Thread
            PROVE  /\ pc'[x] \in OnLabel => on'[x] \in Task
                   /\ pc'[x] \in RanLabel => ran[x] \in Task
                   /\ pc'[x] \in Commits /\ x \in Worker => ran[x] \in Task
                   /\ pc'[x] \notin RanLabel \cup Commits => ran[x] = NoTask
                   /\ pc'[x] = "final" => on'[x] = ran[x]
                   /\ pc'[x] = "dep" => parent[on'[x]] \in Task
        <5>1. CASE x = th
          BY <2>1, <2>4, <2>5, <2>6, <5>1 DEF RanLabel, Commits
        <5>2. CASE x # th
          BY <2>3, <2>4, <2>5, <5>2 DEF ThreadsTyped
        <5> QED
          BY <5>1, <5>2
      <4> QED
        BY <1>2, <2>3, <2>4, <4>1 DEF ThreadsTyped
    <3> QED
      BY <3>1, <3>2, <3>3 DEF Typed
  <2>8. libMem["engine"] = "live"
    BY <1>4 DEF IInv, EngineOK
  <2>9. orderly => ~Ending /\ t \in wanted
    BY <2>1, <2>2, Busy DEF BeforeRun, IInv, OrderlyOK
  <2>10. LibOK' /\ CloseOK' /\ TasksOK' /\ EngineOK' /\ ApartOK'
    <3>1. libMem["queue"] = "live"
      BY QueueThere DEF Pop
    <3>2. Advances(th, "job")
      BY <1>1, <1>2, <1>4, <2>4, <2>8, <3>1, Roles DEF Advances, Running
    <3> QED
      BY <3>2, Advance
  <2>11. TrashOK'
    BY <1>2, TrashSame DEF IInv
  <2>12. Failed => Failed'
    BY <1>2, <1>4, <2>3, FailedMove
  <2>13. HandsOK'
    <3>1. \A x \in Thread : pc[x] \in HandLabel => on[x] \in Task
      BY DEF IInv, Typed, ThreadsTyped, OnLabel, TaskCall, HandLabel
    <3>2. Elems(queue') \subseteq Task
      BY <2>1 DEF Elems
    <3>3. ep[t] => status[t] # "IDLE"
      BY <2>2
    <3> QED
      BY <1>1, <1>2, <1>4, <2>1, <2>2, <2>3, <2>4, <2>12, <3>1, <3>2, <3>3, HandsKeep DEF IInv, HandLabel
  <2>14. RunnersOK'
    BY <1>1, <1>2, <1>4, <2>3, RunnersMove DEF IInv
  <2>15. HeldOK'
    <3>1. \A b \in App : b # th => Spared(b)
      BY <1>2 DEF Spared
    <3>2. \A u : Present(u)' <=> Present(u)
      BY <1>2 DEF Present
    <3>3. HeldBy(th)'
      BY <1>2, <2>2, <2>4, <2>5, <2>6 DEF HeldBy, Present
    <3>4. th \in App => HeldIn(th)'
      <4>1. th \in App => HeldIn(th)
        BY HeldParts DEF IInv
      <4>2. th \in App => Awaited(th)'
        BY <1>1, <1>2, <2>5, <3>2, <4>1 DEF HeldIn, Awaited, Running, Commits
      <4> QED
        BY <2>5, <4>2 DEF HeldIn, TaskFree
    <3>5. \A u \in Elems(queue') : Present(u)'
      BY <2>1, <3>2 DEF IInv, HeldOK
    <3> QED
      BY <1>2, <1>4, <2>3, <2>4, <3>1, <3>2, <3>3, <3>4, <3>5, HeldKeep DEF IInv
  <2>16. DepsOK'
    BY <1>1, <1>2, <1>4, <2>3, DepsMove DEF IInv
  <2>17. OrderlyOK'
    <3>1. \A x \in App : pc[x] \in TaskFree => on[x] \in Task
      BY Roles DEF IInv, Typed, ThreadsTyped, OnLabel
    <3>2. orderly /\ job[t] => status[t] = "QUEUE"
      BY <2>2
    <3> QED
      BY <1>1, <1>2, <1>4, <2>1, <2>2, <2>3, <2>4, <2>9, <3>1, <3>2, OrderlyKeep DEF IInv, EngineFree, TaskFree
  <2> QED
    BY <2>7, <2>10, <2>11, <2>13, <2>14, <2>15, <2>16, <2>17 DEF IInv
<1> QED
  BY <1>1, <1>3, <1>4

LEMMA RunJobStep ==
  ASSUME IInv, NEW th \in Thread, RunJob(th), fault' = fault
  PROVE  IInv'
<1> DEFINE t == on[th]
<1>0. fault = "none"
  BY DEF RunJob, At
<1>1. /\ pc[th] = "job" /\ Goto(th, "final") /\ t \in wanted
      /\ job' = [job EXCEPT ![t] = FALSE] /\ status' = [status EXCEPT ![t] = "RUNNING"]
      /\ ran' = [ran EXCEPT ![th] = t]
      /\ UNCHANGED <<config, script, on, awaits, walk, objects, ep, wanted, dep, enginev, told, orderly>>
  BY <1>0 DEF RunJob, At, Dies
<1>2. /\ UNCHANGED <<parent, listens, events, script, on, awaits, walk, mem, trash, tasks, engines, taskLock>>
      /\ UNCHANGED <<ep, wanted, dep, queue, nt, njob, evtLock, polled, told, fault, orderly>>
      /\ UNCHANGED <<taskMem, handleMem, jobMem, depMem, libMem, attached, refs, engineLock>>
  BY <1>1, SameMemory, SameDeps DEF config, enginev, objects, lists
<1>3. t \in Task /\ Present(t) /\ status[t] = "QUEUE" /\ jobMem[t] = "live"
  BY <1>1 DEF IInv, HeldOK, HandsOK, Typed, ThreadsTyped, OnLabel
<1>4. \A x \in Thread : Hand(x, t) <=> x = th
  BY <1>1, <1>3 DEF IInv, HandsOK, Hand
<1>5. t \notin Elems(queue)
  BY <1>4 DEF IInv, HandsOK
<1>6. libMem["engine"] # "none"
  BY <1>3 DEF IInv, EngineOK
<1> t' = t
  BY <1>2
<1>7. on[th] = t
  BY DEF t
<1> HIDE DEF t
<1>8. /\ status'[t] = "RUNNING" /\ \A u \in Task : u # t => status'[u] = status[u]
      /\ status' \in [Task -> {"IDLE", "DEPHOLD", "QUEUE", "RUNNING", "COMPLETED"}]
  BY <1>1, <1>3 DEF IInv, Typed, StateTyped
<1>9. job' \in [Task -> BOOLEAN] /\ ~job'[t] /\ \A u \in Task : u # t => job'[u] = job[u]
  BY <1>1, <1>3 DEF IInv, Typed, StateTyped
<1>10. /\ ran' \in [Thread -> Task \cup {NoTask}] /\ ran'[th] = t
       /\ \A x \in Thread : x # th => ran'[x] = ran[x]
  BY <1>1, <1>3 DEF IInv, Typed, ThreadsTyped
<1>11. PcTyped /\ walk \in Nat /\ ThreadsTyped
  BY DEF IInv, Typed, StateTyped
<1>12. pc'[th] = "final" /\ \A x \in Thread : x # th => pc'[x] = pc[x]
  BY <1>1, <1>11, Moved
<1>13. Typed'
  <2>1. ConfigTyped' /\ PcTyped'
    BY <1>1, <1>2, ConfigSame, PcMove DEF IInv, Typed, AppLabel, WorkerLabel, Running
  <2>2. StateTyped' /\ ObjectsTyped'
    BY <1>2, <1>8, <1>9 DEF StateTyped, ObjectsTyped, IInv, Typed
  <2>3. ThreadsTyped'
    <3>1. ASSUME NEW x \in Thread
          PROVE  /\ pc'[x] \in OnLabel => on[x] \in Task
                 /\ pc'[x] \in RanLabel => ran'[x] \in Task
                 /\ pc'[x] \in Commits /\ x \in Worker => ran'[x] \in Task
                 /\ pc'[x] \notin RanLabel \cup Commits => ran'[x] = NoTask
                 /\ pc'[x] = "final" => on[x] = ran'[x]
                 /\ pc'[x] = "dep" => parent[on[x]] \in Task
      <4>1. CASE x = th
        BY <1>3, <1>7, <1>10, <1>12, <4>1 DEF RanLabel
      <4>2. CASE x # th
        BY <1>10, <1>11, <1>12, <4>2 DEF ThreadsTyped
      <4> QED
        BY <4>1, <4>2
    <3> QED
      BY <1>2, <1>10, <1>11, <3>1 DEF ThreadsTyped
  <2> QED
    BY <2>1, <2>2, <2>3 DEF Typed
<1>14. LibOK' /\ CloseOK' /\ TasksOK' /\ EngineOK' /\ ApartOK'
  <2>1. Advances(th, "final")
    BY <1>1, <1>2, <1>6, Roles DEF Advances, Running
  <2> QED
    BY <2>1, Advance
<1>15. TrashOK'
  BY <1>2, TrashSame DEF IInv
<1>16. Failed => Failed'
  BY <1>1, <1>2, <1>11, FailedMove
<1>17. HandsOK'
  <2>1. \A x \in Thread : pc[x] \in HandLabel => on[x] \in Task
    BY DEF IInv, Typed, ThreadsTyped, OnLabel, TaskCall, HandLabel
  <2>2. Elems(queue) \subseteq Task /\ Different(queue)
    BY DEF IInv, HandsOK, Elems, Typed, ObjectsTyped
  <2> QED
    BY <1>1, <1>2, <1>3, <1>4, <1>5, <1>7, <1>8, <1>9, <1>11, <1>16, <2>1, <2>2, HandsKeep DEF IInv, HandLabel
<1>18. RunnersOK'
  <2>1. t \notin told
    BY <1>3 DEF IInv, RunnersOK
  <2>2. \A x \in Thread : ran[x] # t
    <3> SUFFICES ASSUME NEW x \in Thread, ran[x] = t PROVE FALSE
      OBVIOUS
    <3>1. t # NoTask
      BY <1>3, LibraryAssumption
    <3>2. pc[x] = "final" /\ on[x] = t
      BY <1>3, <1>11, <3>1 DEF IInv, RunnersOK, ThreadsTyped
    <3> QED
      BY <1>3, <3>2 DEF IInv, HandsOK
  <2>3. told \subseteq Task /\ \A x \in Thread : ran[x] # NoTask => ran[x] \in Task
    BY DEF IInv, Typed, StateTyped, ThreadsTyped, ConfigTyped
  <2>4. \A u \in told : status'[u] = "COMPLETED"
    BY <1>8, <2>1, <2>3 DEF IInv, RunnersOK
  <2>5. ASSUME NEW x \in Thread, ran'[x] # NoTask
        PROVE  ran'[x] \notin told /\ (pc'[x] = "final" \/ status'[ran'[x]] = "COMPLETED")
    <3>1. CASE x = th
      BY <1>10, <1>12, <2>1, <3>1
    <3>2. CASE x # th
      BY <1>8, <1>10, <1>12, <2>2, <2>3, <2>5, <3>2 DEF IInv, RunnersOK
    <3> QED
      BY <3>1, <3>2
  <2>6. \A x, y \in Thread : ran'[x] = ran'[y] /\ ran'[x] # NoTask => x = y
    BY <1>10, <2>2 DEF IInv, RunnersOK
  <2> QED
    BY <1>2, <2>4, <2>5, <2>6 DEF RunnersOK
<1>19. HeldOK'
  <2>1. \A b \in App : b # th => Spared(b)
    BY <1>2 DEF Spared
  <2>2. \A u : Present(u)' <=> Present(u)
    BY <1>2 DEF Present
  <2>3. HeldBy(th)'
    BY <1>2, <1>3, <1>7, <1>10 DEF HeldBy, Present
  <2>4. th \in App => HeldIn(th)'
    <3>1. th \in App => HeldIn(th)
      BY HeldParts DEF IInv
    <3>2. th \in App => Awaited(th)'
      BY <1>1, <1>2, <1>8, <1>12, <2>2, <3>1 DEF HeldIn, Awaited, Running, Commits
    <3> QED
      BY <1>12, <3>2 DEF HeldIn, TaskFree
  <2>5. \A u \in Elems(queue') : Present(u)'
    BY <1>2, <2>2 DEF IInv, HeldOK
  <2>6. \A u \in Task : status[u] # "IDLE" => status'[u] # "IDLE"
    BY <1>8
  <2> QED
    BY <1>1, <1>2, <1>10, <1>11, <2>1, <2>2, <2>3, <2>4, <2>5, <2>6, HeldKeep DEF IInv
<1>20. DepsOK'
  BY <1>1, <1>2, <1>8, <1>11, DepsKeep DEF IInv
<1>21. OrderlyOK'
  <2>1. orderly => ~Ending
    BY <1>3, Busy DEF BeforeRun
  <2>2. \A x \in App : pc[x] \in TaskFree => on[x] \in Task
    BY Roles DEF IInv, Typed, ThreadsTyped, OnLabel
  <2> QED
    BY <1>1, <1>2, <1>3, <1>8, <1>9, <1>11, <2>1, <2>2, OrderlyKeep DEF IInv, EngineFree, TaskFree
<1> QED
  BY <1>13, <1>14, <1>15, <1>17, <1>18, <1>19, <1>20, <1>21 DEF IInv

LEMMA TaskFinalStep ==
  ASSUME IInv, NEW th \in Thread, TaskFinal(th)
  PROVE  IInv'
<1> DEFINE t == on[th]
<1>1. /\ pc[th] = "final" /\ Goto(th, "notify")
      /\ ep' = [ep EXCEPT ![t] = FALSE] /\ status' = [status EXCEPT ![t] = "COMPLETED"]
      /\ UNCHANGED <<config, calls, objects, job, wanted, dep, enginev, judged>>
  BY DEF TaskFinal, At
<1>2. /\ UNCHANGED <<parent, listens, events, script, on, awaits, ran, walk, mem, trash, tasks, engines, taskLock>>
      /\ UNCHANGED <<job, wanted, dep, queue, nt, njob, evtLock, polled, told, fault, orderly>>
      /\ UNCHANGED <<taskMem, handleMem, jobMem, depMem, libMem, attached, refs, engineLock>>
  BY <1>1, SameMemory, SameDeps DEF config, calls, enginev, judged, objects, lists
<1>3. /\ t \in Task /\ status[t] = "RUNNING" /\ jobMem[t] = "live" /\ ran[th] = t /\ t # NoTask
      /\ Present(t)
  BY <1>1, LibraryAssumption DEF IInv, HeldOK, HandsOK, Typed, ThreadsTyped, OnLabel
<1>4. \A x \in Thread : Hand(x, t) <=> x = th
  BY <1>1, <1>3 DEF IInv, HandsOK, Hand
<1>5. t \notin Elems(queue)
  BY <1>4 DEF IInv, HandsOK
<1>6. libMem["engine"] # "none"
  BY <1>3 DEF IInv, EngineOK
<1> t' = t
  BY <1>2
<1>7. on[th] = t
  BY DEF t
<1> HIDE DEF t
<1>8. /\ status'[t] = "COMPLETED" /\ \A u \in Task : u # t => status'[u] = status[u]
      /\ status' \in [Task -> {"IDLE", "DEPHOLD", "QUEUE", "RUNNING", "COMPLETED"}]
  BY <1>1, <1>3 DEF IInv, Typed, StateTyped
<1>9. ep' \in [Task -> BOOLEAN] /\ ~ep'[t] /\ \A u \in Task : u # t => ep'[u] = ep[u]
  BY <1>1, <1>3 DEF IInv, Typed, StateTyped
<1>10. PcTyped /\ walk \in Nat /\ ThreadsTyped
  BY DEF IInv, Typed, StateTyped
<1>11. pc'[th] = "notify" /\ \A x \in Thread : x # th => pc'[x] = pc[x]
  BY <1>1, <1>10, Moved
<1>12. Typed'
  <2>1. Fits(th, "notify")
    BY <1>3, Roles DEF Fits, AppLabel, WorkerLabel, Running, OnLabel, RanLabel, Commits, TaskCall, TaskFree
  <2>2. ConfigTyped' /\ PcTyped' /\ ThreadsTyped'
    BY <1>1, <1>2, <2>1, ConfigSame, PcMove, ThreadsMove DEF IInv, Typed, Fits
  <2>3. StateTyped' /\ ObjectsTyped'
    BY <1>2, <1>8, <1>9 DEF StateTyped, ObjectsTyped, IInv, Typed
  <2> QED
    BY <2>2, <2>3 DEF Typed
<1>13. LibOK' /\ CloseOK' /\ TasksOK' /\ EngineOK' /\ ApartOK'
  <2>1. Advances(th, "notify")
    BY <1>1, <1>2, <1>6, Roles DEF Advances, Running
  <2> QED
    BY <2>1, Advance
<1>14. TrashOK'
  BY <1>2, TrashSame DEF IInv
<1>15. Failed => Failed'
  BY <1>1, <1>2, <1>10, FailedMove
<1>16. HandsOK'
  <2>1. \A x \in Thread : pc[x] \in HandLabel => on[x] \in Task
    BY DEF IInv, Typed, ThreadsTyped, OnLabel, TaskCall, HandLabel
  <2>2. Elems(queue) \subseteq Task /\ Different(queue)
    BY DEF IInv, HandsOK, Elems, Typed, ObjectsTyped
  <2>3. \A u \in Task : u # t =>
            /\ status'[u] = status[u] /\ jobMem'[u] = jobMem[u] /\ attached'[u] = attached[u]
            /\ (job'[u] => job[u]) /\ ep'[u] = ep[u] /\ (u \in wanted' => u \in wanted)
            /\ u \in Elems(queue') <=> u \in Elems(queue)
    BY <1>2, <1>8, <1>9
  <2>4. /\ on[th] = t /\ t \notin Elems(queue') /\ status'[t] = "COMPLETED" /\ jobMem'[t] = "live" /\ ~ep'[t]
        /\ Elems(queue') \subseteq Task /\ Different(queue') /\ \A x \in Thread : x # th => on'[x] = on[x]
    BY <1>2, <1>3, <1>5, <1>7, <1>8, <1>9, <2>2
  <2>5. HandsOK /\ PcTyped /\ Goto(th, "notify")
    BY <1>1, <1>10 DEF IInv
  <2> QED
    BY <1>3, <1>4, <1>15, <2>1, <2>3, <2>4, <2>5, HandsKeep DEF HandLabel
<1>17. RunnersOK'
  <2>1. told \subseteq Task /\ \A x \in Thread : ran[x] # NoTask => ran[x] \in Task
    BY DEF IInv, Typed, StateTyped, ThreadsTyped, ConfigTyped
  <2>2. \A u \in told : status'[u] = "COMPLETED"
    BY <1>8, <2>1 DEF IInv, RunnersOK
  <2>3. ASSUME NEW x \in Thread, ran[x] # NoTask
        PROVE  ran[x] \notin told /\ (pc'[x] = "final" \/ status'[ran[x]] = "COMPLETED")
    <3>1. CASE x = th
      BY <1>3, <1>8, <2>3, <3>1 DEF IInv, RunnersOK
    <3>2. CASE x # th
      BY <1>8, <1>11, <2>1, <2>3, <3>2 DEF IInv, RunnersOK
    <3> QED
      BY <3>1, <3>2
  <2> QED
    BY <1>2, <2>2, <2>3 DEF IInv, RunnersOK
<1>18. HeldOK'
  <2>1. \A b \in App : b # th => Spared(b)
    BY <1>2 DEF Spared
  <2>2. \A u : Present(u)' <=> Present(u)
    BY <1>2 DEF Present
  <2>3. HeldBy(th)'
    BY <1>2, <1>3, <1>11 DEF HeldBy, Present
  <2>4. th \in App => HeldIn(th)'
    <3>1. th \in App => HeldIn(th)
      BY HeldParts DEF IInv
    <3>2. th \in App => Awaited(th)'
      BY <1>1, <1>2, <1>8, <1>11, <2>2, <3>1 DEF HeldIn, Awaited, Running, Commits
    <3> QED
      BY <1>11, <3>2 DEF HeldIn, TaskFree
  <2>5. \A u \in Elems(queue') : Present(u)'
    BY <1>2, <2>2 DEF IInv, HeldOK
  <2>6. \A u \in Task : status[u] # "IDLE" => status'[u] # "IDLE"
    BY <1>8
  <2> QED
    BY <1>1, <1>2, <1>10, <2>1, <2>2, <2>3, <2>4, <2>5, <2>6, HeldKeep DEF IInv
<1>19. DepsOK'
  BY <1>1, <1>2, <1>8, <1>10, DepsKeep DEF IInv
<1>20. OrderlyOK'
  <2>1. orderly => ~Ending /\ ~job[t]
    BY <1>3 DEF IInv, OrderlyOK, NotBusy, Ended
  <2>2. \A x \in App : pc[x] \in TaskFree => on[x] \in Task
    BY Roles DEF IInv, Typed, ThreadsTyped, OnLabel
  <2> QED
    BY <1>1, <1>2, <1>3, <1>8, <1>10, <2>1, <2>2, OrderlyKeep DEF IInv, EngineFree, TaskFree
<1> QED
  BY <1>12, <1>13, <1>14, <1>16, <1>17, <1>18, <1>19, <1>20 DEF IInv

LEMMA NotifyChildStep ==
  ASSUME IInv, NEW th \in Thread, NotifyChild(th)
  PROVE  IInv'
<1>1. PICK t \in Held(ran[th]) :
        /\ status' = [status EXCEPT ![t] = "QUEUE"] /\ on' = [on EXCEPT ![th] = t]
        /\ pc[th] = "notify" /\ Goto(th, "queue")
        /\ UNCHANGED <<config, script, awaits, ran, walk, objects, ep, job, wanted, dep, enginev, judged>>
  BY DEF NotifyChild, At
<1>2. /\ UNCHANGED <<parent, listens, events, script, awaits, ran, walk, mem, trash, tasks, engines, taskLock>>
      /\ UNCHANGED <<ep, job, wanted, dep, queue, nt, njob, evtLock, polled, told, fault, orderly>>
      /\ UNCHANGED <<taskMem, handleMem, jobMem, depMem, libMem, attached, refs, engineLock>>
  BY <1>1, SameMemory, SameDeps DEF config, enginev, judged, objects, lists
<1>3. /\ t \in Task /\ parent[t] = ran[th] /\ attached[t] /\ status[t] = "DEPHOLD"
      /\ ran[th] \in Task /\ Present(ran[th])
  BY <1>1, LibraryAssumption DEF Held, Childs, attached, IInv, HeldOK, Typed, ThreadsTyped, RanLabel
<1>4. Present(t)
  <2>1. \A b \in App : pc[b] # "sweep"
    <3>1. Open
      BY <1>1, Placed, Roles DEF Outside
    <3> QED
      BY <3>1 DEF IInv, LibOK
  <2> QED
    BY <1>3, <2>1 DEF IInv, DepsOK
<1>5. \A x \in Thread : ~Hand(x, t)
  BY <1>3 DEF IInv, HandsOK, Hand
<1>6. t \notin Elems(queue) /\ jobMem[t] = "none" /\ ~job[t] /\ t \notin wanted /\ libMem["engine"] # "none"
  BY <1>3 DEF IInv, HandsOK, EngineOK
<1>7. PcTyped /\ walk \in Nat /\ ThreadsTyped
  BY DEF IInv, Typed, StateTyped
<1>8. /\ status'[t] = "QUEUE" /\ \A u \in Task : u # t => status'[u] = status[u]
      /\ status' \in [Task -> {"IDLE", "DEPHOLD", "QUEUE", "RUNNING", "COMPLETED"}]
  BY <1>1, <1>3 DEF IInv, Typed, StateTyped
<1>9. /\ on' \in [Thread -> Task \cup {NoTask}] /\ on'[th] = t
      /\ \A x \in Thread : x # th => on'[x] = on[x]
  BY <1>1, <1>3, <1>7 DEF ThreadsTyped
<1>10. pc'[th] = "queue" /\ \A x \in Thread : x # th => pc'[x] = pc[x]
  BY <1>1, <1>7, Moved
<1>11. Typed'
  <2>1. ConfigTyped' /\ PcTyped'
    BY <1>1, <1>2, ConfigSame, PcMove DEF IInv, Typed, AppLabel, WorkerLabel, Running
  <2>2. StateTyped' /\ ObjectsTyped'
    BY <1>2, <1>8 DEF StateTyped, ObjectsTyped, IInv, Typed
  <2>3. ThreadsTyped'
    <3>1. ASSUME NEW x \in Thread
          PROVE  /\ pc'[x] \in OnLabel => on'[x] \in Task
                 /\ pc'[x] \in RanLabel => ran[x] \in Task
                 /\ pc'[x] \in Commits /\ x \in Worker => ran[x] \in Task
                 /\ pc'[x] \notin RanLabel \cup Commits => ran[x] = NoTask
                 /\ pc'[x] = "final" => on'[x] = ran[x]
                 /\ pc'[x] = "dep" => parent[on'[x]] \in Task
      <4>1. CASE x = th
        BY <1>3, <1>9, <1>10, <4>1 DEF RanLabel, Commits
      <4>2. CASE x # th
        BY <1>7, <1>9, <1>10, <4>2 DEF ThreadsTyped
      <4> QED
        BY <4>1, <4>2
    <3> QED
      BY <1>2, <1>7, <1>9, <3>1 DEF ThreadsTyped
  <2> QED
    BY <2>1, <2>2, <2>3 DEF Typed
<1>12. LibOK' /\ CloseOK' /\ TasksOK' /\ EngineOK' /\ ApartOK'
  <2>1. Advances(th, "queue")
    BY <1>1, <1>2, <1>6, <1>9, Roles DEF Advances, Running
  <2> QED
    BY <2>1, Advance
<1>13. TrashOK'
  BY <1>2, TrashSame DEF IInv
<1>14. Failed => Failed'
  BY <1>1, <1>2, <1>7, FailedMove
<1>15. HandsOK'
  <2>1. \A x \in Thread : pc[x] \in HandLabel => on[x] \in Task
    BY DEF IInv, Typed, ThreadsTyped, OnLabel, TaskCall, HandLabel
  <2>2. Elems(queue) \subseteq Task /\ Different(queue)
    BY DEF IInv, HandsOK, Elems, Typed, ObjectsTyped
  <2> QED
    BY <1>1, <1>2, <1>3, <1>5, <1>6, <1>7, <1>8, <1>9, <1>14, <2>1, <2>2, HandsKeep DEF IInv, HandLabel
<1>16. RunnersOK'
  BY <1>1, <1>2, <1>3, <1>8, RunnersKeep
<1>17. HeldOK'
  <2>1. \A b \in App : b # th => Spared(b)
    BY <1>2 DEF Spared
  <2>2. \A u : Present(u)' <=> Present(u)
    BY <1>2 DEF Present
  <2>3. HeldBy(th)'
    BY <1>2, <1>3, <1>4, <1>9 DEF HeldBy, Present
  <2>4. th \in App => HeldIn(th)'
    <3>1. th \in App => HeldIn(th)
      BY HeldParts DEF IInv
    <3>2. th \in App => Awaited(th)'
      BY <1>1, <1>2, <1>3, <1>8, <1>10, <2>2, <3>1 DEF HeldIn, Awaited, Running, Commits
    <3> QED
      BY <1>10, <3>2 DEF HeldIn, TaskFree
  <2>5. \A u \in Elems(queue') : Present(u)'
    BY <1>2, <2>2 DEF IInv, HeldOK
  <2>6. \A u \in Task : status[u] # "IDLE" => status'[u] # "IDLE"
    BY <1>8
  <2> QED
    BY <1>1, <1>2, <1>7, <1>9, <2>1, <2>2, <2>3, <2>4, <2>5, <2>6, HeldKeep DEF IInv
<1>18. DepsOK'
  BY <1>1, <1>2, <1>8, <1>7, DepsKeep DEF IInv
<1>19. OrderlyOK'
  <2>1. orderly => ~Ending
    BY <1>3, Busy DEF BeforeRun
  <2>2. \A x \in App : pc[x] \in TaskFree => on[x] \in Task
    BY Roles DEF IInv, Typed, ThreadsTyped, OnLabel
  <2> QED
    BY <1>1, <1>2, <1>3, <1>6, <1>7, <1>8, <1>9, <2>1, <2>2, OrderlyKeep DEF IInv, EngineFree, TaskFree
<1> QED
  BY <1>11, <1>12, <1>13, <1>15, <1>16, <1>17, <1>18, <1>19 DEF IInv

LEMMA StatusHandlerStep ==
  ASSUME IInv, NEW th \in Thread, StatusHandler(th)
  PROVE  IInv'
<1> DEFINE l == Home(th)
<1> DEFINE t == ran[th]
<1>1. /\ pc[th] = "tell" /\ Goto(th, l) /\ told' = told \cup ({t} \cap listens)
      /\ ran' = [ran EXCEPT ![th] = NoTask]
      /\ UNCHANGED <<config, script, on, awaits, walk, objects, taskv, enginev, fault, orderly>>
  BY DEF StatusHandler, At
<1>2. /\ UNCHANGED <<parent, listens, events, script, on, awaits, walk, mem, trash, tasks, engines, taskLock>>
      /\ UNCHANGED <<status, ep, job, wanted, dep, queue, nt, njob, evtLock, polled, fault, orderly>>
      /\ UNCHANGED <<taskMem, handleMem, jobMem, depMem, libMem, attached, refs, engineLock>>
  BY <1>1, SameMemory, SameDeps DEF config, taskv, enginev, objects, lists
<1>3. t \in Task /\ t # NoTask /\ status[t] = "COMPLETED" /\ ran[th] = t
  BY <1>1, LibraryAssumption DEF IInv, RunnersOK, Typed, ThreadsTyped, RanLabel
<1>4. l \in {"check", "spin"} /\ (th \in Worker <=> l = "check")
  BY DEF Home
<1> HIDE DEF t, l
<1>5. PcTyped /\ walk \in Nat /\ ThreadsTyped /\ listens \subseteq Task /\ told \subseteq listens
  BY DEF IInv, Typed, StateTyped, ConfigTyped
<1>6. /\ ran' \in [Thread -> Task \cup {NoTask}] /\ ran'[th] = NoTask
      /\ \A x \in Thread : x # th => ran'[x] = ran[x]
  BY <1>1, <1>5 DEF ThreadsTyped
<1>7. pc'[th] = l /\ \A x \in Thread : x # th => pc'[x] = pc[x]
  BY <1>1, <1>5, Moved
<1>8. libMem["engine"] # "none"
  BY <1>3 DEF IInv, EngineOK
<1>9. Typed'
  <2>1. ConfigTyped' /\ PcTyped'
    BY <1>1, <1>2, <1>4, ConfigSame, PcMove, Roles DEF IInv, Typed, AppLabel, WorkerLabel, Working
  <2>2. StateTyped' /\ ObjectsTyped'
    BY <1>1, <1>2, <1>5 DEF StateTyped, ObjectsTyped, IInv, Typed
  <2>3. ThreadsTyped'
    <3>1. ASSUME NEW x \in Thread
          PROVE  /\ pc'[x] \in OnLabel => on[x] \in Task
                 /\ pc'[x] \in RanLabel => ran'[x] \in Task
                 /\ pc'[x] \in Commits /\ x \in Worker => ran'[x] \in Task
                 /\ pc'[x] \notin RanLabel \cup Commits => ran'[x] = NoTask
                 /\ pc'[x] = "final" => on[x] = ran'[x]
                 /\ pc'[x] = "dep" => parent[on[x]] \in Task
      <4>1. CASE x = th
        BY <1>4, <1>6, <1>7, <4>1 DEF OnLabel, RanLabel, Commits, TaskCall, TaskFree
      <4>2. CASE x # th
        BY <1>5, <1>6, <1>7, <4>2 DEF ThreadsTyped
      <4> QED
        BY <4>1, <4>2
    <3> QED
      BY <1>2, <1>5, <1>6, <3>1 DEF ThreadsTyped
  <2> QED
    BY <2>1, <2>2, <2>3 DEF Typed
<1>10. LibOK' /\ CloseOK' /\ TasksOK' /\ EngineOK' /\ ApartOK'
  <2>1. Advances(th, l)
    BY <1>1, <1>2, <1>4, <1>8, Roles DEF Advances, Running
  <2> QED
    BY <2>1, Advance
<1>11. TrashOK'
  BY <1>2, TrashSame DEF IInv
<1>12. (Failed <=> Failed') /\ (Ending' => Ending)
  BY <1>1, <1>2, <1>4, <1>5, FailedMove, EndingMove DEF Ending, EngineFree
<1>13. HandsOK'
  BY <1>1, <1>2, <1>4, <1>5, <1>12, HandsMove DEF IInv, HandLabel
<1>14. RunnersOK'
  <2>1. \A u \in told' : status[u] = "COMPLETED"
    BY <1>1, <1>3 DEF IInv, RunnersOK
  <2>2. \A x \in Thread : x # th => ran[x] # t
    BY <1>3 DEF IInv, RunnersOK
  <2>3. ASSUME NEW x \in Thread, ran'[x] # NoTask
        PROVE  ran'[x] \notin told' /\ (pc'[x] = "final" \/ status[ran'[x]] = "COMPLETED")
    BY <1>1, <1>6, <1>7, <2>2, <2>3 DEF IInv, RunnersOK
  <2>4. \A x, y \in Thread : ran'[x] = ran'[y] /\ ran'[x] # NoTask => x = y
    BY <1>6 DEF IInv, RunnersOK
  <2> QED
    BY <1>2, <2>1, <2>3, <2>4 DEF RunnersOK
<1>15. HeldOK'
  <2>1. \A b \in App : b # th => Spared(b)
    BY <1>2 DEF Spared
  <2>2. \A u : Present(u)' <=> Present(u)
    BY <1>2 DEF Present
  <2>3. HeldBy(th)'
    BY <1>4, <1>6, <1>7 DEF HeldBy
  <2>4. th \in App => HeldIn(th)'
    <3>1. th \in App => HeldIn(th)
      BY HeldParts DEF IInv
    <3>2. th \in App => Awaited(th)'
      BY <1>1, <1>2, <1>4, <1>7, <2>2, <3>1 DEF HeldIn, Awaited, Running, Commits
    <3> QED
      BY <1>4, <1>7, <3>2 DEF HeldIn, TaskFree
  <2>5. \A u \in Elems(queue') : Present(u)'
    BY <1>2, <2>2 DEF IInv, HeldOK
  <2> QED
    BY <1>1, <1>2, <1>5, <1>6, <2>1, <2>2, <2>3, <2>4, <2>5, HeldKeep DEF IInv
<1>16. DepsOK'
  BY <1>1, <1>2, <1>5, DepsMove DEF IInv
<1>17. OrderlyOK'
  <2> SUFFICES ASSUME orderly PROVE OrderlyOK'
    BY <1>2 DEF OrderlyOK
  <2>1. (\A u : Ended(u) => Ended(u)') /\ (NotBusy => NotBusy')
    BY <1>1, <1>2 DEF Ended, NotBusy
  <2>2. \A b \in App : pc'[b] \in UsesEngine \cup TaskFree => pc'[b] = pc[b]
    BY <1>4, <1>7, Roles DEF UsesEngine, TaskFree
  <2>3. \A x \in Thread : pc'[x] = "job" => pc'[x] = pc[x]
    BY <1>4, <1>7
  <2> QED
    BY <1>2, <1>12, <2>1, <2>2, <2>3 DEF IInv, OrderlyOK, Elems, TaskFree
<1> QED
  BY <1>9, <1>10, <1>11, <1>13, <1>14, <1>15, <1>16, <1>17 DEF IInv

-----------------------------------------------------------------------------
(* Freeing a task. *)

LEMMA SwapErased ==
  ASSUME NEW S, NEW s \in Seq(S), Different(s), NEW x
  PROVE  /\ SwapErase(s, x) \in Seq(S) /\ Different(SwapErase(s, x))
         /\ Elems(SwapErase(s, x)) = Elems(s) \ {x}
<1>1. CASE \A i \in DOMAIN s : s[i] # x
  BY <1>1 DEF SwapErase, Elems
<1>2. CASE \E i \in DOMAIN s : s[i] = x
  <2>1. PICK k \in DOMAIN s : s[k] = x
    BY <1>2
  <2> DEFINE n == Len(s)
  <2> DEFINE e == SwapErase(s, x)
  <2>2. n \in Nat /\ DOMAIN s = 1..n /\ k \in 1..n /\ n > 0 /\ n - 1 \in Nat
    BY <2>1
  <2>3. e = [i \in 1..(n - 1) |-> IF s[i] = x THEN s[n] ELSE s[i]]
    BY <1>2 DEF SwapErase
  <2>4. \A i \in 1..n : s[i] \in S /\ (s[i] = x <=> i = k)
    BY <2>1, <2>2 DEF Different
  <2> HIDE DEF n, e
  <2>5. DOMAIN e = 1..(n - 1) /\ \A i \in 1..(n - 1) : i \in 1..n /\ i # n
    BY <2>2, <2>3
  <2>6. \A i \in 1..(n - 1) : e[i] = IF i = k THEN s[n] ELSE s[i]
    BY <2>3, <2>4, <2>5
  <2>7. n \in 1..n
    BY <2>2
  <2>8. e \in Seq(S)
    <3>1. \A i \in 1..(n - 1) : e[i] \in S
      BY <2>4, <2>5, <2>6, <2>7
    <3>2. e = [i \in 1..(n - 1) |-> e[i]]
      BY <2>3
    <3> QED
      BY <2>2, <3>1, <3>2, IsASeq
  <2>9. Different(e)
    <3> SUFFICES ASSUME NEW i \in 1..(n - 1), NEW j \in 1..(n - 1), e[i] = e[j] PROVE i = j
      BY <2>5 DEF Different
    <3>1. \A p, q \in 1..n : s[p] = s[q] => p = q
      BY <2>2 DEF Different
    <3> QED
      BY <2>5, <2>6, <2>7, <3>1
  <2>10. Elems(e) \subseteq Elems(s) \ {x}
    <3> SUFFICES ASSUME NEW i \in 1..(n - 1) PROVE e[i] \in Elems(s) \ {x}
      BY <2>5 DEF Elems
    <3>1. i = k => n # k
      BY <2>5
    <3> QED
      BY <2>2, <2>4, <2>5, <2>6, <2>7, <3>1 DEF Elems
  <2>11. Elems(s) \ {x} \subseteq Elems(e)
    <3> SUFFICES ASSUME NEW i \in 1..n, i # k PROVE s[i] \in Elems(e)
      BY <2>2, <2>4 DEF Elems
    <3>1. CASE i # n
      <4>1. i \in 1..(n - 1)
        BY <2>2, <3>1
      <4> QED
        BY <2>5, <2>6, <4>1 DEF Elems
    <3>2. CASE i = n
      <4>1. k \in 1..(n - 1)
        BY <2>2, <3>2
      <4> QED
        BY <2>5, <2>6, <3>2, <4>1 DEF Elems
    <3> QED
      BY <3>1, <3>2
  <2> QED
    BY <2>8, <2>9, <2>10, <2>11 DEF e
<1> QED
  BY <1>1, <1>2

LEMMA TaskFreeStep ==
  ASSUME IInv, NEW a \in App, TWNATIVE_Task_free(a)
  PROVE  IInv'
<1> a \in Thread
  BY Roles
<1> DEFINE t == on[a]
<1>1. /\ pc[a] = "free" /\ Goto(a, "invalidate") /\ tasks' = SwapErase(tasks, t)
      /\ UNCHANGED <<config, calls, mem, trash, engines, taskLock, engineLock, taskv, enginev, judged>>
  BY DEF TWNATIVE_Task_free, At
<1>2. /\ UNCHANGED <<parent, listens, events, script, on, awaits, ran, walk, mem, trash, engines, taskLock>>
      /\ UNCHANGED <<status, ep, job, wanted, dep, queue, nt, njob, evtLock, polled, told, fault, orderly>>
      /\ UNCHANGED <<taskMem, handleMem, jobMem, depMem, libMem, attached, refs, engineLock>>
  BY <1>1, SameMemory, SameDeps DEF config, calls, taskv, enginev, judged
<1>3. t \in Task /\ taskMem[t] = "live" /\ on[a] = t
  BY <1>1 DEF IInv, TasksOK, Typed, ThreadsTyped, OnLabel, TaskFree
<1> t' = t
  BY <1>2
<1> HIDE DEF t
<1>4. PcTyped /\ walk \in Nat /\ walk = 0 /\ Open
  BY <1>1, Placed DEF IInv, Typed, CloseOK, Outside
<1>5. tasks' \in Seq(Task) /\ Different(tasks') /\ Elems(tasks') = Elems(tasks) \ {t}
  BY <1>1, SwapErased DEF IInv, Typed, ObjectsTyped, TasksOK
<1>6. pc'[a] = "invalidate" /\ \A b \in App \ {a} : pc'[b] = pc[b]
  BY <1>1, <1>4, Moved, Roles
<1>7. Fits(a, "invalidate")
  BY <1>1, <1>3, Roles DEF Fits, IInv, Typed, ThreadsTyped, AppLabel, OnLabel, RanLabel, Commits, TaskCall, TaskFree
<1>8. Typed'
  <2>1. ConfigTyped' /\ PcTyped' /\ ThreadsTyped'
    BY <1>1, <1>2, <1>7, ConfigSame, PcMove, ThreadsMove DEF IInv, Typed, Fits
  <2>2. StateTyped' /\ ObjectsTyped'
    BY <1>2, <1>5 DEF StateTyped, ObjectsTyped, IInv, Typed
  <2> QED
    BY <2>1, <2>2 DEF Typed
<1>9. LibOK' /\ CloseOK'
  BY <1>1, <1>2, <1>4, LibOpen, CloseMove DEF IInv, Finalizing
<1>10. TasksOK'
  <2>1. Elems(tasks)' = Elems(tasks) \ {t} /\ Different(tasks)'
    BY <1>5 DEF Elems, Different
  <2>2. Open' /\ walk' = 0 /\ \A u : Present(u)' <=> Present(u)
    BY <1>2, <1>4 DEF Open, Present
  <2>3. \A u \in Task : taskMem[u] = "live" => u \in Elems(tasks)' \/ \E b \in App : pc'[b] \in Freeing /\ on[b] = u
    <3> SUFFICES ASSUME NEW u \in Task, taskMem[u] = "live"
                 PROVE  u \in Elems(tasks)' \/ \E b \in App : pc'[b] \in Freeing /\ on[b] = u
      OBVIOUS
    <3>1. CASE u = t
      BY <1>3, <1>6, <3>1 DEF Freeing
    <3>2. CASE u # t
      <4>1. u \in Elems(tasks) \/ \E b \in App : pc[b] \in Freeing /\ on[b] = u
        BY DEF IInv, TasksOK
      <4>2. pc[a] \notin Freeing
        BY <1>1 DEF Freeing
      <4> QED
        BY <1>6, <2>1, <3>2, <4>1, <4>2
    <3> QED
      BY <3>1, <3>2
  <2>4. \A b \in App : pc'[b] \in Freeing \cup {"free"} => taskMem[on[b]] = "live"
    BY <1>3, <1>6 DEF IInv, TasksOK
  <2>5. \A b \in App : pc'[b] \in Freeing => on[b] \notin Elems(tasks)'
    BY <1>3, <1>4, <1>6, <2>1 DEF IInv, TasksOK
  <2>6. \A b \in App : pc'[b] = "finalize" => \A u \in Elems(tasks)' : taskMem[u] = "live"
    BY <1>6, <2>1 DEF IInv, TasksOK
  <2>7. \A u \in Elems(tasks)' : Present(u)'
    BY <1>4, <2>1, <2>2 DEF IInv, TasksOK
  <2>8. \A u \in Task : handleMem'[u] = "none" <=> taskMem'[u] = "none"
    BY <1>2 DEF IInv, TasksOK
  <2> QED
    BY <1>2, <2>1, <2>2, <2>3, <2>4, <2>5, <2>6, <2>7, <2>8 DEF TasksOK
<1>11. TrashOK' /\ RunnersOK' /\ DepsOK'
  BY <1>1, <1>2, <1>4, TrashSame, RunnersMove, DepsMove DEF IInv
<1>12. EngineOK'
  <2>1. EngineStays(a, "invalidate")
    BY <1>1 DEF EngineStays, EngineFree, UsesEngine
  <2> QED
    BY <1>1, <1>2, <1>4, <2>1, EngineMove DEF IInv
<1>13. (Failed <=> Failed') /\ (Ending' => Ending)
  BY <1>1, <1>2, <1>4, FailedMove, EndingMove DEF Ending, EngineFree
<1>14. HandsOK' /\ ApartOK'
  BY <1>1, <1>2, <1>4, <1>13, HandsMove, ApartMove DEF IInv, HandLabel, TaskFree, TaskCall
<1>15. HeldOK'
  <2>1. Holds(a, "invalidate")
    BY <1>1 DEF Holds, TaskFree, Running
  <2> QED
    BY <1>1, <1>2, <1>4, <2>1, HeldMove DEF IInv
<1>16. OrderlyOK'
  <2>1. OrderlyStays(a, "invalidate")
    BY <1>1 DEF OrderlyStays, EngineFree, TaskFree, UsesEngine
  <2> QED
    BY <1>1, <1>2, <1>4, <1>13, <2>1, OrderlyMove DEF IInv
<1> QED
  BY <1>8, <1>9, <1>10, <1>11, <1>12, <1>14, <1>15, <1>16 DEF IInv

LEMMA NullJobStep ==
  ASSUME IInv, NEW a \in App, FreeNullJob(a), fault' = fault
  PROVE  IInv'
<1> a \in Thread
  BY Roles
<1>0. fault = "none"
  BY DEF FreeNullJob, At
<1>1. /\ pc[a] = "nulljob" /\ Goto(a, "unset") /\ wanted' = wanted \ {on[a]}
      /\ UNCHANGED <<config, calls, objects, status, ep, job, dep, enginev, told, orderly>>
  BY <1>0 DEF FreeNullJob, At, Dies
<1>2. /\ UNCHANGED <<parent, listens, events, script, on, awaits, ran, walk, mem, trash, tasks, engines, taskLock>>
      /\ UNCHANGED <<status, ep, job, dep, queue, nt, njob, evtLock, polled, told, fault, orderly>>
      /\ UNCHANGED <<taskMem, handleMem, jobMem, depMem, libMem, attached, refs, engineLock>>
  BY <1>1, SameMemory, SameDeps DEF config, calls, enginev, objects, lists
<1>3. PcTyped /\ walk \in Nat /\ Open
  BY <1>1, Placed DEF IInv, Typed, Outside
<1>4. ~orderly
  BY <1>1 DEF IInv, OrderlyOK
<1>5. Fits(a, "unset")
  BY <1>1, Roles DEF Fits, IInv, Typed, ThreadsTyped, AppLabel, OnLabel, RanLabel, Commits, TaskCall, TaskFree
<1>6. Typed'
  <2>1. ConfigTyped' /\ PcTyped' /\ ThreadsTyped'
    BY <1>1, <1>2, <1>5, ConfigSame, PcMove, ThreadsMove DEF IInv, Typed, Fits
  <2>2. StateTyped' /\ ObjectsTyped'
    BY <1>1, <1>2 DEF StateTyped, ObjectsTyped, IInv, Typed
  <2> QED
    BY <2>1, <2>2 DEF Typed
<1>7. LibOK' /\ CloseOK'
  BY <1>1, <1>2, <1>3, LibOpen, CloseMove DEF IInv, Finalizing, ClosePath, Freeing
<1>8. TasksOK' /\ TrashOK' /\ RunnersOK' /\ DepsOK'
  BY <1>1, <1>2, <1>3, TasksMove, TrashSame, RunnersMove, DepsMove DEF IInv, Freeing
<1>9. EngineOK'
  <2>1. EngineStays(a, "unset")
    BY <1>1 DEF EngineStays, EngineFree, UsesEngine
  <2> QED
    BY <1>1, <1>2, <1>3, <2>1, EngineMove DEF IInv
<1>10. Failed <=> Failed'
  BY <1>1, <1>2, <1>3, FailedMove
<1>11. HandsOK' /\ ApartOK'
  BY <1>1, <1>2, <1>3, <1>10, HandsMove, ApartMove DEF IInv, HandLabel, TaskFree, TaskCall
<1>12. HeldOK'
  <2>1. Holds(a, "unset")
    BY <1>1 DEF Holds, TaskFree, Running
  <2> QED
    BY <1>1, <1>2, <1>3, <2>1, HeldMove DEF IInv
<1>13. OrderlyOK'
  BY <1>2, <1>4 DEF OrderlyOK
<1> QED
  BY <1>6, <1>7, <1>8, <1>9, <1>11, <1>12, <1>13 DEF IInv

\* What FreeUnset sets in a dependency leaves its references and its place alone.
LEMMA Unset ==
  ASSUME NEW d \in [ref : Int, attached : BOOLEAN, orphan : BOOLEAN, childless : BOOLEAN],
         NEW c, NEW C, NEW t
  PROVE  /\ [d EXCEPT !.orphan = @ \/ c \in C, !.childless = @ \/ c = t]
               \in [ref : Int, attached : BOOLEAN, orphan : BOOLEAN, childless : BOOLEAN]
         /\ [d EXCEPT !.orphan = @ \/ c \in C, !.childless = @ \/ c = t].ref = d.ref
         /\ [d EXCEPT !.orphan = @ \/ c \in C, !.childless = @ \/ c = t].attached = d.attached
  OBVIOUS

LEMMA UnsetStep ==
  ASSUME IInv, NEW a \in App, FreeUnset(a)
  PROVE  IInv'
<1> a \in Thread
  BY Roles
<1>1. /\ pc[a] = "unset" /\ Goto(a, "dispose")
      /\ UNCHANGED <<config, calls, objects, status, ep, job, wanted, enginev, judged>>
  BY Zenon DEF FreeUnset, At
<1>2. /\ UNCHANGED <<parent, listens, events, script, on, awaits, ran, walk, mem, trash, tasks, engines, taskLock>>
      /\ UNCHANGED <<status, ep, job, wanted, queue, nt, njob, evtLock, polled, told, fault, orderly>>
      /\ UNCHANGED <<taskMem, handleMem, jobMem, depMem, libMem, engineLock>>
  BY <1>1, SameMemory DEF config, calls, enginev, objects, lists, judged
<1>3. /\ dep' \in [Task -> [ref : Int, attached : BOOLEAN, orphan : BOOLEAN, childless : BOOLEAN]]
      /\ \A c \in Task : dep'[c].ref = dep[c].ref /\ dep'[c].attached = dep[c].attached
  <2> DEFINE C == Childs(on[a])
  <2> DEFINE t == on[a]
  <2> DEFINE e(c) == [dep[c] EXCEPT !.orphan = @ \/ c \in C, !.childless = @ \/ c = t]
  <2>1. dep \in [Task -> [ref : Int, attached : BOOLEAN, orphan : BOOLEAN, childless : BOOLEAN]]
    BY DEF IInv, Typed, StateTyped
  <2>2. dep' = [c \in Task |-> e(c)]
    BY Zenon DEF FreeUnset
  <2> HIDE DEF C, t
  <2>3. ASSUME NEW c \in Task
        PROVE  /\ e(c) \in [ref : Int, attached : BOOLEAN, orphan : BOOLEAN, childless : BOOLEAN]
               /\ e(c).ref = dep[c].ref /\ e(c).attached = dep[c].attached
    <3>1. dep[c] \in [ref : Int, attached : BOOLEAN, orphan : BOOLEAN, childless : BOOLEAN]
      BY <2>1
    <3> QED
      BY <3>1, Unset, Zenon
  <2> HIDE DEF e
  <2> QED
    BY <2>2, <2>3
<1>4. attached' = attached /\ refs' = refs
  BY <1>3 DEF attached, refs
<1>5. UNCHANGED shown
  BY <1>2, <1>4 DEF shown
<1>6. Fits(a, "dispose")
  BY <1>1, Roles DEF Fits, IInv, Typed, ThreadsTyped, AppLabel, OnLabel, RanLabel, Commits, TaskCall, TaskFree
<1>7. Typed'
  <2>1. ConfigTyped' /\ PcTyped' /\ ThreadsTyped'
    BY <1>1, <1>2, <1>6, ConfigSame, PcMove, ThreadsMove DEF IInv, Typed, Fits
  <2>2. StateTyped' /\ ObjectsTyped'
    BY <1>2, <1>3 DEF StateTyped, ObjectsTyped, IInv, Typed
  <2> QED
    BY <2>1, <2>2 DEF Typed
<1>8. Moves(a, "dispose")
  BY <1>1, <1>6, Placed, Roles DEF Moves, Passes, EngineStays, Holds, OrderlyStays, HandLabel, Freeing, TaskCall, TaskFree,
     UsesEngine, Running, ClosePath, Finalizing, EngineFree, Outside
<1> QED
  BY <1>1, <1>2, <1>5, <1>7, <1>8, Move DEF IInv

LEMMA DisposeStep ==
  ASSUME IInv, NEW a \in App, FreeDispose(a)
  PROVE  IInv'
<1> a \in Thread
  BY Roles
<1> DEFINE t == on[a]
<1> DEFINE l == IF walk > 0 THEN "walk" ELSE "handle"
<1>1. /\ pc[a] = "dispose" /\ Goto(a, l)
      /\ mem' = Becomes({<<"task", t>>}, "disposed") /\ trash' = << <<"task", t>> >> \o trash
      /\ UNCHANGED <<config, calls, lists, taskv, enginev, judged>>
  BY DEF FreeDispose, At
<1>2. /\ UNCHANGED <<parent, listens, events, script, on, awaits, ran, walk, tasks, engines, taskLock>>
      /\ UNCHANGED <<status, ep, job, wanted, dep, queue, nt, njob, evtLock, polled, told, fault, orderly>>
      /\ UNCHANGED <<attached, refs, engineLock>>
  BY <1>1, SameDeps DEF config, calls, taskv, enginev, judged, lists
<1>3. t \in Task /\ on[a] = t /\ taskMem[t] = "live"
  BY <1>1 DEF IInv, TasksOK, Freeing, Typed, ThreadsTyped, OnLabel, TaskFree
<1> t' = t
  BY <1>2
<1>4. l \in {"walk", "handle"} /\ (l = "walk" <=> walk > 0)
  OBVIOUS
<1> HIDE DEF t, l
<1>5. /\ mem' \in [Object -> States] /\ UNCHANGED <<handleMem, jobMem, depMem, libMem>>
      /\ taskMem' = [taskMem EXCEPT ![t] = "disposed"]
  BY <1>1, <1>3, BecomeTask DEF IInv, Typed, States
<1>6. /\ taskMem'[t] = "disposed" /\ \A u \in Task : u # t => taskMem'[u] = taskMem[u]
      /\ taskMem' \in [Task -> States]
  BY <1>3, <1>5 DEF IInv, Typed, ObjectsTyped, States
<1>7. PcTyped /\ walk \in Nat /\ Open
  BY <1>1, Placed DEF IInv, Typed, Outside
<1>8. pc'[a] = l /\ \A b \in App \ {a} : pc'[b] = pc[b]
  BY <1>1, <1>7, Moved, Roles
<1>9. \A b \in App \ {a} : \A u \in Task : (Frees(b, u) \/ Uses(b, u)) => u # t
  BY <1>1, <1>3 DEF IInv, ApartOK, Frees, TaskFree
<1>10. \A u \in Task : Present(u)' <=> Present(u)
  BY <1>3, <1>6 DEF Present
<1>11. /\ <<"task", t>> \notin Elems(trash)
       /\ trash \in Seq(({"task", "job"} \X Task) \cup {The("engine")}) /\ Different(trash)
  BY <1>3 DEF IInv, TrashOK, Typed, ObjectsTyped
<1>12. /\ trash' \in Seq(({"task", "job"} \X Task) \cup {The("engine")})
       /\ Elems(trash') = {<<"task", t>>} \cup Elems(trash) /\ Different(trash')
  <2> DEFINE S == ({"task", "job"} \X Task) \cup {The("engine")}
  <2> DEFINE x == <<"task", t>>
  <2>1. x \in S /\ x \notin Elems(trash) /\ trash \in Seq(S) /\ trash' = <<x>> \o trash
    BY <1>1, <1>3, <1>11
  <2> HIDE DEF S, x
  <2>2. <<x>> \o trash \in Seq(S) /\ Elems(<<x>> \o trash) = {x} \cup Elems(trash) /\ Different(<<x>> \o trash)
    BY <1>11, <2>1, ConsElems
  <2>3. trash' \in Seq(S) /\ Elems(trash') = {x} \cup Elems(trash) /\ Different(trash')
    BY <2>1, <2>2
  <2> QED
    BY <2>3 DEF S, x
<1>13. Typed'
  <2>1. Fits(a, l)
    BY <1>1, <1>3, <1>4, Roles DEF Fits, IInv, Typed, ThreadsTyped, AppLabel, Finalizing, OnLabel, RanLabel, Commits, TaskCall, TaskFree
  <2>2. ConfigTyped' /\ PcTyped' /\ ThreadsTyped'
    BY <1>1, <1>2, <2>1, ConfigSame, PcMove, ThreadsMove DEF IInv, Typed, Fits
  <2>3. StateTyped'
    BY <1>2 DEF StateTyped, IInv, Typed
  <2>4. ObjectsTyped'
    BY <1>2, <1>5, <1>6, <1>12 DEF ObjectsTyped, IInv, Typed, States
  <2> QED
    BY <2>2, <2>3, <2>4 DEF Typed
<1>14. LibOK'
  BY <1>1, <1>4, <1>2, <1>5, <1>7, LibOpen DEF IInv
<1>15. CloseOK'
  BY <1>1, <1>2, <1>4, <1>7, CloseMove DEF IInv, Finalizing, ClosePath
<1>16. TasksOK'
  <2>1. Open' /\ walk' = walk
    BY <1>2, <1>5, <1>7 DEF Open
  <2>2. tasks' = tasks /\ Elems(tasks)' = Elems(tasks) /\ Different(tasks)' /\ Different(tasks)
    BY <1>2 DEF Different, Elems, IInv, TasksOK
  <2>3. \A u \in Elems(tasks) : u \in Task /\ Present(u)'
    BY <1>7, <1>10 DEF IInv, TasksOK, Typed, ObjectsTyped, Elems
  <2>4. ASSUME NEW u \in Task, taskMem'[u] = "live"
        PROVE  u \in Elems(tasks) \/ \E b \in App : pc'[b] \in Freeing /\ on'[b] = u
    <3>1. taskMem[u] = "live" /\ u # t
      BY <1>6, <2>4
    <3> QED
      BY <1>2, <1>3, <1>8, <3>1 DEF IInv, TasksOK
  <2>5. \A u \in Task : handleMem'[u] = "none" <=> taskMem'[u] = "none"
    BY <1>3, <1>5, <1>6 DEF IInv, TasksOK
  <2>6. \A b \in App : pc'[b] \in Freeing \cup {"free", "finalize"} => b # a /\ pc'[b] = pc[b]
    BY <1>4, <1>8 DEF Freeing
  <2>7. ASSUME NEW b \in App, pc'[b] \in Freeing \cup {"free"}
        PROVE  /\ taskMem'[on[b]] = "live"
               /\ pc'[b] \in Freeing /\ walk = 0 => on[b] \notin Elems(tasks)
    <3>1. b # a /\ pc[b] = pc'[b] /\ on[b] \in Task
      BY <2>6, <2>7, Roles DEF IInv, Typed, ThreadsTyped, OnLabel, TaskFree, Freeing
    <3>2. on[b] # t
      BY <1>9, <2>7, <3>1 DEF Frees, Freeing, TaskFree
    <3> QED
      BY <1>6, <2>7, <3>1, <3>2 DEF IInv, TasksOK
  <2>8. \A b \in App : pc'[b] # "finalize"
    BY <1>1, <2>6 DEF IInv, CloseOK, Alone
  <2>9. walk > 0 => \A b \in App : b # a => pc'[b] = "idle"
    BY <1>1, <1>8 DEF IInv, CloseOK, Alone
  <2>10. ASSUME walk > 0
         PROVE  \A i \in DOMAIN tasks : taskMem'[tasks[i]] = "live" <=> i >= walk
    <3>1. /\ walk - 1 \in DOMAIN tasks /\ t = tasks[walk - 1]
          /\ \A i \in DOMAIN tasks : taskMem[tasks[i]] = "live" <=> i >= walk - 1
      BY <1>1, <1>3, <2>10 DEF IInv, TasksOK, Freeing, Done
    <3>2. DOMAIN tasks \subseteq Int /\ \A i \in DOMAIN tasks : tasks[i] \in Task /\ (tasks[i] = t <=> i = walk - 1)
      BY <2>2, <3>1 DEF IInv, Typed, ObjectsTyped, Different
    <3> QED
      BY <1>6, <1>7, <3>1, <3>2
  <2>11. \A b \in App : walk > 0 /\ pc'[b] \in Freeing => FALSE
    BY <1>4, <1>8, <2>9 DEF Freeing
  <2>12. \A b \in App : walk > 0 /\ pc'[b] \notin Freeing \cup {"walk", "idle"} => FALSE
    BY <1>4, <1>8, <2>9
  <2>13. \A b \in App : walk > 0 /\ pc'[b] = "walk" => Done(b)' = walk
    BY <2>1 DEF Done, Freeing
  <2> QED
    BY <1>2, <2>1, <2>2, <2>3, <2>4, <2>5, <2>7, <2>8, <2>10, <2>11, <2>12, <2>13 DEF TasksOK
<1>17. TrashOK'
  <2>1. \A u \in Task : <<"job", u>> # <<"task", t>> /\ (<<"task", u>> = <<"task", t>> <=> u = t)
    OBVIOUS
  <2>2. The("engine") # <<"task", t>>
    BY DEF The
  <2>3. Elems(trash)' = {<<"task", t>>} \cup Elems(trash) /\ Different(trash)'
    BY <1>12 DEF Elems, Different
  <2> QED
    BY <1>5, <1>6, <2>1, <2>2, <2>3 DEF IInv, TrashOK
<1>18. EngineOK'
  <2>1. EngineStays(a, l)
    BY <1>1, <1>4 DEF EngineStays, EngineFree, UsesEngine
  <2> QED
    BY <1>1, <1>2, <1>5, <1>7, <2>1, EngineMove DEF IInv
<1>19. (Failed <=> Failed') /\ (Ending' => Ending)
  BY <1>1, <1>2, <1>4, <1>5, <1>7, FailedMove, EndingMove DEF Ending, EngineFree
<1>20. RunnersOK' /\ HandsOK' /\ ApartOK'
  BY <1>1, <1>2, <1>4, <1>5, <1>7, <1>19, RunnersMove, HandsMove, ApartMove DEF IInv, HandLabel, TaskFree, TaskCall
<1>21. HeldOK'
  <2>1. ASSUME NEW b \in App, b # a PROVE Spared(b)
    <3>1. pc[b] \in {"commit", "dep", "wait", "wire", "handle"} => on[b] \in Task /\ on[b] # t
      BY <1>9, <2>1, Roles DEF Frees, Uses, TaskFree, TaskCall, IInv, Typed, ThreadsTyped, OnLabel
    <3>2. pc[b] = "dep" => parent[on[b]] \in Task /\ parent[on[b]] # t
      BY <1>9, <2>1, Roles DEF Uses, IInv, Typed, ThreadsTyped
    <3> QED
      BY <1>5, <1>6, <3>1, <3>2 DEF Spared
  <2>2. HeldBy(a)'
    BY <1>1, <1>2, <1>4, <1>8 DEF HeldBy, IInv, Typed, ThreadsTyped, RanLabel, Commits
  <2>3. HeldIn(a)'
    <3>1. walk = 0 => handleMem[t] = "live"
      BY <1>1, <1>3 DEF IInv, HeldOK, TaskFree
    <3> QED
      BY <1>2, <1>3, <1>4, <1>5, <1>6, <1>8, <3>1 DEF HeldIn, Awaited, TaskFree, Running
  <2>4. \A u \in Elems(queue') : Present(u)'
    BY <1>2, <1>10 DEF IInv, HeldOK, Typed, ObjectsTyped, Elems
  <2> QED
    BY <1>1, <1>2, <1>7, <1>8, <1>10, <2>1, <2>2, <2>3, <2>4, HeldKeep DEF IInv, Typed
<1>22. DepsOK'
  <2>1. (\A b \in App : pc'[b] # "sweep") => \A b \in App : pc[b] # "sweep"
    BY <1>1, <1>8
  <2>2. \A u \in Task : (taskMem'[u] = "none" <=> taskMem[u] = "none") /\ (taskMem'[u] = "freed" <=> taskMem[u] = "freed")
    BY <1>3, <1>6
  <2> QED
    BY <1>2, <1>5, <1>10, <2>1, <2>2 DEF IInv, DepsOK
<1>23. OrderlyOK'
  <2>1. OrderlyStays(a, l)
    BY <1>1, <1>4 DEF OrderlyStays, EngineFree, TaskFree, UsesEngine
  <2> QED
    BY <1>1, <1>2, <1>5, <1>7, <1>19, <2>1, OrderlyMove DEF IInv
<1> QED
  BY <1>13, <1>14, <1>15, <1>16, <1>17, <1>18, <1>20, <1>21, <1>22, <1>23 DEF IInv

LEMMA FreeHandleStep ==
  ASSUME IInv, NEW a \in App, FreeHandle(a)
  PROVE  IInv'
<1> a \in Thread
  BY Roles
<1> DEFINE t == on[a]
<1>1. /\ pc[a] = "handle" /\ Goto(a, "idle") /\ mem' = Becomes({<<"handle", t>>}, "freed")
      /\ UNCHANGED <<config, calls, trash, lists, taskv, enginev, judged>>
  BY DEF FreeHandle, At
<1>2. /\ UNCHANGED <<parent, listens, events, script, on, awaits, ran, walk, trash, tasks, engines, taskLock>>
      /\ UNCHANGED <<status, ep, job, wanted, dep, queue, nt, njob, evtLock, polled, told, fault, orderly>>
      /\ UNCHANGED <<attached, refs, engineLock>>
  BY <1>1, SameDeps DEF config, calls, taskv, enginev, judged, lists
<1>3. /\ PcTyped /\ walk \in Nat /\ Open /\ walk = 0
  BY <1>1, Placed DEF IInv, Typed, CloseOK, Outside
<1>4. t \in Task /\ on[a] = t /\ handleMem[t] = "live" /\ taskMem[t] = "disposed"
  BY <1>1, <1>3 DEF IInv, HeldOK, Typed, ThreadsTyped, OnLabel, TaskFree
<1> t' = t
  BY <1>2
<1> HIDE DEF t
<1>5. /\ mem' \in [Object -> States] /\ UNCHANGED <<taskMem, jobMem, depMem, libMem>>
      /\ handleMem' = [handleMem EXCEPT ![t] = "freed"]
  BY <1>1, <1>4, BecomeTask DEF IInv, Typed, States
<1>6. /\ handleMem'[t] = "freed" /\ \A u \in Task : u # t => handleMem'[u] = handleMem[u]
      /\ handleMem' \in [Task -> {"none", "live", "freed"}]
  BY <1>4, <1>5 DEF IInv, Typed, ObjectsTyped
<1>7. pc'[a] = "idle" /\ \A b \in App \ {a} : pc'[b] = pc[b]
  BY <1>1, <1>3, Moved, Roles
<1>8. \A b \in App \ {a} : \A u \in Task : (Frees(b, u) \/ Uses(b, u)) => u # t
  BY <1>1, <1>4 DEF IInv, ApartOK, Frees, TaskFree
<1>9. Typed'
  <2>1. Fits(a, "idle")
    BY <1>1, Roles DEF Fits, IInv, Typed, ThreadsTyped, AppLabel, Outside, OnLabel, RanLabel, Commits, TaskCall, TaskFree
  <2>2. ConfigTyped' /\ PcTyped' /\ ThreadsTyped'
    BY <1>1, <1>2, <2>1, ConfigSame, PcMove, ThreadsMove DEF IInv, Typed, Fits
  <2>3. StateTyped'
    BY <1>2 DEF StateTyped, IInv, Typed
  <2>4. ObjectsTyped'
    BY <1>2, <1>5, <1>6 DEF ObjectsTyped, IInv, Typed, States
  <2> QED
    BY <2>2, <2>3, <2>4 DEF Typed
<1>10. LibOK' /\ CloseOK'
  BY <1>1, <1>2, <1>3, <1>5, LibOpen, CloseMove DEF IInv, Finalizing
<1>11. \A u \in Task : handleMem'[u] = "none" <=> handleMem[u] = "none"
  BY <1>4, <1>6
<1>12. TasksOK'
  BY <1>1, <1>2, <1>3, <1>5, <1>11, TasksMove DEF IInv, Freeing
<1>13. TrashOK'
  BY <1>2, <1>5, TrashSame DEF IInv
<1>14. EngineOK'
  <2>1. EngineStays(a, "idle")
    BY <1>1 DEF EngineStays, EngineFree, UsesEngine
  <2> QED
    BY <1>1, <1>2, <1>3, <1>5, <2>1, EngineMove DEF IInv
<1>15. (Failed <=> Failed') /\ (Ending' => Ending)
  BY <1>1, <1>2, <1>3, <1>5, FailedMove, EndingMove DEF Ending, EngineFree
<1>16. RunnersOK' /\ HandsOK' /\ ApartOK' /\ DepsOK'
  BY <1>1, <1>2, <1>3, <1>5, <1>15, RunnersMove, HandsMove, ApartMove, DepsMove DEF IInv, HandLabel, TaskFree, TaskCall
<1>17. HeldOK'
  <2>1. ASSUME NEW b \in App, b # a PROVE Spared(b)
    <3>1. pc[b] \in TaskCall \cup TaskFree => on[b] \in Task /\ on[b] # t
      BY <1>8, <2>1, Roles DEF Frees, Uses, IInv, Typed, ThreadsTyped, OnLabel
    <3> QED
      BY <1>5, <1>6, <3>1 DEF Spared, TaskCall
  <2>2. \A u : Present(u)' <=> Present(u)
    BY <1>5 DEF Present
  <2>3. HeldBy(a)'
    BY <1>1, <1>2, <1>7 DEF HeldBy, IInv, Typed, ThreadsTyped, RanLabel, Commits
  <2>4. HeldIn(a)'
    BY <1>7 DEF HeldIn, Awaited, TaskFree, Running
  <2>5. \A u \in Elems(queue') : Present(u)'
    BY <1>2, <2>2 DEF IInv, HeldOK
  <2> QED
    BY <1>1, <1>2, <1>3, <1>7, <2>1, <2>2, <2>3, <2>4, <2>5, HeldKeep DEF IInv, Typed
<1>18. OrderlyOK'
  <2>1. CASE ~orderly
    BY <1>2, <2>1 DEF OrderlyOK
  <2>2. CASE orderly
    <3>1. OrderlyStays(a, "idle")
      BY <1>1 DEF OrderlyStays, EngineFree, TaskFree, UsesEngine
    <3>2. status[t] = "IDLE" \/ Ended(t)
      BY <1>1, <1>4, <2>2 DEF IInv, OrderlyOK, TaskFree
    <3>3. \A u \in Task : handleMem'[u] = "freed" => handleMem[u] = "freed" \/ status[u] = "IDLE" \/ Ended(u)
      BY <1>6, <3>2
    <3> QED
      BY <1>1, <1>2, <1>3, <1>5, <1>15, <3>1, <3>3, OrderlyMove DEF IInv
  <2> QED
    BY <2>1, <2>2
<1> QED
  BY <1>9, <1>10, <1>12, <1>13, <1>14, <1>16, <1>17, <1>18 DEF IInv

-----------------------------------------------------------------------------
(* The calls of the application. *)

\* Who calls is not finalizing, and neither is anybody else.
LEMMA Calling ==
  ASSUME IInv, NEW a \in App, pc[a] = "idle", script[a] # <<>>
  PROVE  walk = 0 /\ \A b \in App : pc[b] # "finalize"
  BY DEF IInv, CloseOK, Alone, Typed, StateTyped

\* What the client has, in terms of the memory kind by kind.
LEMMA Has ==
  ASSUME NEW t \in Task
  PROVE  /\ HasTask(t) => handleMem[t] = "live" /\ taskMem[t] = "live" /\ \A b \in App : ~Frees(b, t)
         /\ HasEngine <=> /\ libMem["ehandle"] = "live" /\ libMem["engine"] = "live"
                          /\ \A b \in App : pc[b] \notin EngineFree
         /\ Initialized <=> Open
         /\ HasDep(t) <=> depMem[t] # "none"
         /\ handleMem[t] = mem[<<"handle", t>>] /\ libMem["ehandle"] = mem[The("ehandle")]
         /\ taskMem[t] = mem[<<"task", t>>]
  BY DEF HasTask, HasEngine, Initialized, HasDep, handleMem, taskMem, libMem, depMem, LibKind, Open

Op == {"create", "dep", "commit", "wait", "told", "made", "free", "init", "engine", "mpi", "alone",
       "engine_free", "finalize"}
TaskOp == {"create", "dep", "commit", "wait", "told", "made", "free"}

\* What is the case when thread a begins call l about t.
Begins(a, l, t) ==
    /\ l \in Op /\ (l \in TaskOp => t \in Task) /\ t \in Task \cup {NoTask}
    /\ l = "init" => ~Open /\ \A b \in App : pc[b] \in Outside
    /\ l = "create" => Open /\ handleMem[t] = "none"
    /\ l \in {"dep", "commit", "wait", "free"} =>
           handleMem[t] = "live" /\ taskMem[t] = "live" /\ \A b \in App : ~Frees(b, t)
    /\ l = "dep" => /\ parent[t] \in Task /\ depMem[t] = "none"
                    /\ handleMem[parent[t]] = "live" /\ taskMem[parent[t]] = "live"
                    /\ \A b \in App : ~Frees(b, parent[t]) /\ ~(pc[b] = "dep" /\ on[b] = t)
    /\ l \in {"commit", "mpi", "engine_free"} =>
           libMem["engine"] = "live" /\ \A b \in App : pc[b] \notin EngineFree
    /\ l \in {"create", "free"} => \A b \in App : ~Uses(b, t)
    /\ l = "engine" => Open /\ libMem["ehandle"] = "none" /\ \A b \in App : pc[b] # "engine"
    /\ l = "finalize" => Open /\ Alone(a) /\ \A u \in Elems(tasks) : taskMem[u] = "live"

LEMMA Beginning ==
  ASSUME IInv, NEW a \in App, Begin(a)
  PROVE  Begins(a, Head(script[a]).op, Head(script[a]).task)
<1> DEFINE c == Head(script[a])
<1> DEFINE l == c.op
<1> DEFINE t == c.task
<1>1. script[a] # <<>> /\ script[a] \in Seq(Call) /\ Possible(a, c)
  BY DEF Begin, IInv, Typed, ConfigTyped
<1>2. c \in Call
  BY <1>1
<1>3. l \in Op /\ (l \in TaskOp => t \in Task) /\ t \in Task \cup {NoTask}
  BY <1>2 DEF Call, Op, TaskOp
<1>4. l \notin TaskOp => l \in {"init", "engine", "mpi", "alone", "engine_free", "finalize"}
  BY <1>3 DEF Op, TaskOp
<1> SUFFICES Begins(a, l, t)
  OBVIOUS
<1> HIDE DEF c
<1>5. CASE l = "init"
  BY <1>1, <1>3, <1>5 DEF Begins, Possible, Initialized, Open, libMem, LibKind, Outside
<1>6. CASE l = "create"
  <2>1. Initialized /\ mem[<<"handle", t>>] = "none" /\ \A b \in App : ~Uses(b, t)
    BY <1>1, <1>6 DEF Possible
  <2> QED
    BY <1>3, <1>6, <2>1, Has DEF Begins, TaskOp
<1>7. CASE l = "dep"
  <2>1. /\ HasTask(t) /\ parent[t] \in Task /\ HasTask(parent[t]) /\ ~HasDep(t)
        /\ \A b \in App : ~(pc[b] = "dep" /\ on[b] = t)
    BY <1>1, <1>7 DEF Possible
  <2> QED
    BY <1>3, <1>7, <2>1, Has DEF Begins, TaskOp
<1>8. CASE l = "commit"
  <2>1. HasTask(t) /\ HasEngine
    BY <1>1, <1>8 DEF Possible
  <2> QED
    BY <1>3, <1>8, <2>1, Has DEF Begins, TaskOp
<1>9. CASE l = "wait"
  <2>1. HasTask(t)
    BY <1>1, <1>9 DEF Possible
  <2> QED
    BY <1>3, <1>9, <2>1, Has DEF Begins, TaskOp
<1>10. CASE l = "free"
  <2>1. HasTask(t) /\ \A b \in App : ~Uses(b, t)
    BY <1>1, <1>10 DEF Possible
  <2> QED
    BY <1>3, <1>10, <2>1, Has DEF Begins, TaskOp
<1>11. CASE l = "engine"
  <2>1. Initialized /\ mem[The("ehandle")] = "none" /\ \A b \in App : pc[b] # "engine"
    BY <1>1, <1>11 DEF Possible
  <2> QED
    BY <1>3, <1>11, <2>1 DEF Begins, TaskOp, Initialized, Open, libMem, LibKind
<1>12. CASE l \in {"mpi", "engine_free"}
  <2>1. HasEngine
    BY <1>1, <1>12 DEF Possible
  <2> QED
    BY <1>3, <1>12, <2>1 DEF Begins, TaskOp, HasEngine, libMem, LibKind
<1>13. CASE l = "finalize"
  <2>1. Initialized /\ Alone(a) /\ \A i \in DOMAIN tasks : mem[<<"task", tasks[i]>>] = "live"
    BY <1>1, <1>13 DEF Possible
  <2>2. \A u \in Elems(tasks) : taskMem[u] = "live"
    <3>1. \A i \in DOMAIN tasks : tasks[i] \in Task
      BY DEF IInv, Typed, ObjectsTyped
    <3> QED
      BY <2>1, <3>1 DEF Elems, taskMem
  <2>3. Open
    BY <2>1 DEF Initialized, Open, libMem, LibKind
  <2> QED
    BY <1>3, <1>13, <2>1, <2>2, <2>3 DEF Begins, TaskOp
<1>14. CASE l \in {"told", "made", "alone"}
  BY <1>3, <1>14 DEF Begins
<1> QED
  BY <1>3, <1>5, <1>6, <1>7, <1>8, <1>9, <1>10, <1>11, <1>12, <1>13, <1>14 DEF Op

LEMMA BeginStep ==
  ASSUME IInv, NEW a \in App, Begin(a)
  PROVE  IInv'
<1> a \in Thread
  BY Roles
<1> DEFINE c == Head(script[a])
<1> DEFINE l == c.op
<1> DEFINE t == c.task
<1>1. /\ pc[a] = "idle" /\ script[a] # <<>> /\ Goto(a, l)
      /\ on' = [on EXCEPT ![a] = t] /\ awaits' = [awaits EXCEPT ![a] = t]
      /\ script' = [script EXCEPT ![a] = Tail(script[a])]
      /\ UNCHANGED <<config, ran, walk, objects, taskv, enginev, told, fault>>
  BY Zenon DEF Begin, At
<1>2. /\ UNCHANGED <<parent, listens, events, ran, walk, mem, trash, tasks, engines, taskLock>>
      /\ UNCHANGED <<status, ep, job, wanted, dep, queue, nt, njob, evtLock, polled, told, fault>>
      /\ UNCHANGED <<taskMem, handleMem, jobMem, depMem, libMem, attached, refs, engineLock>>
  BY <1>1, SameMemory, SameDeps DEF config, taskv, enginev, objects, lists
<1>3. Begins(a, l, t)
  BY Beginning
<1>4. orderly' \in BOOLEAN /\ (orderly' => orderly /\ Allowed(a, c))
  BY Zenon DEF Begin
<1>5. orderly' => /\ l = "free" => Ended(t) \/ status[t] = "IDLE"
                  /\ l = "engine_free" => NotBusy /\ \A b \in App : pc[b] \notin UsesEngine
                  /\ l = "finalize" => NotBusy
  BY <1>4 DEF Allowed
<1>6. script' \in [App -> Seq(Call)] /\ \A b \in App : b # a => script'[b] = script[b]
  BY <1>1 DEF IInv, Typed, ConfigTyped
<1> HIDE DEF c
<1>7. PcTyped /\ walk = 0 /\ ran[a] = NoTask /\ \A b \in App : pc[b] # "finalize"
  <2>1. ran[a] = NoTask
    BY <1>1 DEF IInv, Typed, ThreadsTyped, RanLabel, Commits
  <2> QED
    BY <1>1, <2>1, Calling DEF IInv, Typed
<1>8. pc'[a] = l /\ \A x \in Thread : x # a => pc'[x] = pc[x]
  BY <1>1, <1>7, Moved
<1>9. l \in Op /\ (l \in TaskOp => t \in Task) /\ t \in Task \cup {NoTask}
  BY <1>3 DEF Begins
<1>10. /\ on' \in [Thread -> Task \cup {NoTask}] /\ on'[a] = t /\ \A x \in Thread : x # a => on'[x] = on[x]
       /\ awaits' \in [App -> Task \cup {NoTask}] /\ awaits'[a] = t /\ \A b \in App : b # a => awaits'[b] = awaits[b]
  BY <1>1, <1>9 DEF IInv, Typed, ThreadsTyped
<1>11. Typed'
  <2>1. ConfigTyped'
    BY <1>2, <1>6 DEF ConfigTyped, IInv, Typed
  <2>2. PcTyped'
    BY <1>1, <1>7, <1>9, PcMove, Roles DEF Op, AppLabel, Outside, TaskCall, TaskFree, EngineFree
  <2>3. ThreadsTyped'
    <3>1. ASSUME NEW x \in Thread
          PROVE  /\ pc'[x] \in OnLabel => on'[x] \in Task
                 /\ pc'[x] \in RanLabel => ran[x] \in Task
                 /\ pc'[x] \in Commits /\ x \in Worker => ran[x] \in Task
                 /\ pc'[x] \notin RanLabel \cup Commits => ran[x] = NoTask
                 /\ pc'[x] = "final" => on'[x] = ran[x]
                 /\ pc'[x] = "dep" => parent[on'[x]] \in Task
      <4>1. CASE x = a
        <5>1. l \notin RanLabel \cup Commits /\ (l \in OnLabel => l \in TaskOp)
          BY <1>9 DEF Op, TaskOp, RanLabel, Commits, OnLabel, TaskCall, TaskFree
        <5>2. l = "dep" => parent[t] \in Task
          BY <1>3 DEF Begins
        <5> QED
          BY <1>7, <1>8, <1>9, <1>10, <4>1, <5>1, <5>2 DEF RanLabel
      <4>2. CASE x # a
        BY <1>8, <1>10, <4>2 DEF IInv, Typed, ThreadsTyped
      <4> QED
        BY <4>1, <4>2
    <3>2. ran \in [Thread -> Task \cup {NoTask}]
      BY DEF IInv, Typed, ThreadsTyped
    <3> QED
      BY <1>2, <1>10, <3>1, <3>2 DEF ThreadsTyped
  <2>4. ObjectsTyped'
    BY <1>2 DEF ObjectsTyped, IInv, Typed
  <2>5. StateTyped'
    BY <1>2, <1>4 DEF StateTyped, IInv, Typed
  <2> QED
    BY <2>1, <2>2, <2>3, <2>4, <2>5 DEF Typed
<1>12. Gone' <=> Gone
  BY <1>8, Roles DEF Gone
<1>13. (Open' <=> Open) /\ (l \in Outside \cup {"init"} \/ Open)
  <2>1. Open' <=> Open
    BY <1>2 DEF Open
  <2>2. l \in {"create", "engine", "finalize"} => Open
    BY <1>3 DEF Begins
  <2>3. l \in {"dep", "commit", "wait", "free"} => Open
    BY <1>3, <1>9 DEF Begins, TaskOp, IInv, TasksOK
  <2>4. l \in {"mpi", "engine_free"} => Open
    BY <1>3 DEF Begins, IInv, EngineOK
  <2> QED
    BY <1>9, <2>1, <2>2, <2>3, <2>4 DEF Op, Outside
<1>14. LibOK'
  <2>1. l = "init" => ~Open /\ \A b \in App : pc[b] \in Outside
    BY <1>3 DEF Begins
  <2>2. l \notin {"sweep", "polls"}
    BY <1>9 DEF Op
  <2>3. \A b \in App : b # a => pc'[b] = pc[b]
    BY <1>8, Roles
  <2>4. Open => \A b \in App : pc'[b] \notin {"init", "sweep", "polls"}
    BY <1>8, <2>1, <2>2, <2>3 DEF IInv, LibOK
  <2>5. ~Open => Gone' /\ \A b \in App : pc'[b] \in Outside \cup {"init", "sweep", "polls"}
    BY <1>8, <1>12, <1>13, <2>3 DEF IInv, LibOK
  <2>6. \A b \in App : pc'[b] = "init" => \A x \in App \ {b} : pc'[x] \in Outside
    <3> SUFFICES ASSUME NEW b \in App, pc'[b] = "init", NEW x \in App \ {b} PROVE pc'[x] \in Outside
      OBVIOUS
    <3>1. CASE b = a
      BY <1>8, <2>1, <2>3, <3>1
    <3>2. CASE b # a
      <4>1. pc[b] = "init" /\ ~Open /\ l # "init"
        BY <2>1, <2>3, <3>2 DEF IInv, LibOK, Outside
      <4> QED
        BY <1>8, <1>13, <2>3, <4>1 DEF IInv, LibOK
    <3> QED
      BY <3>1, <3>2
  <2>7. \A b \in App : pc'[b] \in {"sweep", "polls"} => pc'[b] = pc[b]
    BY <1>8, <2>2, <2>3
  <2> QED
    BY <1>2, <1>7, <1>13, <2>4, <2>5, <2>6, <2>7 DEF IInv, LibOK
<1>15. CloseOK'
  <2>1. l = "finalize" => Alone(a)'
    <3>1. l = "finalize" => Alone(a)
      BY <1>3 DEF Begins
    <3> QED
      BY <1>6, <1>8, <3>1, Roles DEF Alone
  <2>2. l \notin Finalizing
    BY <1>9 DEF Op, Finalizing
  <2>3. \A b \in App : b # a => pc'[b] = pc[b]
    BY <1>8, Roles
  <2>4. walk' = 0
    BY <1>2, <1>7
  <2> QED
    BY <1>7, <1>8, <2>1, <2>2, <2>3, <2>4 DEF IInv, CloseOK
<1>16. TasksOK'
  <2>1. walk' = 0 /\ \A u : Present(u)' <=> Present(u)
    BY <1>2, <1>7 DEF Present
  <2>2. \A b \in App : b # a => pc'[b] = pc[b] /\ on'[b] = on[b]
    BY <1>8, <1>10, Roles
  <2>3. l \notin Freeing /\ pc[a] \notin Freeing
    BY <1>1, <1>9 DEF Op, Freeing
  <2>4. l = "free" => taskMem[t] = "live"
    BY <1>3 DEF Begins
  <2>5. l = "finalize" => \A u \in Elems(tasks) : taskMem[u] = "live"
    BY <1>3 DEF Begins
  <2>6. Elems(tasks)' = Elems(tasks) /\ Different(tasks)' /\ tasks' = tasks
    BY <1>2 DEF Elems, Different, IInv, TasksOK
  <2>7. \A u \in Task : taskMem[u] = "live" => u \in Elems(tasks) \/ \E b \in App : pc'[b] \in Freeing /\ on'[b] = u
    BY <2>2, <2>3 DEF IInv, TasksOK
  <2>8. \A b \in App : /\ pc'[b] \in Freeing \cup {"free"} => taskMem[on'[b]] = "live"
                       /\ pc'[b] \in Freeing => on'[b] \notin Elems(tasks)
                       /\ pc'[b] = "finalize" => \A u \in Elems(tasks) : taskMem[u] = "live"
    BY <1>7, <1>8, <1>10, <2>2, <2>3, <2>4, <2>5 DEF IInv, TasksOK
  <2> QED
    BY <1>2, <1>7, <1>13, <2>1, <2>6, <2>7, <2>8 DEF IInv, TasksOK
<1>17. TrashOK' /\ RunnersOK' /\ DepsOK'
  BY <1>1, <1>2, <1>7, TrashSame, RunnersMove, DepsMove DEF IInv
<1>18. EngineOK'
  <2>1. l \notin EngineFree \ {"engine_free"} /\ l \notin {"lists", "sweep", "polls"}
        /\ (l \in UsesEngine => l = "commit")
    BY <1>9 DEF Op, EngineFree, UsesEngine
  <2>2. l \in {"commit", "mpi", "engine_free"} => libMem["engine"] = "live" /\ \A b \in App : pc[b] \notin EngineFree
    BY <1>3 DEF Begins
  <2>3. l = "engine" => libMem["engine"] = "none" /\ \A b \in App : pc[b] # "engine"
    BY <1>3 DEF Begins, IInv, EngineOK
  <2>4. \A b \in App : b # a => pc'[b] = pc[b]
    BY <1>8, Roles
  <2>5. libMem["engine"] = "none" => \A b \in App : pc'[b] \notin EngineFree \cup UsesEngine \cup {"mpi"}
    BY <1>8, <2>1, <2>2, <2>4 DEF IInv, EngineOK
  <2>6. nt = 0 => Gone \/ \E b \in App : pc'[b] \in {"wake", "join"}
    BY <1>1, <2>4 DEF IInv, EngineOK
  <2>7. Open /\ engines => libMem["engine"] = "live" \/ \E b \in App : pc'[b] \in {"erase", "lists"}
    BY <1>1, <2>4 DEF IInv, EngineOK
  <2>8. \A x, y \in App : pc'[x] \in EngineFree /\ pc'[y] \in EngineFree => x = y
    BY <1>8, <2>1, <2>2, <2>4 DEF IInv, EngineOK
  <2>9. \A x, y \in App : pc'[x] = "engine" /\ pc'[y] = "engine" => x = y
    BY <1>8, <2>3, <2>4 DEF IInv, EngineOK
  <2>10. ASSUME NEW b \in App
         PROVE  /\ pc'[b] = "engine" => libMem["engine"] = "none"
                /\ pc'[b] \in EngineFree \ {"erase"} => libMem["engine"] = "live"
                /\ pc'[b] \in {"drain", "edispose"} => Gone
                /\ pc'[b] = "edispose" => queue = <<>> /\ libMem["queue"] = "freed"
                /\ pc'[b] = "erase" => libMem["engine"] = "disposed" /\ libMem["ehandle"] = "live"
                /\ pc'[b] \in {"lists", "sweep", "polls"} => libMem["engine"] # "live"
    <3>1. CASE b = a
      BY <1>8, <2>1, <2>2, <2>3, <3>1 DEF EngineFree
    <3>2. CASE b # a
      BY <2>4, <3>2 DEF IInv, EngineOK
    <3> QED
      BY <3>1, <3>2
  <2> QED
    BY <1>2, <1>12, <1>13, <2>5, <2>6, <2>7, <2>8, <2>9, <2>10 DEF IInv, EngineOK
<1>19. Failed <=> Failed'
  BY <1>1, <1>2, <1>7, <1>9, FailedMove DEF Op
<1>20. HandsOK'
  <2>1. l \notin HandLabel /\ pc[a] \notin HandLabel
    BY <1>1, <1>9 DEF Op, HandLabel
  <2> QED
    BY <1>1, <1>2, <1>7, <1>10, <1>19, <2>1, HandsMove DEF IInv
<1>21. HeldOK'
  <2>1. \A b \in App : b # a => Spared(b)
    BY <1>2 DEF Spared
  <2>2. \A u : Present(u)' <=> Present(u)
    BY <1>2 DEF Present
  <2>3. HeldBy(a)'
    BY <1>2, <1>7, <1>8, <1>9 DEF HeldBy, Op
  <2>4. HeldIn(a)'
    <3>1. /\ l \in {"dep", "commit", "wait", "free"} => handleMem[t] = "live" /\ taskMem[t] = "live"
          /\ l = "dep" => taskMem[parent[t]] = "live" /\ depMem[t] = "none"
          /\ l = "create" => handleMem[t] = "none"
      BY <1>3 DEF Begins
    <3>2. l \notin {"wire", "handle", "spin"} \cup Running /\ (l \in TaskFree => l = "free") /\ (l = "wait" => t \in Task)
      BY <1>9 DEF Op, TaskOp, Running, TaskFree
    <3>3. l = "wait" => Present(t)
      BY <3>1 DEF Present
    <3>4. Awaited(a)'
      BY <1>8, <1>10, <2>2, <3>2, <3>3 DEF Awaited
    <3> QED
      BY <1>2, <1>8, <1>10, <3>1, <3>2, <3>4 DEF HeldIn
  <2>5. \A u \in Elems(queue') : Present(u)'
    BY <1>2, <2>2 DEF IInv, HeldOK
  <2> QED
    BY <1>1, <1>2, <1>7, <1>10, <2>1, <2>2, <2>3, <2>4, <2>5, HeldKeep, Roles DEF IInv, Typed
<1>22. ApartOK'
  <2>1. \A b \in App : b # a => pc'[b] = pc[b] /\ on'[b] = on[b]
    BY <1>8, <1>10, Roles
  <2>2. \A b \in App : \A u \in Task : b # a => (Frees(b, u)' <=> Frees(b, u)) /\ (Uses(b, u)' <=> Uses(b, u))
    BY <1>2, <2>1 DEF Frees, Uses
  <2>3. \A u \in Task : Frees(a, u)' => l = "free" /\ u = t
    BY <1>8, <1>9, <1>10 DEF Frees, TaskFree, Op
  <2>4. \A u \in Task : Uses(a, u)' => (l \in {"create", "dep", "commit", "wait"} /\ u = t)
                                         \/ (l = "dep" /\ u = parent[t])
    BY <1>2, <1>8, <1>9, <1>10 DEF Uses, TaskCall, Op
  <2>5. /\ l \in {"dep", "commit", "wait", "free"} => handleMem[t] = "live" /\ \A b \in App : ~Frees(b, t)
        /\ l = "dep" => handleMem[parent[t]] = "live"
                        /\ \A b \in App : ~Frees(b, parent[t]) /\ ~(pc[b] = "dep" /\ on[b] = t)
        /\ l = "create" => handleMem[t] = "none"
        /\ l \in {"create", "free"} => \A b \in App : ~Uses(b, t)
    BY <1>3 DEF Begins
  <2>6. \A b \in App : \A u \in Task :
            /\ Frees(b, u) => handleMem[u] = "live"
            /\ pc[b] = "create" /\ Uses(b, u) => handleMem[u] = "none"
    BY <1>7 DEF IInv, HeldOK, Frees, Uses
  <2>7. ASSUME NEW x \in App, NEW y \in App, NEW u \in Task
        PROVE  /\ ~(Frees(x, u)' /\ Uses(y, u)')
               /\ Frees(x, u)' /\ Frees(y, u)' => x = y
               /\ pc'[x] = "create" /\ Uses(x, u)' /\ Uses(y, u)' => x = y
               /\ pc'[x] = "dep" /\ pc'[y] = "dep" /\ on'[x] = on'[y] => x = y
    <3>1. CASE x = a /\ y = a
      BY <2>3, <2>4, <3>1
    <3>2. CASE x = a /\ y # a
      BY <1>8, <1>10, <2>1, <2>2, <2>3, <2>4, <2>5, <2>6, <3>2
    <3>3. CASE x # a /\ y = a
      <4>1. ~(Frees(x, u)' /\ Uses(a, u)')
        <5> SUFFICES ASSUME Frees(x, u)', Uses(a, u)' PROVE FALSE
          OBVIOUS
        <5>1. Frees(x, u) /\ handleMem[u] = "live"
          BY <2>2, <2>6, <3>3
        <5>2. CASE u = t /\ l \in {"create", "dep", "commit", "wait"}
          BY <2>5, <5>1, <5>2
        <5>3. CASE u = parent[t] /\ l = "dep"
          BY <2>5, <5>1, <5>3
        <5> QED
          BY <2>4, <5>2, <5>3
      <4>2. ~(Frees(x, u)' /\ Frees(a, u)')
        BY <2>2, <2>3, <2>5, <3>3
      <4>3. ~(pc'[x] = "create" /\ Uses(x, u)' /\ Uses(a, u)')
        BY <2>1, <2>2, <2>4, <2>5, <2>6, <3>3
      <4>4. ~(pc'[x] = "dep" /\ pc'[a] = "dep" /\ on'[x] = on'[a])
        BY <1>8, <1>10, <2>1, <2>5, <3>3
      <4> QED
        BY <3>3, <4>1, <4>2, <4>3, <4>4
    <3>4. CASE x # a /\ y # a
      BY <2>1, <2>2, <3>4 DEF IInv, ApartOK
    <3> QED
      BY <3>1, <3>2, <3>3, <3>4
  <2> QED
    BY <2>7 DEF ApartOK
<1>23. OrderlyOK'
  <2> SUFFICES ASSUME orderly' PROVE OrderlyOK'
    BY DEF OrderlyOK
  <2>1. orderly
    BY <1>4
  <2>2. (\A u : Ended(u)' <=> Ended(u)) /\ (NotBusy' <=> NotBusy)
    BY <1>2 DEF Ended, NotBusy
  <2>3. \A b \in App : b # a => pc'[b] = pc[b] /\ on'[b] = on[b]
    BY <1>8, <1>10, Roles
  <2>4. ~Failed'
    BY <1>19, <2>1 DEF IInv, OrderlyOK
  <2>5. Ending' => Ending \/ l \in {"engine_free", "finalize"}
    BY <1>2, <1>7, <1>8, <1>9, <2>3 DEF Ending, EngineFree, Op
  <2>6. Ending => l # "commit"
    <3>1. l = "commit" => libMem["engine"] = "live" /\ \A b \in App : pc[b] \notin EngineFree
      BY <1>3 DEF Begins
    <3> QED
      BY <1>7, <2>1, <3>1 DEF Ending, IInv, OrderlyOK, Failed, EngineFree
  <2>7. l = "finalize" => \A b \in App : pc[b] \notin UsesEngine
    <3>1. l = "finalize" => Alone(a)
      BY <1>3 DEF Begins
    <3> QED
      BY <1>1, <3>1 DEF Alone, UsesEngine
  <2>8. l \in UsesEngine => l = "commit"
    BY <1>9 DEF Op, UsesEngine
  <2>9. Ending' => NotBusy /\ \A b \in App : pc[b] \notin UsesEngine
    BY <1>5, <2>1, <2>5, <2>7 DEF IInv, OrderlyOK
  <2>10. Ending' => l # "commit"
    BY <2>5, <2>6
  <2>11. Ending' => \A b \in App : pc'[b] \notin UsesEngine
    BY <1>8, <2>3, <2>8, <2>9, <2>10
  <2>12. \A b \in App : pc'[b] \in TaskFree => status[on'[b]] = "IDLE" \/ Ended(on'[b])
    <3> SUFFICES ASSUME NEW b \in App, pc'[b] \in TaskFree PROVE status[on'[b]] = "IDLE" \/ Ended(on'[b])
      OBVIOUS
    <3>1. CASE b = a
      BY <1>5, <1>8, <1>9, <1>10, <3>1 DEF Op, TaskFree
    <3>2. CASE b # a
      BY <2>1, <2>3, <3>2 DEF IInv, OrderlyOK
    <3> QED
      BY <3>1, <3>2
  <2>13. \A b \in App : (pc[b] \in TaskFree => status[on[b]] = "IDLE" \/ Ended(on[b]))'
    BY <1>2, <2>12 DEF Ended
  <2>14. \A b \in App : pc'[b] # "nulljob"
    BY <1>8, <1>9, <2>1, <2>3 DEF Op, IInv, OrderlyOK
  <2>15. \A x \in Thread : pc'[x] = "job" => on'[x] \in wanted
    BY <1>8, <1>9, <1>10, <2>1 DEF Op, IInv, OrderlyOK
  <2>16. /\ \A u \in Elems(queue) : u \in wanted
         /\ \A u \in Task : job[u] => status[u] = "QUEUE"
         /\ \A u \in Task : handleMem[u] = "freed" => status[u] = "IDLE" \/ Ended(u)
    BY <2>1 DEF IInv, OrderlyOK
  <2>17. Elems(queue)' = Elems(queue)
    BY <1>2 DEF Elems
  <2> QED
    BY <1>2, <2>2, <2>4, <2>9, <2>11, <2>13, <2>14, <2>15, <2>16, <2>17 DEF OrderlyOK
<1> QED
  BY <1>11, <1>14, <1>15, <1>16, <1>17, <1>18, <1>20, <1>21, <1>22, <1>23 DEF IInv

-----------------------------------------------------------------------------
(* The invariant. *)

\* A process that dies leaves all else as it is.
LEMMA DiesStep ==
  ASSUME IInv, fault' \in {"none", "freed_memory", "null_engine", "null_job"},
         UNCHANGED <<config, threads, objects, taskv, enginev, told, orderly>>
  PROVE  IInv'
<1>1. /\ UNCHANGED <<parent, listens, events, script, pc, on, awaits, ran, walk, mem, trash, tasks, engines, taskLock>>
      /\ UNCHANGED <<status, ep, job, wanted, dep, queue, nt, njob, evtLock, polled, told, orderly>>
      /\ UNCHANGED <<taskMem, handleMem, jobMem, depMem, libMem, attached, refs, engineLock>>
  BY SameMemory, SameDeps DEF config, threads, calls, taskv, enginev, objects, lists
<1>2. Typed'
  <2>1. ConfigTyped' /\ PcTyped' /\ ThreadsTyped'
    BY <1>1 DEF IInv, Typed, ConfigTyped, PcTyped, ThreadsTyped
  <2>2. ObjectsTyped'
    BY <1>1 DEF IInv, Typed, ObjectsTyped
  <2>3. StateTyped'
    BY <1>1 DEF IInv, Typed, StateTyped
  <2> QED
    BY <2>1, <2>2, <2>3 DEF Typed
<1>3. LibOK' /\ CloseOK'
  BY <1>1 DEF IInv, LibOK, CloseOK, Open, Gone, Alone
<1>4. TasksOK' /\ TrashOK'
  BY <1>1 DEF IInv, TasksOK, TrashOK, Open, Different, Elems, Present, Done
<1>5. EngineOK'
  BY <1>1 DEF IInv, EngineOK, Open, Gone
<1>6. HandsOK' /\ RunnersOK'
  BY <1>1 DEF IInv, HandsOK, RunnersOK, Different, Elems, Hand, Failed
<1>7. HeldOK' /\ ApartOK' /\ DepsOK'
  BY <1>1 DEF IInv, HeldOK, ApartOK, DepsOK, Elems, Present, Frees, Uses
<1>8. OrderlyOK'
  BY <1>1 DEF IInv, OrderlyOK, Failed, Ending, NotBusy, Ended, Elems
<1> QED
  BY <1>2, <1>3, <1>4, <1>5, <1>6, <1>7, <1>8 DEF IInv

LEMMA InitInv == Init => IInv
<1> SUFFICES ASSUME Init PROVE IInv
  OBVIOUS
<1>1. ConfigTyped
  BY LibraryAssumption DEF Init, ConfigTyped
<1>2. PcTyped /\ ThreadsTyped
  BY Roles DEF Init, PcTyped, ThreadsTyped, AppLabel, WorkerLabel, Outside, Working, OnLabel, RanLabel, Commits, TaskCall, TaskFree
<1>3. /\ taskMem = [t \in Task |-> "none"] /\ handleMem = [t \in Task |-> "none"]
      /\ jobMem = [t \in Task |-> "none"] /\ depMem = [t \in Task |-> "none"]
      /\ libMem = [k \in LibKind |-> "none"]
  BY DEF Init, taskMem, handleMem, jobMem, depMem, libMem, Object, The, LibKind
<1>4. attached = [t \in Task |-> FALSE] /\ refs = [t \in Task |-> 0]
  BY DEF Init, attached, refs
<1>5. /\ mem \in [Object -> States] /\ trash = <<>> /\ tasks = <<>> /\ engines = FALSE /\ taskLock = {}
      /\ engineLock = {} /\ queue = <<>> /\ njob = 0 /\ nt = 0 /\ evtLock = FALSE /\ polled = FALSE
      /\ wanted = {} /\ walk = 0 /\ told = {} /\ fault = "none" /\ orderly = TRUE
      /\ status = [t \in Task |-> "IDLE"] /\ ep = [t \in Task |-> FALSE] /\ job = [t \in Task |-> FALSE]
  BY DEF Init, States
<1>6. dep \in [Task -> [ref : Int, attached : BOOLEAN, orphan : BOOLEAN, childless : BOOLEAN]]
  BY DEF Init
<1>7. Gone /\ (\A a \in App : pc[a] = "idle") /\ ~Open /\ \A th \in Thread : pc[th] \in {"idle", "gone"} /\ ran[th] = NoTask
  BY <1>3, Roles DEF Init, Gone, Open, LibKind
<1>8. \A k \in LibKind : libMem[k] = "none"
  BY <1>3
<1>9. /\ libMem["engine"] = "none" /\ libMem["ehandle"] = "none" /\ libMem["queue"] = "none"
      /\ libMem["tasks"] = "none" /\ libMem["engines"] = "none" /\ libMem["disposer"] = "none"
      /\ libMem["polls"] = "none" /\ libMem["poll"] = "none"
  BY <1>8 DEF LibKind
<1>10. ObjectsTyped
  <2>1. /\ taskMem \in [Task -> {"none", "live", "disposed", "freed"}]
        /\ handleMem \in [Task -> {"none", "live", "freed"}]
        /\ jobMem \in [Task -> {"none", "live", "disposed", "freed"}]
        /\ depMem \in [Task -> {"none", "live", "freed"}]
        /\ libMem \in [LibKind -> {"none", "live", "disposed", "freed"}]
    BY <1>3
  <2>2. /\ trash \in Seq(({"task", "job"} \X Task) \cup {The("engine")})
        /\ tasks \in Seq(Task) /\ queue \in Seq(Task)
    BY <1>5
  <2> QED
    BY <1>5, <1>8, <1>9, <2>1, <2>2 DEF ObjectsTyped, States
<1>11. StateTyped
  BY <1>5, <1>6 DEF StateTyped
<1>12. LibOK /\ CloseOK
  BY <1>5, <1>7, <1>9 DEF LibOK, CloseOK, Outside, Finalizing
<1>13. TasksOK /\ TrashOK
  BY <1>3, <1>5, <1>7, <1>9 DEF TasksOK, TrashOK, Different, Elems, Present, Freeing
<1>14. EngineOK
  BY <1>5, <1>7, <1>9 DEF EngineOK, EngineFree, UsesEngine
<1>15. HandsOK /\ RunnersOK
  BY <1>3, <1>4, <1>5, <1>7 DEF HandsOK, RunnersOK, Different, Elems, Hand
<1>16. HeldOK
  BY <1>5, <1>7 DEF HeldOK, Elems, TaskFree, Running
<1>17. ApartOK
  BY <1>7 DEF ApartOK, Frees, Uses, TaskFree, TaskCall
<1>18. DepsOK
  BY <1>3, <1>4 DEF DepsOK
<1>19. OrderlyOK
  BY <1>3, <1>5, <1>7, <1>9 DEF OrderlyOK, Failed, Ending, Elems, TaskFree, EngineFree
<1> QED
  BY <1>1, <1>2, <1>10, <1>11, <1>12, <1>13, <1>14, <1>15, <1>16, <1>17, <1>18, <1>19 DEF IInv, Typed

\* What the application's threads and the workers do when they run a task.
LEMMA RunsStep ==
  ASSUME IInv, NEW th \in Thread, Runs(th)
  PROVE  IInv'
<1>1. CASE QueueToken(th)
  <2>1. CASE fault' = fault
    BY <1>1, <2>1, QueueTokenStep
  <2>2. CASE fault' # fault
    <3>1. fault' = "null_engine" /\ UNCHANGED <<njob, pc>>
      BY <1>1, <2>2 DEF QueueToken, Dies
    <3>2. UNCHANGED <<config, calls, objects, taskv, queue, nt, evtLock, polled, told, orderly>>
      BY <1>1 DEF QueueToken
    <3> QED
      BY <3>1, <3>2, DiesStep DEF threads, enginev
  <2> QED
    BY <2>1, <2>2
<1>2. CASE RunJob(th)
  <2>1. CASE fault' = fault
    BY <1>2, <2>1, RunJobStep
  <2>2. CASE fault' # fault
    <3>1. fault' = "null_job" /\ UNCHANGED <<job, status, ran, pc>>
      BY <1>2, <2>2 DEF RunJob, Dies
    <3>2. UNCHANGED <<config, script, on, awaits, walk, objects, ep, wanted, dep, enginev, told, orderly>>
      BY <1>2 DEF RunJob
    <3> QED
      BY <3>1, <3>2, DiesStep DEF threads, calls, taskv
  <2> QED
    BY <2>1, <2>2
<1> QED
  BY <1>1, <1>2, PopStep, TaskFinalStep, NotifyChildStep, NotifyEndsStep, StatusHandlerStep, QueueStep DEF Runs

LEMMA AppInv ==
  ASSUME IInv, NEW a \in App, AppStep(a)
  PROVE  IInv'
<1> a \in Thread
  BY Roles
<1>1. CASE TW_Task_wait(a)
  <2>1. CASE fault' = fault
    BY <1>1, <2>1, WaitStep
  <2>2. CASE fault' # fault
    <3>1. fault' = "null_engine" /\ UNCHANGED pc
      BY <1>1, <2>2 DEF TW_Task_wait, Dies
    <3>2. UNCHANGED <<config, calls, objects, taskv, enginev, told, orderly>>
      BY <1>1 DEF TW_Task_wait
    <3> QED
      BY <3>1, <3>2, DiesStep DEF threads
  <2> QED
    BY <2>1, <2>2
<1>2. CASE FreeNullJob(a)
  <2>1. CASE fault' = fault
    BY <1>2, <2>1, NullJobStep
  <2>2. CASE fault' # fault
    <3>1. fault' = "null_job" /\ UNCHANGED <<wanted, pc>>
      BY <1>2, <2>2 DEF FreeNullJob, Dies
    <3>2. UNCHANGED <<config, calls, objects, status, ep, job, dep, enginev, told, orderly>>
      BY <1>2 DEF FreeNullJob
    <3> QED
      BY <3>1, <3>2, DiesStep DEF threads, taskv
  <2> QED
    BY <2>1, <2>2
<1>3. CASE Crash(a)
  BY <1>3, DiesStep DEF Crash, Dies
<1>4. CASE WaitMore(a)
  BY <1>4, WaitStep DEF WaitMore, judged
<1>5. CASE \/ Begin(a) \/ TW_Init(a) \/ TW_Task_create(a) \/ TWNATIVE_Task_add_dep(a)
           \/ Commit(a) \/ CommitWire(a) \/ ClientWaits(a) \/ SetMpi(a)
  BY <1>5, BeginStep, InitStep, CreateStep, AddDepStep, CommitStep, CommitWireStep, ClientWaitsStep, SetMpiStep
<1>6. CASE \/ TWNATIVE_Task_free(a) \/ FreeInvalidate(a) \/ FreeUnset(a) \/ FreeDispose(a) \/ FreeHandle(a)
  BY <1>6, TaskFreeStep, InvalidateStep, UnsetStep, DisposeStep, FreeHandleStep
<1>7. CASE \/ TWNATIVE_Engine_create(a) \/ TWNATIVE_Enginei_free(a) \/ EngineWake(a)
           \/ EngineJoin(a) \/ DrainFails(a) \/ DrainDisposes(a) \/ DrainEnds(a)
           \/ EngineDispose(a) \/ EngineErase(a)
  BY <1>7, EngineCreateStep, EngineFreeStep, WakeStep, DrainFailsStep, DrainDisposesStep, DrainEndsStep,
     EngineDisposeStep, EngineEraseStep
<1>8. CASE \/ TW_Finalize(a) \/ FinalizeTask(a) \/ FinalizeTasksEnd(a) \/ FinalizeEngines(a)
           \/ FinalizeLists(a) \/ TWNATIVE_Taski_free_core(a) \/ FinalizeDisposer(a) \/ FinalizePolls(a)
  BY <1>8, FinalizeStep, FinalizeTaskStep, FinalizeTasksEndStep, FinalizeEnginesStep, FinalizeListsStep,
     SweepStep, FinalizeDisposerStep, FinalizePollsStep
<1> QED
  BY <1>1, <1>2, <1>3, <1>4, <1>5, <1>6, <1>7, <1>8, RunsStep DEF AppStep

LEMMA WorkerInv ==
  ASSUME IInv, NEW w \in Worker, WorkerStep(w)
  PROVE  IInv'
<1> w \in Thread
  BY Roles
<1>1. CASE Crash(w)
  BY <1>1, DiesStep DEF Crash, Dies
<1> QED
  BY <1>1, WorkerStartStep, WorkerSleepStep, RunsStep DEF WorkerStep

LEMMA SameInv ==
  ASSUME IInv, UNCHANGED vars
  PROVE  IInv'
<1>1. fault \in {"none", "freed_memory", "null_engine", "null_job"}
  BY DEF IInv, Typed, StateTyped
<1> QED
  BY <1>1, DiesStep DEF vars, judged

\* The parts of the invariant hold whatever the application calls, in an order that is
\* not that of an orderly client too.
THEOREM Invariance == Init /\ [][Next]_vars => []IInv
<1>1. Init => IInv
  BY InitInv
<1>2. IInv /\ [Next]_vars => IInv'
  <2> SUFFICES ASSUME IInv, [Next]_vars PROVE IInv'
    OBVIOUS
  <2>1. CASE Next
    BY <2>1, AppInv, WorkerInv DEF Next
  <2>2. CASE UNCHANGED vars
    BY <2>2, SameInv
  <2> QED
    BY <2>1, <2>2
<1> QED
  BY <1>1, <1>2, PTL

-----------------------------------------------------------------------------
(* What the invariant says of the dependencies and of what is left. *)

LEMMA CountsRefs == IInv => RefsCounted
<1> SUFFICES ASSUME IInv, NEW t \in Task, HasDep(t)
             PROVE  /\ dep[t].ref = Cardinality(Owners(t))
                    /\ mem[<<"dep", t>>] = "freed" <=> dep[t].ref = 0
  BY DEF RefsCounted
<1> DEFINE p == parent[t]
<1>1. /\ depMem[t] = mem[<<"dep", t>>] /\ refs[t] = dep[t].ref /\ attached[t] = dep[t].attached
      /\ taskMem[t] = mem[<<"task", t>>]
  BY DEF depMem, refs, attached, taskMem
<1>2. depMem[t] # "none"
  BY <1>1 DEF HasDep
<1>3. p \in Task /\ p # t /\ taskMem[p] = mem[<<"task", p>>]
  BY <1>2 DEF IInv, DepsOK, Typed, ConfigTyped, taskMem
<1>4. /\ refs[t] = (IF taskMem[t] = "freed" THEN 0 ELSE 1)
                 + (IF taskMem[p] = "freed" /\ attached[t] THEN 0 ELSE 1)
      /\ depMem[t] = "freed" <=> refs[t] = 0
  BY <1>2 DEF IInv, DepsOK
<1> HIDE DEF p
<1>5. Owners(t) = {u \in {t, p} : ~(taskMem[u] = "freed" /\ (u = t \/ attached[t]))}
  BY <1>1, <1>3 DEF Owners, p
<1>6. Cardinality({}) = 0 /\ Cardinality({t}) = 1 /\ Cardinality({p}) = 1 /\ Cardinality({t, p}) = 2
  <2>1. IsFiniteSet({t}) /\ Cardinality({t}) = 1 /\ Cardinality({p}) = 1
    BY FS_Singleton
  <2>2. Cardinality({t} \cup {p}) = Cardinality({t}) + 1
    BY <1>3, <2>1, FS_AddElement
  <2>3. {t} \cup {p} = {t, p}
    OBVIOUS
  <2> QED
    BY <2>1, <2>2, <2>3, FS_EmptySet
<1>7. CASE taskMem[t] = "freed" /\ taskMem[p] = "freed" /\ attached[t]
  <2>1. Owners(t) = {}
    BY <1>5, <1>7
  <2> QED
    BY <1>1, <1>4, <1>6, <1>7, <2>1
<1>8. CASE taskMem[t] = "freed" /\ ~(taskMem[p] = "freed" /\ attached[t])
  <2>1. Owners(t) = {p}
    BY <1>3, <1>5, <1>8
  <2> QED
    BY <1>1, <1>4, <1>6, <1>8, <2>1
<1>9. CASE taskMem[t] # "freed" /\ taskMem[p] = "freed" /\ attached[t]
  <2>1. Owners(t) = {t}
    BY <1>3, <1>5, <1>9
  <2> QED
    BY <1>1, <1>4, <1>6, <1>9, <2>1
<1>10. CASE taskMem[t] # "freed" /\ ~(taskMem[p] = "freed" /\ attached[t])
  <2>1. Owners(t) = {t, p}
    BY <1>3, <1>5, <1>10
  <2> QED
    BY <1>1, <1>4, <1>6, <1>10, <2>1
<1> QED
  BY <1>7, <1>8, <1>9, <1>10

\* When TW_Finalize has returned nobody is in the library, and nothing waits for the
\* disposer.
LEMMA Finalized ==
  ASSUME IInv, libMem["polls"] = "freed"
  PROVE  /\ ~Open /\ walk = 0 /\ trash = <<>>
         /\ \A t \in Task : ~Present(t) /\ \A th \in Thread : ~Hand(th, t)
<1>1. ~Open
  BY DEF IInv, LibOK
<1>2. Gone /\ \A b \in App : pc[b] \in Outside \cup {"init"}
  BY <1>1 DEF IInv, LibOK, Outside
<1>3. walk = 0
  BY <1>2 DEF IInv, CloseOK, Typed, StateTyped, Outside, ClosePath, Finalizing, Freeing, EngineFree
<1>4. \A th \in Thread : pc[th] \notin HandLabel
  BY <1>2, Roles DEF Gone, HandLabel, Outside
<1> QED
  BY <1>1, <1>3, <1>4 DEF IInv, LibOK, TasksOK, Hand, HandLabel

LEMMA FreesAll == IInv => AllFreed
<1> SUFFICES ASSUME IInv, mem[The("polls")] = "freed" PROVE {o \in Object : Usable(o)} = Leaked
  BY DEF AllFreed
<1>1. \A k \in LibKind : libMem[k] = mem[The(k)]
  BY DEF libMem
<1>2. \A t \in Task : /\ taskMem[t] = mem[<<"task", t>>] /\ handleMem[t] = mem[<<"handle", t>>]
                      /\ jobMem[t] = mem[<<"job", t>>] /\ depMem[t] = mem[<<"dep", t>>]
                      /\ attached[t] = dep[t].attached
  BY DEF taskMem, handleMem, jobMem, depMem, attached
<1>3. libMem["polls"] = "freed"
  BY <1>1 DEF LibKind
<1>4. /\ ~Open /\ walk = 0 /\ trash = <<>>
      /\ \A t \in Task : ~Present(t) /\ \A th \in Thread : ~Hand(th, t)
  BY <1>3, Finalized
<1>5. ASSUME NEW t \in Task
      PROVE  ~Usable(<<"task", t>>) /\ <<"task", t>> \notin Leaked
  <2>1. <<"task", t>> \notin Leaked
    BY DEF Leaked, The
  <2>2. taskMem[t] \notin {"live", "disposed"}
    BY <1>4 DEF Present
  <2> QED
    BY <1>2, <2>1, <2>2 DEF Usable
<1>6. ASSUME NEW t \in Task
      PROVE  Usable(<<"handle", t>>) <=> <<"handle", t>> \in Leaked
  <2>1. <<"handle", t>> \in Leaked <=> mem[<<"handle", t>>] = "live"
    BY DEF Leaked, The
  <2>2. handleMem[t] # "disposed"
    BY DEF IInv, Typed, ObjectsTyped
  <2> QED
    BY <1>2, <2>1, <2>2 DEF Usable
<1>7. ASSUME NEW t \in Task
      PROVE  Usable(<<"job", t>>) <=> <<"job", t>> \in Leaked
  <2>1. jobMem[t] # "disposed"
    BY <1>4 DEF IInv, TrashOK, Elems
  <2>2. jobMem[t] = "live" <=> status[t] = "COMPLETED"
    BY <1>4 DEF IInv, HandsOK, HeldOK, Failed, EngineOK
  <2>3. <<"job", t>> \in Leaked <=> status[t] = "COMPLETED"
    BY DEF Leaked, The
  <2> QED
    BY <1>2, <2>1, <2>2, <2>3 DEF Usable
<1>8. ASSUME NEW t \in Task
      PROVE  Usable(<<"dep", t>>) <=> <<"dep", t>> \in Leaked
  <2>1. <<"dep", t>> \in Leaked <=> HasDep(t) /\ ~dep[t].attached
    BY DEF Leaked, The
  <2>2. CASE depMem[t] = "none"
    BY <1>2, <2>1, <2>2 DEF Usable, HasDep
  <2>3. CASE depMem[t] # "none"
    <3>1. /\ parent[t] \in Task /\ taskMem[t] # "none" /\ taskMem[parent[t]] # "none"
          /\ refs[t] = (IF taskMem[t] = "freed" THEN 0 ELSE 1)
                     + (IF taskMem[parent[t]] = "freed" /\ attached[t] THEN 0 ELSE 1)
          /\ depMem[t] = "freed" <=> refs[t] = 0
      BY <2>3 DEF IInv, DepsOK
    <3>2. taskMem[t] = "freed" /\ taskMem[parent[t]] = "freed"
      BY <1>4, <3>1 DEF Present, IInv, Typed, ObjectsTyped
    <3>3. depMem[t] = "freed" <=> attached[t]
      BY <3>1, <3>2
    <3>4. depMem[t] \in {"none", "live", "freed"}
      BY DEF IInv, Typed, ObjectsTyped
    <3> QED
      BY <1>2, <2>1, <2>3, <3>3, <3>4 DEF Usable, HasDep
  <2> QED
    BY <2>2, <2>3
<1>9. ASSUME NEW k \in LibKind
      PROVE  Usable(The(k)) <=> The(k) \in Leaked
  <2>1. The(k) \in Leaked <=> k = "ehandle" /\ libMem["ehandle"] = "live"
    BY <1>1 DEF Leaked, The, LibKind
  <2>2. libMem[k] \notin {"live", "disposed"} \/ k = "ehandle"
    BY <1>3, <1>4 DEF IInv, LibOK, EngineOK, Typed, ObjectsTyped, LibKind, Open
  <2>3. libMem["ehandle"] # "disposed"
    BY DEF IInv, Typed, ObjectsTyped, LibKind
  <2> QED
    BY <1>1, <2>1, <2>2, <2>3 DEF Usable
<1>10. Leaked \subseteq Object
  BY DEF Leaked, Object, The
<1> QED
  BY <1>5, <1>6, <1>7, <1>8, <1>9, <1>10 DEF Object, The, LibKind

-----------------------------------------------------------------------------
(* An orderly client never makes a thread use what was freed. *)

LEMMA There ==
  /\ \A t \in Task : /\ Present(t) => Usable(<<"task", t>>)
                     /\ handleMem[t] = "live" => Usable(<<"handle", t>>)
                     /\ jobMem[t] \in {"live", "disposed"} => Usable(<<"job", t>>)
                     /\ depMem[t] = "live" => Usable(<<"dep", t>>)
  /\ \A k \in LibKind : libMem[k] \in {"live", "disposed"} => Usable(The(k))
<1>1. ASSUME NEW t \in Task
      PROVE  /\ Present(t) => Usable(<<"task", t>>)
             /\ handleMem[t] = "live" => Usable(<<"handle", t>>)
             /\ jobMem[t] \in {"live", "disposed"} => Usable(<<"job", t>>)
             /\ depMem[t] = "live" => Usable(<<"dep", t>>)
  BY DEF Usable, Present, taskMem, handleMem, jobMem, depMem
<1>2. ASSUME NEW k \in LibKind
      PROVE  libMem[k] \in {"live", "disposed"} => Usable(The(k))
  BY DEF Usable, libMem
<1> QED
  BY <1>1, <1>2

\* A task that is there keeps the dependencies it lists.
LEMMA DepsThere ==
  ASSUME IInv, NEW t \in Task, Present(t)
  PROVE  /\ \A o \in Deps(t) : Usable(o)
         /\ HasDep(t) => depMem[t] = "live" /\ parent[t] \in Task
<1>1. HasDep(t) <=> depMem[t] # "none"
  BY DEF HasDep, depMem
<1>2. ASSUME NEW c \in Task, c \in Lists(t)
      PROVE  depMem[c] = "live"
  <2>1. (c = t /\ depMem[c] # "none") \/ (parent[c] = t /\ attached[c])
    BY <1>1, <1>2 DEF Lists, Childs, attached
  <2>2. depMem[c] # "none"
    BY <2>1 DEF IInv, DepsOK
  <2>3. taskMem[t] # "freed"
    BY DEF Present
  <2>4. /\ refs[c] = (IF taskMem[c] = "freed" THEN 0 ELSE 1)
                   + (IF taskMem[parent[c]] = "freed" /\ attached[c] THEN 0 ELSE 1)
        /\ depMem[c] = "freed" <=> refs[c] = 0
    BY <2>2 DEF IInv, DepsOK
  <2>5. depMem[c] # "freed"
    BY <2>1, <2>3, <2>4
  <2> QED
    BY <2>2, <2>5 DEF IInv, Typed, ObjectsTyped
<1>3. \A c \in Lists(t) : c \in Task
  BY DEF Lists, Childs
<1>4. HasDep(t) => t \in Lists(t)
  BY DEF Lists
<1>5. HasDep(t) => parent[t] \in Task
  BY <1>1 DEF IInv, DepsOK
<1> QED
  BY <1>2, <1>3, <1>4, <1>5, There DEF Deps

\* A thread that uses the engine finds it.
LEMMA EngineThere ==
  ASSUME IInv, NEW th \in Thread,
         (th \in Worker /\ pc[th] # "gone") \/ (th \in App /\ orderly /\ pc[th] \in UsesEngine)
  PROVE  libMem["queue"] = "live" /\ libMem["engine"] = "live" /\ libMem["ehandle"] = "live"
<1>1. CASE th \in Worker /\ pc[th] # "gone"
  BY <1>1 DEF IInv, EngineOK, Gone
<1>2. CASE th \in App /\ orderly /\ pc[th] \in UsesEngine
  <2>1. libMem["queue"] # "freed"
    BY <1>2 DEF IInv, OrderlyOK, Ending
  <2>2. libMem["queue"] # "none"
    BY <1>2 DEF IInv, EngineOK
  <2>3. libMem["queue"] \in {"none", "live", "disposed", "freed"} /\ libMem["queue"] # "disposed"
    BY DEF IInv, Typed, ObjectsTyped, LibKind
  <2> QED
    BY <2>1, <2>2, <2>3 DEF IInv, EngineOK
<1> QED
  BY <1>1, <1>2

\* Where a thread is decides who it is, and whether the library is open.
LEMMA Who ==
  ASSUME IInv, NEW th \in Thread
  PROVE  /\ pc[th] \notin Working \cup Running => th \in App
         /\ pc[th] \in Working => th \in Worker
         /\ pc[th] \notin Outside \cup {"init", "sweep", "polls", "gone"} =>
                Open /\ Usable(The("tasks")) /\ Usable(The("engines"))
                     /\ Usable(The("disposer")) /\ Usable(The("polls"))
<1>1. pc[th] \notin Working \cup Running => th \in App
  BY Roles DEF IInv, Typed, PcTyped, WorkerLabel
<1>2. pc[th] \in Working => th \in Worker
  BY Roles DEF IInv, Typed, PcTyped, AppLabel, Working, Outside, Running, TaskCall, TaskFree, EngineFree, Finalizing
<1>3. pc[th] \notin Outside \cup {"init", "sweep", "polls", "gone"} => Open
  BY Roles DEF IInv, LibOK, Gone
<1>4. Open => /\ libMem["tasks"] = "live" /\ libMem["engines"] = "live"
              /\ libMem["disposer"] = "live" /\ libMem["polls"] = "live"
  BY DEF IInv, LibOK, Open
<1>5. Open => /\ Usable(The("tasks")) /\ Usable(The("engines"))
              /\ Usable(The("disposer")) /\ Usable(The("polls"))
  BY <1>4, There DEF LibKind
<1> QED
  BY <1>1, <1>2, <1>3, <1>5

\* The needs of a call about a task.
LEMMA TaskNeeds ==
  ASSUME IInv, orderly, NEW th \in Thread,
         pc[th] \in {"create", "finalize", "dep", "commit", "wait", "wire", "spin",
                     "free", "invalidate", "unset", "dispose", "handle"}
  PROVE  \A o \in Needs(th) : Usable(o)
<1> DEFINE t == on[th]
<1>1. th \in App /\ Open /\ Usable(The("tasks")) /\ Usable(The("disposer"))
  BY Who DEF Working, Running, Outside
<1>2. pc[th] \in OnLabel => t \in Task
  BY DEF IInv, Typed, ThreadsTyped
<1>3. \A u \in Task : taskMem[u] = "live" => Usable(<<"task", u>>) /\ Present(u)
  BY There DEF Present
<1>4. \A u \in Task : handleMem[u] = "live" => Usable(<<"handle", u>>)
  BY There
<1>5. CASE pc[th] \in {"create", "finalize"}
  <2>1. Needs(th) = {The("tasks")}
    BY <1>5 DEF Needs
  <2> QED
    BY <1>1, <2>1
<1>6. CASE pc[th] = "dep"
  <2>1. Needs(th) = {<<"task", t>>, <<"task", parent[t]>>}
    BY <1>6 DEF Needs
  <2>2. t \in Task /\ parent[t] \in Task
    BY <1>2, <1>6 DEF OnLabel, TaskCall, IInv, Typed, ThreadsTyped
  <2>3. taskMem[t] = "live" /\ taskMem[parent[t]] = "live"
    BY <1>1, <1>6 DEF IInv, HeldOK
  <2> QED
    BY <1>3, <2>1, <2>2, <2>3
<1>7. CASE pc[th] = "commit"
  <2>1. Needs(th) = {<<"handle", t>>, <<"task", t>>, The("ehandle")}
    BY <1>7 DEF Needs
  <2>2. t \in Task /\ taskMem[t] = "live" /\ handleMem[t] = "live"
    BY <1>1, <1>2, <1>7 DEF OnLabel, TaskCall, IInv, HeldOK
  <2>3. Usable(The("ehandle"))
    BY <1>1, <1>7, EngineThere, There DEF UsesEngine, LibKind
  <2> QED
    BY <1>3, <1>4, <2>1, <2>2, <2>3
<1>8. CASE pc[th] = "wait"
  <2>1. Needs(th) = {<<"handle", t>>, <<"task", t>>}
    BY <1>8 DEF Needs
  <2>2. t \in Task /\ taskMem[t] = "live" /\ handleMem[t] = "live"
    BY <1>1, <1>2, <1>8 DEF OnLabel, TaskCall, IInv, HeldOK
  <2> QED
    BY <1>3, <1>4, <2>1, <2>2
<1>9. CASE pc[th] = "wire"
  <2>1. Needs(th) = {<<"task", t>>} \cup (IF HasDep(t) /\ ~dep[t].orphan
                     THEN {<<"dep", t>>, <<"task", parent[t]>>} ELSE {})
    BY <1>9 DEF Needs
  <2>2. t \in Task /\ taskMem[t] = "live"
    BY <1>1, <1>2, <1>9 DEF OnLabel, TaskCall, IInv, HeldOK
  <2>3. Present(t)
    BY <1>3, <2>2
  <2>4. HasDep(t) => Usable(<<"dep", t>>) /\ parent[t] \in Task
    BY <2>2, <2>3, DepsThere, There
  <2>5. \A a \in App : pc[a] # "sweep"
    BY <1>1 DEF IInv, LibOK
  <2>6. HasDep(t) => Present(parent[t])
    BY <2>2, <2>3, <2>5 DEF IInv, DepsOK, HasDep, depMem
  <2> QED
    BY <1>3, <2>1, <2>2, <2>4, <2>6, There
<1>10. CASE pc[th] = "spin"
  <2>1. Needs(th) = {<<"task", awaits[th]>>}
    BY <1>10 DEF Needs
  <2>2. awaits[th] \in Task /\ Present(awaits[th])
    BY <1>1, <1>10 DEF IInv, HeldOK, Commits
  <2> QED
    BY <2>1, <2>2, There
<1>11. CASE pc[th] \in {"free", "handle"}
  <2>1. Needs(th) \subseteq {<<"handle", t>>, The("tasks")} \cup {<<"task", t>> : k \in {1} \cap {n \in {1} : pc[th] = "free"}}
    BY <1>11 DEF Needs
  <2>2. t \in Task /\ handleMem[t] = "live"
    BY <1>1, <1>2, <1>11 DEF OnLabel, TaskFree, IInv, HeldOK, CloseOK
  <2>3. pc[th] = "free" => taskMem[t] = "live"
    BY <1>1 DEF IInv, TasksOK
  <2> QED
    BY <1>1, <1>3, <1>4, <2>1, <2>2, <2>3
<1>12. CASE pc[th] \in {"invalidate", "unset"}
  <2>1. Needs(th) \subseteq {<<"task", t>>} \cup Deps(t)
    BY <1>12 DEF Needs
  <2>2. t \in Task /\ taskMem[t] = "live"
    BY <1>1, <1>2, <1>12 DEF OnLabel, TaskFree, IInv, TasksOK, Freeing
  <2>3. \A o \in Deps(t) : Usable(o)
    BY <1>3, <2>2, DepsThere
  <2> QED
    BY <1>3, <2>1, <2>2, <2>3
<1>13. CASE pc[th] = "dispose"
  <2>1. Needs(th) = {The("disposer")}
    BY <1>13 DEF Needs
  <2> QED
    BY <1>1, <2>1
<1> QED
  BY <1>5, <1>6, <1>7, <1>8, <1>9, <1>10, <1>11, <1>12, <1>13

\* The needs of a thread that runs tasks.
LEMMA RunNeeds ==
  ASSUME IInv, orderly, NEW th \in Thread, pc[th] \in Running
  PROVE  \A o \in Needs(th) : Usable(o)
<1> DEFINE t == on[th]
<1> DEFINE r == ran[th]
<1>1. th \in Worker \/ (th \in App /\ pc[th] \in UsesEngine)
  BY Roles DEF Running, UsesEngine
<1>2. Usable(The("engine")) /\ Usable(The("queue"))
  BY <1>1, EngineThere, There DEF LibKind, Running
<1>3. pc[th] \in {"queue", "token", "job", "final"} => t \in Task /\ Present(t)
  BY DEF IInv, Typed, ThreadsTyped, HeldOK, OnLabel
<1>4. \A u \in Task : Present(u) => Usable(<<"task", u>>)
  BY There
<1>5. pc[th] \in RanLabel => r \in Task /\ r # NoTask /\ Present(r)
  BY LibraryAssumption DEF IInv, Typed, ThreadsTyped, HeldOK
<1>6. CASE pc[th] = "queue"
  <2>1. Needs(th) = {<<"task", t>>, The("engine"), The("queue")}
    BY <1>6 DEF Needs
  <2> QED
    BY <1>2, <1>3, <1>4, <1>6, <2>1
<1>7. CASE pc[th] = "token"
  <2>1. Needs(th) = {<<"task", t>>, The("engine")}
    BY <1>7 DEF Needs
  <2> QED
    BY <1>2, <1>3, <1>4, <1>7, <2>1
<1>8. CASE pc[th] = "pop"
  <2>1. Needs(th) = {The("queue"), The("engine")}
    BY <1>8 DEF Needs
  <2> QED
    BY <1>2, <2>1
<1>9. CASE pc[th] = "job"
  <2>1. Needs(th) = {<<"job", t>>} \cup (IF t \in wanted THEN {<<"task", t>>} ELSE {})
    BY <1>9 DEF Needs
  <2>2. jobMem[t] = "live"
    BY <1>9 DEF IInv, HandsOK
  <2>3. Usable(<<"job", t>>)
    BY <1>3, <1>9, <2>2, There
  <2> QED
    BY <1>3, <1>4, <1>9, <2>1, <2>3
<1>10. CASE pc[th] = "final"
  <2>1. Needs(th) = {<<"task", t>>}
    BY <1>10 DEF Needs
  <2> QED
    BY <1>3, <1>4, <1>10, <2>1
<1>11. CASE pc[th] = "notify"
  <2>1. Needs(th) = {<<"task", r>>} \cup Deps(r)
    BY <1>11 DEF Needs
  <2>2. r \in Task /\ Present(r)
    BY <1>5, <1>11 DEF RanLabel
  <2>3. \A o \in Deps(r) : Usable(o)
    BY <2>2, DepsThere
  <2> QED
    BY <1>4, <2>1, <2>2, <2>3
<1>12. CASE pc[th] = "tell"
  <2>1. Needs(th) = {<<"task", r>>} \cup (IF r \in listens THEN {<<"handle", r>>} ELSE {})
    BY <1>12 DEF Needs
  <2>2. r \in Task /\ r # NoTask /\ Present(r)
    BY <1>5, <1>12 DEF RanLabel
  <2>3. status[r] = "COMPLETED" /\ r \notin told
    BY <1>12, <2>2 DEF IInv, RunnersOK
  <2>4. r \in listens => handleMem[r] # "freed"
    BY <2>2, <2>3 DEF IInv, OrderlyOK, Ended
  <2>5. handleMem[r] # "none"
    BY <2>2 DEF IInv, TasksOK, Present
  <2>6. r \in listens => handleMem[r] = "live"
    BY <2>2, <2>4, <2>5 DEF IInv, Typed, ObjectsTyped
  <2>7. r \in listens => Usable(<<"handle", r>>)
    BY <2>2, <2>6, There
  <2> QED
    BY <1>4, <2>1, <2>2, <2>7
<1> QED
  BY <1>6, <1>7, <1>8, <1>9, <1>10, <1>11, <1>12 DEF Running

\* The needs of a worker that looks for tasks.
LEMMA WorkNeeds ==
  ASSUME IInv, orderly, NEW th \in Thread, pc[th] \in Working
  PROVE  \A o \in Needs(th) : Usable(o)
<1>1. th \in Worker
  BY Who
<1>2. pc[th] # "gone" => Usable(The("engine"))
  BY <1>1, EngineThere, There DEF LibKind
<1>3. pc[th] # "gone" => Usable(The("disposer"))
  BY Who DEF Working, Outside
<1>4. CASE pc[th] = "gone"
  <2>1. Needs(th) = {}
    BY <1>4 DEF Needs
  <2> QED
    BY <2>1
<1>5. CASE pc[th] = "start"
  <2>1. Needs(th) = {The("disposer")}
    BY <1>5 DEF Needs
  <2> QED
    BY <1>3, <1>5, <2>1
<1>6. CASE pc[th] \in {"check", "sleep"}
  <2>1. Needs(th) = {The("engine")}
    BY <1>6 DEF Needs
  <2> QED
    BY <1>2, <1>6, <2>1
<1>7. CASE pc[th] = "loop"
  <2>1. Needs(th) = {The("engine")} \cup (IF polled THEN {The("poll")} ELSE {})
    BY <1>7 DEF Needs
  <2>2. polled => libMem["poll"] = "disposed"
    BY <1>1, <1>7 DEF IInv, EngineOK, Gone
  <2>3. polled => Usable(The("poll"))
    BY <2>2, There DEF LibKind
  <2> QED
    BY <1>2, <1>7, <2>1, <2>3
<1>8. CASE pc[th] = "leave"
  <2>1. Needs(th) = {The("disposer"), The("engine")}
    BY <1>8 DEF Needs
  <2> QED
    BY <1>2, <1>3, <1>8, <2>1
<1> QED
  BY <1>4, <1>5, <1>6, <1>7, <1>8 DEF Working

\* The needs of TW_Engine_free.
LEMMA EngineNeeds ==
  ASSUME IInv, orderly, NEW th \in Thread, pc[th] \in EngineFree
  PROVE  \A o \in Needs(th) : Usable(o)
<1>1. /\ th \in App /\ Open /\ Usable(The("tasks"))
      /\ Usable(The("engines")) /\ Usable(The("disposer"))
  BY Who DEF Working, Running, Outside, EngineFree
<1>2. pc[th] # "erase" => libMem["engine"] = "live" /\ libMem["ehandle"] = "live"
  BY <1>1 DEF IInv, EngineOK
<1>3. pc[th] # "erase" => Usable(The("engine")) /\ Usable(The("ehandle"))
  BY <1>2, There DEF LibKind
<1>4. CASE pc[th] = "engine_free"
  <2>1. Needs(th) \subseteq {The("engine"), The("ehandle")}
    BY <1>4 DEF Needs
  <2> QED
    BY <1>3, <1>4, <2>1
<1>5. CASE pc[th] \in {"wake", "join"}
  <2>1. Needs(th) = {The("engine")}
    BY <1>5 DEF Needs
  <2> QED
    BY <1>3, <1>5, <2>1
<1>6. CASE pc[th] = "drain"
  <2>1. Needs(th) \subseteq {The("queue"), The("engine"), The("disposer")} \cup
                      {<<"task", Head(queue)>> : k \in {1} \cap {n \in {1} : queue # <<>>}}
    BY <1>6 DEF Needs
  <2>2. \A a \in App : pc[a] # "edispose"
    BY <1>1, <1>6 DEF IInv, EngineOK, EngineFree
  <2>3. libMem["queue"] # "freed"
    BY <1>2, <1>6, <2>2 DEF IInv, OrderlyOK, Failed
  <2>4. libMem["queue"] # "none"
    BY <1>2, <1>6 DEF IInv, EngineOK
  <2>5. libMem["queue"] \in {"none", "live", "disposed", "freed"} /\ libMem["queue"] # "disposed"
    BY DEF IInv, Typed, ObjectsTyped, LibKind
  <2>6. Usable(The("queue"))
    BY <2>3, <2>4, <2>5, There DEF LibKind
  <2>7. queue # <<>> => Head(queue) \in Task /\ Head(queue) \in Elems(queue)
    <3>1. queue \in Seq(Task)
      BY DEF IInv, Typed, ObjectsTyped
    <3>2. queue # <<>> => 1 \in DOMAIN queue /\ Head(queue) = queue[1] /\ queue[1] \in Task
      BY <3>1
    <3> QED
      BY <3>2 DEF Elems
  <2>8. queue # <<>> => Usable(<<"task", Head(queue)>>)
    BY <2>7, There DEF IInv, HeldOK
  <2> QED
    BY <1>1, <1>3, <1>6, <2>1, <2>6, <2>8
<1>7. CASE pc[th] = "edispose"
  <2>1. Needs(th) = {The("disposer")}
    BY <1>7 DEF Needs
  <2> QED
    BY <1>1, <2>1
<1>8. CASE pc[th] = "erase"
  <2>1. Needs(th) = {The("engines"), The("ehandle")}
    BY <1>8 DEF Needs
  <2>2. libMem["ehandle"] = "live"
    BY <1>1, <1>8 DEF IInv, EngineOK
  <2>3. Usable(The("ehandle"))
    BY <2>2, There DEF LibKind
  <2> QED
    BY <1>1, <2>1, <2>3
<1> QED
  BY <1>4, <1>5, <1>6, <1>7, <1>8 DEF EngineFree

\* The needs of TW_Finalize.
LEMMA CloseNeeds ==
  ASSUME IInv, orderly, NEW th \in Thread, pc[th] \in Finalizing
  PROVE  \A o \in Needs(th) : Usable(o)
<1>1. th \in App
  BY Who DEF Working, Running, Finalizing
<1>2. CASE pc[th] \in {"walk", "lists"}
  <2>1. Needs(th) = {}
    BY <1>2 DEF Needs
  <2> QED
    BY <2>1
<1>3. CASE pc[th] = "engines"
  <2>1. Needs(th) = {The("engines")}
    BY <1>3 DEF Needs
  <2> QED
    BY <1>3, <2>1, Who DEF Outside
<1>4. CASE pc[th] = "polls"
  <2>1. Needs(th) = {The("polls")}
    BY <1>4 DEF Needs
  <2>2. libMem["polls"] = "live"
    BY <1>1, <1>4 DEF IInv, LibOK
  <2> QED
    BY <2>1, <2>2, There DEF LibKind
<1>5. CASE pc[th] = "sweep"
  <2>1. Needs(th) = {The("disposer")} \cup
                    UNION {{o} \cup (IF o[1] = "task" THEN Deps(o[2]) ELSE {}) :
                           o \in {trash[i] : i \in {1} \cap DOMAIN trash}}
    BY <1>5 DEF Needs
  <2>2. libMem["disposer"] = "live"
    BY <1>1, <1>5 DEF IInv, LibOK
  <2>3. Usable(The("disposer"))
    BY <2>2, There DEF LibKind
  <2>4. ASSUME 1 \in DOMAIN trash
        PROVE  /\ Usable(trash[1])
               /\ trash[1][1] = "task" => \A o \in Deps(trash[1][2]) : Usable(o)
    <3> DEFINE o == trash[1]
    <3>1. o \in Elems(trash)
      BY <2>4 DEF Elems
    <3>2. o \in ({"task", "job"} \X Task) \cup {The("engine")}
      BY <2>4 DEF IInv, Typed, ObjectsTyped
    <3> HIDE DEF o
    <3>3. CASE o \in {"task"} \X Task
      <4>1. PICK u \in Task : o = <<"task", u>>
        BY <3>3
      <4>2. taskMem[u] = "disposed"
        BY <3>1, <4>1 DEF IInv, TrashOK
      <4>3. Present(u)
        BY <4>2 DEF Present
      <4>4. Usable(o) /\ \A x \in Deps(u) : Usable(x)
        BY <4>1, <4>3, DepsThere, There
      <4> QED
        BY <4>1, <4>4 DEF o
    <3>4. CASE o \in {"job"} \X Task
      <4>1. PICK u \in Task : o = <<"job", u>>
        BY <3>4
      <4>2. jobMem[u] = "disposed"
        BY <3>1, <4>1 DEF IInv, TrashOK
      <4>3. Usable(o) /\ o[1] # "task"
        BY <4>1, <4>2, There
      <4> QED
        BY <4>3 DEF o
    <3>5. CASE o = The("engine")
      <4>1. libMem["engine"] = "disposed"
        BY <3>1, <3>5 DEF IInv, TrashOK
      <4>2. Usable(o) /\ o[1] # "task"
        BY <3>5, <4>1, There DEF LibKind, The
      <4> QED
        BY <4>2 DEF o
    <3> QED
      BY <3>2, <3>3, <3>4, <3>5
  <2> QED
    BY <2>1, <2>3, <2>4
<1> QED
  BY <1>2, <1>3, <1>4, <1>5 DEF Finalizing

LEMMA NeedsThere ==
  ASSUME IInv, orderly, NEW th \in Thread
  PROVE  \A o \in Needs(th) : Usable(o)
<1>1. CASE pc[th] \in Running
  BY <1>1, RunNeeds
<1>2. CASE pc[th] \in Working
  BY <1>2, WorkNeeds
<1>3. CASE pc[th] \in EngineFree
  BY <1>3, EngineNeeds
<1>4. CASE pc[th] \in Finalizing
  BY <1>4, CloseNeeds
<1>5. CASE pc[th] \in {"create", "finalize", "dep", "commit", "wait", "wire", "spin",
                       "free", "invalidate", "unset", "dispose", "handle"}
  BY <1>5, TaskNeeds
<1>6. CASE pc[th] = "mpi"
  <2>1. Needs(th) = {The("polls")}
    BY <1>6 DEF Needs
  <2> QED
    BY <1>6, <2>1, Who DEF Outside
<1>7. CASE pc[th] \in Outside \cup {"init", "engine"}
  <2>1. Needs(th) = {}
    BY <1>7 DEF Needs, Outside
  <2> QED
    BY <2>1
<1>8. pc[th] # "nulljob"
  BY Roles DEF IInv, OrderlyOK, Typed, PcTyped, WorkerLabel, Working, Running
<1>9. pc[th] \in AppLabel \cup WorkerLabel
  BY DEF IInv, Typed, PcTyped
<1> QED
  BY <1>1, <1>2, <1>3, <1>4, <1>5, <1>6, <1>7, <1>8, <1>9
     DEF AppLabel, WorkerLabel, TaskCall, TaskFree

\* What no step undoes: a client that was not orderly stays so, and what a thread
\* has died of is the NULL engine as long as the client is orderly.
FaultOK == orderly => fault \in {"none", "null_engine"}

LEMMA FaultMove ==
  ASSUME FaultOK, fault' \in {fault, "null_engine"}, orderly' = orderly
  PROVE  FaultOK'
  BY DEF FaultOK

LEMMA FaultCrash ==
  ASSUME IInv, FaultOK, NEW th \in Thread, Crash(th)
  PROVE  FaultOK'
<1>1. \E o \in Needs(th) : ~Usable(o)
  BY DEF Crash
<1>2. ~orderly
  BY <1>1, NeedsThere
<1>3. orderly' = orderly
  BY DEF Crash
<1> QED
  BY <1>2, <1>3 DEF FaultOK

LEMMA FaultRuns ==
  ASSUME IInv, FaultOK, NEW th \in Thread, Runs(th)
  PROVE  FaultOK'
<1>1. CASE RunJob(th)
  <2>1. pc[th] = "job" /\ orderly' = orderly
    BY <1>1 DEF RunJob, At
  <2>2. orderly => on[th] \in wanted
    BY <2>1 DEF IInv, OrderlyOK
  <2>3. on[th] \in wanted => fault' = fault
    BY <1>1 DEF RunJob
  <2> QED
    BY <2>1, <2>2, <2>3 DEF FaultOK
<1>2. CASE QueueToken(th)
  BY <1>2, FaultMove DEF QueueToken, Dies
<1>3. CASE StatusHandler(th)
  BY <1>3, FaultMove DEF StatusHandler
<1>4. CASE Pop(th) \/ TaskFinal(th) \/ NotifyChild(th) \/ NotifyEnds(th) \/ TWNATIVE_Taski_queue(th)
  <2>1. UNCHANGED judged
    BY <1>4 DEF Pop, TaskFinal, NotifyChild, NotifyEnds, TWNATIVE_Taski_queue
  <2> QED
    BY <2>1, FaultMove DEF judged
<1> QED
  BY <1>1, <1>2, <1>3, <1>4 DEF Runs

LEMMA FaultApp ==
  ASSUME IInv, FaultOK, NEW a \in App, AppStep(a)
  PROVE  FaultOK'
<1> a \in Thread
  BY Roles
<1>1. CASE Begin(a)
  <2>1. orderly' => orderly
    BY <1>1 DEF Begin
  <2>2. fault' = fault
    BY <1>1 DEF Begin
  <2> QED
    BY <2>1, <2>2 DEF FaultOK
<1>2. CASE TW_Task_wait(a)
  BY <1>2, FaultMove DEF TW_Task_wait, Dies
<1>3. CASE FreeNullJob(a)
  <2>1. pc[a] = "nulljob" /\ orderly' = orderly
    BY <1>3 DEF FreeNullJob, At
  <2>2. ~orderly
    BY <2>1 DEF IInv, OrderlyOK
  <2> QED
    BY <2>1, <2>2 DEF FaultOK
<1>4. CASE \/ TW_Init(a) \/ TW_Task_create(a) \/ TWNATIVE_Task_add_dep(a)
           \/ Commit(a) \/ CommitWire(a) \/ WaitMore(a) \/ ClientWaits(a) \/ SetMpi(a)
  <2>1. UNCHANGED judged
    BY <1>4 DEF TW_Init, TW_Task_create, TWNATIVE_Task_add_dep, Commit, CommitWire, WaitMore, ClientWaits, SetMpi
  <2> QED
    BY <2>1, FaultMove DEF judged
<1>5. CASE \/ TWNATIVE_Task_free(a) \/ FreeInvalidate(a) \/ FreeUnset(a) \/ FreeDispose(a) \/ FreeHandle(a)
  <2>1. UNCHANGED judged
    BY <1>5, Zenon DEF TWNATIVE_Task_free, FreeInvalidate, FreeUnset, FreeDispose, FreeHandle
  <2> QED
    BY <2>1, FaultMove DEF judged
<1>6. CASE \/ TWNATIVE_Engine_create(a) \/ TWNATIVE_Enginei_free(a) \/ EngineWake(a)
           \/ EngineJoin(a) \/ DrainFails(a) \/ DrainDisposes(a) \/ DrainEnds(a)
           \/ EngineDispose(a) \/ EngineErase(a)
  <2>1. UNCHANGED judged
    BY <1>6 DEF TWNATIVE_Engine_create, TWNATIVE_Enginei_free, EngineWake, EngineJoin, DrainFails,
                DrainDisposes, DrainEnds, EngineDispose, EngineErase
  <2> QED
    BY <2>1, FaultMove DEF judged
<1>7. CASE \/ TW_Finalize(a) \/ FinalizeTask(a) \/ FinalizeTasksEnd(a) \/ FinalizeEngines(a)
           \/ FinalizeLists(a) \/ TWNATIVE_Taski_free_core(a) \/ FinalizeDisposer(a) \/ FinalizePolls(a)
  <2>1. UNCHANGED judged
    BY <1>7 DEF TW_Finalize, FinalizeTask, FinalizeTasksEnd, FinalizeEngines, FinalizeLists,
                TWNATIVE_Taski_free_core, FinalizeDisposer, FinalizePolls
  <2> QED
    BY <2>1, FaultMove DEF judged
<1> QED
  BY <1>1, <1>2, <1>3, <1>4, <1>5, <1>6, <1>7, FaultRuns, FaultCrash DEF AppStep

LEMMA FaultWorker ==
  ASSUME IInv, FaultOK, NEW w \in Worker, WorkerStep(w)
  PROVE  FaultOK'
<1> w \in Thread
  BY Roles
<1>1. CASE WorkerStart(w) \/ WorkerCheck(w) \/ WorkerSleep(w) \/ WorkerLoop(w) \/ WorkerLeaves(w)
  <2>1. UNCHANGED judged
    BY <1>1 DEF WorkerStart, WorkerCheck, WorkerSleep, WorkerLoop, WorkerLeaves
  <2> QED
    BY <2>1, FaultMove DEF judged
<1> QED
  BY <1>1, FaultRuns, FaultCrash DEF WorkerStep

LEMMA FaultStep ==
  ASSUME IInv, FaultOK, [Next]_vars
  PROVE  FaultOK'
<1>1. CASE Next
  BY <1>1, FaultApp, FaultWorker DEF Next
<1>2. CASE UNCHANGED vars
  BY <1>2, FaultMove DEF vars, judged
<1> QED
  BY <1>1, <1>2

LEMMA TypedOK == IInv => TypeOK
  BY DEF IInv, Typed, ObjectsTyped, StateTyped, TypeOK

-----------------------------------------------------------------------------
(* The theorems. *)

\* Whatever the application calls, and in whatever order its threads and the workers
\* go, the references of a dependency are the tasks that still list it, and it is
\* freed with the last of them (twnative_task_int.c, TWNATIVEI_Task_dep_t).
THEOREM RefsCountedHolds == Init /\ [][Next]_vars => []RefsCounted
  BY Invariance, CountsRefs, PTL

\* When TW_Finalize has succeeded what is left in memory is what Leaked names, for any
\* number of tasks and workers: each other object was freed.
THEOREM AllFreedHolds == Init /\ [][Next]_vars => []AllFreed
  BY Invariance, FreesAll, PTL

\* No thread uses freed memory, and none follows the NULL data of a job or the NULL job
\* of a task, as long as the client frees what has ended and finalizes when its threads
\* are done.
THEOREM NoUseAfterFreeHolds == Init /\ [][Next]_vars => []NoUseAfterFree
<1>1. Init => FaultOK
  BY DEF Init, FaultOK
<1>2. IInv /\ FaultOK /\ [Next]_vars => FaultOK'
  BY FaultStep
<1>3. IInv /\ FaultOK => NoUseAfterFree
  BY TypedOK DEF NoUseAfterFree, FaultOK
<1> QED
  BY <1>1, <1>2, <1>3, Invariance, PTL

================================================================================
