---------------------------- MODULE AbtEventProofs ----------------------------
(***************************************************************************)
(* What TLAPS proves of AbtEvent for every set of workers, application     *)
(* threads and scenarios, and for both drivers.                            *)
(*                                                                         *)
(* As long as a behaviour is orderly, the right to arm the event is one    *)
(* token that passes from hand to hand: the application commits with it,   *)
(* it is the armed event, the callback takes it when the event fires and   *)
(* puts it into the engine's queue, a worker runs the handler with it and  *)
(* commits again, and a commit that comes too early leaves it in the       *)
(* pending slot.  Where the token is says what every field holds.          *)
(***************************************************************************)
EXTENDS AbtEvent, FiniteSetTheorems, SequenceTheorems, TLAPS

-----------------------------------------------------------------------------
(* Where a thread is. *)

Is(th, labels) == pc[th] \in labels

\* From the callback's compare-and-swap of the driver's status to its reset.
RunLabel  == {"trigger", "copy", "queue", "inc", "reset", "ctx", "fill", "create", "triggered"}
AbtTrans  == {"ctx", "fill", "create", "triggered"}

\* Where a thread has the token, and where it goes on without it.
LoopHolds   == {"cb", "trigger", "copy", "queue", "ctx", "fill", "create", "commit", "new", "add"}
WorkerHolds == {"load", "clear", "run", "handler", "zero", "fail", "rewatch", "test", "count",
                "left", "recommit", "commit", "slot", "again", "new", "add"}
AppHolds    == {"engine", "commit", "slot", "again", "new", "add"}

LoopGoes   == LoopHolds \cup {"idle", "inc", "triggered", "reset", "look", "claim", "erase"}
WorkerGoes == WorkerHolds \cup {"idle", "seen", "take", "armed", "refused"}
AppCommits == AppHolds \cup {"seen", "take", "armed"}
Stops      == {"stop?", "stop", "del", "unset", "deleted", "to_idle", "free"}

-----------------------------------------------------------------------------
(* What holds whatever the application does. *)

\* The struct events are made one after the other.
MadeInOrder ==
    \E n \in 0..MaxStructs : \A s \in 1..MaxStructs : struct[s] # "none" <=> s <= n

PcTyped == pc \in [Thread -> Label]

DriverTyped ==
    /\ nlp \in BOOLEAN /\ dfreed \in BOOLEAN
    /\ dstat \in {"PENDING", "COMMITED", "RUNNING"}
    /\ evp \in 0..MaxStructs
    /\ struct \in [1..MaxStructs -> {"none", "new", "added", "fired", "freed"}]
    /\ polls \in Nat
    /\ fault \in {"none", "null_engine", "null_struct", "freed_struct", "freed_event"}
    /\ MadeInOrder
    /\ evp # 0 => struct[evp] # "none"

NativeTyped ==
    /\ eng \in BOOLEAN /\ stops \in {"no", "yes", "done", "past"} /\ orderly \in BOOLEAN
    /\ queued \in Nat /\ ticks \in Nat /\ fails \in Nat
    /\ asked \in Int /\ repeat \in Int /\ seen \in [Worker -> Int]
    /\ status \in {"INVAL", "IDLE", "WATCHING", "TRIGGER", "RUNNING", "FAILED", "TRANS"}
    /\ Valid(args)

TaskletsTyped ==
    /\ pool \in Seq(Cell) /\ full \subseteq Cell /\ ctx \in Cell \cup {0}
    /\ taken \in [Worker -> Cell \cup {0}] /\ missed \in BOOLEAN
    /\ backend \in {"native", "argobots"}
    /\ backend = "argobots" => Len(pool) = queued
    /\ Is(Loop, {"fill", "create"}) => ctx \in Cell

Typed == PcTyped /\ DriverTyped /\ NativeTyped /\ TaskletsTyped

-----------------------------------------------------------------------------
(* An orderly behaviour while nothing but commits is going on: place k, and
   thread t when a thread has the token. *)

Places == {"none", "slot", "job", "armed", "thread"}

Has(k, t, th, labels) == k = "thread" /\ t = th /\ Is(th, labels)

ThreadsOK(k, t) ==
    /\ Is(Loop, LoopGoes)
    /\ \A w \in Worker : Is(w, WorkerGoes)
    /\ \A a \in App : Is(a, AppCommits \cup {"idle"})
    /\ Is(Loop, LoopHolds) <=> k = "thread" /\ t = Loop
    /\ \A w \in Worker : Is(w, WorkerHolds) <=> k = "thread" /\ t = w
    /\ \A a \in App : Is(a, AppHolds) <=> k = "thread" /\ t = a

\* The driver's event and libevent.
DriverOK(k, t) ==
    /\ nlp <=> k = "slot"
    /\ dstat = "RUNNING" <=> Is(Loop, RunLabel)
    /\ dstat = "COMMITED" <=> k = "armed" \/ Has(k, t, t, {"new", "add"}) \/ Is(Loop, {"cb"})
    /\ poll => Armed = {} /\ polls = (IF k = "armed" THEN 1 ELSE 0)
                                       + (IF Is(Loop, {"idle"}) THEN 0 ELSE 1)
    /\ ~poll => polls = 0 /\ Armed = (IF k = "armed" THEN {evp} ELSE {})
    /\ evp # 0 => struct[evp] # "freed"
    /\ k = "thread" /\ Is(t, {"add"}) => evp # 0 /\ ~poll
    /\ fault = "none" /\ ~dfreed

\* The slot is seen by the callback, or by whoever put it there.
SlotSeen(k) ==
    k = "slot" => \/ Is(Loop, RunLabel \cup {"look", "claim"})
                  \/ \E th \in Thread : Is(th, {"seen", "take"})

\* A commit of the application is never refused.
AppSucceeds(k, t) ==
    \A a \in App :
        /\ k = "thread" /\ t = a /\ Is(a, {"again"}) => dstat = "PENDING"
        /\ k = "slot" /\ Is(a, {"take"}) => ~Is(Loop, RunLabel)

StatusOK(k, t) ==
    /\ status # "INVAL"
    /\ \A a \in App : Is(a, AppCommits) =>
           status = "TRANS" /\ ~Is(Loop, AbtTrans) /\ \A b \in App \ {a} : ~Is(b, AppCommits)
    /\ Is(Loop, AbtTrans) => status = "TRANS"
    /\ k \in {"slot", "armed"} => status \in {"WATCHING", "TRANS"}
    /\ k = "job" \/ (k = "thread" /\ t \in Worker /\ Is(t, {"load", "clear", "run"})) =>
           status = "TRIGGER" \/ (status = "TRANS" /\ Is(Loop, {"triggered"}))
    /\ Is(Loop, {"triggered"}) =>
           k = "job" \/ (k = "thread" /\ t \in Worker /\ Is(t, {"load", "clear", "run"}))
    /\ k = "thread" /\ t \in Worker =>
           /\ Is(t, {"handler", "fail", "rewatch", "zero"}) => status = "RUNNING"
           /\ Is(t, {"test", "count", "left", "recommit", "commit", "slot"}) => status = "WATCHING"
           /\ Is(t, {"again", "new", "add"}) => status \in {"WATCHING", "TRANS"}
    /\ Is(Loop, {"cb", "trigger", "commit", "new", "add"}) => status \in {"WATCHING", "TRANS"}
    /\ Is(Loop, {"copy", "queue"}) => status = "TRIGGER"
    /\ k = "none" => status \notin {"TRIGGER", "RUNNING"}

\* Why the event may be watched and not armed.
Unarmed(k) ==
    k = "none" /\ status \in {"WATCHING", "TRANS"} =>
        repeat = 0 \/ missed \/ \E w \in Worker : Is(w, {"refused"})

\* Before the first commit, and after a retract.
Fresh(k) ==
    ~eng \/ (~poll /\ evp = 0) =>
        /\ Is(Loop, {"idle"})
        /\ \A w \in Worker : Is(w, {"idle"})
        /\ \A a \in App : Is(a, {"idle", "engine"}) \/ (eng /\ Is(a, {"commit", "new"}))
        /\ k \in {"none", "thread"}
        /\ status \in {"IDLE", "TRANS"}

\* The job of the queue, and the cell that its tasklet finds.
JobOK(k, t) ==
    /\ queued = (IF k = "job" THEN 1 ELSE 0)
    /\ backend = "argobots" /\ k = "job" => pool = <<ctx>> /\ ctx \in full
    /\ k = "thread" /\ t \in Worker /\ Is(t, {"load", "clear"}) => taken[t] = ctx /\ ctx \in full
    /\ Is(Loop, {"create"}) => ctx \in full
    /\ Is(Loop, {"copy", "queue", "inc"}) => backend = "native"
    /\ Is(Loop, AbtTrans) => backend = "argobots"

\* The handler has retracted the event.
HandlerStopped(k, t) ==
    /\ stops = "done" =>
           \/ k = "none" /\ repeat = 0
           \/ k = "thread" /\ t \in Worker /\ Is(t, {"zero"})
           \/ k = "thread" /\ t \in Worker /\ Is(t, {"rewatch", "test", "left"}) /\ repeat = 0
    /\ k = "thread" /\ t \in Worker /\ Is(t, {"zero"}) => stops = "done"

\* The arguments that the trigger was given reach the handler.
ArgsOK(k, t) ==
    LET Given == {Reported(args, flags) : flags \in SUBSET Flags(args)}
        Triggered == k = "job" \/ (k = "thread" /\ t \in Worker
                                       /\ Is(t, {"load", "clear", "run", "handler"}))
    IN  /\ ~Is(Loop, {"idle", "erase"}) => arg \in Given
        /\ Triggered \/ Is(Loop, {"copy", "queue", "ctx", "fill", "create"}) => due \in Given
        /\ Is(Loop, {"copy", "queue", "ctx", "fill", "create"}) => arg = due
        /\ Is(Loop, {"queue"}) => eparg = due
        /\ Triggered => /\ backend = "native" => eparg = due
                        /\ InCallback => arg = due

Token(k, t) ==
    /\ ThreadsOK(k, t) /\ DriverOK(k, t) /\ SlotSeen(k) /\ AppSucceeds(k, t)
    /\ StatusOK(k, t) /\ Unarmed(k) /\ Fresh(k) /\ JobOK(k, t)
    /\ HandlerStopped(k, t) /\ ArgsOK(k, t)

\* Application thread a retracts or frees the event, and nobody else is busy.
StopAt(a) ==
    /\ Is(a, Stops)
    /\ \A th \in Thread \ {a} : Is(th, {"idle"})
    /\ queued = 0 /\ ~nlp /\ polls = 0 /\ fault = "none" /\ ~dfreed
    /\ ~Is(a, {"free"}) => ~poll
    /\ Is(a, {"stop?", "stop"}) => status = "WATCHING"
    /\ Is(a, {"del", "unset", "deleted", "to_idle"}) => status = "TRANS"
    /\ Is(a, {"free"}) => status = "INVAL"
    /\ Is(a, {"stop?", "stop", "del"}) => evp # 0
    /\ Is(a, {"stop?", "stop", "del", "free"}) => (evp # 0 => struct[evp] # "freed") /\ Armed \subseteq {evp}
    /\ Is(a, {"unset", "deleted", "to_idle"}) => Armed = {}
    /\ Is(a, {"deleted", "to_idle"}) => evp = 0 /\ dstat = "PENDING"
    /\ Is(a, {"to_idle"}) => ~eng
    /\ stops = "done" => repeat = 0

\* The event has been freed, once.
Gone ==
    /\ dfreed /\ fault = "none" /\ status = "INVAL"
    /\ \A th \in Thread : Is(th, {"idle"})
    /\ queued = 0 /\ polls = 0 /\ Armed = {}

\* The repetitions: what the worker that has run the handler has not yet counted.
Uncounted == \E w \in Worker : Is(w, {"rewatch", "test", "count"})

RepeatsOK ==
    /\ repeat \in -1..(IF asked < 0 THEN 0 ELSE asked) /\ (asked >= 0 => repeat >= 0)
    /\ \A w \in Worker : Is(w, {"count"}) => repeat > 0 /\ seen[w] = repeat
    /\ asked > 0 /\ stops \in {"no", "yes"} =>
           \/ ticks + repeat = asked + (IF Uncounted THEN 1 ELSE 0)
           \/ repeat = 0 /\ ticks > asked

Running  == RepeatsOK /\ \E k \in Places, t \in Thread : Token(k, t)
Closing == RepeatsOK /\ \E a \in App : StopAt(a)
Ended    == RepeatsOK /\ Gone

Orderly == orderly => Running \/ Closing \/ Ended

IInv == Typed /\ Orderly

-----------------------------------------------------------------------------
(* A step of a thread. *)

LEMMA Roles ==
    /\ Loop \in Thread /\ Worker \subseteq Thread /\ App \subseteq Thread
    /\ Loop \notin Worker /\ Loop \notin App /\ Worker \cap App = {}
    /\ \A th \in Thread : th = Loop \/ th \in Worker \/ th \in App
  BY EventAssumption

Moved(th, l) ==
    pc'[th] = l /\ \A th2 \in Thread : th2 # th => pc'[th2] = pc[th2]

LEMMA GotoMoves ==
  ASSUME PcTyped, NEW th \in Thread, NEW l, Goto(th, l)
  PROVE  Moved(th, l)
  BY DEF PcTyped, Goto, Moved

LEMMA Labels ==
    /\ "commit" \in Label /\ "slot" \in Label /\ "seen" \in Label /\ "take" \in Label
    /\ "again" \in Label /\ "new" \in Label /\ "add" \in Label /\ "cb" \in Label
    /\ "reset" \in Label /\ "look" \in Label /\ "claim" \in Label /\ "del" \in Label
    /\ "unset" \in Label /\ "free" \in Label /\ "ctx" \in Label /\ "fill" \in Label
    /\ "create" \in Label /\ "triggered" \in Label /\ "load" \in Label /\ "clear" \in Label
    /\ "idle" \in Label /\ "trigger" \in Label /\ "copy" \in Label /\ "queue" \in Label
    /\ "inc" \in Label /\ "erase" \in Label /\ "run" \in Label /\ "handler" \in Label
    /\ "fail" \in Label /\ "rewatch" \in Label /\ "test" \in Label /\ "count" \in Label
    /\ "left" \in Label /\ "recommit" \in Label /\ "armed" \in Label /\ "refused" \in Label
    /\ "engine" \in Label /\ "undo" \in Label /\ "back" \in Label /\ "deleted" \in Label
    /\ "stop?" \in Label /\ "zero" \in Label /\ "stop" \in Label /\ "to_idle" \in Label
  BY DEF Label, DriverLabel, AbtLabel, Stopping

LEMMA GotoTyped ==
  ASSUME PcTyped, NEW th \in Thread, NEW l \in Label, Goto(th, l)
  PROVE  PcTyped'
  BY DEF PcTyped, Goto

\* What UNCHANGED says of the groups of variables.
LEMMA SameAbove ==
  ASSUME UNCHANGED above
  PROVE  UNCHANGED <<status, repeat, eng, eparg, queued, seen, fails, stops, script, asked,
                     ticks, due, orderly>>
  BY DEF above, native, client, history

LEMMA SameBelow ==
  ASSUME UNCHANGED below
  PROVE  UNCHANGED <<args, arg, dstat, nlp, evp, struct, polls, dfreed, fault>>
  BY DEF below, arguments, driver

LEMMA SameAbt ==
  ASSUME UNCHANGED abt
  PROVE  UNCHANGED <<pool, full, ctx, taken, missed>>
  BY DEF abt, tasklets

-----------------------------------------------------------------------------
(* Types. *)

LEMMA TypedIsTypeOK == Typed => TypeOK
  BY DEF Typed, PcTyped, DriverTyped, NativeTyped, TypeOK

LEMMA MadeCounts ==
  ASSUME DriverTyped
  PROVE  /\ Made \in 0..MaxStructs
         /\ \A s \in 1..MaxStructs : struct[s] # "none" <=> s <= Made
<1>1. PICK n \in 0..MaxStructs : \A s \in 1..MaxStructs : struct[s] # "none" <=> s <= n
  BY DEF DriverTyped, MadeInOrder
<1>2. {s \in 1..MaxStructs : struct[s] # "none"} = 1..n
  BY <1>1, EventAssumption
<1>3. Cardinality(1..n) = n
  BY FS_Interval
<1> QED
  BY <1>1, <1>2, <1>3 DEF Made

LEMMA DriverSame ==
  ASSUME DriverTyped, UNCHANGED <<dstat, nlp, evp, struct, polls, dfreed, fault>>
  PROVE  DriverTyped'
  BY DEF DriverTyped, MadeInOrder

LEMMA NativeSame ==
  ASSUME NativeTyped, UNCHANGED args, UNCHANGED above
  PROVE  NativeTyped'
  BY SameAbove DEF NativeTyped

LEMMA TaskletsSame ==
  ASSUME TaskletsTyped, UNCHANGED abt, UNCHANGED backend, backend = "argobots" => queued' = queued,
         Is(Loop, {"fill", "create"})' => Is(Loop, {"fill", "create"})
  PROVE  TaskletsTyped'
  BY SameAbt DEF TaskletsTyped

\* A struct event that has been made goes on.
LEMMA StructGoes ==
  ASSUME DriverTyped, NEW e \in 1..MaxStructs, struct[e] # "none",
         NEW v \in {"new", "added", "fired", "freed"},
         struct' = [struct EXCEPT ![e] = v], UNCHANGED evp
  PROVE  /\ struct' \in [1..MaxStructs -> {"none", "new", "added", "fired", "freed"}]
         /\ MadeInOrder' /\ (evp # 0 => struct[evp] # "none")'
<1>1. PICK n \in 0..MaxStructs : \A s \in 1..MaxStructs : struct[s] # "none" <=> s <= n
  BY DEF DriverTyped, MadeInOrder
<1>2. \A s \in 1..MaxStructs : struct'[s] # "none" <=> s <= n
  BY <1>1 DEF DriverTyped
<1> QED
  BY <1>2 DEF DriverTyped, MadeInOrder

LEMMA CommitNewTyped ==
  ASSUME DriverTyped, NEW th \in Thread, CommitNew(th)
  PROVE  DriverTyped'
<1>1. Made \in 0..MaxStructs /\ \A s \in 1..MaxStructs : struct[s] # "none" <=> s <= Made
  BY MadeCounts
<1>2. PICK n \in 0..MaxStructs : n = Made
  BY <1>1
<1>3. n + 1 \in 1..MaxStructs /\ evp' = n + 1 /\ struct' = [struct EXCEPT ![n + 1] = "new"]
  BY <1>2, EventAssumption DEF CommitNew
<1>4. \A s \in 1..MaxStructs : struct'[s] # "none" <=> s <= n + 1
  BY <1>1, <1>2, <1>3 DEF DriverTyped
<1>5. MadeInOrder'
  BY <1>3, <1>4 DEF MadeInOrder
<1>6. struct' \in [1..MaxStructs -> {"none", "new", "added", "fired", "freed"}]
  BY <1>3 DEF DriverTyped
<1> QED
  BY <1>3, <1>4, <1>5, <1>6 DEF DriverTyped, CommitNew

\* A step below the driver goes to a label that is not one of the tasklets'.
Passes(th) == \E l \in Label \ {"fill", "create"} : Goto(th, l)

LEMMA PassesTyped ==
  ASSUME PcTyped, TaskletsTyped, NEW th \in Thread, Passes(th) \/ UNCHANGED pc,
         UNCHANGED abt, UNCHANGED backend, backend = "argobots" => queued' = queued
  PROVE  PcTyped' /\ TaskletsTyped'
<1>1. PcTyped'
  BY GotoTyped DEF PcTyped, Passes
<1>2. Is(Loop, {"fill", "create"})' => Is(Loop, {"fill", "create"})
  BY Roles DEF Passes, Goto, PcTyped, Is
<1> QED
  BY <1>1, <1>2, TaskletsSame

LEMMA BelowPasses ==
  ASSUME NEW th \in Thread,
         DriverCommit(th) \/ UseAfterFree(th) \/ DriverCalls(th) \/ DriverLoop
  PROVE  Passes(th) \/ Passes(Loop) \/ UNCHANGED pc
<1> USE Labels DEF Passes, CommitReturns, CallbackReturns
<1>1. CASE CommitStatus(th) \/ CommitSlot(th) \/ CommitSeen(th) \/ CommitTake(th)
  BY <1>1 DEF CommitStatus, CommitSlot, CommitSeen, CommitTake
<1>2. CASE CommitAgain(th) \/ CommitPoll(th) \/ CommitNew(th) \/ CommitAdd(th)
  BY <1>2 DEF CommitAgain, CommitPoll, CommitNew, CommitAdd, Dies
<1>3. CASE UseAfterFree(th) \/ DriverCalls(th)
  BY <1>3 DEF UseAfterFree, DriverCalls, RetractDel, RetractUnset, FreeDriver, Dies
<1>4. CASE DriverLoop
  BY <1>4 DEF DriverLoop, Callback, ResetStore, ResetLook, ResetClaim, Erase
<1> QED
  BY <1>1, <1>2, <1>3, <1>4 DEF DriverCommit

LEMMA StructSame ==
  ASSUME UNCHANGED struct
  PROVE  MadeInOrder' <=> MadeInOrder
  BY DEF MadeInOrder

LEMMA BelowDriver ==
  ASSUME DriverTyped, NEW th \in Thread,
         DriverCommit(th) \/ UseAfterFree(th) \/ DriverCalls(th) \/ DriverLoop
  PROVE  DriverTyped' /\ UNCHANGED <<args, arg>>
<1> USE DEF arguments, driver
<1>1. CASE CommitStatus(th) \/ CommitSlot(th) \/ CommitSeen(th) \/ CommitTake(th)
  BY <1>1, StructSame DEF CommitStatus, CommitSlot, CommitSeen, CommitTake, DriverTyped
<1>2. CASE CommitAgain(th) \/ CommitPoll(th)
  <2>1. UNCHANGED <<evp, struct, dfreed, fault, args, arg, nlp>>
    BY <1>2 DEF CommitAgain, CommitPoll
  <2>2. polls' \in Nat /\ dstat' \in {"PENDING", "COMMITED", "RUNNING"}
    <3>1. CASE CommitAgain(th)
      BY <3>1 DEF CommitAgain, DriverTyped
    <3>2. CASE CommitPoll(th)
      BY <3>2 DEF CommitPoll, DriverTyped
    <3> QED
      BY <1>2, <3>1, <3>2
  <2> QED
    BY <2>1, <2>2, StructSame DEF DriverTyped
<1>3. CASE CommitNew(th)
  BY <1>3, CommitNewTyped DEF CommitNew
<1>4. CASE CommitAdd(th)
  <2>1. CASE evp = 0
    BY <1>4, <2>1, StructSame DEF CommitAdd, Dies, DriverTyped
  <2>2. CASE evp # 0
    BY <1>4, <2>2, StructGoes DEF CommitAdd, DriverTyped
  <2> QED
    BY <2>1, <2>2
<1>5. CASE UseAfterFree(th)
  BY <1>5, StructSame DEF UseAfterFree, Dies, DriverTyped
<1>6. CASE RetractDel(th)
  <2>1. CASE evp = 0
    BY <1>6, <2>1, StructSame DEF RetractDel, Dies, DriverTyped
  <2>2. CASE evp # 0
    BY <1>6, <2>2, StructGoes DEF RetractDel, DriverTyped
  <2> QED
    BY <2>1, <2>2
<1>7. CASE RetractUnset(th)
  BY <1>7, StructSame, EventAssumption DEF RetractUnset, DriverTyped
<1>8. CASE FreeDriver(th)
  <2>1. CASE evp = 0
    BY <1>8, <2>1, StructSame DEF FreeDriver, DriverTyped
  <2>2. CASE evp # 0
    <3>1. /\ struct' = [struct EXCEPT ![evp] = "freed"] /\ UNCHANGED <<dstat, nlp, evp, polls>>
          /\ fault' \in {"none", "freed_struct"} /\ dfreed' = TRUE /\ UNCHANGED <<args, arg>>
      BY <1>8, <2>2 DEF FreeDriver
    <3>2. evp \in 1..MaxStructs /\ struct[evp] # "none"
      BY <2>2 DEF DriverTyped
    <3> QED
      BY <3>1, <3>2, StructGoes DEF DriverTyped
  <2> QED
    BY <2>1, <2>2
<1>9. CASE DriverLoop
  <2>1. UNCHANGED <<evp, struct, dfreed, fault, args, arg>>
    BY <1>9 DEF DriverLoop, Callback, ResetStore, ResetLook, ResetClaim, Erase
  <2>2. dstat' \in {"PENDING", "COMMITED", "RUNNING"} /\ polls' \in Nat
    <3>1. CASE Erase
      BY <3>1 DEF Erase, DriverTyped
    <3>2. CASE ~Erase
      BY <1>9, <3>2 DEF DriverLoop, Callback, ResetStore, ResetLook, ResetClaim, DriverTyped
    <3> QED
      BY <3>1, <3>2
  <2>3. nlp' = nlp \/ nlp' = FALSE
    BY <1>9 DEF DriverLoop, Callback, ResetStore, ResetLook, ResetClaim, Erase
  <2> QED
    BY <2>1, <2>2, <2>3, StructSame DEF DriverTyped
<1> QED
  BY <1>1, <1>2, <1>3, <1>4, <1>5, <1>6, <1>7, <1>8, <1>9 DEF DriverCommit, DriverCalls

LEMMA BelowTyped ==
  ASSUME Typed, NEW th \in Thread, UNCHANGED above, UNCHANGED abt, UNCHANGED backend,
         DriverCommit(th) \/ UseAfterFree(th) \/ DriverCalls(th) \/ DriverLoop
  PROVE  Typed'
<1>1. DriverTyped' /\ NativeTyped'
  BY BelowDriver, NativeSame DEF Typed
<1>2. PcTyped' /\ TaskletsTyped'
  BY BelowPasses, PassesTyped, Roles, SameAbove DEF Typed
<1> QED
  BY <1>1, <1>2 DEF Typed

LEMMA FiresTyped ==
  ASSUME Typed, Fires, UNCHANGED abt, UNCHANGED backend
  PROVE  Typed'
<1>1. /\ UNCHANGED <<args, dstat, nlp, evp, polls, dfreed, fault>>
      /\ Goto(Loop, "cb")
      /\ (\E s \in Armed : struct' = [struct EXCEPT ![s] = "fired"]) \/ UNCHANGED struct
  BY DEF Fires, Fire
<1>2. DriverTyped'
  <2>1. CASE UNCHANGED struct
    BY <1>1, <2>1, StructSame DEF Typed, DriverTyped
  <2>2. ASSUME NEW s \in Armed, struct' = [struct EXCEPT ![s] = "fired"]
        PROVE  DriverTyped'
    <3>1. s \in 1..MaxStructs /\ struct[s] # "none"
      BY DEF Armed
    <3> QED
      BY <1>1, <2>2, <3>1, StructGoes DEF Typed, DriverTyped
  <2> QED
    BY <1>1, <2>1, <2>2
<1>3. NativeTyped'
  BY <1>1 DEF Typed, NativeTyped, Fires, native, client
<1>4. PcTyped' /\ TaskletsTyped'
  <2>1. Passes(Loop)
    BY <1>1, Labels DEF Passes
  <2>2. UNCHANGED queued
    BY DEF Fires, native
  <2> QED
    BY <2>1, <2>2, PassesTyped, Roles DEF Typed
<1> QED
  BY <1>2, <1>3, <1>4 DEF Typed

LEMMA UpdateGoes ==
  ASSUME NEW th, NEW old, NEW new, NEW yes, NEW no,
         Update(th, old, new, yes, no) \/ UpdateUnset(th, old, new, yes, no)
  PROVE  /\ Goto(th, yes) \/ Goto(th, no)
         /\ status' = status \/ status' = new
  BY DEF Update, UpdateUnset

\* A step above the driver, which may be its death.
LEMMA AboveTyped ==
  ASSUME Typed, NEW th \in Thread, UNCHANGED abt, UNCHANGED backend,
         \/ UNCHANGED below
         \/ Dies("null_engine"),
         NativeTyped', Passes(th) \/ UNCHANGED pc, backend = "argobots" => queued' = queued
  PROVE  Typed'
<1>1. DriverTyped'
  <2>1. CASE UNCHANGED below
    BY <2>1, SameBelow, DriverSame DEF Typed
  <2>2. CASE Dies("null_engine")
    BY <2>2, StructSame DEF Typed, Dies, driver, DriverTyped
  <2> QED
    BY <2>1, <2>2
<1>2. PcTyped' /\ TaskletsTyped'
  BY PassesTyped DEF Typed
<1> QED
  BY <1>1, <1>2 DEF Typed

LEMMA NativeLoopTyped ==
  ASSUME Typed, UNCHANGED abt, UNCHANGED backend, backend = "native",
         Trigger \/ CopyArg \/ Queue \/ Inc
  PROVE  Typed'
<1> USE Labels DEF Passes, Typed, NativeTyped
<1>1. UNCHANGED args /\ (UNCHANGED below \/ Dies("null_engine"))
  BY SameBelow DEF Trigger, CopyArg, Queue, Inc, Dies, arguments
<1>2. Passes(Loop) \/ UNCHANGED pc
  BY UpdateGoes DEF Trigger, CopyArg, Queue, Inc, Dies
<1>3. NativeTyped'
  <2>1. CASE Trigger
    BY <1>1, <2>1, UpdateGoes DEF Trigger, client, Accepts
  <2>2. CASE CopyArg
    BY <1>1, <2>2 DEF CopyArg, client, history
  <2>3. CASE Queue
    BY <1>1, <2>3 DEF Queue, client, history
  <2>4. CASE Inc
    BY <1>1, <2>4, NativeSame DEF Inc
  <2> QED
    BY <2>1, <2>2, <2>3, <2>4
<1> QED
  BY <1>1, <1>2, <1>3, AboveTyped, Roles

LEMMA AbtTriggersTyped ==
  ASSUME Typed, UNCHANGED backend, backend = "argobots", AbtTriggers
  PROVE  Typed'
<1> USE Labels, Roles
<1>1. CASE AbtTrigger
  <2>1. UNCHANGED below /\ (Goto(Loop, "ctx") \/ Goto(Loop, "reset"))
        /\ (status' = status \/ status' = "TRANS") /\ UNCHANGED queued
        /\ UNCHANGED <<repeat, eng, seen, asked, ticks, fails, stops, orderly>>
        /\ UNCHANGED <<pool, full, ctx, taken>> /\ missed' = (missed \/ status = "TRANS")
    BY <1>1, UpdateGoes DEF AbtTrigger, Accepts, client, tasklets
  <2>2. DriverTyped' /\ UNCHANGED args
    BY <2>1, SameBelow, DriverSame DEF Typed
  <2>3. NativeTyped'
    BY <2>1, <2>2 DEF Typed, NativeTyped
  <2>4. PcTyped' /\ ~Is(Loop, {"fill", "create"})'
    BY <2>1, GotoTyped DEF Typed, PcTyped, Goto, Is
  <2>5. TaskletsTyped'
    BY <2>1, <2>4 DEF Typed, TaskletsTyped
  <2> QED
    BY <2>2, <2>3, <2>4, <2>5 DEF Typed
<1>2. CASE AbtCell
  <2>1. UNCHANGED above /\ UNCHANGED missed
        /\ \/ Dies("null_engine") /\ UNCHANGED <<pool, full, ctx, taken>>
           \/ /\ UNCHANGED below /\ Goto(Loop, "fill") /\ UNCHANGED <<pool, taken>>
              /\ \E c \in Cell \ InUse : ctx' = c /\ full' = full \ {c}
    BY <1>2 DEF AbtCell, tasklets
  <2>2. DriverTyped' /\ UNCHANGED args
    BY <2>1, SameBelow, DriverSame, StructSame DEF Typed, Dies, driver, arguments, DriverTyped
  <2>3. NativeTyped' /\ UNCHANGED queued
    BY <2>1, <2>2, NativeSame, SameAbove DEF Typed
  <2>4. PcTyped'
    BY <2>1, GotoTyped DEF Typed, PcTyped, Dies
  <2>5. TaskletsTyped'
    BY <2>1, <2>3 DEF Typed, TaskletsTyped, Dies, Is
  <2> QED
    BY <2>2, <2>3, <2>4, <2>5 DEF Typed
<1>3. CASE AbtFill
  <2>1. /\ UNCHANGED above /\ UNCHANGED missed /\ UNCHANGED below /\ Goto(Loop, "create")
        /\ UNCHANGED <<pool, ctx, taken>> /\ full' = full \cup {ctx} /\ At(Loop, "fill")
    BY <1>3 DEF AbtFill, Alive
  <2>2. DriverTyped' /\ UNCHANGED args
    BY <2>1, SameBelow, DriverSame DEF Typed
  <2>3. NativeTyped' /\ UNCHANGED queued
    BY <2>1, <2>2, NativeSame, SameAbove DEF Typed
  <2>4. PcTyped'
    BY <2>1, GotoTyped DEF Typed
  <2>5. TaskletsTyped'
    BY <2>1, <2>3 DEF Typed, TaskletsTyped, Is, At
  <2> QED
    BY <2>2, <2>3, <2>4, <2>5 DEF Typed
<1>4. CASE AbtCreate
  <2>1. UNCHANGED <<status, repeat, eng, eparg, seen, fails, stops, script, asked, ticks, due, orderly>>
        /\ UNCHANGED <<full, ctx, taken, missed>> /\ At(Loop, "create")
        /\ \/ Dies("null_engine") /\ UNCHANGED <<pool, queued>>
           \/ /\ UNCHANGED below /\ Goto(Loop, "triggered")
              /\ pool' = Append(pool, ctx) /\ queued' = queued + 1
    BY <1>4 DEF AbtCreate, client, history, Alive
  <2>2. DriverTyped' /\ UNCHANGED args
    BY <2>1, SameBelow, DriverSame, StructSame DEF Typed, Dies, driver, arguments, DriverTyped
  <2>3. NativeTyped'
    BY <2>1, <2>2 DEF Typed, NativeTyped
  <2>4. PcTyped'
    BY <2>1, GotoTyped DEF Typed, PcTyped, Dies
  <2>5. ctx \in Cell /\ pool \in Seq(Cell)
    BY <2>1 DEF Typed, TaskletsTyped, Is, At
  <2>6. pool' \in Seq(Cell) /\ (Len(pool) = queued => Len(pool') = queued')
    <3>1. Append(pool, ctx) \in Seq(Cell) /\ Len(Append(pool, ctx)) = Len(pool) + 1
      BY <2>5
    <3> QED
      BY <2>1, <2>5, <3>1
  <2>7. TaskletsTyped'
    BY <2>1, <2>5, <2>6 DEF Typed, TaskletsTyped, Is
  <2> QED
    BY <2>2, <2>3, <2>4, <2>7 DEF Typed
<1>5. CASE AbtTriggered
  <2>1. /\ UNCHANGED below /\ Goto(Loop, "reset") /\ UNCHANGED abt
        /\ UNCHANGED <<repeat, eng, queued, seen, asked, ticks, fails, stops, orderly>>
        /\ (status' = status \/ status' = "TRIGGER")
    BY <1>5, UpdateGoes DEF AbtTriggered, client, history
  <2>2. NativeTyped'
    BY <2>1, SameBelow DEF Typed, NativeTyped
  <2> QED
    BY <2>1, <2>2, AboveTyped DEF Passes
<1> QED
  BY <1>1, <1>2, <1>3, <1>4, <1>5 DEF AbtTriggers

LEMMA PopTyped ==
  ASSUME Typed, NEW w \in Worker, UNCHANGED abt, UNCHANGED backend, backend = "native", Pop(w)
  PROVE  Typed'
<1>1. UNCHANGED below /\ Passes(w) /\ UNCHANGED args
  BY Labels, SameBelow DEF Pop, Passes
<1>2. NativeTyped'
  BY <1>1 DEF Typed, NativeTyped, Pop, client, history
<1> QED
  BY <1>1, <1>2, AboveTyped, Roles

LEMMA TaskletTyped ==
  ASSUME Typed, NEW w \in Worker, UNCHANGED backend, backend = "argobots",
         AbtPop(w) \/ AbtLoad(w) \/ AbtClear(w)
  PROVE  Typed'
<1>1. UNCHANGED below /\ UNCHANGED <<args, missed, ctx>> /\ w \in Thread /\ w # Loop
      /\ UNCHANGED <<status, repeat, eng, seen, fails, stops, asked, ticks, orderly>>
  BY SameBelow, SameAbove, Roles DEF AbtPop, AbtLoad, AbtClear, client, history
<1>2. DriverTyped'
  BY <1>1, SameBelow, DriverSame DEF Typed
<1>3. PcTyped' /\ (Is(Loop, {"fill", "create"})' => Is(Loop, {"fill", "create"}))
  <2>1. \E l \in Label : Goto(w, l)
    BY Labels DEF AbtPop, AbtLoad, AbtClear
  <2> QED
    BY <1>1, <2>1, Roles DEF Typed, PcTyped, Goto, Is
<1>4. CASE AbtPop(w)
  <2>1. pool \in Seq(Cell) /\ pool # <<>> /\ pool' = Tail(pool) /\ queued' = queued - 1
        /\ taken' = [taken EXCEPT ![w] = Head(pool)] /\ UNCHANGED full /\ Len(pool) = queued
    BY <1>4 DEF AbtPop, Typed, TaskletsTyped
  <2>2. pool' \in Seq(Cell) /\ Len(pool') = queued' /\ queued' \in Nat /\ Head(pool) \in Cell
    BY <2>1
  <2>3. NativeTyped'
    BY <1>1, <2>2 DEF Typed, NativeTyped
  <2>4. TaskletsTyped'
    BY <1>1, <1>3, <2>1, <2>2 DEF Typed, TaskletsTyped
  <2> QED
    BY <1>2, <1>3, <2>3, <2>4 DEF Typed
<1>5. CASE AbtLoad(w) \/ AbtClear(w)
  <2>1. UNCHANGED <<pool, queued>> /\ full' \subseteq full
        /\ (taken' = taken \/ taken' = [taken EXCEPT ![w] = 0])
    BY <1>5, SameAbove DEF AbtLoad, AbtClear
  <2>2. NativeTyped'
    BY <1>1, <2>1 DEF Typed, NativeTyped
  <2>3. TaskletsTyped'
    BY <1>1, <1>3, <2>1 DEF Typed, TaskletsTyped
  <2> QED
    BY <1>2, <1>3, <2>2, <2>3 DEF Typed
<1> QED
  BY <1>4, <1>5

\* The steps of retract.
LEMMA RetractGoesTyped ==
  ASSUME Typed, NEW th \in Thread, UNCHANGED abt, UNCHANGED backend, RetractGoes(th)
  PROVE  Typed'
<1>1. CASE DriverCalls(th) /\ UNCHANGED above
  BY <1>1, BelowTyped
<1>2. CASE ~(DriverCalls(th) /\ UNCHANGED above)
  <2>1. UNCHANGED below /\ UNCHANGED <<args, queued>>
    BY <1>2, SameBelow, SameAbove
       DEF RetractGoes, RetractLook, RetractZero, RetractStop, Retracted, ToIdle
  <2>2. \E l \in Label \ {"fill", "create"} : Goto(th, l)
    BY <1>2, Labels, UpdateGoes
       DEF RetractGoes, RetractLook, RetractZero, RetractStop, Retracted, ToIdle, Returned
  <2>3. /\ UNCHANGED <<fails, stops, asked, ticks, orderly, seen>>
        /\ status' \in {status, "TRANS", "IDLE"} /\ repeat' \in {repeat, 0} /\ eng' \in BOOLEAN
    BY <1>2, UpdateGoes, SameAbove
       DEF RetractGoes, RetractLook, RetractZero, RetractStop, Retracted, ToIdle, client, history,
           Typed, NativeTyped
  <2>4. NativeTyped'
    BY <2>1, <2>3 DEF Typed, NativeTyped
  <2> QED
    BY <2>1, <2>2, <2>4, AboveTyped DEF Passes
<1> QED
  BY <1>1, <1>2

LEMMA HandlingTyped ==
  ASSUME Typed, NEW w \in Worker, UNCHANGED abt, UNCHANGED backend, Handling(w)
  PROVE  Typed'
<1> USE Labels, Roles DEF Passes
<1>1. CASE RetractGoes(w)
  BY <1>1, RetractGoesTyped
<1>2. CASE Below(w)
  BY <1>2, BelowTyped DEF Below
<1>3. CASE Run(w) \/ Fail(w) \/ Rewatch(w)
  <2>1. /\ UNCHANGED below /\ Passes(w)
        /\ UNCHANGED <<repeat, eng, eparg, queued, seen, fails, stops, asked, ticks, orderly>>
        /\ status' \in {status, "RUNNING", "FAILED", "WATCHING"}
    BY <1>3, UpdateGoes DEF Run, Fail, Rewatch, client, history
  <2>2. NativeTyped'
    BY <2>1, SameBelow DEF Typed, NativeTyped
  <2> QED
    BY <2>1, <2>2, AboveTyped
<1>4. CASE Handler(w)
  <2>1. /\ UNCHANGED below /\ Passes(w)
        /\ UNCHANGED <<status, repeat, eng, eparg, queued, seen, stops, asked, orderly>>
    BY <1>4 DEF Handler, native
  <2>2. fails' \in Nat /\ ticks' \in Nat
    BY <1>4 DEF Handler, Typed, NativeTyped
  <2>3. NativeTyped'
    BY <2>1, <2>2, SameBelow DEF Typed, NativeTyped
  <2> QED
    BY <2>1, <2>3, AboveTyped
<1>5. CASE HandlerRetracts(w)
  <2>1. UNCHANGED below /\ Passes(w) /\ UNCHANGED native /\ UNCHANGED history /\ UNCHANGED fails
        /\ stops' = "done"
    BY <1>5 DEF HandlerRetracts, Retracts
  <2>2. NativeTyped' /\ UNCHANGED queued
    BY <2>1, SameBelow DEF Typed, NativeTyped, native, history
  <2> QED
    BY <2>1, <2>2, AboveTyped
<1>6. CASE Test(w) \/ Count(w) \/ Left(w)
  <2>1. /\ UNCHANGED below /\ Passes(w)
        /\ UNCHANGED <<status, eng, eparg, queued, fails, stops, asked, ticks, orderly>>
        /\ seen' = [seen EXCEPT ![w] = repeat] \/ seen' = [seen EXCEPT ![w] = 0]
        /\ repeat' \in {repeat, repeat - 1, seen[w] - 1}
    BY <1>6 DEF Test, Count, Left, client, history
  <2>2. repeat' \in Int /\ seen' \in [Worker -> Int]
    BY <2>1 DEF Typed, NativeTyped
  <2>3. NativeTyped'
    BY <2>1, <2>2, SameBelow DEF Typed, NativeTyped
  <2> QED
    BY <2>1, <2>3, AboveTyped
<1>7. CASE Recommit(w)
  <2>1. UNCHANGED above /\ (UNCHANGED below \/ Dies("null_engine")) /\ (Passes(w) \/ UNCHANGED pc)
    BY <1>7 DEF Recommit, Dies
  <2>2. UNCHANGED args
    BY <2>1, SameBelow DEF Dies, arguments
  <2> QED
    BY <2>1, <2>2, NativeSame, SameAbove, AboveTyped DEF Typed
<1>8. CASE Recommitted(w)
  <2>1. UNCHANGED below /\ Passes(w) /\ UNCHANGED native /\ UNCHANGED <<fails, stops, asked, ticks>>
        /\ orderly' = (orderly /\ At(w, "armed"))
    BY <1>8 DEF Recommitted, client
  <2>2. NativeTyped' /\ UNCHANGED queued
    BY <2>1, SameBelow DEF Typed, NativeTyped, native
  <2> QED
    BY <2>1, <2>2, AboveTyped
<1> QED
  BY <1>1, <1>2, <1>3, <1>4, <1>5, <1>6, <1>7, <1>8 DEF Handling

LEMMA CallTyped ==
  ASSUME Typed, NEW a \in App, UNCHANGED abt, UNCHANGED backend, AppStep(a)
  PROVE  Typed'
<1> USE Labels, Roles DEF Passes
<1>1. CASE RetractGoes(a)
  BY <1>1, RetractGoesTyped
<1>2. CASE Below(a)
  BY <1>2, BelowTyped DEF Below
<1>3. CASE Commit(a)
  <2>1. /\ UNCHANGED below /\ Passes(a)
        /\ UNCHANGED <<repeat, eng, queued, seen, fails, asked, ticks>>
        /\ status' \in {status, "TRANS"} /\ stops' \in {stops, "past"}
        /\ orderly' = (orderly /\ status \in {"IDLE", "FAILED"})
    BY <1>3, UpdateGoes DEF Commit
  <2>2. NativeTyped'
    BY <2>1, SameBelow DEF Typed, NativeTyped
  <2> QED
    BY <2>1, <2>2, AboveTyped
<1>4. CASE Retract(a) \/ Free(a)
  <2>1. /\ UNCHANGED below /\ Passes(a)
        /\ UNCHANGED <<repeat, eng, queued, seen, fails, stops, asked, ticks>>
        /\ status' \in {status, "INVAL"} /\ orderly' \in BOOLEAN
    BY <1>4 DEF Retract, Retracts, Free, native
  <2>2. NativeTyped'
    BY <2>1, SameBelow DEF Typed, NativeTyped
  <2> QED
    BY <2>1, <2>2, AboveTyped
<1>5. CASE Engine(a) \/ Committed(a) \/ CommitError(a) \/ CommitUndo(a)
  <2>1. /\ UNCHANGED below /\ Passes(a)
        /\ UNCHANGED <<repeat, queued, seen, fails, stops, asked, ticks, orderly>>
        /\ status' \in {status, "WATCHING", "IDLE"} /\ eng' \in {eng, TRUE, FALSE}
    BY <1>5, UpdateGoes DEF Engine, Committed, CommitError, CommitUndo, client, history
  <2>2. NativeTyped'
    BY <2>1, SameBelow DEF Typed, NativeTyped
  <2> QED
    BY <2>1, <2>2, AboveTyped
<1> QED
  BY <1>1, <1>2, <1>3, <1>4, <1>5 DEF AppStep, CallGoes

LEMMA LoopBelowTyped ==
  ASSUME Typed, UNCHANGED abt, UNCHANGED backend, LoopBelow
  PROVE  Typed'
  BY FiresTyped, BelowTyped, Roles DEF LoopBelow, Below

LEMMA TypedInit ==
  ASSUME AllInit
  PROVE  Typed
<1>1. PICK s \in Scenarios :
        /\ args = s.args /\ repeat = Repetitions(s.args) /\ asked = Repetitions(s.args)
        /\ fails = s.fails /\ stops = s.stops
        /\ status = "IDLE" /\ eng = FALSE /\ queued = 0 /\ seen = [w \in Worker |-> 0]
        /\ ticks = 0 /\ orderly = TRUE /\ pc = [th \in Thread |-> "idle"] /\ DriverInit
  BY DEF AllInit, Init
<1>2. Valid(args) /\ fails \in Nat /\ stops \in {"no", "yes"}
  BY <1>1, ScenarioAssumption
<1>3. Repetitions(args) \in Int
  BY <1>2 DEF Valid, Repetitions, TW_INFINITE
<1>4. PcTyped
  BY Labels DEF AllInit, Init, PcTyped
<1>5. DriverTyped
  <2>1. \A e \in 1..MaxStructs : struct[e] # "none" <=> e <= 0
    BY EventAssumption DEF AllInit, Init, DriverInit
  <2>2. MadeInOrder
    BY <2>1, EventAssumption DEF MadeInOrder
  <2>3. nlp \in BOOLEAN /\ dfreed \in BOOLEAN
    BY <1>1 DEF DriverInit
  <2>4. struct \in [1..MaxStructs -> {"none", "new", "added", "fired", "freed"}]
    BY <1>1 DEF DriverInit
  <2>5. dstat = "PENDING" /\ evp = 0 /\ polls = 0 /\ fault = "none"
    BY <1>1 DEF DriverInit
  <2> QED
    BY <2>2, <2>3, <2>4, <2>5, EventAssumption DEF DriverTyped
<1>6. NativeTyped
  <2>1. repeat \in Int /\ asked \in Int
    BY <1>1, <1>3
  <2>2. eng \in BOOLEAN /\ orderly \in BOOLEAN
    BY <1>1
  <2>3. fails \in Nat /\ stops \in {"no", "yes"} /\ seen \in [Worker -> Int] /\ status = "IDLE"
        /\ queued = 0 /\ ticks = 0
    BY <1>1, <1>2
  <2> QED
    BY <1>2, <2>1, <2>2, <2>3 DEF NativeTyped
<1>7. TaskletsTyped
  <2>1. ~Is(Loop, {"fill", "create"})
    BY Roles DEF AllInit, Init, Is
  <2>2. pool \in Seq(Cell) /\ Len(pool) = queued
    BY <1>1 DEF AllInit
  <2>3. taken \in [Worker -> Cell \cup {0}]
    BY DEF AllInit
  <2> QED
    BY <2>1, <2>2, <2>3, AbtEventAssumption DEF AllInit, TaskletsTyped
<1> QED
  BY <1>4, <1>5, <1>6, <1>7 DEF Typed

LEMMA TypedNext ==
  ASSUME Typed, [AllNext]_all
  PROVE  Typed'
<1>1. CASE UNCHANGED all
  <2>1. UNCHANGED <<backend, pc>> /\ UNCHANGED abt /\ UNCHANGED below /\ UNCHANGED above
    BY <1>1 DEF all, vars
  <2> QED
    BY <2>1, SameBelow, SameAbove, NativeSame, AboveTyped, Roles DEF Typed
<1>2. CASE AllLoop /\ UNCHANGED backend
  BY <1>2, LoopBelowTyped, NativeLoopTyped, AbtTriggersTyped DEF AllLoop, LoopStep
<1>3. ASSUME NEW w \in Worker, AllWorker(w), UNCHANGED backend
      PROVE  Typed'
  BY <1>3, PopTyped, HandlingTyped, TaskletTyped DEF AllWorker, WorkerStep
<1>4. ASSUME NEW a \in App, AppStep(a), UNCHANGED abt, UNCHANGED backend
      PROVE  Typed'
  BY <1>4, CallTyped
<1> QED
  BY <1>1, <1>2, <1>3, <1>4 DEF AllNext

-----------------------------------------------------------------------------
(* Orderly steps while nothing but commits is going on: where the token goes. *)

USE DEF Is, Has, Moved, LoopHolds, LoopGoes, WorkerHolds, WorkerGoes, AppHolds, AppCommits,
        RunLabel, AbtTrans, ThreadsOK, DriverOK, SlotSeen, AppSucceeds, StatusOK, Unarmed,
        Fresh, JobOK, HandlerStopped, ArgsOK

Counting == {"rewatch", "test", "count"}

LEMMA RepeatsSame ==
  ASSUME RepeatsOK, NEW th \in Thread, NEW l, Moved(th, l), pc[th] \notin Counting,
         l \notin Counting, UNCHANGED <<repeat, asked, ticks, seen, stops>>
  PROVE  RepeatsOK'
<1>1. \A w \in Worker : Is(w, Counting)' <=> Is(w, Counting)
  BY Roles
<1>2. \A w \in Worker : Is(w, {"count"})' <=> Is(w, {"count"})
  BY Roles DEF Counting
<1>3. Uncounted' <=> Uncounted
  BY <1>1 DEF Uncounted, Counting
<1> QED
  BY <1>2, <1>3 DEF RepeatsOK

\* The step of a thread from label l0 to label l, while the fields of the upper
\* layers stay.
BelowStep(th, l0, l) ==
    /\ pc[th] = l0 /\ Moved(th, l) /\ UNCHANGED <<args, arg, fault, dfreed>>
    /\ UNCHANGED <<status, repeat, eng, eparg, queued, seen, fails, stops, asked, ticks, due, orderly>>
    /\ UNCHANGED <<backend, pool, full, ctx, taken, missed>>

LEMMA BelowRepeats ==
  ASSUME RepeatsOK, NEW th \in Thread, NEW l0, NEW l, BelowStep(th, l0, l),
         l0 \notin Counting, l \notin Counting
  PROVE  RepeatsOK'
  BY RepeatsSame DEF BelowStep

LEMMA CommitStatusRuns ==
  ASSUME Typed, RepeatsOK, NEW k \in Places, NEW t \in Thread, Token(k, t),
         NEW th \in Thread, CommitStatus(th),
         UNCHANGED above, UNCHANGED abt, UNCHANGED backend
  PROVE  Running'
<1>1. k = "thread" /\ t = th /\ pc[th] = "commit"
  BY Roles DEF CommitStatus, Touch, At, Token
<1>2. \/ BelowStep(th, "commit", "new") /\ dstat = "PENDING" /\ dstat' = "COMMITED"
      \/ BelowStep(th, "commit", "slot") /\ dstat # "PENDING" /\ dstat' = dstat
  BY <1>1, GotoMoves, SameAbove, SameAbt DEF CommitStatus, Typed, BelowStep, arguments
<1>3. UNCHANGED <<nlp, evp, struct, polls, Armed, poll>>
  BY <1>2 DEF CommitStatus, Armed, poll, BelowStep
<1>4. Token(k, t)'
  <2>1. CASE dstat = "PENDING"
    BY <1>1, <1>2, <1>3, <2>1, Roles DEF Token, BelowStep, InCallback
  <2>2. CASE dstat # "PENDING"
    <3>1. th # Loop /\ Is(Loop, RunLabel)
      BY <1>1, <2>2 DEF Token, Typed, DriverTyped
    <3> QED
      BY <1>1, <1>2, <1>3, <2>2, <3>1, Roles DEF Token, BelowStep, InCallback
  <2> QED
    BY <2>1, <2>2
<1>5. RepeatsOK'
  BY <1>2, BelowRepeats DEF Counting
<1> QED
  BY <1>4, <1>5 DEF Running

LEMMA CommitSlotRuns ==
  ASSUME Typed, RepeatsOK, NEW k \in Places, NEW t \in Thread, Token(k, t),
         NEW th \in Thread, CommitSlot(th),
         UNCHANGED above, UNCHANGED abt, UNCHANGED backend
  PROVE  Running'
<1>1. k = "thread" /\ t = th /\ pc[th] = "slot" /\ ~nlp
  BY Roles DEF CommitSlot, Touch, At, Token
<1>2. BelowStep(th, "slot", "seen") /\ nlp' = TRUE
  BY <1>1, GotoMoves, SameAbove, SameAbt DEF CommitSlot, Typed, BelowStep, arguments
<1>3. UNCHANGED <<dstat, evp, struct, polls, Armed, poll>>
  BY <1>2 DEF CommitSlot, Armed, poll, BelowStep
<1>4. Token("slot", t)'
  BY <1>1, <1>2, <1>3, Roles DEF Token, BelowStep, InCallback
<1>5. RepeatsOK'
  BY <1>2, BelowRepeats DEF Counting
<1> QED
  BY <1>4, <1>5 DEF Running, Places

LEMMA CommitSeenRuns ==
  ASSUME Typed, RepeatsOK, NEW k \in Places, NEW t \in Thread, Token(k, t),
         NEW th \in Thread, CommitSeen(th),
         UNCHANGED above, UNCHANGED abt, UNCHANGED backend
  PROVE  Running'
<1>1. pc[th] = "seen" /\ th # Loop
  BY Roles DEF CommitSeen, Touch, At, Token
<1>2. \/ BelowStep(th, "seen", "take") /\ dstat = "PENDING"
      \/ BelowStep(th, "seen", "armed") /\ dstat # "PENDING"
  BY <1>1, GotoMoves, SameAbove, SameAbt
     DEF CommitSeen, CommitReturns, Typed, BelowStep, arguments, driver
<1>3. UNCHANGED <<dstat, nlp, evp, struct, polls, Armed, poll>>
  BY <1>2 DEF CommitSeen, Armed, poll, BelowStep, driver
<1>4. Token(k, t)'
  <2>1. CASE dstat = "PENDING"
    BY <1>1, <1>2, <1>3, <2>1, Roles DEF Token, BelowStep, InCallback
  <2>2. CASE dstat # "PENDING"
    <3>1. k = "slot" => dstat = "RUNNING" /\ Is(Loop, RunLabel)
      BY <1>1, <2>2, Roles DEF Token, Typed, DriverTyped
    <3> QED
      BY <1>1, <1>2, <1>3, <2>2, <3>1, Roles DEF Token, BelowStep, InCallback
  <2> QED
    BY <2>1, <2>2
<1>5. RepeatsOK'
  BY <1>2, BelowRepeats DEF Counting
<1> QED
  BY <1>4, <1>5 DEF Running

LEMMA CommitTakeRuns ==
  ASSUME Typed, RepeatsOK, NEW k \in Places, NEW t \in Thread, Token(k, t),
         NEW th \in Thread, CommitTake(th),
         UNCHANGED above, UNCHANGED abt, UNCHANGED backend
  PROVE  Running'
<1>1. pc[th] = "take" /\ th # Loop
  BY Roles DEF CommitTake, Touch, At, Token
<1>2. \/ BelowStep(th, "take", "again") /\ k = "slot"
      \/ BelowStep(th, "take", "armed") /\ k # "slot"
  BY <1>1, GotoMoves, SameAbove, SameAbt
     DEF CommitTake, CommitReturns, Typed, BelowStep, arguments, Token
<1>3. nlp' = FALSE /\ UNCHANGED <<dstat, evp, struct, polls, Armed, poll>>
  BY <1>2 DEF CommitTake, Armed, poll, BelowStep
<1>4. \E k2 \in Places, t2 \in Thread : Token(k2, t2)'
  <2>1. CASE k = "slot"
    <3>1. dstat = "PENDING" \/ th \notin App
      BY <1>1, <2>1, Roles DEF Token, Typed, DriverTyped
    <3>2. Token("thread", th)'
      BY <1>1, <1>2, <1>3, <2>1, <3>1, Roles DEF Token, BelowStep, InCallback
    <3> QED
      BY <3>2 DEF Places
  <2>2. CASE k # "slot"
    <3>1. Token(k, t)'
      BY <1>1, <1>2, <1>3, <2>2, Roles DEF Token, BelowStep, InCallback
    <3> QED
      BY <3>1
  <2> QED
    BY <2>1, <2>2
<1>5. RepeatsOK'
  BY <1>2, BelowRepeats DEF Counting
<1> QED
  BY <1>4, <1>5 DEF Running

LEMMA CommitAgainRuns ==
  ASSUME Typed, RepeatsOK, NEW k \in Places, NEW t \in Thread, Token(k, t),
         NEW th \in Thread, CommitAgain(th),
         UNCHANGED above, UNCHANGED abt, UNCHANGED backend
  PROVE  Running'
<1>1. k = "thread" /\ t = th /\ pc[th] = "again" /\ th # Loop
  BY Roles DEF CommitAgain, Touch, At, Token
<1>2. \/ BelowStep(th, "again", "new") /\ dstat = "PENDING" /\ dstat' = "COMMITED"
      \/ BelowStep(th, "again", "refused") /\ dstat # "PENDING" /\ dstat' = dstat
  BY <1>1, GotoMoves, SameAbove, SameAbt
     DEF CommitAgain, CommitReturns, Typed, BelowStep, arguments
<1>3. UNCHANGED <<nlp, evp, struct, polls, Armed, poll>>
  BY <1>2 DEF CommitAgain, Armed, poll, BelowStep
<1>4. \E k2 \in Places, t2 \in Thread : Token(k2, t2)'
  <2>1. CASE dstat = "PENDING"
    <3>1. Token(k, t)'
      BY <1>1, <1>2, <1>3, <2>1, Roles DEF Token, BelowStep, InCallback
    <3> QED
      BY <3>1
  <2>2. CASE dstat # "PENDING"
    <3>1. th \in Worker
      BY <1>1, <2>2, Roles DEF Token
    <3>2. Token("none", t)'
      BY <1>1, <1>2, <1>3, <2>2, <3>1, Roles DEF Token, BelowStep, InCallback
    <3> QED
      BY <3>2 DEF Places
  <2> QED
    BY <2>1, <2>2
<1>5. RepeatsOK'
  BY <1>2, BelowRepeats DEF Counting
<1> QED
  BY <1>4, <1>5 DEF Running

\* Where a commit ends, for the loop and for the others.
LEMMA Returning ==
  ASSUME Typed, NEW th \in Thread, CommitReturns(th, TRUE)
  PROVE  \E l \in {"armed", "erase", "idle"} :
            /\ Moved(th, l)
            /\ th # Loop <=> l = "armed"
            /\ th = Loop => (l = "erase" <=> poll)
<1>1. CASE th # Loop
  BY <1>1, GotoMoves DEF CommitReturns, Typed
<1>2. CASE th = Loop /\ poll
  BY <1>2, GotoMoves DEF CommitReturns, Typed
<1>3. CASE th = Loop /\ ~poll
  BY <1>3, GotoMoves DEF CommitReturns, Typed
<1> QED
  BY <1>1, <1>2, <1>3

LEMMA CommitPollRuns ==
  ASSUME Typed, RepeatsOK, NEW k \in Places, NEW t \in Thread, Token(k, t),
         NEW th \in Thread, CommitPoll(th),
         UNCHANGED above, UNCHANGED abt, UNCHANGED backend
  PROVE  Running'
<1>1. k = "thread" /\ t = th /\ pc[th] = "new" /\ poll
  BY Roles DEF CommitPoll, Touch, At, Token
<1>2. PICK l \in {"armed", "erase"} : BelowStep(th, "new", l) /\ (th # Loop <=> l = "armed")
  BY <1>1, Returning, SameAbove, SameAbt DEF CommitPoll, BelowStep, arguments
<1>3. polls' = polls + 1 /\ UNCHANGED <<dstat, nlp, evp, struct, Armed, poll>>
  BY <1>2 DEF CommitPoll, Armed, poll, BelowStep
<1>4. Token("armed", t)'
  BY <1>1, <1>2, <1>3, Roles DEF Token, BelowStep, InCallback
<1>5. RepeatsOK'
  BY <1>2, BelowRepeats DEF Counting
<1> QED
  BY <1>4, <1>5 DEF Running, Places

LEMMA CommitNewRuns ==
  ASSUME Typed, RepeatsOK, NEW k \in Places, NEW t \in Thread, Token(k, t),
         NEW th \in Thread, CommitNew(th),
         UNCHANGED above, UNCHANGED abt, UNCHANGED backend
  PROVE  Running'
<1>1. k = "thread" /\ t = th /\ pc[th] = "new" /\ ~poll
  BY Roles DEF CommitNew, Touch, At, Token
<1>2. BelowStep(th, "new", "add")
  BY <1>1, GotoMoves, SameAbove, SameAbt DEF CommitNew, Typed, BelowStep, arguments
<1>3. PICK n \in 1..MaxStructs : /\ evp' = n /\ struct' = [struct EXCEPT ![n] = "new"]
                                /\ struct[n] = "none"
  <2>1. Made \in 0..MaxStructs /\ \A s \in 1..MaxStructs : struct[s] # "none" <=> s <= Made
    BY MadeCounts DEF Typed
  <2>2. PICK m \in 0..MaxStructs : m = Made
    BY <2>1
  <2>3. m + 1 \in 1..MaxStructs /\ evp' = m + 1 /\ struct' = [struct EXCEPT ![m + 1] = "new"]
    BY <2>2, EventAssumption DEF CommitNew
  <2>4. struct[m + 1] = "none"
    BY <2>1, <2>2, <2>3
  <2> QED
    BY <2>3, <2>4
<1>4. struct'[n] = "new" /\ UNCHANGED <<dstat, nlp, polls, poll, Armed>>
  BY <1>2, <1>3 DEF CommitNew, Typed, DriverTyped, poll, BelowStep, Armed
<1>5. Token(k, t)'
  BY <1>1, <1>2, <1>3, <1>4, Roles DEF Token, BelowStep, InCallback
<1>6. RepeatsOK'
  BY <1>2, BelowRepeats DEF Counting
<1> QED
  BY <1>5, <1>6 DEF Running

LEMMA CommitAddRuns ==
  ASSUME Typed, RepeatsOK, NEW k \in Places, NEW t \in Thread, Token(k, t),
         NEW th \in Thread, CommitAdd(th),
         UNCHANGED above, UNCHANGED abt, UNCHANGED backend
  PROVE  Running'
<1>1. k = "thread" /\ t = th /\ pc[th] = "add" /\ evp # 0 /\ evp \in 1..MaxStructs
      /\ struct[evp] # "freed" /\ fault = "none" /\ Armed = {}
  BY Roles DEF CommitAdd, Touch, At, Token, Typed, DriverTyped
<1>2. ~poll
  BY <1>1 DEF Token
<1>3. PICK l \in {"armed", "idle"} : BelowStep(th, "add", l) /\ (th # Loop <=> l = "armed")
  BY <1>1, <1>2, Returning, SameAbove, SameAbt DEF CommitAdd, BelowStep, arguments
<1>4. struct' = [struct EXCEPT ![evp] = "added"] /\ UNCHANGED <<dstat, nlp, evp, polls, poll>>
  BY <1>1, <1>3 DEF CommitAdd, poll, BelowStep
<1>5. Armed' = {evp} /\ struct'[evp] = "added"
  BY <1>1, <1>4 DEF Armed, Typed, DriverTyped
<1>6. Token("armed", t)'
  BY <1>1, <1>2, <1>3, <1>4, <1>5, Roles DEF Token, BelowStep, InCallback
<1>7. RepeatsOK'
  BY <1>3, BelowRepeats DEF Counting
<1> QED
  BY <1>6, <1>7 DEF Running, Places

-----------------------------------------------------------------------------
(* The callback and the reset of the driver's status. *)

LEMMA CallbackRuns ==
  ASSUME Typed, RepeatsOK, NEW k \in Places, NEW t \in Thread, Token(k, t), Callback,
         UNCHANGED above, UNCHANGED abt, UNCHANGED backend
  PROVE  Running'
<1>1. k = "thread" /\ t = Loop /\ pc[Loop] = "cb" /\ dstat = "COMMITED"
  BY Roles DEF Callback, Touch, At, Token
<1>2. BelowStep(Loop, "cb", "trigger") /\ dstat' = "RUNNING"
  BY <1>1, GotoMoves, Roles, SameAbove, SameAbt DEF Callback, Typed, BelowStep, arguments
<1>3. UNCHANGED <<nlp, evp, struct, polls, Armed, poll>>
  BY <1>2 DEF Callback, Armed, poll, BelowStep
<1>4. Token(k, t)'
  BY <1>1, <1>2, <1>3, Roles DEF Token, BelowStep, InCallback
<1>5. RepeatsOK'
  BY <1>2, BelowRepeats, Roles DEF Counting
<1> QED
  BY <1>4, <1>5 DEF Running

LEMMA ResetStoreRuns ==
  ASSUME Typed, RepeatsOK, NEW k \in Places, NEW t \in Thread, Token(k, t), ResetStore,
         UNCHANGED above, UNCHANGED abt, UNCHANGED backend
  PROVE  Running'
<1>1. ~(k = "thread" /\ t = Loop) /\ pc[Loop] = "reset" /\ dstat = "RUNNING"
  BY Roles DEF ResetStore, Touch, At, Token
<1>2. BelowStep(Loop, "reset", "look") /\ dstat' = "PENDING"
  BY <1>1, GotoMoves, Roles, SameAbove, SameAbt DEF ResetStore, Typed, BelowStep, arguments
<1>3. UNCHANGED <<nlp, evp, struct, polls, Armed, poll>>
  BY <1>2 DEF ResetStore, Armed, poll, BelowStep
<1>4. Token(k, t)'
  BY <1>1, <1>2, <1>3, Roles DEF Token, BelowStep, InCallback
<1>5. RepeatsOK'
  BY <1>2, BelowRepeats, Roles DEF Counting
<1> QED
  BY <1>4, <1>5 DEF Running

\* Where the callback ends.
LEMMA CallbackEnds ==
  ASSUME Typed, CallbackReturns
  PROVE  \E l \in {"erase", "idle"} : Moved(Loop, l) /\ (l = "erase" <=> poll)
<1>1. CASE poll
  BY <1>1, GotoMoves, Roles DEF CallbackReturns, Typed
<1>2. CASE ~poll
  BY <1>2, GotoMoves, Roles DEF CallbackReturns, Typed
<1> QED
  BY <1>1, <1>2

LEMMA ResetLookRuns ==
  ASSUME Typed, RepeatsOK, NEW k \in Places, NEW t \in Thread, Token(k, t), ResetLook,
         UNCHANGED above, UNCHANGED abt, UNCHANGED backend
  PROVE  Running'
<1>1. ~(k = "thread" /\ t = Loop) /\ pc[Loop] = "look"
  BY Roles DEF ResetLook, Touch, At, Token
<1>2. \E l \in {"claim", "erase", "idle"} :
         BelowStep(Loop, "look", l) /\ (l = "claim" <=> k = "slot") /\ (l = "erase" => poll)
                                    /\ (l = "idle" => ~poll)
  <2>1. CASE nlp
    BY <1>1, <2>1, GotoMoves, Roles, SameAbove, SameAbt
       DEF ResetLook, Typed, BelowStep, arguments, driver, Token
  <2>2. CASE ~nlp
    BY <1>1, <2>2, CallbackEnds, Roles, SameAbove, SameAbt
       DEF ResetLook, Typed, BelowStep, arguments, driver, Token
  <2> QED
    BY <2>1, <2>2
<1>3. UNCHANGED <<dstat, nlp, evp, struct, polls, Armed, poll>>
  BY <1>2 DEF ResetLook, Armed, poll, BelowStep, driver
<1>4. Token(k, t)'
  BY <1>1, <1>2, <1>3, Roles DEF Token, BelowStep, InCallback
<1>5. RepeatsOK'
  BY <1>2, BelowRepeats, Roles DEF Counting
<1> QED
  BY <1>4, <1>5 DEF Running

LEMMA ResetClaimRuns ==
  ASSUME Typed, RepeatsOK, NEW k \in Places, NEW t \in Thread, Token(k, t), ResetClaim,
         UNCHANGED above, UNCHANGED abt, UNCHANGED backend
  PROVE  Running'
<1>1. ~(k = "thread" /\ t = Loop) /\ pc[Loop] = "claim"
  BY Roles DEF ResetClaim, Touch, At, Token
<1>2. \E l \in {"commit", "erase", "idle"} :
         BelowStep(Loop, "claim", l) /\ (l = "commit" <=> k = "slot") /\ (l = "erase" => poll)
                                     /\ (l = "idle" => ~poll)
  <2>1. CASE nlp
    BY <1>1, <2>1, GotoMoves, Roles, SameAbove, SameAbt
       DEF ResetClaim, Typed, BelowStep, arguments, Token
  <2>2. CASE ~nlp
    BY <1>1, <2>2, CallbackEnds, Roles, SameAbove, SameAbt
       DEF ResetClaim, Typed, BelowStep, arguments, Token
  <2> QED
    BY <2>1, <2>2
<1>3. nlp' = FALSE /\ UNCHANGED <<dstat, evp, struct, polls, Armed, poll>>
  BY <1>2 DEF ResetClaim, Armed, poll, BelowStep
<1>4. \E k2 \in Places, t2 \in Thread : Token(k2, t2)'
  <2>1. CASE k = "slot"
    <3>1. Token("thread", Loop)'
      BY <1>1, <1>2, <1>3, <2>1, Roles DEF Token, BelowStep, InCallback
    <3> QED
      BY <3>1, Roles DEF Places
  <2>2. CASE k # "slot"
    <3>1. Token(k, t)'
      BY <1>1, <1>2, <1>3, <2>2, Roles DEF Token, BelowStep, InCallback
    <3> QED
      BY <3>1
  <2> QED
    BY <2>1, <2>2
<1>5. RepeatsOK'
  BY <1>2, BelowRepeats, Roles DEF Counting
<1> QED
  BY <1>4, <1>5 DEF Running

LEMMA EraseRuns ==
  ASSUME Typed, RepeatsOK, NEW k \in Places, NEW t \in Thread, Token(k, t), Erase,
         UNCHANGED above, UNCHANGED abt, UNCHANGED backend
  PROVE  Running'
<1>1. ~(k = "thread" /\ t = Loop) /\ pc[Loop] = "erase"
  BY Roles DEF Erase, At, Token
<1>2. BelowStep(Loop, "erase", "idle")
  BY <1>1, GotoMoves, Roles, SameAbove, SameAbt DEF Erase, Typed, BelowStep, arguments
<1>3. polls' = (IF poll /\ k = "armed" THEN 1 ELSE 0)
      /\ UNCHANGED <<dstat, nlp, evp, struct, Armed, poll>>
  BY <1>1, <1>2 DEF Erase, Armed, poll, BelowStep, Token
<1>4. Token(k, t)'
  BY <1>1, <1>2, <1>3, Roles DEF Token, BelowStep, InCallback
<1>5. RepeatsOK'
  BY <1>2, BelowRepeats, Roles DEF Counting
<1> QED
  BY <1>4, <1>5 DEF Running

\* The event fires: it was armed.
LEMMA FiresRuns ==
  ASSUME Typed, RepeatsOK, NEW k \in Places, NEW t \in Thread, Token(k, t), Fires,
         UNCHANGED abt, UNCHANGED backend
  PROVE  Running'
<1>1. pc[Loop] = "idle" /\ k = "armed"
  <2>1. pc[Loop] = "idle" /\ (Armed # {} \/ polls > 0)
    BY DEF Fires, Fire, At
  <2> QED
    BY <2>1 DEF Token
<1>2. /\ Moved(Loop, "cb") /\ UNCHANGED <<args, dstat, nlp, evp, polls, dfreed, fault, poll>>
      /\ UNCHANGED <<status, repeat, eng, eparg, queued, seen, fails, stops, asked, ticks, due>>
      /\ UNCHANGED <<pool, full, ctx, taken, missed>>
  BY GotoMoves, Roles, SameAbt DEF Fires, Fire, Typed, native, client, poll
<1>3. \E flags \in SUBSET Flags(args) : arg' = Reported(args, flags)
  BY DEF Fires, Fire
<1>4. Armed' = {} /\ (evp # 0 => struct'[evp] # "freed")
  <2>1. CASE poll
    <3>1. Armed = {}
      BY <2>1 DEF Token
    <3>2. UNCHANGED struct
      BY <3>1 DEF Fires, Fire
    <3> QED
      BY <1>2, <3>1, <3>2 DEF Armed, Token
  <2>2. CASE ~poll
    <3>1. Armed = {evp} /\ polls = 0
      BY <1>1, <2>2 DEF Token
    <3>2. struct' = [struct EXCEPT ![evp] = "fired"]
      BY <3>1 DEF Fires, Fire
    <3>3. \A s \in 1..MaxStructs : struct[s] = "added" <=> s = evp
      BY <3>1 DEF Armed
    <3> QED
      BY <1>2, <3>2, <3>3 DEF Armed, Typed, DriverTyped
  <2> QED
    BY <2>1, <2>2
<1>5. Token("thread", Loop)'
  BY <1>1, <1>2, <1>3, <1>4, Roles DEF Token, InCallback
<1>6. RepeatsOK'
  BY <1>1, <1>2, RepeatsSame, Roles DEF Counting
<1> QED
  BY <1>5, <1>6, Roles DEF Running, Places

-----------------------------------------------------------------------------
(* The trigger, up to the engine's queue: the native driver. *)

\* The step of a thread while the lower layer and the tasklets stay.
AboveStep(th, l0, l) ==
    /\ pc[th] = l0 /\ Moved(th, l)
    /\ UNCHANGED <<args, arg, dstat, nlp, evp, struct, polls, dfreed, fault>>
    /\ Armed' = Armed /\ poll' = poll

LEMMA MakeAbove ==
  ASSUME PcTyped, NEW th \in Thread, NEW l, Goto(th, l), UNCHANGED below
  PROVE  AboveStep(th, pc[th], l)
  BY GotoMoves, SameBelow DEF AboveStep, Armed, poll

LEMMA AboveRepeats ==
  ASSUME RepeatsOK, NEW th \in Thread, NEW l0, NEW l, AboveStep(th, l0, l),
         l0 \notin Counting, l \notin Counting, UNCHANGED <<repeat, asked, ticks, seen, stops>>
  PROVE  RepeatsOK'
  BY RepeatsSame DEF AboveStep

LEMMA TriggerRuns ==
  ASSUME Typed, RepeatsOK, NEW k \in Places, NEW t \in Thread, Token(k, t), Trigger,
         UNCHANGED abt, UNCHANGED backend, backend = "native"
  PROVE  Running'
<1>1. k = "thread" /\ t = Loop /\ pc[Loop] = "trigger" /\ status \in {"WATCHING", "TRANS"}
  BY Roles DEF Trigger, Alive, At, Token
<1>2. status = "WATCHING" /\ status' = "TRIGGER" /\ Goto(Loop, "copy")
  BY <1>1 DEF Trigger, UpdateUnset, Update
<1>3. AboveStep(Loop, "trigger", "copy")
  BY <1>1, <1>2, MakeAbove, Roles DEF Trigger, Typed
<1>4. due' = arg
  BY <1>3, Roles DEF Trigger, Accepts, AboveStep
<1>5. UNCHANGED <<repeat, eng, eparg, queued, seen, fails, stops, asked, ticks, orderly>>
      /\ UNCHANGED <<pool, full, ctx, taken, missed>>
  BY SameAbt DEF Trigger, Accepts, client
<1>6. Token(k, t)'
  BY <1>1, <1>2, <1>3, <1>4, <1>5, Roles DEF Token, AboveStep, InCallback
<1>7. RepeatsOK'
  BY <1>3, <1>5, AboveRepeats, Roles DEF Counting
<1> QED
  BY <1>6, <1>7 DEF Running

LEMMA CopyArgRuns ==
  ASSUME Typed, RepeatsOK, NEW k \in Places, NEW t \in Thread, Token(k, t), CopyArg,
         UNCHANGED abt, UNCHANGED backend
  PROVE  Running'
<1>1. k = "thread" /\ t = Loop /\ pc[Loop] = "copy"
  BY Roles DEF CopyArg, Alive, At, Token
<1>2. AboveStep(Loop, "copy", "queue") /\ eparg' = arg
  BY <1>1, MakeAbove, Roles DEF CopyArg, Typed
<1>3. UNCHANGED <<status, repeat, eng, queued, seen, fails, stops, asked, ticks, due, orderly>>
      /\ UNCHANGED <<pool, full, ctx, taken, missed>>
  BY SameAbt DEF CopyArg, client, history
<1>4. Token(k, t)'
  BY <1>1, <1>2, <1>3, Roles DEF Token, AboveStep, InCallback
<1>5. RepeatsOK'
  BY <1>2, <1>3, AboveRepeats, Roles DEF Counting
<1> QED
  BY <1>4, <1>5 DEF Running

LEMMA QueueRuns ==
  ASSUME Typed, RepeatsOK, NEW k \in Places, NEW t \in Thread, Token(k, t), Queue,
         UNCHANGED abt, UNCHANGED backend, backend = "native"
  PROVE  Running'
<1>1. k = "thread" /\ t = Loop /\ pc[Loop] = "queue" /\ eng
  BY Roles DEF Queue, Alive, At, Token
<1>2. AboveStep(Loop, "queue", "inc") /\ queued' = queued + 1
  BY <1>1, MakeAbove, Roles DEF Queue, Typed
<1>3. UNCHANGED <<status, repeat, eng, eparg, seen, fails, stops, asked, ticks, due, orderly>>
      /\ UNCHANGED <<pool, full, ctx, taken, missed>>
  BY SameAbt DEF Queue, client, history
<1>4. Token("job", t)'
  BY <1>1, <1>2, <1>3, Roles DEF Token, AboveStep, InCallback
<1>5. RepeatsOK'
  BY <1>2, <1>3, AboveRepeats, Roles DEF Counting
<1> QED
  BY <1>4, <1>5 DEF Running, Places

LEMMA IncRuns ==
  ASSUME Typed, RepeatsOK, NEW k \in Places, NEW t \in Thread, Token(k, t), Inc,
         UNCHANGED abt, UNCHANGED backend
  PROVE  Running'
<1>1. ~(k = "thread" /\ t = Loop) /\ pc[Loop] = "inc" /\ eng
  BY Roles DEF Inc, Alive, At, Token
<1>2. AboveStep(Loop, "inc", "reset")
  BY <1>1, MakeAbove, Roles DEF Inc, Typed
<1>3. UNCHANGED <<status, repeat, eng, eparg, queued, seen, fails, stops, asked, ticks, due, orderly>>
      /\ UNCHANGED <<pool, full, ctx, taken, missed>>
  BY SameAbt, SameAbove DEF Inc
<1>4. Token(k, t)'
  BY <1>1, <1>2, <1>3, Roles DEF Token, AboveStep, InCallback
<1>5. RepeatsOK'
  BY <1>2, <1>3, AboveRepeats, Roles DEF Counting
<1> QED
  BY <1>4, <1>5 DEF Running

-----------------------------------------------------------------------------
(* The trigger in the Argobots driver. *)

LEMMA AbtTriggerRuns ==
  ASSUME Typed, RepeatsOK, NEW k \in Places, NEW t \in Thread, Token(k, t), AbtTrigger,
         UNCHANGED backend, backend = "argobots"
  PROVE  Running'
<1>1. k = "thread" /\ t = Loop /\ pc[Loop] = "trigger" /\ status \in {"WATCHING", "TRANS"}
  BY Roles DEF AbtTrigger, Alive, At, Token
<1>2. \/ status = "WATCHING" /\ status' = "TRANS" /\ Goto(Loop, "ctx") /\ missed' = missed
      \/ status = "TRANS" /\ status' = "TRANS" /\ Goto(Loop, "reset") /\ missed'
  <2>1. missed' = (missed \/ status = "TRANS") /\ missed \in BOOLEAN
    BY DEF AbtTrigger, Typed, TaskletsTyped
  <2> QED
    BY <1>1, <2>1 DEF AbtTrigger, UpdateUnset, Update
<1>3. UNCHANGED <<repeat, eng, eparg, queued, seen, fails, stops, asked, ticks, orderly>>
      /\ UNCHANGED <<pool, full, ctx, taken>>
  BY DEF AbtTrigger, Accepts, client, tasklets
<1>4. CASE status = "WATCHING"
  <2>1. AboveStep(Loop, "trigger", "ctx")
    BY <1>1, <1>2, <1>4, MakeAbove, Roles DEF AbtTrigger, Typed
  <2>2. due' = arg
    BY <2>1, Roles DEF AbtTrigger, Accepts, AboveStep
  <2>3. Token(k, t)'
    BY <1>1, <1>2, <1>3, <1>4, <2>1, <2>2, Roles DEF Token, AboveStep, InCallback
  <2>4. RepeatsOK'
    BY <2>1, <1>3, AboveRepeats, Roles DEF Counting
  <2> QED
    BY <2>3, <2>4 DEF Running
<1>5. CASE status = "TRANS"
  <2>1. AboveStep(Loop, "trigger", "reset")
    BY <1>1, <1>2, <1>5, MakeAbove, Roles DEF AbtTrigger, Typed
  <2>2. due' = due
    BY <2>1, Roles DEF AbtTrigger, Accepts, AboveStep
  <2>3. Token("none", t)'
    BY <1>1, <1>2, <1>3, <1>5, <2>1, <2>2, Roles DEF Token, AboveStep, InCallback
  <2>4. RepeatsOK'
    BY <2>1, <1>3, AboveRepeats, Roles DEF Counting
  <2> QED
    BY <2>3, <2>4 DEF Running, Places
<1> QED
  BY <1>1, <1>4, <1>5

LEMMA AbtCellRuns ==
  ASSUME Typed, RepeatsOK, NEW k \in Places, NEW t \in Thread, Token(k, t), AbtCell,
         UNCHANGED backend
  PROVE  Running'
<1>1. k = "thread" /\ t = Loop /\ pc[Loop] = "ctx" /\ eng
  BY Roles DEF AbtCell, Alive, At, Token
<1>2. AboveStep(Loop, "ctx", "fill")
  BY <1>1, MakeAbove, Roles DEF AbtCell, Typed
<1>3. UNCHANGED <<status, repeat, eng, eparg, queued, seen, fails, stops, asked, ticks, due, orderly>>
      /\ UNCHANGED <<pool, taken, missed>>
  BY <1>1, SameAbove DEF AbtCell
<1>4. Token(k, t)'
  BY <1>1, <1>2, <1>3, Roles DEF Token, AboveStep, InCallback
<1>5. RepeatsOK'
  BY <1>2, <1>3, AboveRepeats, Roles DEF Counting
<1> QED
  BY <1>4, <1>5 DEF Running

LEMMA AbtFillRuns ==
  ASSUME Typed, RepeatsOK, NEW k \in Places, NEW t \in Thread, Token(k, t), AbtFill,
         UNCHANGED backend
  PROVE  Running'
<1>1. k = "thread" /\ t = Loop /\ pc[Loop] = "fill"
  BY Roles DEF AbtFill, Alive, At, Token
<1>2. AboveStep(Loop, "fill", "create") /\ full' = full \cup {ctx}
  BY <1>1, MakeAbove, Roles DEF AbtFill, Typed
<1>3. UNCHANGED <<status, repeat, eng, eparg, queued, seen, fails, stops, asked, ticks, due, orderly>>
      /\ UNCHANGED <<pool, ctx, taken, missed>>
  BY <1>1, SameAbove DEF AbtFill
<1>4. Token(k, t)'
  BY <1>1, <1>2, <1>3, Roles DEF Token, AboveStep, InCallback
<1>5. RepeatsOK'
  BY <1>2, <1>3, AboveRepeats, Roles DEF Counting
<1> QED
  BY <1>4, <1>5 DEF Running

LEMMA AbtCreateRuns ==
  ASSUME Typed, RepeatsOK, NEW k \in Places, NEW t \in Thread, Token(k, t), AbtCreate,
         UNCHANGED backend, backend = "argobots"
  PROVE  Running'
<1>1. k = "thread" /\ t = Loop /\ pc[Loop] = "create" /\ eng
  BY Roles DEF AbtCreate, Alive, At, Token
<1>2. AboveStep(Loop, "create", "triggered") /\ queued' = queued + 1 /\ pool' = Append(pool, ctx)
  BY <1>1, MakeAbove, Roles DEF AbtCreate, Typed
<1>3. UNCHANGED <<status, repeat, eng, eparg, seen, fails, stops, asked, ticks, due, orderly>>
      /\ UNCHANGED <<full, ctx, taken, missed>>
  BY <1>1 DEF AbtCreate, client, history
<1>4. pool' = <<ctx>>
  <2>1. pool \in Seq(Cell) /\ Len(pool) = 0
    BY <1>1 DEF Token, Typed, TaskletsTyped
  <2> QED
    BY <1>2, <2>1
<1>5. Token("job", t)'
  BY <1>1, <1>2, <1>3, <1>4, Roles DEF Token, AboveStep, InCallback
<1>6. RepeatsOK'
  BY <1>2, <1>3, AboveRepeats, Roles DEF Counting
<1> QED
  BY <1>5, <1>6 DEF Running, Places

LEMMA AbtTriggeredRuns ==
  ASSUME Typed, RepeatsOK, NEW k \in Places, NEW t \in Thread, Token(k, t), AbtTriggered,
         UNCHANGED backend
  PROVE  Running'
<1>1. ~(k = "thread" /\ t = Loop) /\ pc[Loop] = "triggered" /\ status = "TRANS"
  BY Roles DEF AbtTriggered, Alive, At, Token
<1>2. AboveStep(Loop, "triggered", "reset") /\ status' = "TRIGGER"
  BY <1>1, MakeAbove, Roles DEF AbtTriggered, Typed, Update
<1>3. UNCHANGED <<repeat, eng, eparg, queued, seen, fails, stops, asked, ticks, due, orderly>>
      /\ UNCHANGED <<pool, full, ctx, taken, missed>>
  BY SameAbt DEF AbtTriggered, client, history
<1>4. Token(k, t)'
  BY <1>1, <1>2, <1>3, Roles DEF Token, AboveStep, InCallback
<1>5. RepeatsOK'
  BY <1>2, <1>3, AboveRepeats, Roles DEF Counting
<1> QED
  BY <1>4, <1>5 DEF Running

-----------------------------------------------------------------------------
(* A worker takes the job. *)

LEMMA PopRuns ==
  ASSUME Typed, RepeatsOK, NEW k \in Places, NEW t \in Thread, Token(k, t),
         NEW w \in Worker, Pop(w), UNCHANGED abt, UNCHANGED backend, backend = "native"
  PROVE  Running'
<1>1. k = "job" /\ pc[w] = "idle"
  BY Roles DEF Pop, Alive, At, Token
<1>2. AboveStep(w, "idle", "run") /\ queued' = queued - 1
  BY <1>1, MakeAbove, Roles DEF Pop, Typed
<1>3. UNCHANGED <<status, repeat, eng, eparg, seen, fails, stops, asked, ticks, due, orderly>>
      /\ UNCHANGED <<pool, full, ctx, taken, missed>>
  BY SameAbt DEF Pop, client, history
<1>4. Token("thread", w)'
  BY <1>1, <1>2, <1>3, Roles DEF Token, AboveStep, InCallback
<1>5. RepeatsOK'
  BY <1>2, <1>3, AboveRepeats, Roles DEF Counting
<1> QED
  BY <1>4, <1>5, Roles DEF Running, Places

LEMMA AbtPopRuns ==
  ASSUME Typed, RepeatsOK, NEW k \in Places, NEW t \in Thread, Token(k, t),
         NEW w \in Worker, AbtPop(w), UNCHANGED backend, backend = "argobots"
  PROVE  Running'
<1>1. k = "job" /\ pc[w] = "idle" /\ pool = <<ctx>>
  <2>1. pc[w] = "idle" /\ pool # <<>> /\ pool \in Seq(Cell) /\ Len(pool) = queued
    BY DEF AbtPop, Alive, At, Typed, TaskletsTyped
  <2>2. queued # 0
    BY <2>1
  <2> QED
    BY <2>1, <2>2 DEF Token
<1>2. AboveStep(w, "idle", "load") /\ queued' = queued - 1 /\ taken' = [taken EXCEPT ![w] = Head(pool)]
  BY <1>1, MakeAbove, Roles DEF AbtPop, Typed
<1>3. taken'[w] = ctx
  BY <1>1, <1>2 DEF Typed, TaskletsTyped
<1>4. UNCHANGED <<status, repeat, eng, eparg, seen, fails, stops, asked, ticks, due, orderly>>
      /\ UNCHANGED <<full, ctx, missed>>
  BY DEF AbtPop, client, history
<1>5. Token("thread", w)'
  BY <1>1, <1>2, <1>3, <1>4, Roles DEF Token, AboveStep, InCallback
<1>6. RepeatsOK'
  BY <1>2, <1>4, AboveRepeats, Roles DEF Counting
<1> QED
  BY <1>5, <1>6, Roles DEF Running, Places

LEMMA AbtLoadRuns ==
  ASSUME Typed, RepeatsOK, NEW k \in Places, NEW t \in Thread, Token(k, t),
         NEW w \in Worker, AbtLoad(w), UNCHANGED backend
  PROVE  Running'
<1>1. k = "thread" /\ t = w /\ pc[w] = "load" /\ taken[w] \in full
  BY Roles DEF AbtLoad, Alive, At, Token
<1>2. AboveStep(w, "load", "clear") /\ taken' = taken
  BY <1>1, MakeAbove, Roles DEF AbtLoad, Typed
<1>3. UNCHANGED <<status, repeat, eng, eparg, queued, seen, fails, stops, asked, ticks, due, orderly>>
      /\ UNCHANGED <<pool, full, ctx, missed>>
  BY SameAbove DEF AbtLoad
<1>4. Token(k, t)'
  BY <1>1, <1>2, <1>3, Roles DEF Token, AboveStep, InCallback
<1>5. RepeatsOK'
  BY <1>2, <1>3, AboveRepeats, Roles DEF Counting
<1> QED
  BY <1>4, <1>5 DEF Running

LEMMA AbtClearRuns ==
  ASSUME Typed, RepeatsOK, NEW k \in Places, NEW t \in Thread, Token(k, t),
         NEW w \in Worker, AbtClear(w), UNCHANGED backend
  PROVE  Running'
<1>1. k = "thread" /\ t = w /\ pc[w] = "clear"
  BY Roles DEF AbtClear, Alive, At, Token
<1>2. AboveStep(w, "clear", "run")
  BY <1>1, MakeAbove, Roles DEF AbtClear, Typed
<1>3. UNCHANGED <<status, repeat, eng, eparg, queued, seen, fails, stops, asked, ticks, due, orderly>>
      /\ UNCHANGED <<pool, ctx, missed>>
  BY SameAbove DEF AbtClear
<1>4. Token(k, t)'
  BY <1>1, <1>2, <1>3, Roles DEF Token, AboveStep, InCallback
<1>5. RepeatsOK'
  BY <1>2, <1>3, AboveRepeats, Roles DEF Counting
<1> QED
  BY <1>4, <1>5 DEF Running

-----------------------------------------------------------------------------
(* The handler, and what the worker does until it commits again. *)

LEMMA RunRuns ==
  ASSUME Typed, RepeatsOK, NEW k \in Places, NEW t \in Thread, Token(k, t),
         NEW w \in Worker, Run(w), UNCHANGED abt, UNCHANGED backend
  PROVE  Running'
<1>1. k = "thread" /\ t = w /\ pc[w] = "run"
  BY Roles DEF Run, Alive, At, Token
<1>2. status = "TRIGGER" /\ status' = "RUNNING" /\ Goto(w, "handler")
  BY <1>1, Roles DEF Token, Run, UpdateUnset, Update
<1>3. AboveStep(w, "run", "handler")
  BY <1>1, <1>2, MakeAbove, Roles DEF Run, Typed
<1>4. UNCHANGED <<repeat, eng, eparg, queued, seen, fails, stops, asked, ticks, due, orderly>>
      /\ UNCHANGED <<pool, full, ctx, taken, missed>>
  BY SameAbt DEF Run, client, history
<1>5. Token(k, t)'
  BY <1>1, <1>2, <1>3, <1>4, Roles DEF Token, AboveStep, InCallback
<1>6. RepeatsOK'
  BY <1>3, <1>4, AboveRepeats, Roles DEF Counting
<1> QED
  BY <1>5, <1>6 DEF Running

LEMMA HandlerRuns ==
  ASSUME Typed, RepeatsOK, NEW k \in Places, NEW t \in Thread, Token(k, t),
         NEW w \in Worker, Handler(w), UNCHANGED abt, UNCHANGED backend
  PROVE  Running'
<1>1. k = "thread" /\ t = w /\ pc[w] = "handler" /\ stops # "done"
  BY Roles DEF Handler, Alive, At, Token
<1>2. PICK l \in {"fail", "rewatch"} :
         AboveStep(w, "handler", l) /\ (l = "fail" => ticks' = ticks)
            /\ (l = "rewatch" => ticks' = (IF asked > 0 THEN ticks + 1 ELSE ticks))
  BY <1>1, MakeAbove, Roles DEF Handler, Typed
<1>3. UNCHANGED <<status, repeat, eng, eparg, queued, seen, stops, asked, due, orderly>>
      /\ UNCHANGED <<pool, full, ctx, taken, missed>>
  BY SameAbt DEF Handler, native
<1>4. Token(k, t)'
  BY <1>1, <1>2, <1>3, Roles DEF Token, AboveStep, InCallback
<1>5. RepeatsOK'
  <2>1. ~Uncounted
    BY <1>1, Roles DEF Uncounted, Token
  <2>2. Uncounted' <=> l = "rewatch"
    BY <1>1, <1>2, <2>1, Roles DEF Uncounted, AboveStep
  <2>3. \A v \in Worker : ~Is(v, {"count"})'
    BY <1>1, <1>2, <2>1, Roles DEF Uncounted, AboveStep
  <2> QED
    BY <1>2, <1>3, <2>1, <2>2, <2>3 DEF RepeatsOK, Typed, NativeTyped
<1> QED
  BY <1>4, <1>5 DEF Running

LEMMA HandlerRetractsRuns ==
  ASSUME Typed, RepeatsOK, NEW k \in Places, NEW t \in Thread, Token(k, t),
         NEW w \in Worker, HandlerRetracts(w), UNCHANGED abt, UNCHANGED backend
  PROVE  Running'
<1>1. k = "thread" /\ t = w /\ pc[w] = "handler" /\ status = "RUNNING"
  BY Roles DEF HandlerRetracts, Alive, At, Token
<1>2. AboveStep(w, "handler", "zero") /\ stops' = "done"
  BY <1>1, MakeAbove, Roles DEF HandlerRetracts, Retracts, Typed
<1>3. UNCHANGED <<status, repeat, eng, eparg, queued, seen, fails, asked, ticks, due, orderly>>
      /\ UNCHANGED <<pool, full, ctx, taken, missed>>
  BY SameAbt DEF HandlerRetracts, native, history
<1>4. Token(k, t)'
  BY <1>1, <1>2, <1>3, Roles DEF Token, AboveStep, InCallback
<1>5. RepeatsOK'
  BY <1>1, <1>2, <1>3, Roles DEF RepeatsOK, Token, AboveStep
<1> QED
  BY <1>4, <1>5 DEF Running

LEMMA RetractZeroRuns ==
  ASSUME Typed, RepeatsOK, NEW k \in Places, NEW t \in Thread, Token(k, t),
         NEW w \in Worker, RetractZero(w), UNCHANGED abt, UNCHANGED backend
  PROVE  Running'
<1>1. k = "thread" /\ t = w /\ pc[w] = "zero" /\ stops = "done"
  BY Roles DEF RetractZero, Alive, At, Token
<1>2. AboveStep(w, "zero", "rewatch") /\ repeat' = 0
  BY <1>1, MakeAbove, Roles DEF RetractZero, Returned, Typed
<1>3. UNCHANGED <<status, eng, eparg, queued, seen, fails, stops, asked, ticks, due, orderly>>
      /\ UNCHANGED <<pool, full, ctx, taken, missed>>
  BY SameAbt DEF RetractZero, client, history
<1>4. Token(k, t)'
  BY <1>1, <1>2, <1>3, Roles DEF Token, AboveStep, InCallback
<1>5. RepeatsOK'
  <2>1. \A v \in Worker : ~Is(v, {"count"})'
    BY <1>1, <1>2, Roles DEF Token, AboveStep
  <2>2. 0 \in -1..(IF asked < 0 THEN 0 ELSE asked)
    BY DEF Typed, NativeTyped
  <2> QED
    BY <1>1, <1>2, <1>3, <2>1, <2>2 DEF RepeatsOK
<1> QED
  BY <1>4, <1>5 DEF Running

LEMMA FailRuns ==
  ASSUME Typed, RepeatsOK, NEW k \in Places, NEW t \in Thread, Token(k, t),
         NEW w \in Worker, Fail(w), UNCHANGED abt, UNCHANGED backend
  PROVE  Running'
<1>1. k = "thread" /\ t = w /\ pc[w] = "fail" /\ status = "RUNNING"
  BY Roles DEF Fail, Alive, At, Token
<1>2. AboveStep(w, "fail", "idle") /\ status' = "FAILED"
  BY <1>1, MakeAbove, Roles DEF Fail, Update, Typed
<1>3. UNCHANGED <<repeat, eng, eparg, queued, seen, fails, stops, asked, ticks, due, orderly>>
      /\ UNCHANGED <<pool, full, ctx, taken, missed>>
  BY SameAbt DEF Fail, client, history
<1>4. Token("none", t)'
  BY <1>1, <1>2, <1>3, Roles DEF Token, AboveStep, InCallback
<1>5. RepeatsOK'
  BY <1>2, <1>3, AboveRepeats, Roles DEF Counting
<1> QED
  BY <1>4, <1>5 DEF Running, Places

LEMMA RewatchRuns ==
  ASSUME Typed, RepeatsOK, NEW k \in Places, NEW t \in Thread, Token(k, t),
         NEW w \in Worker, Rewatch(w), UNCHANGED abt, UNCHANGED backend
  PROVE  Running'
<1>1. k = "thread" /\ t = w /\ pc[w] = "rewatch" /\ status = "RUNNING"
  BY Roles DEF Rewatch, Alive, At, Token
<1>2. AboveStep(w, "rewatch", "test") /\ status' = "WATCHING"
  BY <1>1, MakeAbove, Roles DEF Rewatch, Update, Typed
<1>3. UNCHANGED <<repeat, eng, eparg, queued, seen, fails, stops, asked, ticks, due, orderly>>
      /\ UNCHANGED <<pool, full, ctx, taken, missed>>
  BY SameAbt DEF Rewatch, client, history
<1>4. Token(k, t)'
  BY <1>1, <1>2, <1>3, Roles DEF Token, AboveStep, InCallback
<1>5. RepeatsOK'
  <2>1. Uncounted /\ Uncounted'
    BY <1>1, <1>2 DEF Uncounted, AboveStep
  <2>2. \A v \in Worker : ~Is(v, {"count"})'
    BY <1>1, <1>2, Roles DEF Token, AboveStep
  <2> QED
    BY <1>3, <2>1, <2>2 DEF RepeatsOK
<1> QED
  BY <1>4, <1>5 DEF Running

LEMMA TestRuns ==
  ASSUME Typed, RepeatsOK, NEW k \in Places, NEW t \in Thread, Token(k, t),
         NEW w \in Worker, Test(w), UNCHANGED abt, UNCHANGED backend
  PROVE  Running'
<1>1. k = "thread" /\ t = w /\ pc[w] = "test"
  BY Roles DEF Test, Alive, At, Token
<1>2. PICK l \in {"count", "left"} : AboveStep(w, "test", l) /\ (l = "count" <=> repeat > 0)
  BY <1>1, MakeAbove, Roles DEF Test, Typed
<1>3. UNCHANGED <<status, repeat, eng, eparg, queued, fails, stops, asked, ticks, due, orderly>>
      /\ UNCHANGED <<pool, full, ctx, taken, missed>> /\ seen' = [seen EXCEPT ![w] = repeat]
  BY SameAbt DEF Test, client, history
<1>4. Token(k, t)'
  <2>1. stops = "done" => l # "count"
    BY <1>1, <1>2 DEF Token
  <2> QED
    BY <1>1, <1>2, <1>3, <2>1, Roles DEF Token, AboveStep, InCallback
<1>5. RepeatsOK'
  <2>1. Uncounted /\ (Uncounted' <=> l = "count")
    BY <1>1, <1>2, Roles DEF Uncounted, AboveStep, Token
  <2>2. \A v \in Worker : Is(v, {"count"})' => v = w /\ repeat > 0 /\ seen'[v] = repeat
    BY <1>1, <1>2, <1>3, Roles DEF Token, AboveStep, Typed, NativeTyped
  <2>3. l = "left" /\ asked > 0 => repeat = 0
    BY <1>2 DEF RepeatsOK, Typed, NativeTyped
  <2> QED
    BY <1>2, <1>3, <2>1, <2>2, <2>3 DEF RepeatsOK, Typed, NativeTyped
<1> QED
  BY <1>4, <1>5 DEF Running

LEMMA CountRuns ==
  ASSUME Typed, RepeatsOK, NEW k \in Places, NEW t \in Thread, Token(k, t),
         NEW w \in Worker, Count(w), UNCHANGED abt, UNCHANGED backend
  PROVE  Running'
<1>1. k = "thread" /\ t = w /\ pc[w] = "count" /\ repeat > 0 /\ seen[w] = repeat
      /\ stops # "done"
  BY Roles DEF Count, Alive, At, Token, RepeatsOK
<1>2. AboveStep(w, "count", "left") /\ repeat' = repeat - 1
  BY <1>1, MakeAbove, Roles DEF Count, Typed
<1>3. UNCHANGED <<status, eng, eparg, queued, fails, stops, asked, ticks, due, orderly>>
      /\ UNCHANGED <<pool, full, ctx, taken, missed>>
  BY SameAbt DEF Count, client, history
<1>4. Token(k, t)'
  BY <1>1, <1>2, <1>3, Roles DEF Token, AboveStep, InCallback
<1>5. RepeatsOK'
  <2>1. Uncounted /\ ~Uncounted'
    BY <1>1, <1>2, Roles DEF Uncounted, AboveStep, Token
  <2>2. \A v \in Worker : ~Is(v, {"count"})'
    BY <1>1, <1>2, Roles DEF Token, AboveStep
  <2> QED
    BY <1>1, <1>2, <1>3, <2>1, <2>2 DEF RepeatsOK, Typed, NativeTyped
<1> QED
  BY <1>4, <1>5 DEF Running

LEMMA LeftRuns ==
  ASSUME Typed, RepeatsOK, NEW k \in Places, NEW t \in Thread, Token(k, t),
         NEW w \in Worker, Left(w), UNCHANGED abt, UNCHANGED backend
  PROVE  Running'
<1>1. k = "thread" /\ t = w /\ pc[w] = "left"
  BY Roles DEF Left, Alive, At, Token
<1>2. PICK l \in {"recommit", "idle"} : AboveStep(w, "left", l) /\ (l = "idle" <=> repeat = 0)
  BY <1>1, MakeAbove, Roles DEF Left, Typed
<1>3. UNCHANGED <<status, repeat, eng, eparg, queued, fails, stops, asked, ticks, due, orderly>>
      /\ UNCHANGED <<pool, full, ctx, taken, missed>>
  BY SameAbt DEF Left, client, history
<1>4. \E k2 \in Places, t2 \in Thread : Token(k2, t2)'
  <2>1. CASE repeat = 0
    <3>1. Token("none", t)'
      BY <1>1, <1>2, <1>3, <2>1, Roles DEF Token, AboveStep, InCallback
    <3> QED
      BY <3>1 DEF Places
  <2>2. CASE repeat # 0
    <3>1. Token(k, t)'
      BY <1>1, <1>2, <1>3, <2>2, Roles DEF Token, AboveStep, InCallback
    <3> QED
      BY <3>1
  <2> QED
    BY <2>1, <2>2
<1>5. RepeatsOK'
  <2>1. (Uncounted' <=> Uncounted) /\ \A v \in Worker : ~Is(v, {"count"})'
    BY <1>1, <1>2, Roles DEF Uncounted, AboveStep, Token
  <2> QED
    BY <1>3, <2>1 DEF RepeatsOK
<1> QED
  BY <1>4, <1>5 DEF Running

LEMMA RecommitRuns ==
  ASSUME Typed, RepeatsOK, NEW k \in Places, NEW t \in Thread, Token(k, t),
         NEW w \in Worker, Recommit(w), UNCHANGED abt, UNCHANGED backend
  PROVE  Running'
<1>1. k = "thread" /\ t = w /\ pc[w] = "recommit" /\ eng
  BY Roles DEF Recommit, Alive, At, Token
<1>2. AboveStep(w, "recommit", "commit")
  BY <1>1, MakeAbove, Roles DEF Recommit, Typed
<1>3. UNCHANGED <<status, repeat, eng, eparg, queued, seen, fails, stops, asked, ticks, due, orderly>>
      /\ UNCHANGED <<pool, full, ctx, taken, missed>>
  BY SameAbt, SameAbove DEF Recommit
<1>4. Token(k, t)'
  BY <1>1, <1>2, <1>3, Roles DEF Token, AboveStep, InCallback
<1>5. RepeatsOK'
  BY <1>2, <1>3, AboveRepeats, Roles DEF Counting
<1> QED
  BY <1>4, <1>5 DEF Running

LEMMA RecommittedRuns ==
  ASSUME Typed, RepeatsOK, NEW k \in Places, NEW t \in Thread, Token(k, t),
         NEW w \in Worker, Recommitted(w), UNCHANGED abt, UNCHANGED backend, orderly'
  PROVE  Running'
<1>1. pc[w] = "armed"
  BY DEF Recommitted, At
<1>2. AboveStep(w, "armed", "idle")
  BY <1>1, MakeAbove, Roles DEF Recommitted, Typed
<1>3. UNCHANGED <<status, repeat, eng, eparg, queued, seen, fails, stops, asked, ticks, due>>
      /\ UNCHANGED <<pool, full, ctx, taken, missed>>
  BY SameAbt DEF Recommitted, native, client
<1>4. Token(k, t)'
  BY <1>1, <1>2, <1>3, Roles DEF Token, AboveStep, InCallback
<1>5. RepeatsOK'
  BY <1>2, <1>3, AboveRepeats, Roles DEF Counting
<1> QED
  BY <1>4, <1>5 DEF Running

-----------------------------------------------------------------------------
(* The application commits the event. *)

LEMMA CommitRuns ==
  ASSUME Typed, RepeatsOK, NEW k \in Places, NEW t \in Thread, Token(k, t),
         NEW a \in App, Commit(a), UNCHANGED abt, UNCHANGED backend, orderly'
  PROVE  Running'
<1>1. pc[a] = "idle" /\ status \in {"IDLE", "FAILED"}
  BY DEF Commit, Calls, Alive, At
<1>2. AboveStep(a, "idle", "engine") /\ status' = "TRANS"
  BY <1>1, MakeAbove, Roles DEF Commit, Update, Typed
<1>3. UNCHANGED <<repeat, eng, eparg, queued, seen, fails, asked, ticks, due>>
      /\ UNCHANGED <<pool, full, ctx, taken, missed>>
      /\ stops' = IF stops = "done" THEN "past" ELSE stops
  BY SameAbt DEF Commit
<1>4. k = "none"
  BY <1>1, Roles DEF Token, Places
<1>5. ~Is(Loop, {"trigger", "cb", "commit", "new", "add", "ctx", "fill", "create", "triggered"})
      /\ \A b \in App : Is(b, {"idle"})
  BY <1>1, <1>4, Roles DEF Token
<1>6. Token("thread", a)'
  BY <1>1, <1>2, <1>3, <1>4, <1>5, Roles DEF Token, AboveStep, InCallback
<1>7. RepeatsOK'
  <2>1. (Uncounted' <=> Uncounted) /\ \A v \in Worker : Is(v, {"count"})' <=> Is(v, {"count"})
    BY <1>1, <1>2, Roles DEF Uncounted, AboveStep
  <2> QED
    BY <1>3, <2>1 DEF RepeatsOK
<1> QED
  BY <1>6, <1>7, Roles DEF Running, Places

LEMMA EngineRuns ==
  ASSUME Typed, RepeatsOK, NEW k \in Places, NEW t \in Thread, Token(k, t),
         NEW a \in App, Engine(a), UNCHANGED abt, UNCHANGED backend
  PROVE  Running'
<1>1. k = "thread" /\ t = a /\ pc[a] = "engine"
  BY Roles DEF Engine, Alive, At, Token
<1>2. AboveStep(a, "engine", "commit") /\ eng' = TRUE
  BY <1>1, MakeAbove, Roles DEF Engine, Typed
<1>3. UNCHANGED <<status, repeat, eparg, queued, seen, fails, stops, asked, ticks, due, orderly>>
      /\ UNCHANGED <<pool, full, ctx, taken, missed>>
  BY SameAbt DEF Engine, client, history
<1>4. \A b \in App : b # a => Is(b, {"idle"})
  BY <1>1, Roles DEF Token
<1>5. Token(k, t)'
  BY <1>1, <1>2, <1>3, <1>4, Roles DEF Token, AboveStep, InCallback
<1>6. RepeatsOK'
  BY <1>2, <1>3, AboveRepeats, Roles DEF Counting
<1> QED
  BY <1>5, <1>6 DEF Running

LEMMA CommittedRuns ==
  ASSUME Typed, RepeatsOK, NEW k \in Places, NEW t \in Thread, Token(k, t),
         NEW a \in App, Committed(a), UNCHANGED abt, UNCHANGED backend
  PROVE  Running'
<1>1. pc[a] = "armed" /\ status = "TRANS" /\ ~Is(Loop, AbtTrans)
      /\ \A b \in App : b # a => Is(b, {"idle"})
  BY Roles DEF Committed, Alive, At, Token
<1>2. AboveStep(a, "armed", "idle") /\ status' = "WATCHING"
  BY <1>1, MakeAbove, Roles DEF Committed, Update, Typed
<1>3. UNCHANGED <<repeat, eng, eparg, queued, seen, fails, stops, asked, ticks, due, orderly>>
      /\ UNCHANGED <<pool, full, ctx, taken, missed>>
  BY SameAbt DEF Committed, client, history
<1>4. Token(k, t)'
  BY <1>1, <1>2, <1>3, Roles DEF Token, AboveStep, InCallback
<1>5. RepeatsOK'
  BY <1>2, <1>3, AboveRepeats, Roles DEF Counting
<1> QED
  BY <1>4, <1>5 DEF Running

-----------------------------------------------------------------------------
(* The application retracts or frees the event. *)

LEMMA RetractCloses ==
  ASSUME Typed, RepeatsOK, NEW k \in Places, NEW t \in Thread, Token(k, t),
         NEW a \in App, Retract(a), UNCHANGED abt, UNCHANGED backend, orderly'
  PROVE  Closing'
<1>1. Quiet /\ status = "WATCHING" /\ ~poll
  BY DEF Retract
<1>2. \A th \in Thread : pc[th] = "idle"
  BY <1>1 DEF Quiet, Busy, At
<1>3. AboveStep(a, "idle", "stop?")
  BY <1>1, <1>2, MakeAbove, Roles DEF Retract, Retracts, Typed
<1>4. UNCHANGED <<status, repeat, eng, queued, seen, fails, stops, asked, ticks>>
  BY DEF Retract, native
<1>5. k \in {"none", "armed"}
  BY <1>1, <1>2, Roles DEF Token, Places, Quiet
<1>6. StopAt(a)'
  BY <1>1, <1>2, <1>3, <1>4, <1>5, Roles DEF Token, AboveStep, StopAt, Stops, Quiet
<1>7. RepeatsOK'
  BY <1>3, <1>4, AboveRepeats, Roles DEF Counting
<1> QED
  BY <1>6, <1>7 DEF Closing

LEMMA FreeCloses ==
  ASSUME Typed, RepeatsOK, NEW k \in Places, NEW t \in Thread, Token(k, t),
         NEW a \in App, Free(a), UNCHANGED abt, UNCHANGED backend, orderly'
  PROVE  Closing'
<1>1. Quiet /\ polls = 0 /\ ~dfreed
  BY DEF Free
<1>2. \A th \in Thread : pc[th] = "idle"
  BY <1>1 DEF Quiet, Busy, At
<1>3. AboveStep(a, "idle", "free") /\ status' = "INVAL"
  BY <1>1, <1>2, MakeAbove, Roles DEF Free, Typed
<1>4. UNCHANGED <<repeat, eng, queued, seen, fails, stops, asked, ticks>>
  BY DEF Free
<1>5. k \in {"none", "armed"}
  BY <1>1, <1>2, Roles DEF Token, Places, Quiet
<1>6. StopAt(a)'
  BY <1>1, <1>2, <1>3, <1>4, <1>5, Roles DEF Token, AboveStep, StopAt, Stops, Quiet
<1>7. RepeatsOK'
  BY <1>3, <1>4, AboveRepeats, Roles DEF Counting
<1> QED
  BY <1>6, <1>7 DEF Closing

-----------------------------------------------------------------------------
(* Each actor, while nothing but commits is going on. *)

LEMMA DriverCommitRuns ==
  ASSUME Typed, Running, NEW th \in Thread, Below(th), UNCHANGED abt, UNCHANGED backend
  PROVE  Running'
<1>1. PICK k \in Places, t \in Thread : Token(k, t)
  BY DEF Running
<1>2. RepeatsOK /\ UNCHANGED above /\ (DriverCommit(th) \/ UseAfterFree(th))
  BY DEF Running, Below
<1>3. ~UseAfterFree(th)
  BY <1>1 DEF Token, UseAfterFree
<1> QED
  BY <1>1, <1>2, <1>3, CommitStatusRuns, CommitSlotRuns, CommitSeenRuns, CommitTakeRuns,
     CommitAgainRuns, CommitPollRuns, CommitNewRuns, CommitAddRuns DEF DriverCommit

LEMMA LoopRuns ==
  ASSUME Typed, Running, AllLoop, UNCHANGED backend
  PROVE  Running'
<1>1. PICK k \in Places, t \in Thread : Token(k, t)
  BY DEF Running
<1>2. RepeatsOK
  BY DEF Running
<1>3. CASE LoopBelow /\ UNCHANGED abt
  BY <1>1, <1>2, <1>3, FiresRuns, DriverCommitRuns, CallbackRuns, ResetStoreRuns, ResetLookRuns,
     ResetClaimRuns, EraseRuns, Roles DEF LoopBelow, DriverLoop
<1>4. CASE backend = "native" /\ UNCHANGED abt /\ (Trigger \/ CopyArg \/ Queue \/ Inc)
  BY <1>1, <1>2, <1>4, TriggerRuns, CopyArgRuns, QueueRuns, IncRuns
<1>5. CASE backend = "argobots" /\ AbtTriggers
  BY <1>1, <1>2, <1>5, AbtTriggerRuns, AbtCellRuns, AbtFillRuns, AbtCreateRuns, AbtTriggeredRuns
     DEF AbtTriggers
<1> QED
  BY <1>3, <1>4, <1>5 DEF AllLoop, LoopStep

\* A worker, or an application thread, that is none of the steps of a retract.
LEMMA NotRetracting ==
  ASSUME NEW k, NEW t, Token(k, t), NEW th \in Thread, th # Loop, RetractGoes(th)
  PROVE  th \in Worker /\ RetractZero(th)
  BY Roles
     DEF Token, RetractGoes, RetractLook, RetractZero, RetractStop, Retracted, ToIdle, DriverCalls,
         RetractDel, RetractUnset, FreeDriver, Alive, Touch, At

LEMMA WorkerRuns ==
  ASSUME Typed, Running, NEW w \in Worker, AllWorker(w), UNCHANGED backend, orderly'
  PROVE  Running'
<1>1. PICK k \in Places, t \in Thread : Token(k, t)
  BY DEF Running
<1>2. RepeatsOK
  BY DEF Running
<1>3. CASE backend = "native" /\ UNCHANGED abt /\ Pop(w)
  BY <1>1, <1>2, <1>3, PopRuns
<1>4. CASE backend = "argobots" /\ (AbtPop(w) \/ AbtLoad(w) \/ AbtClear(w))
  BY <1>1, <1>2, <1>4, AbtPopRuns, AbtLoadRuns, AbtClearRuns
<1>5. CASE Handling(w) /\ UNCHANGED abt
  <2>1. CASE RetractGoes(w)
    BY <1>1, <1>2, <1>5, <2>1, NotRetracting, RetractZeroRuns, Roles
  <2>2. CASE Below(w)
    BY <1>5, <2>2, DriverCommitRuns, Roles
  <2> QED
    BY <1>1, <1>2, <1>5, <2>1, <2>2, RunRuns, HandlerRuns, HandlerRetractsRuns, FailRuns, RewatchRuns,
       TestRuns, CountRuns, LeftRuns, RecommitRuns, RecommittedRuns DEF Handling
<1> QED
  BY <1>3, <1>4, <1>5 DEF AllWorker, WorkerStep

LEMMA AppRuns ==
  ASSUME Typed, Running, NEW a \in App, AppStep(a), UNCHANGED abt, UNCHANGED backend, orderly'
  PROVE  Running' \/ Closing'
<1>1. PICK k \in Places, t \in Thread : Token(k, t)
  BY DEF Running
<1>2. RepeatsOK
  BY DEF Running
<1>3. ~RetractGoes(a) /\ ~CommitError(a) /\ ~CommitUndo(a)
  BY <1>1, NotRetracting, Roles DEF Token, CommitError, CommitUndo, Alive, At
<1>4. CASE Below(a)
  BY <1>4, DriverCommitRuns, Roles
<1> QED
  BY <1>1, <1>2, <1>3, <1>4, CommitRuns, EngineRuns, CommittedRuns, RetractCloses, FreeCloses
     DEF AppStep, CallGoes

-----------------------------------------------------------------------------
(* The steps of a retract and of a free. *)

\* Nobody but the one who stops the event can go on, unless with a commit that is
\* refused or with a second retract or free, which is not orderly.
LEMMA OnlyStops ==
  ASSUME Typed, NEW a \in App, StopAt(a), AllNext, orderly'
  PROVE  (RetractGoes(a) \/ Below(a)) /\ UNCHANGED <<abt, backend>>
<1>1. \A th \in Thread \ {a} : pc[th] = "idle"
  BY DEF StopAt
<1>2. pc[a] \in Stops
  BY DEF StopAt
<1>3. ~AllLoop
  <2>1. ~Fires
    <3>1. pc[a] \in Stopping
      BY <1>2 DEF Stops, Stopping
    <3> QED
      BY <3>1 DEF Fires
  <2>2. pc[Loop] = "idle"
    BY <1>1, Roles
  <2> QED
    BY <2>1, <2>2
       DEF AllLoop, LoopStep, LoopBelow, DriverLoop, Callback, ResetStore, ResetLook, ResetClaim,
           Erase, Below, DriverCommit, CommitStatus, CommitSlot, CommitSeen, CommitTake,
           CommitAgain, CommitPoll, CommitNew, CommitAdd, UseAfterFree, DriverLabel, Trigger,
           CopyArg, Queue, Inc, AbtTriggers, AbtTrigger, AbtCell, AbtFill, AbtCreate,
           AbtTriggered, Alive, Touch, At
<1>4. ASSUME NEW th \in Thread, pc[th] = "idle"
      PROVE  ~Below(th) /\ ~RetractGoes(th)
  BY <1>4
     DEF Below, DriverCommit, CommitStatus, CommitSlot, CommitSeen, CommitTake,
         CommitAgain, CommitPoll, CommitNew, CommitAdd, UseAfterFree, DriverLabel, RetractGoes,
         RetractLook, RetractZero, RetractStop, Retracted, ToIdle, DriverCalls, RetractDel,
         RetractUnset, FreeDriver, Alive, Touch, At
<1>5. ASSUME NEW w \in Worker, AllWorker(w)
      PROVE  FALSE
  <2>1. pc[w] = "idle" /\ w \in Thread
    BY <1>1, Roles
  <2>2. queued = 0 /\ (backend = "argobots" => pool = <<>>)
    BY DEF StopAt, Typed, TaskletsTyped
  <2>3. ~Pop(w) /\ ~(backend = "argobots" /\ AbtPop(w))
    BY <2>2 DEF Pop, AbtPop
  <2> QED
    BY <1>4, <1>5, <2>1, <2>3
       DEF AllWorker, WorkerStep, Handling, Run, Handler, HandlerRetracts, Fail, Rewatch, Test,
           Count, Left, Recommit, Recommitted, AbtLoad, AbtClear, Alive, At
<1>6. ASSUME NEW b \in App, AppStep(b)
      PROVE  b = a /\ (RetractGoes(b) \/ Below(b))
  <2>1. b \in Thread /\ a \in Thread
    BY Roles
  <2>2. ~Retract(b) /\ ~Free(b)
    <3>1. ~Quiet
      BY <1>2, <2>1 DEF Quiet, Busy, At, Stops
    <3> QED
      BY <3>1 DEF Retract, Free
  <2>3. ~Commit(b)
    BY <1>2, <2>1 DEF StopAt, Stops, Commit, Calls, Alive, At
  <2>4. CallGoes(b)
    BY <1>6, <2>2, <2>3 DEF AppStep
  <2>5. pc[b] = "idle" \/ (b = a /\ pc[b] \in Stops)
    BY <1>1, <1>2, <2>1
  <2>6. ~(Engine(b) \/ Committed(b) \/ CommitError(b) \/ CommitUndo(b))
    BY <2>5 DEF Engine, Committed, CommitError, CommitUndo, Alive, At, Stops
  <2> QED
    BY <1>4, <2>1, <2>4, <2>5, <2>6 DEF CallGoes
<1> QED
  BY <1>3, <1>5, <1>6 DEF AllNext

LEMMA RetractLookStops ==
  ASSUME Typed, RepeatsOK, NEW a \in App, StopAt(a), RetractLook(a)
  PROVE  Closing'
<1>1. pc[a] = "stop?" /\ status = "WATCHING"
  BY DEF RetractLook, Alive, At, StopAt
<1>2. AboveStep(a, "stop?", "stop")
  BY <1>1, MakeAbove, Roles DEF RetractLook, Typed
<1>3. UNCHANGED <<status, repeat, eng, queued, seen, stops, asked, ticks>>
  BY SameAbove DEF RetractLook
<1>4. StopAt(a)'
  BY <1>1, <1>2, <1>3, Roles DEF AboveStep, StopAt, Stops
<1>5. RepeatsOK'
  BY <1>2, <1>3, AboveRepeats, Roles DEF Counting
<1> QED
  BY <1>4, <1>5 DEF Closing

LEMMA RetractStopStops ==
  ASSUME Typed, RepeatsOK, NEW a \in App, StopAt(a), RetractStop(a)
  PROVE  Closing'
<1>1. pc[a] = "stop" /\ status = "WATCHING"
  BY DEF RetractStop, Alive, At, StopAt
<1>2. AboveStep(a, "stop", "del") /\ status' = "TRANS"
  BY <1>1, MakeAbove, Roles DEF RetractStop, Update, Typed
<1>3. UNCHANGED <<repeat, eng, queued, seen, stops, asked, ticks>>
  BY DEF RetractStop, client, history
<1>4. StopAt(a)'
  BY <1>1, <1>2, <1>3, Roles DEF AboveStep, StopAt, Stops
<1>5. RepeatsOK'
  BY <1>2, <1>3, AboveRepeats, Roles DEF Counting
<1> QED
  BY <1>4, <1>5 DEF Closing

LEMMA RetractDelStops ==
  ASSUME Typed, RepeatsOK, NEW a \in App, StopAt(a), RetractDel(a), UNCHANGED above
  PROVE  Closing'
<1>1. pc[a] = "del" /\ evp # 0 /\ struct[evp] # "freed" /\ Armed \subseteq {evp}
  BY DEF RetractDel, Touch, At, StopAt
<1>2. Moved(a, "unset") /\ struct' = [struct EXCEPT ![evp] = "freed"] /\ fault' = "none"
      /\ UNCHANGED <<args, dstat, nlp, evp, polls, dfreed>>
  BY <1>1, GotoMoves, Roles DEF RetractDel, Typed, arguments
<1>3. UNCHANGED <<status, repeat, eng, queued, seen, stops, asked, ticks>>
  BY SameAbove
<1>4. Armed' = {}
  BY <1>1, <1>2 DEF Armed, Typed, DriverTyped
<1>5. StopAt(a)'
  BY <1>1, <1>2, <1>3, <1>4, Roles DEF StopAt, Stops, poll
<1>6. RepeatsOK'
  BY <1>1, <1>2, <1>3, RepeatsSame, Roles DEF Counting
<1> QED
  BY <1>5, <1>6 DEF Closing

LEMMA RetractUnsetStops ==
  ASSUME Typed, RepeatsOK, NEW a \in App, StopAt(a), RetractUnset(a), UNCHANGED above
  PROVE  Closing'
<1>1. pc[a] = "unset" /\ Armed = {}
  BY DEF RetractUnset, Touch, At, StopAt
<1>2. Moved(a, "deleted") /\ dstat' = "PENDING" /\ evp' = 0
      /\ UNCHANGED <<args, nlp, struct, polls, dfreed, fault>>
  BY <1>1, GotoMoves, Roles DEF RetractUnset, Typed, arguments
<1>3. UNCHANGED <<status, repeat, eng, queued, seen, stops, asked, ticks>>
  BY SameAbove
<1>4. Armed' = {}
  BY <1>1, <1>2 DEF Armed
<1>5. StopAt(a)'
  BY <1>1, <1>2, <1>3, <1>4, Roles DEF StopAt, Stops, poll
<1>6. RepeatsOK'
  BY <1>1, <1>2, <1>3, RepeatsSame, Roles DEF Counting
<1> QED
  BY <1>5, <1>6 DEF Closing

LEMMA RetractedStops ==
  ASSUME Typed, RepeatsOK, NEW a \in App, StopAt(a), Retracted(a)
  PROVE  Closing'
<1>1. pc[a] = "deleted"
  BY DEF Retracted, Alive, At
<1>2. AboveStep(a, "deleted", "to_idle") /\ eng' = FALSE
  BY <1>1, MakeAbove, Roles DEF Retracted, Typed
<1>3. UNCHANGED <<status, repeat, queued, seen, stops, asked, ticks>>
  BY DEF Retracted, client, history
<1>4. StopAt(a)'
  BY <1>1, <1>2, <1>3, Roles DEF AboveStep, StopAt, Stops
<1>5. RepeatsOK'
  BY <1>2, <1>3, AboveRepeats, Roles DEF Counting
<1> QED
  BY <1>4, <1>5 DEF Closing

\* The event can be committed again.
LEMMA ToIdleStops ==
  ASSUME Typed, RepeatsOK, NEW a \in App, StopAt(a), ToIdle(a), UNCHANGED abt, UNCHANGED backend
  PROVE  Running'
<1>1. pc[a] = "to_idle" /\ status = "TRANS" /\ Armed = {} /\ evp = 0 /\ dstat = "PENDING" /\ ~eng
      /\ ~poll
  BY DEF ToIdle, Alive, At, StopAt
<1>2. AboveStep(a, "to_idle", "idle") /\ status' = "IDLE"
  BY <1>1, MakeAbove, Roles DEF ToIdle, Update, Typed, Returned
<1>3. UNCHANGED <<repeat, eng, eparg, queued, seen, stops, asked, ticks>>
      /\ UNCHANGED <<pool, full, ctx, taken, missed>>
  BY SameAbt DEF ToIdle, client, history
<1>4. \A th \in Thread : pc'[th] = "idle"
  BY <1>2 DEF AboveStep, StopAt
<1>5. nlp' = FALSE /\ queued' = 0 /\ polls' = 0 /\ fault' = "none" /\ ~dfreed'
      /\ (stops' = "done" => repeat' = 0)
  BY <1>2, <1>3 DEF AboveStep, StopAt, Typed, DriverTyped
<1>6. Token("none", Loop)'
  BY <1>1, <1>2, <1>3, <1>4, <1>5, Roles DEF Token, AboveStep, InCallback
<1>7. RepeatsOK'
  BY <1>2, <1>3, AboveRepeats, Roles DEF Counting
<1> QED
  BY <1>6, <1>7, Roles DEF Running, Places

LEMMA FreeDriverEnds ==
  ASSUME Typed, RepeatsOK, NEW a \in App, StopAt(a), FreeDriver(a), UNCHANGED above
  PROVE  Ended'
<1>1. pc[a] = "free" /\ (evp # 0 => struct[evp] # "freed") /\ Armed \subseteq {evp}
      /\ polls = 0 /\ queued = 0 /\ status = "INVAL"
  BY DEF FreeDriver, Touch, At, StopAt
<1>2. Moved(a, "idle") /\ dfreed' = TRUE /\ fault' = "none" /\ UNCHANGED <<args, evp, polls>>
      /\ struct' = IF evp = 0 THEN struct ELSE [struct EXCEPT ![evp] = "freed"]
  BY <1>1, GotoMoves, Roles DEF FreeDriver, Typed, arguments
<1>3. UNCHANGED <<status, repeat, eng, queued, seen, stops, asked, ticks>>
  BY SameAbove
<1>4. Armed' = {}
  BY <1>1, <1>2 DEF Armed, Typed, DriverTyped
<1>5. \A th \in Thread : pc'[th] = "idle"
  BY <1>2 DEF StopAt
<1>6. Gone'
  BY <1>1, <1>2, <1>3, <1>4, <1>5 DEF Gone
<1>7. RepeatsOK'
  BY <1>1, <1>2, <1>3, RepeatsSame, Roles DEF Counting
<1> QED
  BY <1>6, <1>7 DEF Ended

LEMMA ClosingNext ==
  ASSUME Typed, Closing, AllNext, orderly'
  PROVE  Running' \/ Closing' \/ Ended'
<1>1. PICK a \in App : StopAt(a)
  BY DEF Closing
<1>2. RepeatsOK /\ (RetractGoes(a) \/ Below(a)) /\ UNCHANGED <<abt, backend>>
  BY <1>1, OnlyStops DEF Closing
<1>3. ~Below(a)
  BY <1>1 DEF StopAt, Stops, Below, DriverCommit, CommitStatus, CommitSlot, CommitSeen, CommitTake,
     CommitAgain, CommitPoll, CommitNew, CommitAdd, UseAfterFree, Touch, At
<1>4. ~RetractZero(a)
  BY <1>1 DEF StopAt, Stops, RetractZero, Alive, At
<1> QED
  BY <1>1, <1>2, <1>3, <1>4, RetractLookStops, RetractStopStops, RetractDelStops, RetractUnsetStops,
     RetractedStops, ToIdleStops, FreeDriverEnds DEF RetractGoes, DriverCalls

-----------------------------------------------------------------------------
(* The invariant. *)

\* Once the event has been freed, no call is orderly.
LEMMA EndedNext ==
  ASSUME Typed, Ended, AllNext
  PROVE  ~orderly'
<1>1. \A th \in Thread : pc[th] = "idle"
  BY DEF Ended, Gone
<1>2. dfreed /\ status = "INVAL" /\ queued = 0 /\ polls = 0 /\ Armed = {}
  BY DEF Ended, Gone
<1>3. ASSUME NEW th \in Thread
      PROVE  ~Below(th) /\ ~RetractGoes(th)
  BY <1>1
     DEF Below, DriverCommit, CommitStatus, CommitSlot, CommitSeen, CommitTake,
         CommitAgain, CommitPoll, CommitNew, CommitAdd, UseAfterFree, DriverLabel, RetractGoes,
         RetractLook, RetractZero, RetractStop, Retracted, ToIdle, DriverCalls, RetractDel,
         RetractUnset, FreeDriver, Alive, Touch, At
<1>4. ~AllLoop
  <2>1. ~Fires
    BY <1>2 DEF Fires, Fire
  <2> QED
    BY <1>1, <1>3, <2>1, Roles
       DEF AllLoop, LoopStep, LoopBelow, DriverLoop, Callback, ResetStore, ResetLook, ResetClaim,
           Erase, Trigger, CopyArg, Queue, Inc, AbtTriggers, AbtTrigger, AbtCell, AbtFill,
           AbtCreate, AbtTriggered, Alive, Touch, At
<1>5. ASSUME NEW w \in Worker, AllWorker(w)
      PROVE  FALSE
  <2>1. pc[w] = "idle" /\ w \in Thread
    BY <1>1, Roles
  <2>2. backend = "argobots" => pool = <<>>
    BY <1>2 DEF Typed, TaskletsTyped
  <2>3. ~Pop(w) /\ ~(backend = "argobots" /\ AbtPop(w))
    BY <1>2, <2>2 DEF Pop, AbtPop
  <2> QED
    BY <1>3, <1>5, <2>1, <2>3
       DEF AllWorker, WorkerStep, Handling, Run, Handler, HandlerRetracts, Fail, Rewatch, Test,
           Count, Left, Recommit, Recommitted, AbtLoad, AbtClear, Alive, At
<1>6. ASSUME NEW a \in App, AppStep(a), orderly'
      PROVE  FALSE
  <2>1. a \in Thread /\ pc[a] = "idle"
    BY <1>1, Roles
  <2>2. ~Commit(a) /\ ~Retract(a) /\ ~Free(a)
    BY <1>2, <1>6 DEF Commit, Retract, Free
  <2> QED
    BY <1>3, <1>6, <2>1, <2>2
       DEF AppStep, CallGoes, Engine, Committed, CommitError, CommitUndo, Alive, At
<1> QED
  BY <1>4, <1>5, <1>6 DEF AllNext

\* A behaviour that is not orderly stays so.
LEMMA NeverOrderlyAgain ==
  ASSUME AllNext, ~orderly
  PROVE  ~orderly'
<1>1. ASSUME UNCHANGED above
      PROVE  orderly' = orderly
  BY <1>1, SameAbove
<1>2. ASSUME UNCHANGED history
      PROVE  orderly' = orderly
  BY <1>2 DEF history
<1>3. ASSUME NEW th, RetractGoes(th) \/ Below(th)
      PROVE  orderly' = orderly
  BY <1>1, <1>2, <1>3
     DEF RetractGoes, RetractLook, RetractZero, RetractStop, Retracted, ToIdle, Below
<1>4. CASE AllLoop
  BY <1>1, <1>2, <1>3, <1>4
     DEF AllLoop, LoopStep, LoopBelow, Fires, Trigger, CopyArg, Queue, Inc, Accepts, AbtTriggers,
         AbtTrigger, AbtCell, AbtFill, AbtCreate, AbtTriggered
<1>5. ASSUME NEW w \in Worker, AllWorker(w)
      PROVE  ~orderly'
  BY <1>1, <1>2, <1>3, <1>5
     DEF AllWorker, WorkerStep, Handling, Pop, Run, Handler, HandlerRetracts, Fail, Rewatch, Test,
         Count, Left, Recommit, Recommitted, AbtPop, AbtLoad, AbtClear
<1>6. ASSUME NEW a \in App, AppStep(a)
      PROVE  ~orderly'
  BY <1>1, <1>2, <1>3, <1>6
     DEF AppStep, CallGoes, Commit, Retract, Free, Engine, Committed, CommitError, CommitUndo
<1> QED
  BY <1>4, <1>5, <1>6 DEF AllNext

LEMMA OrderlySame ==
  ASSUME Typed, Orderly, UNCHANGED all
  PROVE  Orderly'
<1>1. UNCHANGED <<backend, pc>> /\ UNCHANGED abt /\ UNCHANGED below /\ UNCHANGED above
  BY DEF all, vars
<1>2. UNCHANGED <<pool, full, ctx, taken, missed>>
  BY <1>1, SameAbt
<1>3. UNCHANGED <<status, repeat, eng, eparg, queued, seen, fails, stops, script, asked,
                  ticks, due, orderly>>
  BY <1>1, SameAbove
<1>4. UNCHANGED <<args, arg, dstat, nlp, evp, struct, polls, dfreed, fault>>
  BY <1>1, SameBelow
<1>5. UNCHANGED <<Armed, poll, Uncounted>>
  BY <1>1, <1>4 DEF Armed, poll, Uncounted
<1>6. RepeatsOK => RepeatsOK'
  BY <1>1, <1>3, <1>5 DEF RepeatsOK
<1>7. Running => Running'
  <2>1. ASSUME NEW k \in Places, NEW t \in Thread, Token(k, t)
        PROVE  Token(k, t)'
    BY <1>1, <1>2, <1>3, <1>4, <1>5, <2>1 DEF Token, InCallback
  <2> QED
    BY <1>6, <2>1 DEF Running
<1>8. Closing => Closing'
  BY <1>1, <1>3, <1>4, <1>5, <1>6 DEF Closing, StopAt
<1>9. Ended => Ended'
  BY <1>1, <1>3, <1>4, <1>5, <1>6 DEF Ended, Gone
<1> QED
  BY <1>3, <1>7, <1>8, <1>9 DEF Orderly

LEMMA OrderlyNext ==
  ASSUME Typed, Orderly, [AllNext]_all
  PROVE  Orderly'
<1>1. CASE UNCHANGED all
  BY <1>1, OrderlySame
<1>2. CASE AllNext
  <2> SUFFICES ASSUME orderly'
               PROVE  Running' \/ Closing' \/ Ended'
    BY DEF Orderly
  <2>1. Running \/ Closing \/ Ended
    BY <1>2, NeverOrderlyAgain DEF Orderly
  <2>2. CASE Running
    <3>1. UNCHANGED backend
      BY <1>2 DEF AllNext
    <3> QED
      BY <1>2, <2>2, <3>1, LoopRuns, WorkerRuns, AppRuns DEF AllNext
  <2> QED
    BY <1>2, <2>1, <2>2, ClosingNext, EndedNext
<1> QED
  BY <1>1, <1>2

LEMMA OrderlyInit ==
  ASSUME AllInit, Typed
  PROVE  Orderly
<1>1. status = "IDLE" /\ ~eng /\ queued = 0 /\ stops \in {"no", "yes"} /\ ticks = 0
      /\ (\A th \in Thread : pc[th] = "idle")
      /\ dstat = "PENDING" /\ ~nlp /\ evp = 0 /\ polls = 0 /\ ~dfreed /\ fault = "none"
  BY ScenarioAssumption DEF AllInit, Init, DriverInit
<1>2. Armed = {}
  BY DEF AllInit, Init, DriverInit, Armed
<1>3. repeat = asked /\ repeat \in -1..(IF asked < 0 THEN 0 ELSE asked)
  <2>1. repeat = asked /\ asked = Repetitions(args) /\ Valid(args)
    BY ScenarioAssumption DEF AllInit, Init
  <2>2. asked \in Int /\ asked >= -1
    BY <2>1 DEF Valid, Repetitions, TW_INFINITE, SetTimer, Unset
  <2> QED
    BY <2>1, <2>2
<1>4. Token("none", Loop)
  BY <1>1, <1>2, Roles DEF Token
<1>5. RepeatsOK
  <2>1. ~Uncounted /\ \A w \in Worker : ~Is(w, {"count"})
    BY <1>1, Roles DEF Uncounted
  <2> QED
    BY <1>1, <1>3, <2>1 DEF RepeatsOK, Typed, NativeTyped
<1> QED
  BY <1>4, <1>5, Roles DEF Orderly, Running, Places

\* In every behaviour of either driver, with any number of workers, application
\* threads and struct events and any scenario, an orderly event is where the token
\* is, or is being retracted or freed, or is gone.
THEOREM Invariance == AllSpec => []IInv
<1>1. AllInit => IInv
  BY TypedInit, OrderlyInit DEF IInv
<1>2. IInv /\ [AllNext]_all => IInv'
  BY TypedNext, OrderlyNext DEF IInv
<1> QED
  BY <1>1, <1>2, PTL DEF AllSpec

-----------------------------------------------------------------------------
(* What the invariant says of the properties of the runs. *)

LEMMA Ones ==
  ASSUME NEW S, NEW e, S \subseteq {e}
  PROVE  Cardinality(S) <= 1
<1>1. S = {} \/ S = {e}
  OBVIOUS
<1>2. Cardinality({}) = 0 /\ Cardinality({e}) = 1
  BY FS_EmptySet, FS_Singleton
<1> QED
  BY <1>1, <1>2

\* Where the token is when nobody is busy with the event.
LEMMA QuietPlaces ==
  ASSUME NEW k \in Places, NEW t \in Thread, Token(k, t), Quiet
  PROVE  k \in {"none", "armed"} /\ Is(Loop, {"idle"})
<1>1. \A th \in Thread : pc[th] = "idle"
  BY DEF Quiet, Busy, At
<1> QED
  BY <1>1, Roles DEF Token, Places, Quiet

LEMMA ArmedOnceInv ==
  ASSUME IInv
  PROVE  ArmedOnce
<1> SUFFICES ASSUME orderly
             PROVE  /\ Cardinality(Armed) <= 1 /\ queued <= 1
                    /\ polls <= (IF Busy(Loop) THEN 2 ELSE 1)
                    /\ Quiet /\ Stopped => Armed = {} /\ polls = 0
  BY TypedIsTypeOK DEF ArmedOnce, IInv
<1>1. Running \/ Closing \/ Ended
  BY DEF IInv, Orderly
<1>2. CASE Running
  <2>1. PICK k \in Places, t \in Thread : Token(k, t)
    BY <1>2 DEF Running
  <2>2. Armed \subseteq {evp} /\ queued <= 1
    BY <2>1 DEF Token
  <2>3. polls <= (IF Busy(Loop) THEN 2 ELSE 1)
    BY <2>1, Roles DEF Token, Busy, At, IInv, Typed, PcTyped
  <2>4. ASSUME Quiet, Stopped
        PROVE  Armed = {} /\ polls = 0
    <3>1. k = "none" \/ k = "armed"
      BY <2>1, <2>4, QuietPlaces
    <3>2. k # "armed"
      BY <2>1, <2>4 DEF Token, Stopped
    <3> QED
      BY <2>1, <2>4, <3>1, <3>2, QuietPlaces DEF Token
  <2> QED
    BY <2>2, <2>3, <2>4, Ones
<1>3. CASE Closing
  <2>1. PICK a \in App : StopAt(a)
    BY <1>3 DEF Closing
  <2>2. Armed \subseteq {evp} /\ queued = 0 /\ polls = 0 /\ ~Quiet
    BY <2>1, Roles DEF StopAt, Stops, Quiet, Busy, At
  <2> QED
    BY <2>2, Ones
<1>4. CASE Ended
  BY <1>4, FS_EmptySet DEF Ended, Gone
<1> QED
  BY <1>1, <1>2, <1>3, <1>4

LEMMA NoFaultInv ==
  ASSUME IInv
  PROVE  NoFault
  BY DEF IInv, Orderly, Running, Closing, Ended, Token, StopAt, Gone, NoFault

LEMMA TicksCountedInv ==
  ASSUME IInv
  PROVE  TicksCounted
<1> SUFFICES ASSUME orderly
             PROVE  /\ repeat \in -1..(IF asked < 0 THEN 0 ELSE asked) /\ (asked >= 0 => repeat >= 0)
                    /\ Quiet /\ asked > 0 /\ stops \in {"no", "yes"} =>
                          ticks + repeat = asked \/ (repeat = 0 /\ ticks > asked)
  BY DEF TicksCounted
<1>1. RepeatsOK
  BY DEF IInv, Orderly, Running, Closing, Ended
<1>2. Quiet => ~Uncounted
  BY Roles DEF Quiet, Busy, At, Uncounted
<1> QED
  BY <1>1, <1>2 DEF RepeatsOK, IInv, Typed, NativeTyped

\* The handler runs with the arguments of the trigger it was queued for, of the
\* type that the event was created with.
LEMMA ArgsInv ==
  ASSUME IInv
  PROVE  ArgsOfTrigger
<1> SUFFICES ASSUME NEW w \in Worker, orderly, pc[w] = "handler", backend = "argobots" => InCallback
             PROVE  Reads(Passed(w)) = Reads(due) /\ Reads(due) # Invalid
  BY DEF ArgsOfTrigger, At
<1>1. Running
  <2>1. ~Closing
    BY Roles DEF Closing, StopAt, Stops
  <2>2. ~Ended
    BY Roles DEF Ended, Gone
  <2> QED
    BY <2>1, <2>2 DEF IInv, Orderly
<1>2. PICK k \in Places, t \in Thread : Token(k, t)
  BY <1>1 DEF Running
<1>3. k = "thread" /\ t = w
  BY <1>2 DEF Token
<1>4. PICK flags \in SUBSET Flags(args) : due = Reported(args, flags)
  BY <1>2, <1>3 DEF Token
<1>5. Passed(w) = due
  BY <1>2, <1>3 DEF Token, Passed, IInv, Typed, TaskletsTyped
<1>6. Reads(due) # Invalid
  <2>1. Valid(args)
    BY DEF IInv, Typed, NativeTyped
  <2>2. args.type \in {"file", "socket", "timer", "poll"} /\ due.type = args.type
    BY <1>4, <2>1 DEF Valid, SetFile, SetSocket, SetTimer, SetPoll, Unset, Reported
  <2>3. Reads(due).type # "TW_ERR_INVAL"
    BY <2>2 DEF Reads, GetFile, GetSocket, GetTimer, GetMpi, GetPoll, poll
  <2> QED
    BY <2>3 DEF Invalid
<1> QED
  BY <1>5, <1>6

LEMMA WatchesInv ==
  ASSUME IInv
  PROVE  WatchesIfOrderly
<1> SUFFICES ASSUME orderly, ~missed, Quiet, fault = "none", status = "WATCHING", repeat # 0
             PROVE  Ready /\ dstat = "COMMITED" /\ ~nlp /\ eng
  BY DEF WatchesIfOrderly, Watches, IInv, Typed, TaskletsTyped
<1>1. \A th \in Thread : pc[th] = "idle"
  BY DEF Quiet, Busy, At
<1>2. Running
  <2>1. ~Closing
    BY <1>1, Roles DEF Closing, StopAt, Stops
  <2>2. ~Ended
    BY DEF Ended, Gone
  <2> QED
    BY <2>1, <2>2 DEF IInv, Orderly
<1>3. PICK k \in Places, t \in Thread : Token(k, t)
  BY <1>2 DEF Running
<1>4. k = "armed"
  <2>1. k # "none"
    BY <1>1, <1>3, Roles DEF Token
  <2> QED
    BY <1>3, <2>1, QuietPlaces
<1>5. dstat = "COMMITED" /\ ~nlp /\ eng
  BY <1>3, <1>4 DEF Token
<1>6. Ready
  <2>1. poll => polls = 1
    BY <1>1, <1>3, <1>4, Roles DEF Token
  <2>2. ~poll => Armed = {evp}
    BY <1>3, <1>4 DEF Token
  <2> QED
    BY <2>1, <2>2, FS_Singleton DEF Ready
<1> QED
  BY <1>5, <1>6

-----------------------------------------------------------------------------

\* In an orderly behaviour the event is never armed or queued twice, and is not
\* armed when it is idle, has failed or was retracted by its own handler.
THEOREM ArmedOnceHolds == AllSpec => []ArmedOnce
  BY Invariance, ArmedOnceInv, PTL

\* In an orderly behaviour no thread uses a struct event or a driver's event that has
\* been freed, nor an engine that has been unset.
THEOREM NoFaultHolds == AllSpec => []NoFault
  BY Invariance, NoFaultInv, PTL

\* The handler of a timer succeeds as often as was asked for, less what is left,
\* whatever the interleaving of its decrement with the callback.
THEOREM TicksCountedHolds == AllSpec => []TicksCounted
  BY Invariance, TicksCountedInv, PTL

\* The handler reads the arguments that the trigger it runs for was given, and they
\* have the type it expects.
THEOREM ArgsOfTriggerHolds == AllSpec => []ArgsOfTrigger
  BY Invariance, ArgsInv, PTL

\* When nobody is busy with an event that is watched and has repetitions left, it is
\* armed: a commit is never lost between the worker's and the callback's halves of
\* the pending slot.
THEOREM WatchesHolds == AllSpec => []WatchesIfOrderly
  BY Invariance, WatchesInv, PTL
================================================================================
