------------------------------- MODULE AbtEvent -------------------------------
(***************************************************************************)
(* One event of either driver.  The Argobots driver (twabt_event.c,        *)
(* twabti_event.c) creates, commits, retracts and frees an event and runs  *)
(* its handler as the native driver does (NativeEvent); it differs in the  *)
(* way from the trigger to the handler:                                    *)
(*   - the trigger takes the event from WATCHING to TRANS, and to TRIGGER  *)
(*     only when its tasklet has been created;                             *)
(*   - the tasklet is given a cell that points to the event, so that it    *)
(*     finds NULL there when the event does not want it any more;          *)
(*   - the handler is given a pointer to the arguments in the frame of the *)
(*     callback, where the native driver copies them.                      *)
(* The driver is chosen in Init.                                           *)
(***************************************************************************)
EXTENDS NativeEvent

CONSTANTS
    Backend,    \* the drivers that may be chosen
    Cell        \* bound: the cells that are in use at any time

VARIABLES
    backend,
    pool,       \* the cells of the tasklets in the engine's pool
    full,       \* the cells that point to the event
    ctx,        \* ep->abt_task_ctx, 0 when it was never set
    taken,      \* taken[w]: the cell of the tasklet that w runs, 0 for none
    missed      \* history: a trigger found the event in transition

tasklets == <<pool, full, ctx, taken>>
abt      == <<tasklets, missed>>
all      == <<backend, abt, vars>>

ASSUME AbtEventAssumption ==
    /\ Backend \subseteq {"native", "argobots"}
    /\ Cell \subseteq Nat \ {0}

InUse == {pool[i] : i \in DOMAIN pool} \cup {ctx} \cup {taken[w] : w \in Worker}

-----------------------------------------------------------------------------
\* TWABTI_Event_cb, in the event loop

\* "Someone done it": the trigger is dropped while a commit is in transition.
AbtTrigger ==
    /\ Alive(Loop, "trigger")
    /\ UpdateUnset(Loop, {"WATCHING"}, "TRANS", "ctx", "reset")
    /\ Accepts("ctx")
    /\ missed' = (missed \/ status = "TRANS")
    /\ UNCHANGED <<below, repeat, eng, eparg, queued, seen, client, tasklets>>

\* ep->eng->ness is read, and a cell allocated.  The branch for engines without
\* workers is never reached: only a worker checks the events.
AbtCell ==
    /\ Alive(Loop, "ctx")
    /\ IF eng
       THEN /\ \E c \in Cell \ InUse :
                  /\ \A d \in Cell \ InUse : c <= d
                  /\ ctx' = c
                  /\ full' = full \ {c}
            /\ Goto(Loop, "fill")
            /\ UNCHANGED <<below, pool, taken>>
       ELSE Dies("null_engine") /\ UNCHANGED tasklets
    /\ UNCHANGED <<above, missed>>

\* Mutant of AbtFill: the tasklet finds nothing in its cell.
AbtFillNot ==
    /\ Alive(Loop, "fill")
    /\ Goto(Loop, "create")
    /\ UNCHANGED <<below, above, tasklets, missed>>

\* Only the address of the arguments is kept.
AbtFill ==
    /\ Alive(Loop, "fill")
    /\ full' = full \cup {ctx}
    /\ Goto(Loop, "create")
    /\ UNCHANGED <<below, above, pool, ctx, taken, missed>>

\* ABT_task_create
AbtCreate ==
    /\ Alive(Loop, "create")
    /\ IF eng
       THEN /\ pool' = Append(pool, ctx)
            /\ queued' = queued + 1
            /\ Goto(Loop, "triggered")
            /\ UNCHANGED below
       ELSE Dies("null_engine") /\ UNCHANGED <<pool, queued>>
    /\ UNCHANGED <<status, repeat, eng, eparg, seen, client, history, full, ctx, taken, missed>>

AbtTriggered ==
    /\ Alive(Loop, "triggered")
    /\ Update(Loop, {"TRANS"}, "TRIGGER", "reset", "reset")
    /\ UNCHANGED <<below, repeat, eng, eparg, queued, seen, client, history, abt>>

-----------------------------------------------------------------------------
\* TWABTI_Event_task_cb, by the worker that has popped the tasklet

AbtPop(w) ==
    /\ Alive(w, "idle")
    /\ pool # <<>>
    /\ taken' = [taken EXCEPT ![w] = Head(pool)]
    /\ pool' = Tail(pool)
    /\ queued' = queued - 1
    /\ Goto(w, "load")
    /\ UNCHANGED <<below, status, repeat, eng, eparg, seen, client, history, full, ctx, missed>>

\* The cell is disposed of; it is not reused before this worker is done with it.
AbtLoad(w) ==
    /\ Alive(w, "load")
    /\ Goto(w, IF taken[w] \in full THEN "clear" ELSE "idle")
    /\ taken' = IF taken[w] \in full THEN taken ELSE [taken EXCEPT ![w] = 0]
    /\ UNCHANGED <<below, above, pool, full, ctx, missed>>

\* *(ep->abt_task_ctx) = NULL: the event's cell of now, whichever that is.
AbtClear(w) ==
    /\ Alive(w, "clear")
    /\ full' = full \ {ctx}
    /\ taken' = [taken EXCEPT ![w] = 0]
    /\ Goto(w, "run")
    /\ UNCHANGED <<below, above, pool, ctx, missed>>

-----------------------------------------------------------------------------

AllInit ==
    /\ Init
    /\ backend \in Backend
    /\ pool = <<>>
    /\ full = {}
    /\ ctx = 0
    /\ taken = [w \in Worker |-> 0]
    /\ missed = FALSE

AbtTriggers == AbtTrigger \/ AbtCell \/ AbtFill \/ AbtCreate \/ AbtTriggered

AllLoop ==
    \/ backend = "native" /\ LoopStep /\ UNCHANGED abt
    \/ backend = "argobots" /\ (AbtTriggers \/ (LoopBelow /\ UNCHANGED abt))

AllWorker(w) ==
    \/ backend = "native" /\ WorkerStep(w) /\ UNCHANGED abt
    \/ /\ backend = "argobots"
       /\ AbtPop(w) \/ AbtLoad(w) \/ AbtClear(w) \/ (Handling(w) /\ UNCHANGED abt)

AllNext ==
    /\ \/ AllLoop
       \/ \E w \in Worker : AllWorker(w)
       \/ \E a \in App : AppStep(a) /\ UNCHANGED abt
    /\ UNCHANGED backend

AllSpec == AllInit /\ [][AllNext]_all

\* Workers run, handlers return, calls of the application go on, the engine visits
\* the loop again and again (EventsChecked of NativeEngine), and what is armed fires
\* in the end.  The application need not call.
FairSpec ==
    /\ AllSpec
    /\ WF_all(AllLoop /\ UNCHANGED backend)
    /\ \A w \in Worker : WF_all(AllWorker(w) /\ UNCHANGED backend)
    /\ \A a \in App : WF_all(CallGoes(a) /\ UNCHANGED <<abt, backend>>)

-----------------------------------------------------------------------------

Ready == IF poll THEN polls = 1 ELSE Cardinality(Armed) = 1

\* An event that is watched and has repetitions left is armed when nobody is busy
\* with it: whichever of the callback and the worker is first, the commit of the
\* worker is never lost between them.  The Argobots driver keeps this unless the
\* event fired before its commit had returned: then the trigger is dropped and
\* nothing arms the event again.
Watches ==
    (Quiet /\ fault = "none" /\ status = "WATCHING" /\ repeat # 0)
        => Ready /\ dstat = "COMMITED" /\ ~nlp /\ eng

WatchesIfOrderly ==
    /\ pool \in Seq(Cell) /\ full \subseteq Cell /\ ctx \in Cell \cup {0}
    /\ backend = "argobots" => Len(pool) = queued
    /\ orderly /\ ~missed => Watches

\* What the handler finds where its argument points to.
Passed(w) ==
    IF backend = "native" THEN eparg
    ELSE IF InCallback THEN arg ELSE Unset

\* The handler asks for what the event was created with.
Reads(argument) ==
    CASE args.type = "file"   -> GetFile(argument)
      [] args.type = "socket" -> GetSocket(argument)
      [] args.type = "timer"  -> GetTimer(argument)
      [] poll /\ args.poll = "mpi" -> GetMpi(argument)
      [] poll /\ args.poll # "mpi" -> GetPoll(argument)

\* A handler reads the arguments of the trigger it runs for, of the type it expects,
\* and never those of another trigger.  In the Argobots driver this lasts only until
\* the callback that created the tasklet has returned.
ArgsOfTrigger ==
    \A w \in Worker :
        (orderly /\ At(w, "handler") /\ (backend = "argobots" => InCallback)) =>
            Reads(Passed(w)) = Reads(due) /\ Reads(due) # Invalid

\* A watched timer runs until nothing is left to repeat, unless it fails, the
\* application stops it, or the Argobots driver missed its trigger.
TimerEnds ==
    (status = "WATCHING" /\ repeat > 0 /\ orderly) ~>
        (repeat = 0 \/ status \in {"IDLE", "INVAL", "FAILED"} \/ ~orderly \/ missed)
===============================================================================
