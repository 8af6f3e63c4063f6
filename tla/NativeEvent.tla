------------------------------ MODULE NativeEvent ------------------------------
(***************************************************************************)
(* One event of the native driver (twnative_event.c, twnative_event_int.c) *)
(* on top of the libevent driver: the application commits, retracts and    *)
(* frees it, the event loop triggers it, a worker runs its handler and     *)
(* commits it again until it has been repeated often enough.               *)
(*                                                                         *)
(* Events of one engine share nothing but the loop, so one event is        *)
(* modelled.  Its jobs go through the engine's queue (NativeEngine).       *)
(***************************************************************************)
EXTENDS LibEvent, Sequences

CONSTANTS
    Worker,         \* the workers that run event jobs
    App,
    Scenarios       \* what the application does: see Init

VARIABLES
    status,     \* ep->status
    repeat,     \* ep->repeat, TW_INFINITE = -1
    eng,        \* ep->eng # NULL
    eparg,      \* ep->arg, what the handler is called with
    queued,     \* the event's jobs in the engine's queue
    seen,       \* what worker w read from repeat
    fails,      \* how often the handler will still fail
    stops,      \* the handler retracts the event: "no", "yes", "done", or "past"
                \* when the event has been committed again since
    script,     \* script[a]: the calls application thread a still makes
    asked,      \* history: repeat as it was created
    ticks,      \* history: how often the handler succeeded
    due,        \* history: the arguments of the last trigger that was accepted
    orderly     \* history: no commit was refused, nothing but a commit was going
                \* on while the loop or a worker was busy with the event, no poll
                \* event was retracted or freed while it was polled, and nothing
                \* was freed twice

native  == <<status, repeat, eng, eparg, queued, seen>>
below   == <<arguments, driver, fault>>
client  == <<fails, stops, script>>
history == <<asked, ticks, due, orderly>>
above   == <<native, client, history>>
vars    == <<below, pc, above>>

ASSUME EventAssumption ==
    /\ Thread = {Loop} \cup Worker \cup App
    /\ Loop \notin Worker \cup App /\ Worker \cap App = {}
    /\ MaxStructs \in Nat

\* An event is created with the arguments that a setter made.
Valid(argument) ==
    \/ /\ argument.type = "file"
       /\ argument = SetFile(Unset, argument.fd, argument.events)
    \/ /\ argument.type = "socket"
       /\ argument = SetSocket(Unset, argument.socket, argument.events)
    \/ /\ argument.type = "timer"
       /\ argument.micro_sec \in Int /\ argument.repeat_count \in Int
       /\ argument = SetTimer(Unset, argument.micro_sec, argument.repeat_count)
    \/ /\ argument.type = "poll"
       /\ argument = SetPoll(Unset, argument.poll, argument.data)

ASSUME ScenarioAssumption ==
    \A s \in Scenarios : Valid(s.args) /\ s.fails \in Nat /\ s.stops \in {"no", "yes"}

\* Where a thread is when it has nothing to do with the event.
Busy(th) == ~At(th, "idle")
Quiet    == queued = 0 /\ \A th \in Thread : ~Busy(th)

Alive(th, l) == At(th, l) /\ fault = "none"

\* TWNATIVE_Eventi_update_status: from one of the statuses old to new.  INVAL is 0
\* and so passes every test of the bits; while the status is TRANS it waits, unless
\* TRANS is what it wants.
Update(th, old, new, yes, no) ==
    \/ /\ status \in old \cup {"INVAL"}
       /\ status' = new
       /\ Goto(th, yes)
    \/ /\ status \notin old \cup {"INVAL"}
       /\ status # "TRANS" \/ new = "TRANS"
       /\ Goto(th, no)
       /\ UNCHANGED status

\* A wrong status leaves *successp as it is, and two callers look at it without
\* having set it: they may go on as if the status had changed.
UpdateUnset(th, old, new, yes, no) ==
    \/ Update(th, old, new, yes, no)
    \/ /\ status \notin old \cup {"INVAL", "TRANS", new}
       /\ Goto(th, yes)
       /\ UNCHANGED status

-----------------------------------------------------------------------------
\* TWNATIVE_Eventi_cb and TWNATIVE_Eventi_queue, in the event loop

\* The arguments of a trigger that is accepted are due to the handler.
Accepts(l) ==
    /\ due' = IF pc'[Loop] = l THEN arg ELSE due
    /\ UNCHANGED <<asked, ticks, orderly>>

\* Mutant of Trigger: the job is queued without the arguments.
TriggerBare ==
    /\ Alive(Loop, "trigger")
    /\ UpdateUnset(Loop, {"WATCHING"}, "TRIGGER", "queue", "reset")
    /\ Accepts("queue")
    /\ UNCHANGED <<below, repeat, eng, eparg, queued, seen, client>>

Trigger ==
    /\ Alive(Loop, "trigger")
    /\ UpdateUnset(Loop, {"WATCHING"}, "TRIGGER", "copy", "reset")
    /\ Accepts("copy")
    /\ UNCHANGED <<below, repeat, eng, eparg, queued, seen, client>>

CopyArg ==
    /\ Alive(Loop, "copy")
    /\ eparg' = arg
    /\ Goto(Loop, "queue")
    /\ UNCHANGED <<below, status, repeat, eng, queued, seen, client, history>>

Queue ==
    /\ Alive(Loop, "queue")
    /\ IF eng
       THEN /\ queued' = queued + 1
            /\ Goto(Loop, "inc")
            /\ UNCHANGED <<below>>
       ELSE Dies("null_engine") /\ UNCHANGED queued
    /\ UNCHANGED <<status, repeat, eng, eparg, seen, client, history>>

\* sem.inc reads ep->eng once more.
Inc ==
    /\ Alive(Loop, "inc")
    /\ IF eng
       THEN Goto(Loop, "reset") /\ UNCHANGED <<below>>
       ELSE Dies("null_engine")
    /\ UNCHANGED above

-----------------------------------------------------------------------------
\* TWNATIVE_Eventi_run, by worker w

Pop(w) ==
    /\ Alive(w, "idle")
    /\ queued > 0
    /\ queued' = queued - 1
    /\ Goto(w, "run")
    /\ UNCHANGED <<below, status, repeat, eng, eparg, seen, client, history>>

Run(w) ==
    /\ Alive(w, "run")
    /\ UpdateUnset(w, {"TRIGGER"}, "RUNNING", "handler", "idle")
    /\ UNCHANGED <<below, repeat, eng, eparg, queued, seen, client, history>>

Handler(w) ==
    /\ Alive(w, "handler") /\ stops # "yes"
    /\ IF fails > 0
       THEN fails' = fails - 1 /\ Goto(w, "fail") /\ UNCHANGED ticks
       ELSE /\ ticks' = IF asked > 0 THEN ticks + 1 ELSE ticks
            /\ Goto(w, "rewatch")
            /\ UNCHANGED fails
    /\ UNCHANGED <<below, native, stops, script, asked, due, orderly>>

Fail(w) ==
    /\ Alive(w, "fail")
    /\ Update(w, {"RUNNING"}, "FAILED", "idle", "idle")
    /\ UNCHANGED <<below, repeat, eng, eparg, queued, seen, client, history>>

Rewatch(w) ==
    /\ Alive(w, "rewatch")
    /\ Update(w, {"RUNNING"}, "WATCHING", "test", "test")
    /\ UNCHANGED <<below, repeat, eng, eparg, queued, seen, client, history>>

\* Mutant of Test: the last repetition is not counted.
TestOff(w) ==
    /\ Alive(w, "test")
    /\ seen' = [seen EXCEPT ![w] = repeat]
    /\ Goto(w, IF repeat > 1 THEN "count" ELSE "left")
    /\ UNCHANGED <<below, status, repeat, eng, eparg, queued, client, history>>

\* if (ep->repeat > 0) ...
Test(w) ==
    /\ Alive(w, "test")
    /\ seen' = [seen EXCEPT ![w] = repeat]
    /\ Goto(w, IF repeat > 0 THEN "count" ELSE "left")
    /\ UNCHANGED <<below, status, repeat, eng, eparg, queued, client, history>>

\* ... ep->repeat--, from what the test has read or from what it reads now.
Count(w) ==
    /\ Alive(w, "count")
    /\ repeat' \in {repeat - 1, seen[w] - 1}
    /\ seen' = [seen EXCEPT ![w] = 0]
    /\ Goto(w, "left")
    /\ UNCHANGED <<below, status, eng, eparg, queued, client, history>>

Left(w) ==
    /\ Alive(w, "left")
    /\ seen' = [seen EXCEPT ![w] = 0]
    /\ Goto(w, IF repeat # 0 THEN "recommit" ELSE "idle")
    /\ UNCHANGED <<below, status, repeat, eng, eparg, queued, client, history>>

Recommit(w) ==
    /\ Alive(w, "recommit")
    /\ IF eng
       THEN Goto(w, "commit") /\ UNCHANGED <<below>>
       ELSE Dies("null_engine")
    /\ UNCHANGED above

\* What Event_commit returns is not looked at.
Recommitted(w) ==
    /\ Alive(w, "armed") \/ Alive(w, "refused")
    /\ orderly' = (orderly /\ At(w, "armed"))
    /\ Goto(w, "idle")
    /\ UNCHANGED <<below, native, client, asked, ticks, due>>

-----------------------------------------------------------------------------
\* The application's calls

Calls(a, c)  == Alive(a, "idle") /\ script[a] # <<>> /\ Head(script[a]) = c
Done(a)      == script' = [script EXCEPT ![a] = Tail(@)]

\* TWNATIVE_Event_commit.  The application commits a failed event again when it
\* has failed.
Commit(a) ==
    /\ Calls(a, "commit") \/ (Calls(a, "commit_failed") /\ status = "FAILED")
    /\ Update(a, {"IDLE", "FAILED"}, "TRANS", "engine", "undo")
    /\ orderly' = (orderly /\ status \in {"IDLE", "FAILED"})
    /\ Done(a)
    /\ stops' = IF stops = "done" THEN "past" ELSE stops
    /\ UNCHANGED <<below, repeat, eng, eparg, queued, seen, fails, asked, ticks, due>>

Engine(a) ==
    /\ Alive(a, "engine")
    /\ eng' = TRUE
    /\ Goto(a, "commit")
    /\ UNCHANGED <<below, status, repeat, eparg, queued, seen, client, history>>

Committed(a) ==
    /\ Alive(a, "armed")
    /\ Update(a, {"TRANS"}, "WATCHING", "idle", "undo")
    /\ UNCHANGED <<below, repeat, eng, eparg, queued, seen, client, history>>

\* Whatever error it was.
CommitError(a) ==
    /\ Alive(a, "undo") \/ Alive(a, "refused")
    /\ eng' = FALSE
    /\ Goto(a, "back")
    /\ UNCHANGED <<below, status, repeat, eparg, queued, seen, client, history>>

CommitUndo(a) ==
    /\ Alive(a, "back")
    /\ status' = IF status = "TRANS" THEN "IDLE" ELSE status
    /\ Goto(a, "idle")
    /\ UNCHANGED <<below, repeat, eng, eparg, queued, seen, client, history>>

\* TWNATIVE_Event_retract, called by the application or, in thread th, by the
\* handler; the status is read twice before it is changed.
Retracts(th) == Goto(th, IF status = "RUNNING" THEN "zero" ELSE "stop?")

Retract(a) ==
    /\ Calls(a, "retract")
    /\ orderly' = (orderly /\ Quiet /\ status = "WATCHING" /\ ~poll)
    /\ Done(a)
    /\ Retracts(a)
    /\ UNCHANGED <<below, native, fails, stops, asked, ticks, due>>

HandlerRetracts(w) ==
    /\ Alive(w, "handler") /\ stops = "yes"
    /\ stops' = "done"
    /\ Retracts(w)
    /\ UNCHANGED <<below, native, fails, script, history>>

\* The handler succeeds after its call.
Returned(th) == IF th \in Worker THEN "rewatch" ELSE "idle"

RetractLook(th) ==
    /\ Alive(th, "stop?")
    /\ Goto(th, IF status = "TRIGGER" THEN "zero" ELSE "stop")
    /\ UNCHANGED <<below, above>>

\* Mutant of RetractZero: the repetitions that are left are kept.
RetractZeroNot(th) ==
    /\ Alive(th, "zero")
    /\ Goto(th, Returned(th))
    /\ UNCHANGED <<below, above>>

RetractZero(th) ==
    /\ Alive(th, "zero")
    /\ repeat' = 0
    /\ Goto(th, Returned(th))
    /\ UNCHANGED <<below, status, eng, eparg, queued, seen, client, history>>

RetractStop(th) ==
    /\ Alive(th, "stop")
    /\ Update(th, {"WATCHING"}, "TRANS", "del", Returned(th))
    /\ UNCHANGED <<below, repeat, eng, eparg, queued, seen, client, history>>

Retracted(th) ==
    /\ Alive(th, "deleted")
    /\ eng' = FALSE
    /\ Goto(th, "to_idle")
    /\ UNCHANGED <<below, status, repeat, eparg, queued, seen, client, history>>

ToIdle(th) ==
    /\ Alive(th, "to_idle")
    /\ Update(th, {"TRANS"}, "IDLE", Returned(th), Returned(th))
    /\ UNCHANGED <<below, repeat, eng, eparg, queued, seen, client, history>>

\* TWNATIVE_Event_free: every status passes the test.
Free(a) ==
    /\ Calls(a, "free")
    /\ orderly' = (orderly /\ Quiet /\ polls = 0 /\ ~dfreed)
    /\ Done(a)
    /\ status' = "INVAL"
    /\ Goto(a, "free")
    /\ UNCHANGED <<below, repeat, eng, eparg, queued, seen, fails, stops, asked, ticks, due>>

-----------------------------------------------------------------------------

\* TWNATIVE_Event_create and TWLIBEVT_Event_create
Init ==
    \E s \in Scenarios :
        /\ args = s.args
        /\ repeat = Repetitions(s.args)
        /\ asked = Repetitions(s.args)
        /\ fails = s.fails
        /\ stops = s.stops
        /\ script = s.script
        /\ status = "IDLE"
        /\ eng = FALSE
        /\ eparg = Unset
        /\ due = Unset
        /\ queued = 0
        /\ seen = [w \in Worker |-> 0]
        /\ ticks = 0
        /\ orderly = TRUE
        /\ pc = [th \in Thread |-> "idle"]
        /\ DriverInit

Below(th) == (DriverCommit(th) \/ UseAfterFree(th)) /\ UNCHANGED above

\* The event fires while it is being retracted or freed: not orderly any more.
Stopping == {"stop?", "zero", "stop", "del", "unset", "deleted", "to_idle", "free"}
Fires    == /\ Fire
            /\ orderly' = (orderly /\ \A a \in App : pc[a] \notin Stopping)
            /\ UNCHANGED <<native, client, asked, ticks, due>>

LoopBelow == Fires \/ (DriverLoop /\ UNCHANGED above) \/ Below(Loop)

LoopStep ==
    \/ LoopBelow
    \/ Trigger \/ CopyArg \/ Queue \/ Inc

RetractGoes(th) ==
    \/ RetractLook(th) \/ RetractZero(th) \/ RetractStop(th) \/ Retracted(th)
    \/ ToIdle(th) \/ (DriverCalls(th) /\ UNCHANGED above)

\* The handler and what follows it, the same for both drivers.
Handling(w) ==
    \/ Run(w) \/ Handler(w) \/ HandlerRetracts(w) \/ RetractGoes(w) \/ Fail(w)
    \/ Rewatch(w) \/ Test(w) \/ Count(w) \/ Left(w) \/ Recommit(w) \/ Recommitted(w)
    \/ Below(w)

WorkerStep(w) == Pop(w) \/ Handling(w)

CallGoes(a) ==
    \/ Engine(a) \/ Committed(a) \/ CommitError(a) \/ CommitUndo(a)
    \/ RetractGoes(a) \/ Below(a)

AppStep(a) == Commit(a) \/ Retract(a) \/ Free(a) \/ CallGoes(a)

Next ==
    \/ LoopStep
    \/ \E w \in Worker : WorkerStep(w)
    \/ \E a \in App : AppStep(a)

-----------------------------------------------------------------------------

AbtLabel == {"ctx", "fill", "create", "triggered", "load", "clear"}

Label == DriverLabel \cup AbtLabel \cup
    {"idle", "trigger", "copy", "queue", "inc", "erase", "run", "handler", "fail", "rewatch",
     "test", "count", "left", "recommit", "armed", "refused", "engine", "undo", "back",
     "deleted"} \cup Stopping

\* The values the variables take: the process dies for a few reasons only.
TypeOK ==
    /\ nlp \in BOOLEAN /\ dfreed \in BOOLEAN
    /\ eng \in BOOLEAN /\ stops \in {"no", "yes", "done", "past"} /\ orderly \in BOOLEAN
    /\ dstat \in {"PENDING", "COMMITED", "RUNNING"}
    /\ evp \in 0..MaxStructs
    /\ struct \in [1..MaxStructs -> {"none", "new", "added", "fired", "freed"}]
    /\ polls \in Nat /\ queued \in Nat /\ ticks \in Nat /\ fails \in Nat
    /\ asked \in Int /\ repeat \in Int /\ seen \in [Worker -> Int]
    /\ pc \in [Thread -> Label]
    /\ fault \in {"none", "null_engine", "null_struct", "freed_struct", "freed_event"}
    /\ status \in {"INVAL", "IDLE", "WATCHING", "TRIGGER", "RUNNING", "FAILED", "TRANS"}

\* The event is never armed twice or queued twice (so the job of an earlier trigger
\* is never invalidated while it is queued), and not armed at all when it is idle:
\* no trigger is doubled, and an event that was retracted, by the application or by
\* its own handler, stays retracted.
Stopped == status \in {"IDLE", "INVAL", "FAILED"} \/ stops = "done"

ArmedOnce ==
    /\ TypeOK
    /\ orderly =>
        /\ Cardinality(Armed) <= 1 /\ queued <= 1
        /\ polls <= (IF Busy(Loop) THEN 2 ELSE 1)
        /\ Quiet /\ Stopped => Armed = {} /\ polls = 0

\* No thread touches what another has freed or unset.
NoFault == orderly => fault = "none"

\* "Retry case, this time should success": a worker's commit is never refused.
RetrySucceeds == orderly => \A w \in Worker : ~At(w, "refused")

\* The handler of a timer succeeds as often as it was asked to, less what is left,
\* unless it retracts the event itself.  Only an event that has been used up and is
\* committed again runs more often, and what is left never falls below TW_INFINITE,
\* nor below 0 where it was not infinite.
TicksCounted ==
    orderly =>
        /\ repeat \in -1..(IF asked < 0 THEN 0 ELSE asked) /\ (asked >= 0 => repeat >= 0)
        /\ Quiet /\ asked > 0 /\ stops \in {"no", "yes"} =>
               ticks + repeat = asked \/ (repeat = 0 /\ ticks > asked)
=============================================================================
