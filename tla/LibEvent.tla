------------------------------- MODULE LibEvent -------------------------------
(***************************************************************************)
(* One event of the libevent driver (eal/libevent): the call that arms it, *)
(* the callback that takes it out of service while it is being handled,    *)
(* and the pending slot nlp by which a commit that comes too early is      *)
(* handed to the callback.                                                 *)
(*                                                                         *)
(* A step is one access to a shared field.  Calls into libevent are one    *)
(* step each; a struct event is a number, a timer, file or socket event    *)
(* arms one, and a poll event is an entry of the loop's poll_events.       *)
(***************************************************************************)
EXTENDS EventArgs, FiniteSets

CONSTANTS
    Loop,           \* the worker that holds evt_lock and checks the events
    Thread,         \* all threads, Loop included
    MaxStructs      \* bound: how many struct events are ever made

VARIABLES
    args,       \* ep->args, what the event waits for
    arg,        \* the arguments in the callback's frame
    dstat,      \* ep->status of the driver's event
    nlp,        \* ep->nlp # NULL
    evp,        \* ep->event, 0 for NULL
    struct,     \* struct[s]: what has become of the s-th struct event
    polls,      \* how often the event is in lp->poll_events
    dfreed,     \* the driver's event has been freed
    pc,
    fault       \* "none", or why the process has died

driver == <<dstat, nlp, evp, struct, polls, dfreed>>

arguments == <<args, arg>>

poll == args.type = "poll"

At(th, l)   == pc[th] = l
Goto(th, l) == pc' = [pc EXCEPT ![th] = l]

\* The process dies: nothing happens any more.
Dies(why) == fault' = why /\ UNCHANGED <<arguments, driver, pc>>

Touch(th, l) == At(th, l) /\ fault = "none" /\ ~dfreed

Armed == {s \in 1..MaxStructs : struct[s] = "added"}
Made  == Cardinality({s \in 1..MaxStructs : struct[s] # "none"})

-----------------------------------------------------------------------------
\* TWLIBEVT_Event_commit.  CommitReturns is where its caller goes on.

CommitReturns(th, ok) ==
    IF th # Loop THEN Goto(th, IF ok THEN "armed" ELSE "refused")
    ELSE Goto(th, IF poll THEN "erase" ELSE "idle")

CommitStatus(th) ==
    /\ Touch(th, "commit")
    /\ IF dstat = "PENDING"
       THEN dstat' = "COMMITED" /\ Goto(th, "new")
       ELSE Goto(th, "slot") /\ UNCHANGED dstat
    /\ UNCHANGED <<arguments, nlp, evp, struct, polls, dfreed, fault>>

\* "Put in pending slot"
CommitSlot(th) ==
    /\ Touch(th, "slot")
    /\ nlp' = TRUE
    /\ IF nlp THEN CommitReturns(th, FALSE) ELSE Goto(th, "seen")
    /\ UNCHANGED <<arguments, dstat, evp, struct, polls, dfreed, fault>>

\* Mutant of CommitSeen: the callback is trusted to find the slot.
CommitTrusting(th) ==
    /\ Touch(th, "seen")
    /\ CommitReturns(th, TRUE)
    /\ UNCHANGED <<arguments, driver, fault>>

\* "The other thread may not see the pending slot in time"
CommitSeen(th) ==
    /\ Touch(th, "seen")
    /\ IF dstat = "PENDING" THEN Goto(th, "take") ELSE CommitReturns(th, TRUE)
    /\ UNCHANGED <<arguments, driver, fault>>

CommitTake(th) ==
    /\ Touch(th, "take")
    /\ nlp' = FALSE
    /\ IF nlp THEN Goto(th, "again") ELSE CommitReturns(th, TRUE)
    /\ UNCHANGED <<arguments, dstat, evp, struct, polls, dfreed, fault>>

CommitAgain(th) ==
    /\ Touch(th, "again")
    /\ IF dstat = "PENDING"
       THEN dstat' = "COMMITED" /\ Goto(th, "new")
       ELSE CommitReturns(th, FALSE) /\ UNCHANGED dstat
    /\ UNCHANGED <<arguments, nlp, evp, struct, polls, dfreed, fault>>

CommitPoll(th) ==
    /\ Touch(th, "new") /\ poll
    /\ polls' = polls + 1
    /\ CommitReturns(th, TRUE)
    /\ UNCHANGED <<arguments, dstat, nlp, evp, struct, dfreed, fault>>

\* event_new; the struct event of an earlier commit is not freed.
CommitNew(th) ==
    /\ Touch(th, "new") /\ ~poll
    /\ Made < MaxStructs
    /\ evp' = Made + 1
    /\ struct' = [struct EXCEPT ![Made + 1] = "new"]
    /\ Goto(th, "add")
    /\ UNCHANGED <<arguments, dstat, nlp, polls, dfreed, fault>>

CommitAdd(th) ==
    /\ Touch(th, "add")
    /\ IF evp # 0
       THEN /\ struct' = [struct EXCEPT ![evp] = IF @ = "freed" THEN @ ELSE "added"]
            /\ fault' = IF struct[evp] = "freed" THEN "freed_struct" ELSE "none"
            /\ CommitReturns(th, TRUE)
            /\ UNCHANGED <<arguments, dstat, nlp, evp, polls, dfreed>>
       ELSE Dies("null_struct")

-----------------------------------------------------------------------------
\* The callbacks TWLIBEVTI_Evt_*_cb and TWLIBEVTI_Evt_stat_reset.  The handler
\* in the middle is TWNATIVE_Eventi_cb of module NativeEvent.

\* The event fires: libevent forgets its struct event; the poll list keeps its
\* entry until the callback has returned.
Fire ==
    /\ At(Loop, "idle") /\ fault = "none"
    /\ \/ \E s \in Armed : struct' = [struct EXCEPT ![s] = "fired"]
       \/ polls > 0 /\ UNCHANGED struct
    /\ \E flags \in SUBSET Flags(args) :
           /\ args.type \in {"file", "socket"} => flags # {}
           /\ arg' = Reported(args, flags)
    /\ Goto(Loop, "cb")
    /\ UNCHANGED <<args, dstat, nlp, evp, polls, dfreed, fault>>

\* The callback has not returned: what it has put into its frame is still there.
InCallback == pc[Loop] \notin {"idle", "erase"}

CallbackReturns == Goto(Loop, IF poll THEN "erase" ELSE "idle")

\* "Prevent the event from triggering again while the handler is being executed"
Callback ==
    /\ Touch(Loop, "cb")
    /\ IF dstat = "COMMITED"
       THEN dstat' = "RUNNING" /\ Goto(Loop, "trigger")
       ELSE CallbackReturns /\ UNCHANGED dstat
    /\ UNCHANGED <<arguments, nlp, evp, struct, polls, dfreed, fault>>

ResetStore ==
    /\ Touch(Loop, "reset")
    /\ dstat' = "PENDING"
    /\ Goto(Loop, "look")
    /\ UNCHANGED <<arguments, nlp, evp, struct, polls, dfreed, fault>>

ResetLook ==
    /\ Touch(Loop, "look")
    /\ IF nlp THEN Goto(Loop, "claim") ELSE CallbackReturns
    /\ UNCHANGED <<arguments, driver, fault>>

ResetClaim ==
    /\ Touch(Loop, "claim")
    /\ nlp' = FALSE
    /\ IF nlp THEN Goto(Loop, "commit") ELSE CallbackReturns
    /\ UNCHANGED <<arguments, dstat, evp, struct, polls, dfreed, fault>>

\* Check_for_single_unmanaged_event takes the entry out of poll_events.
Erase ==
    /\ At(Loop, "erase") /\ fault = "none"
    /\ polls' = IF polls > 0 THEN polls - 1 ELSE 0
    /\ Goto(Loop, "idle")
    /\ UNCHANGED <<arguments, dstat, nlp, evp, struct, dfreed, fault>>

-----------------------------------------------------------------------------
\* TWLIBEVT_Event_retract and TWLIBEVT_Event_free, called by thread th.

RetractDel(th) ==
    /\ Touch(th, "del")
    /\ IF evp # 0
       THEN /\ struct' = [struct EXCEPT ![evp] = "freed"]
            /\ fault' = IF struct[evp] = "freed" THEN "freed_struct" ELSE "none"
            /\ Goto(th, "unset")
            /\ UNCHANGED <<arguments, dstat, nlp, evp, polls, dfreed>>
       ELSE Dies("null_struct")

\* Mutant of RetractUnset: the freed struct event is not forgotten.
RetractKeeps(th) ==
    /\ Touch(th, "unset")
    /\ dstat' = "PENDING"
    /\ Goto(th, "deleted")
    /\ UNCHANGED <<arguments, nlp, evp, struct, polls, dfreed, fault>>

RetractUnset(th) ==
    /\ Touch(th, "unset")
    /\ dstat' = "PENDING"
    /\ evp' = 0
    /\ Goto(th, "deleted")
    /\ UNCHANGED <<arguments, nlp, struct, polls, dfreed, fault>>

FreeDriver(th) ==
    /\ Touch(th, "free")
    /\ struct' = IF evp = 0 THEN struct ELSE [struct EXCEPT ![evp] = "freed"]
    /\ fault' = IF evp # 0 /\ struct[evp] = "freed" THEN "freed_struct" ELSE "none"
    /\ dfreed' = TRUE
    /\ Goto(th, "idle")
    /\ UNCHANGED <<arguments, dstat, nlp, evp, polls>>

\* The places that use the driver's event.
DriverLabel ==
    {"commit", "slot", "seen", "take", "again", "new", "add", "cb", "reset", "look",
     "claim", "del", "unset", "free"}

UseAfterFree(th) ==
    /\ pc[th] \in DriverLabel /\ dfreed /\ fault = "none"
    /\ Dies("freed_event")

-----------------------------------------------------------------------------

DriverInit ==
    /\ dstat = "PENDING"
    /\ nlp = FALSE
    /\ evp = 0
    /\ struct = [s \in 1..MaxStructs |-> "none"]
    /\ polls = 0
    /\ dfreed = FALSE
    /\ fault = "none"
    /\ arg = Unset

DriverCommit(th) ==
    \/ CommitStatus(th) \/ CommitSlot(th) \/ CommitSeen(th) \/ CommitTake(th)
    \/ CommitAgain(th) \/ CommitPoll(th) \/ CommitNew(th) \/ CommitAdd(th)

DriverCalls(th) == RetractDel(th) \/ RetractUnset(th) \/ FreeDriver(th)

DriverLoop == Callback \/ ResetStore \/ ResetLook \/ ResetClaim \/ Erase
=============================================================================
