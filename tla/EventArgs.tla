------------------------------- MODULE EventArgs -------------------------------
(***************************************************************************)
(* The arguments of an event (tw_event_args.c): a union, here a record     *)
(* with a type field.  The setters return the handle's new contents, which *)
(* are the old ones when the call is refused; the getters return what the  *)
(* caller reads through the pointers it passes, or an error.               *)
(***************************************************************************)
EXTENDS Integers

TW_INFINITE == -1

\* TW_EVENT_FILE_ALL and TW_EVENT_SOCKET_ALL.
ReadyFlags == {"ready_for_read", "ready_for_write"}
AllFlags   == ReadyFlags \cup {"read", "write"}

\* What a handle holds before anything was set.
Unset == [type |-> "none"]

-----------------------------------------------------------------------------

SetFile(arg, fd, events) ==
    IF events \subseteq AllFlags
    THEN [type |-> "file", fd |-> fd, events |-> events] ELSE arg

SetSocket(arg, socket, events) ==
    IF events \subseteq AllFlags
    THEN [type |-> "socket", socket |-> socket, events |-> events] ELSE arg

SetTimer(arg, micro_sec, repeat_count) ==
    IF (repeat_count >= 0 \/ repeat_count = TW_INFINITE) /\ micro_sec >= 0
    THEN [type |-> "timer", micro_sec |-> micro_sec, repeat_count |-> repeat_count]
    ELSE arg

SetPoll(arg, poll, data) == [type |-> "poll", poll |-> poll, data |-> data]

\* An MPI event is a poll event with a check and data of its own.
SetMpi(arg, comm, src, tag) ==
    SetPoll(arg, "mpi", [comm |-> comm, src |-> src, tag |-> tag])

-----------------------------------------------------------------------------

Invalid == [type |-> "TW_ERR_INVAL"]

GetFile(arg)   == IF arg.type = "file"   THEN arg ELSE Invalid
GetSocket(arg) == IF arg.type = "socket" THEN arg ELSE Invalid
GetTimer(arg)  == IF arg.type = "timer"  THEN arg ELSE Invalid
GetPoll(arg)   == IF arg.type = "poll"   THEN arg ELSE Invalid

\* The data of an MPI event: any poll event passes the test.
GetMpi(arg) == IF arg.type = "poll" THEN [type |-> "mpi", data |-> arg.data] ELSE Invalid

\* The events the driver asks libevent for: of the flags, it knows the two READY
\* ones only.
Flags(arg) == IF arg.type \in {"file", "socket"} THEN arg.events \cap ReadyFlags ELSE {}

\* What the callback of libevent hands to the handler when flags have become true.
Reported(arg, flags) ==
    IF arg.type \in {"file", "socket"} THEN [arg EXCEPT !.events = flags] ELSE arg

\* What an event is created with: only a timer counts its repetitions.
Repetitions(arg) == IF arg.type = "timer" THEN arg.repeat_count ELSE TW_INFINITE
================================================================================
