----------------------------- MODULE MCNativeEvent -----------------------------
(***************************************************************************)
(* Instances of AbtEvent: two workers, so that the handler of one trigger  *)
(* may run while the worker of the previous one is still committing, and   *)
(* what the application does as a set of scenarios.                        *)
(***************************************************************************)
EXTENDS AbtEvent, TLC

CONSTANTS w1, w2, a1, loop

Threads == {w1, w2, a1, loop}

Scenario(arguments_, f, s, calls) ==
    [args |-> arguments_, fails |-> f, stops |-> s, script |-> a1 :> calls]

Ticks(n) == SetTimer(Unset, 1000, n)

\* test/event/timer.c, with more repetitions.
Timer == Scenario(Ticks(3), 0, "no", <<"commit">>)

\* A poll event is repeated for ever (test/event/poll.c).
Poll == Scenario(SetPoll(Unset, "poll_check", "flag"), 0, "no", <<"commit">>)

\* test/event/mpi.c: the handler retracts the event.
Mpi == Scenario(SetMpi(Unset, "comm", "any", "any"), 0, "yes", <<"commit">>)

\* test/event/file.c and test/event/socket.c, waiting for both directions.
File   == Scenario(SetFile(Unset, "fd", ReadyFlags), 0, "no", <<"commit">>)
Socket == Scenario(SetSocket(Unset, "fd", {"ready_for_read"}), 0, "yes", <<"commit">>)

\* The handler fails and the application commits the event again.
Failing == Scenario(Ticks(2), 1, "no", <<"commit", "commit_failed">>)

\* The event is retracted and committed again, or freed.
Again == Scenario(Ticks(2), 0, "no", <<"commit", "retract", "commit">>)
Freed == Scenario(Ticks(2), 0, "no", <<"commit", "retract", "free">>)

\* The handler retracts the event, and then the application does and commits it again.
Restarted == Scenario(Ticks(2), 0, "yes", <<"commit", "retract", "commit">>)

\* A poll event is freed, perhaps while it is being polled.
PollFreed == Scenario(SetPoll(Unset, "poll_check", "flag"), 0, "no", <<"commit", "free">>)

\* An event that is being watched is committed a second time.
Double == Scenario(Ticks(2), 0, "no", <<"commit", "commit">>)

AllScenarios   == 
    {Timer, Poll, Mpi, File, Socket, Failing, Again, Freed, Restarted, PollFreed, Double}
TimerScenarios == {Timer}
================================================================================
