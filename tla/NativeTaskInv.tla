----------------------------- MODULE NativeTaskInv -----------------------------
(* The inductive invariant of NativeTask: what the proofs of NativeTaskProofs *)
(* rest on.                                                                   *)
EXTENDS NativeTask

\* The transitions a compare-and-swap may make for task t.
Edge(t) ==
    {<<IDLE, DEPHOLD>>, <<DEPHOLD, READY>>, <<QUEUE, RUNNING>>, <<RUNNING, FINAL>>,
     <<RUNNING, FAILED>>, <<FINAL, COMPLETED>>, <<DEPHOLD, ABORTED>>,
     <<READY, ABORTED>>}
    \cup IF t \in Handled THEN {<<READY, QUEUE>>} ELSE {<<READY, FINAL>>}

Counted(t) == ndep[t] # -1
Begun(t)   == status[t] >= DEPHOLD

\* The tasks t depends on allow its release: there is none, or one of them has
\* completed.  (Not all of them: see AfterParents.)
MayRelease(t) ==
    Needs(t) = {} \/ \E p \in Needs(t) : status[p] = COMPLETED

Updating == {"cas", "notify", "change", "act"}
Wiring   == {"wire", "load_parent", "load_dep", "check"}
Locking  == {"add_check", "add_push", "rm_check", "rm_detach"}
Calling  == {"notify", "queue_job", "ran", "commit", "retracted", "wait_loop",
             "bar_loop"}

\* What holds of a frame, whose ever it is and wherever it is on the stack.
FrameOK(f) ==
    /\ f.pc \in Updating =>
        /\ <<f.old, f.new>> \in Edge(f.t)
        /\ f.i > 0
        /\ f.pc = "cas" => f.i = 1
        /\ f.new = READY => Counted(f.t) /\ MayRelease(f.t)
    /\ f.pc \in Updating \ {"cas"} =>
        /\ status[f.t] >= f.new
        /\ f.new = COMPLETED => status[f.t] = COMPLETED
    /\ f.pc = "change" => f.i \in 1..Len(childs[f.t])
    /\ f.pc = "commit_init" => Begun(f.t)
    /\ f.pc \in Wiring => Counted(f.t) /\ f.i \in 1..ndep[f.t]
    /\ f.pc \in {"load_dep", "check"} /\ f.new = COMPLETED
        => status[parents[f.t][f.i][2]] = COMPLETED

GoodFrame == {f \in Frame : FrameOK(f)}

FramesOK == stack \in [Thread -> Seq(GoodFrame)]

\* Only callers lie below the top of a stack.
CallersOK ==
    \A th \in Thread : \A k \in 2..Len(stack[th]) : stack[th][k].pc \in Calling

\* A call that looks at the status of a task or modifies it holds its lock.
LockOK ==
    \A th \in Thread :
        stack[th] # <<>> /\ Top(th).pc \in Locking => th \in readers[Top(th).t]

\* While a dependency is being pushed the commit of its child has not got past
\* the lock.
PushOK ==
    \A th, th2 \in Thread :
        stack[th] # <<>> /\ Top(th).pc = "add_push" =>
            /\ ~Counted(Top(th).t)
            /\ stack[th2] # <<>> /\ Top(th2).pc = "commit_init"
                => Top(th2).t # Top(th).t

\* What Task_commit finds when its first Taski_update_status returns.
CommitCallOK ==
    /\ \A th \in Thread :
          stack[th] # <<>> /\ Top(th).pc = "commit" /\ success[th] => Begun(Top(th).t)
    /\ \A th \in Thread : \A k \in 2..Len(stack[th]) :
          stack[th][k].pc = "commit" =>
            /\ stack[th][k - 1].pc \in Updating
            /\ stack[th][k - 1].t = stack[th][k].t
            /\ stack[th][k - 1].new = DEPHOLD

StackOK == FramesOK /\ CallersOK /\ LockOK /\ PushOK /\ CommitCallOK

\* The dependency records and the lists that hold them.
DepsOK ==
    /\ \A c \in Task : \A i \in 1..Len(parents[c]) : parents[c][i][1] = c
    /\ \A p \in Task : \A i \in 1..Len(childs[p]) :
          /\ childs[p][i][2] = p
          /\ Counted(childs[p][i][1])
          /\ p \in Needs(childs[p][i][1])
    /\ \A t \in Task : Counted(t) => ndep[t] = Len(parents[t]) /\ Begun(t)

ReleasedOK ==
    \A t \in Task : status[t] \in Released => Counted(t) /\ MayRelease(t)

\* A commit and the notifications, releases and dependency changes that race with
\* it leave the dependency lists, the counts and every call in progress
\* consistent: what each frame of each stack has seen is still true.
IInv == TypeOK /\ StackOK /\ DepsOK /\ ReleasedOK
=============================================================================
