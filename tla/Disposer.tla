-------------------------------- MODULE Disposer --------------------------------
(***************************************************************************)
(* The disposer of common/twi_disposer.c: it keeps what has been disposed  *)
(* of until every thread that might still use it has agreed.  A thread     *)
(* agrees by flush (the argobots scheduler calls it between two jobs) or   *)
(* by leaving.                                                             *)
(*                                                                         *)
(* An object is named by its time stamp, which fetch_and_incr gives to     *)
(* nobody else.  Joining, leaving and the walk over the list run under the *)
(* lock and are one step each; tss[id] is written by its thread without    *)
(* the lock.  Fewer than nt_alloc = 32 threads are modelled: the 32nd to   *)
(* join has tss reallocated.                                               *)
(***************************************************************************)
EXTENDS Integers, FiniteSets, Sequences

CONSTANTS
    Thread,
    Member,     \* the threads that join; the others dispose from outside
    BinSize,    \* BIN_SIZE
    Never,      \* INT32_MAX, the time stamp of a thread that is away
    MaxObj,     \* bound: objects disposed of
    MaxDepth    \* bound: joins of a thread inside each other

ASSUME NeverAssumption == Never \in Nat /\ MaxObj + 1 < Never
ASSUME ThreadAssumption ==
    Thread # {} /\ IsFiniteSet(Thread) /\ Cardinality(Thread) < 32
ASSUME MemberAssumption == Member \subseteq Thread
ASSUME BoundAssumption == BinSize \in Nat /\ MaxObj \in Nat /\ MaxDepth \in Nat

Obj == 1..MaxObj
Nil == 0        \* no object: the first time stamp is 1

VARIABLES
    ts,         \* dp->ts
    tmin,       \* dp->tmin
    lock,       \* whether dp->lock is held by a thread that flushes
    nt,         \* dp->nt
    tss,        \* dp->tss, by thread ID
    cnt,        \* the thread-local dp->cnt
    tid,        \* the thread-local dp->tid: the ID plus one, 0 before the first join
    trash,      \* dp->head and the nodes below it
    pc,         \* where thread th is
    obj,        \* the object it disposes of
    old,        \* tp->next, the head it has loaded
    agreed,     \* its local tmin
    entry,      \* its local i in the search for the minimum
    freed,      \* the objects handed to their handler
    holders,    \* history: who may still use an object
    crossed,    \* history: an object was put on the list above a younger one
    ended,      \* TWI_Disposer_finalize has run
    fault       \* what the process died of, or "none"

clock   == <<ts, tmin>>
members == <<nt, tss, cnt, tid>>
list    == <<trash, freed>>
local   == <<pc, obj, old, agreed, entry>>
history == <<holders, crossed>>
vars    == <<clock, lock, members, list, local, history, ended, fault>>

Goto(th, l) == pc' = [pc EXCEPT ![th] = l]
At(th, l)   == pc[th] = l /\ fault = "none" /\ ~ended

\* Between join and leave: only such a thread may get hold of shared objects.
Inside == {th \in Thread : cnt[th] > 0}

\* Thread th has given up what it held.
LetGo(th) == holders' = [o \in Obj |-> holders[o] \ {th}]

-----------------------------------------------------------------------------
\* TWI_Disposer_join and TWI_Disposer_leave; calls may nest, and only the
\* outermost ones count.

Join(th) ==
    /\ At(th, "idle")
    /\ th \in Member
    /\ cnt[th] < MaxDepth
    /\ cnt' = [cnt EXCEPT ![th] = @ + 1]
    /\ \/ /\ cnt[th] = 0
          /\ ~lock
          /\ \/ /\ tid[th] = 0
                /\ nt' = nt + 1
                /\ tid' = [tid EXCEPT ![th] = nt + 1]
                /\ tss' = [tss EXCEPT ![nt] = ts]
             \/ /\ tid[th] # 0
                /\ tss' = [tss EXCEPT ![tid[th] - 1] = ts]
                /\ UNCHANGED <<nt, tid>>
       \/ cnt[th] > 0 /\ UNCHANGED <<nt, tid, tss>>
    /\ UNCHANGED <<clock, lock, list, local, history, ended, fault>>

\* Mutant of Leave: an inner leave counts too.
LeaveInner(th) ==
    /\ At(th, "idle")
    /\ cnt[th] > 0
    /\ ~lock
    /\ cnt' = [cnt EXCEPT ![th] = @ - 1]
    /\ tss' = [tss EXCEPT ![tid[th] - 1] = Never]
    /\ IF cnt[th] = 1 THEN LetGo(th) ELSE UNCHANGED holders
    /\ UNCHANGED <<clock, lock, nt, tid, list, local, crossed, ended, fault>>

Leave(th) ==
    /\ At(th, "idle")
    /\ cnt[th] > 0
    /\ cnt' = [cnt EXCEPT ![th] = @ - 1]
    /\ \/ /\ cnt[th] = 1
          /\ ~lock
          /\ tss' = [tss EXCEPT ![tid[th] - 1] = Never]
          /\ LetGo(th)
       \/ cnt[th] > 1 /\ UNCHANGED <<tss, holders>>
    /\ UNCHANGED <<clock, lock, nt, tid, list, local, crossed, ended, fault>>

-----------------------------------------------------------------------------
\* TWI_Disposer_dispose, by any thread, of something nobody can find any more:
\* who is inside may still hold it.

Dispose(th) ==
    /\ At(th, "idle")
    /\ ts <= MaxObj
    /\ ts' = ts + 1
    /\ obj' = [obj EXCEPT ![th] = ts]
    /\ holders' = [holders EXCEPT ![ts] = Inside]
    /\ Goto(th, "load")
    /\ UNCHANGED <<tmin, lock, members, list, old, agreed, entry, crossed, ended, fault>>

Newest == IF trash = <<>> THEN Nil ELSE trash[1]

DisposeLoad(th) ==
    /\ At(th, "load")
    /\ old' = [old EXCEPT ![th] = Newest]
    /\ Goto(th, "cas")
    /\ UNCHANGED <<clock, lock, members, list, obj, agreed, entry, history, ended, fault>>

DisposeCas(th) ==
    /\ At(th, "cas")
    /\ \/ /\ Newest = old[th]
          /\ trash' = <<obj[th]>> \o trash
          /\ crossed' = (crossed \/ Newest > obj[th])
          /\ Goto(th, "idle")
          /\ obj' = [obj EXCEPT ![th] = Nil]
       \/ Newest # old[th] /\ Goto(th, "load") /\ UNCHANGED <<trash, crossed, obj>>
    /\ old' = [old EXCEPT ![th] = Nil]
    /\ UNCHANGED <<clock, lock, members, freed, agreed, entry, holders, ended, fault>>

-----------------------------------------------------------------------------
\* TWI_Disposer_flush, between two jobs of a scheduler.

Flush(th) ==
    /\ At(th, "idle")
    /\ cnt[th] = 1
    /\ LetGo(th)
    /\ agreed' = [agreed EXCEPT ![th] = ts]
    /\ Goto(th, "agree")
    /\ UNCHANGED <<clock, lock, members, list, obj, old, entry, crossed, ended, fault>>

\* The call returns.
Back(th) ==
    /\ Goto(th, "idle")
    /\ agreed' = [agreed EXCEPT ![th] = 0]

Agree(th) ==
    /\ At(th, "agree")
    /\ LET id == tid[th] - 1
       IN  \/ /\ tss[id] < agreed[th]
              /\ tss' = [tss EXCEPT ![id] = agreed[th]]
              /\ Goto(th, "check")
              /\ UNCHANGED agreed
           \/ tss[id] >= agreed[th] /\ Back(th) /\ UNCHANGED tss
    /\ UNCHANGED <<clock, lock, nt, cnt, tid, list, obj, old, entry, history, ended, fault>>

\* "Check for every BIN_SIZE items"
Check(th) ==
    /\ At(th, "check")
    /\ \/ tss[tid[th] - 1] - tmin > BinSize /\ Goto(th, "try") /\ UNCHANGED agreed
       \/ tss[tid[th] - 1] - tmin <= BinSize /\ Back(th)
    /\ UNCHANGED <<clock, lock, members, list, obj, old, entry, history, ended, fault>>

TryLock(th) ==
    /\ At(th, "try")
    /\ \/ /\ ~lock
          /\ lock' = TRUE
          /\ agreed' = [agreed EXCEPT ![th] = Never]
          /\ Goto(th, "min")
       \/ lock /\ Back(th) /\ UNCHANGED lock
    /\ UNCHANGED <<clock, members, list, obj, old, entry, history, ended, fault>>

\* "Find min agreed time stamp"
FindMin(th) ==
    /\ At(th, "min")
    /\ entry[th] < nt
    /\ agreed' = [agreed EXCEPT ![th] = IF @ > tss[entry[th]] THEN tss[entry[th]] ELSE @]
    /\ entry' = [entry EXCEPT ![th] = @ + 1]
    /\ UNCHANGED <<clock, lock, members, list, pc, obj, old, history, ended, fault>>

\* "Search for first node agreed by everyone": it stays, what is below it goes.
Agreed(m) == {i \in DOMAIN trash : trash[i] <= m}
First(m)  == CHOOSE i \in Agreed(m) : \A k \in Agreed(m) : i <= k
Gone(m)   == {trash[i] : i \in {k \in DOMAIN trash : Agreed(m) # {} /\ k > First(m)}}
Kept(m)   == IF Agreed(m) = {} THEN trash ELSE SubSeq(trash, 1, First(m))

\* The handlers run; who gets an object for the second time touches freed memory.
Hand(objs) ==
    /\ freed' = freed \cup objs
    /\ fault' = IF objs \cap freed = {} THEN fault ELSE "freed_twice"

CollectTo(th, kept) ==
    /\ At(th, "min")
    /\ entry[th] = nt
    /\ \/ trash # <<>> /\ Hand(Gone(agreed[th])) /\ trash' = kept
       \* Nothing in the list: k was never set.
       \/ trash = <<>> /\ fault' = "garbage" /\ UNCHANGED <<trash, freed>>
       \/ trash = <<>> /\ UNCHANGED <<trash, freed, fault>>
    /\ tmin' = agreed[th]
    /\ lock' = FALSE
    /\ entry' = [entry EXCEPT ![th] = 0]
    /\ Back(th)
    /\ UNCHANGED <<ts, members, obj, old, history, ended>>

\* Mutant of Collect: the list is not cut (j->next = NULL).
CollectUncut(th) == CollectTo(th, trash)

Collect(th) == CollectTo(th, Kept(agreed[th]))

-----------------------------------------------------------------------------
\* TWI_Disposer_finalize, when nobody uses the driver any more.
Finalize ==
    /\ \A th \in Thread : At(th, "idle") /\ cnt[th] = 0
    /\ Hand({trash[i] : i \in DOMAIN trash})
    /\ ended' = TRUE
    /\ UNCHANGED <<clock, lock, members, trash, local, history>>

\* TWI_Disposer_create
Init ==
    /\ ts = 1 /\ tmin = 0
    /\ lock = FALSE
    /\ nt = 0
    /\ tss = [i \in 0..(Cardinality(Thread) - 1) |-> Never]
    /\ cnt = [th \in Thread |-> 0]
    /\ tid = [th \in Thread |-> 0]
    /\ trash = <<>> /\ freed = {}
    /\ pc = [th \in Thread |-> "idle"]
    /\ obj = [th \in Thread |-> Nil]
    /\ old = [th \in Thread |-> Nil]
    /\ agreed = [th \in Thread |-> 0]
    /\ entry = [th \in Thread |-> 0]
    /\ holders = [o \in Obj |-> {}]
    /\ crossed = FALSE
    /\ ended = FALSE
    /\ fault = "none"

Step(th) ==
    \/ Join(th) \/ Leave(th)
    \/ Dispose(th) \/ DisposeLoad(th) \/ DisposeCas(th)
    \/ Flush(th) \/ Agree(th) \/ Check(th) \/ TryLock(th) \/ FindMin(th) \/ Collect(th)

Next == Finalize \/ \E th \in Thread : Step(th)

Spec == Init /\ [][Next]_vars

-----------------------------------------------------------------------------
Locals ==
    /\ pc \in [Thread -> {"idle", "load", "cas", "agree", "check", "try", "min"}]
    /\ obj \in [Thread -> Obj \cup {Nil}]
    /\ old \in [Thread -> Obj \cup {Nil}]
    /\ agreed \in [Thread -> 0..Never]
    /\ entry \in [Thread -> 0..nt]

\* The values the variables take: a part of FreedOnce.
TypeOK ==
    /\ ts \in 1..(MaxObj + 1) /\ tmin \in 0..ts
    /\ lock \in BOOLEAN
    /\ nt \in 0..Cardinality(Thread)
    /\ tss \in [0..(Cardinality(Thread) - 1) -> 0..Never]
    /\ cnt \in [Thread -> 0..MaxDepth]
    /\ tid \in [Thread -> 0..nt]
    /\ trash \in Seq(Obj) /\ freed \subseteq Obj
    /\ Locals
    /\ holders \in [Obj -> SUBSET Thread]
    /\ crossed \in BOOLEAN
    /\ ended \in BOOLEAN
    /\ fault \in {"none", "freed_twice", "garbage"}

\* What a thread inside may still hold is not freed before it has flushed or
\* left: however joins, leaves and flushes of others fall into the search for the
\* minimum.  It takes disposals that are put on the list in the order of their
\* time stamps, which nothing in dispose sees to.
NobodyHolds == \A o \in freed : ~ended => holders[o] = {} \/ crossed

\* No object is freed twice, and finalize leaves nothing behind that was ever
\* disposed of; k is read unset only when BIN_SIZE disposals have taken a time
\* stamp and not reached the list.
FreedOnce ==
    /\ TypeOK
    /\ fault # "freed_twice"
    /\ fault = "garbage" =>
            Cardinality({th \in Thread : pc[th] \in {"load", "cas"}}) >= BinSize
    /\ ended => freed = 1..(ts - 1)
=============================================================================
