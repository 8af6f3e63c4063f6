-------------------------------- MODULE TsVector --------------------------------
(***************************************************************************)
(* The "thread safe vector" of common/twi_ts_vector.c: the drivers keep    *)
(* their tasks, engines, dependencies and polled events in one.            *)
(*                                                                         *)
(* The lock is a read-write lock whose read side is held by push_back too: *)
(* a push claims its slot by an atomic increment of size and writes it     *)
(* later, beside other pushes and iterations.  What runs under the write   *)
(* lock is one step, as everything else that reads data or nalloc holds    *)
(* the read lock.                                                          *)
(***************************************************************************)
EXTENDS Integers, FiniteSets

CONSTANTS
    Thread,
    Item,           \* the pointers kept in the vector
    Nil,            \* what is in memory nobody has written
    InitSize,       \* TWI_VECTOR_INIT_SIZE
    Multiplier,     \* TWI_VECTOR_ALLOC_MULTIPLIER
    MaxScans        \* bound: iterations in a behaviour

ASSUME SizeAssumption == InitSize \in Nat \ {0} /\ Multiplier \in Nat \ {0, 1}
ASSUME NilAssumption == Nil \notin Item

VARIABLES
    size,           \* v->size: slots claimed
    nalloc,         \* v->nalloc
    data,           \* v->data
    readers,        \* the threads that hold v->lock for reading
    pc,             \* where thread th is
    arg,            \* the item thread th pushes
    idx,            \* the slot it has claimed
    pos,            \* the slot its iteration has come to
    bound,          \* the size its iteration loaded, -1 when it reloads end()
    seen,           \* the items its iteration has met
    used,           \* the items pushed so far
    live,           \* history: items written and not erased since
    before,         \* history: live when the iteration of th began
    overlap,        \* history: size was read, or an item erased, inside a push
    scans,          \* iterations begun so far
    fault           \* what the process died of, or "none"

shared == <<size, nalloc, data, readers>>
push   == <<arg, idx>>
scan   == <<pos, bound, seen, before, scans>>
vars   == <<shared, pc, push, scan, used, live, overlap, fault>>

At(th, l)   == pc[th] = l /\ fault = "none"
Goto(th, l) == pc' = [pc EXCEPT ![th] = l]

\* The pushes that have claimed a slot and not written it.
Pushing == {th \in Thread : pc[th] \in {"write", "full", "grown"}}

\* TWI_Ts_vectori_get_size
Size == IF size > nalloc THEN nalloc ELSE size

-----------------------------------------------------------------------------
\* TWI_Ts_vector_push_back

\* Mutant of Claim: the read lock is kept while the write lock is asked for.
ClaimHolding(th) ==
    /\ At(th, "idle")
    /\ \E x \in Item \ used :
        /\ used' = used \cup {x}
        /\ arg' = [arg EXCEPT ![th] = x]
    /\ idx' = [idx EXCEPT ![th] = size]
    /\ size' = size + 1
    /\ readers' = readers \cup {th}
    /\ Goto(th, IF size < nalloc THEN "write" ELSE "full")
    /\ UNCHANGED <<nalloc, data, scan, live, overlap, fault>>

\* The slot; a push that finds it beyond the allocation gives the lock back.
Claim(th) ==
    /\ At(th, "idle")
    /\ \E x \in Item \ used :
        /\ used' = used \cup {x}
        /\ arg' = [arg EXCEPT ![th] = x]
    /\ idx' = [idx EXCEPT ![th] = size]
    /\ size' = size + 1
    /\ \/ size < nalloc /\ Goto(th, "write") /\ readers' = readers \cup {th}
       \/ size >= nalloc /\ Goto(th, "full") /\ UNCHANGED readers
    /\ UNCHANGED <<nalloc, data, scan, live, overlap, fault>>

\* The loop of expand: nalloc, multiplied until there is room for need slots;
\* that takes less than need rounds.
Room(need) ==
    LET n[k \in 0..need] ==
            IF k = 0 THEN nalloc
            ELSE IF n[k - 1] < need THEN n[k - 1] * Multiplier ELSE n[k - 1]
    IN  n[need]

\* TWI_Ts_vectori_expand
ExpandTo(th, need) ==
    /\ At(th, "full")
    /\ readers = {}
    /\ nalloc' = Room(need)
    /\ data' = [i \in 0..(Room(need) - 1) |-> IF i < nalloc THEN data[i] ELSE Nil]
    /\ Goto(th, "grown")
    /\ UNCHANGED <<size, readers, push, scan, used, live, overlap, fault>>

\* Mutant of Expand: room for idx items, without the one that is pushed.
ExpandShort(th) == ExpandTo(th, idx[th])

Expand(th) == ExpandTo(th, idx[th] + 1)

Write(th) ==
    /\ At(th, "write") \/ At(th, "grown")
    /\ \/ /\ idx[th] < nalloc
          /\ data' = [data EXCEPT ![idx[th]] = arg[th]]
          /\ live' = live \cup {arg[th]}
          /\ Goto(th, "idle")
          /\ arg' = [arg EXCEPT ![th] = Nil]
          /\ idx' = [idx EXCEPT ![th] = 0]
          /\ readers' = readers \ {th}
          /\ UNCHANGED fault
       \/ /\ idx[th] >= nalloc
          /\ fault' = "overrun"
          /\ UNCHANGED <<data, live, pc, push, readers>>
    /\ UNCHANGED <<size, nalloc, scan, used, overlap>>

-----------------------------------------------------------------------------
\* TWI_Ts_vector_swap_erase

\* The search runs from the last slot to the first.
Found(x) == {i \in 0..(Size - 1) : data[i] = x}
Last(S)  == CHOOSE i \in S : \A j \in S : j <= i

\* Mutant of SwapErase: the last item is not moved to the free slot.
EraseKeeps(th) ==
    /\ At(th, "idle")
    /\ readers = {}
    /\ \E x \in used :
        /\ size' = IF Found(x) # {} THEN size - 1 ELSE size
        /\ live' = live \ {x}
    /\ overlap' = (overlap \/ Pushing # {})
    /\ UNCHANGED <<data, nalloc, readers, pc, push, scan, used, fault>>

SwapErase(th) ==
    /\ At(th, "idle")
    /\ readers = {}
    /\ \E x \in used :
        /\ \/ /\ Found(x) # {}
              /\ data' = [data EXCEPT ![Last(Found(x))] = data[Size - 1]]
              /\ size' = size - 1
           \/ /\ Found(x) = {}
              /\ UNCHANGED <<data, size>>
        /\ live' = live \ {x}
    /\ overlap' = (overlap \/ Pushing # {})
    /\ UNCHANGED <<nalloc, readers, pc, push, scan, used, fault>>

-----------------------------------------------------------------------------
\* An iteration by the caller, between TWI_Ts_vector_lock and unlock: an index
\* below the size loaded first (twnative_task.c:104), or a pointer that is
\* compared with end() each time (twnative_task_int.c:258).

ScanFrom(th, first) ==
    /\ At(th, "idle")
    /\ scans < MaxScans
    /\ scans' = scans + 1
    /\ readers' = readers \cup {th}
    /\ pos' = [pos EXCEPT ![th] = first]
    /\ before' = [before EXCEPT ![th] = live]
    /\ \/ /\ bound' = [bound EXCEPT ![th] = Size]
          /\ overlap' = (overlap \/ Pushing # {})
       \/ UNCHANGED <<bound, overlap>>
    /\ Goto(th, "scan")
    /\ UNCHANGED <<size, nalloc, data, push, seen, used, live, fault>>

\* Mutant of ScanBegin: the first slot is skipped.
ScanSecond(th) == ScanFrom(th, 1)

ScanBegin(th) == ScanFrom(th, 0)

Limit(th) == IF bound[th] = -1 THEN size ELSE bound[th]

\* What ends an iteration is size at that time: the reload counts as a read.
LoadsEnd(th) == overlap' = (overlap \/ (bound[th] = -1 /\ Pushing # {}))

ScanNext(th) ==
    /\ At(th, "scan")
    /\ pos[th] < Limit(th)
    /\ LoadsEnd(th)
    /\ \/ /\ pos[th] < nalloc /\ data[pos[th]] # Nil
          /\ seen' = [seen EXCEPT ![th] = @ \cup {data[pos[th]]}]
          /\ pos' = [pos EXCEPT ![th] = @ + 1]
          /\ UNCHANGED fault
       \/ /\ pos[th] < nalloc /\ data[pos[th]] = Nil
          /\ fault' = "unwritten"
          /\ UNCHANGED <<seen, pos>>
       \/ /\ pos[th] >= nalloc
          /\ fault' = "overrun"
          /\ UNCHANGED <<seen, pos>>
    /\ UNCHANGED <<shared, pc, push, bound, before, scans, used, live>>

ScanEnd(th) ==
    /\ At(th, "scan")
    /\ pos[th] >= Limit(th)
    /\ LoadsEnd(th)
    /\ Goto(th, "idle")
    /\ readers' = readers \ {th}
    /\ pos' = [pos EXCEPT ![th] = 0]
    /\ bound' = [bound EXCEPT ![th] = -1]
    /\ seen' = [seen EXCEPT ![th] = {}]
    /\ before' = [before EXCEPT ![th] = {}]
    /\ UNCHANGED <<size, nalloc, data, push, scans, used, live, fault>>

-----------------------------------------------------------------------------
\* TWI_Ts_vector_create
Init ==
    /\ size = 0
    /\ nalloc = InitSize
    /\ data = [i \in 0..(InitSize - 1) |-> Nil]
    /\ readers = {}
    /\ pc = [th \in Thread |-> "idle"]
    /\ arg = [th \in Thread |-> Nil]
    /\ idx = [th \in Thread |-> 0]
    /\ pos = [th \in Thread |-> 0]
    /\ bound = [th \in Thread |-> -1]
    /\ seen = [th \in Thread |-> {}]
    /\ before = [th \in Thread |-> {}]
    /\ scans = 0
    /\ used = {}
    /\ live = {}
    /\ overlap = FALSE
    /\ fault = "none"

\* A call that has begun goes on.
Continue(th) == Expand(th) \/ Write(th) \/ ScanNext(th) \/ ScanEnd(th)

Next == \E th \in Thread : Claim(th) \/ SwapErase(th) \/ ScanBegin(th) \/ Continue(th)

Spec == Init /\ [][Next]_vars
FairSpec == Spec /\ \A th \in Thread : WF_vars(Continue(th))

-----------------------------------------------------------------------------
\* The values the variables take: a part of Contents.
TypeOK ==
    /\ size \in Nat
    /\ nalloc \in Nat \ {0}
    /\ data \in [0..(nalloc - 1) -> Item \cup {Nil}]
    /\ readers \subseteq Thread
    /\ pc \in [Thread -> {"idle", "write", "full", "grown", "scan"}]
    /\ arg \in [Thread -> Item \cup {Nil}]
    /\ idx \in [Thread -> Nat]
    /\ pos \in [Thread -> Nat]
    /\ bound \in [Thread -> Nat \cup {-1}]
    /\ seen \in [Thread -> SUBSET Item]
    /\ before \in [Thread -> SUBSET Item]
    /\ used \subseteq Item
    /\ live \subseteq Item
    /\ overlap \in BOOLEAN
    /\ fault \in {"none", "overrun", "unwritten"}

\* However pushes interleave, grow the vector at the same time or wait for each
\* other, no two claim one slot, and every other slot below size holds one of
\* the items pushed and not erased, each of them once; and nobody writes or reads
\* beyond the allocation, or a slot nobody has written.  An iteration or an erase
\* that met a push half way may.
Contents ==
    LET claimed == {idx[th] : th \in Pushing}
        written == (0..(size - 1)) \ claimed
    IN  TypeOK /\ (~overlap =>
        /\ fault = "none"
        /\ claimed \subseteq 0..(size - 1)
        /\ Cardinality(claimed) = Cardinality(Pushing)
        /\ {i \in written : i < nalloc /\ data[i] \in live} = written
        /\ {data[i] : i \in written} = live
        /\ Cardinality(written) = Cardinality(live))

\* An iteration meets every item that was in the vector when it began.
ScansComplete ==
    [][\A th \in Thread : pc[th] = "scan" /\ pc'[th] = "idle"
            => overlap' \/ before[th] \subseteq seen[th]]_vars

\* A push returns, also when it has to wait for the write lock: nobody waits for
\* that lock with the read lock in hand.
PushReturns == \A th \in Thread : th \in Pushing ~> (pc[th] = "idle" \/ fault # "none")

=============================================================================
