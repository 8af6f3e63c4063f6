-------------------------------- MODULE NbQueue --------------------------------
(***************************************************************************)
(* The non-blocking queue of common/twi_nb_queue.c that holds the jobs of  *)
(* an engine.  Nodes are pushed at the head and popped at the tail; next   *)
(* leads to the older neighbour, pre to the younger one.  next is exact;   *)
(* pre and q->tail are hints that other threads may find outdated.         *)
(*                                                                         *)
(* A step is one access to memory that threads share.  q->ref and q->free  *)
(* are left out: they are written, but what read them is commented out.    *)
(***************************************************************************)
EXTENDS Integers, Sequences

CONSTANTS
    Thread,
    Node,       \* the nodes TWI_Malloc returns, each with its data
    Front,      \* &(q->head)
    Nil         \* NULL

ASSUME NodeAssumption == Front \notin Node /\ Nil \notin Node /\ Front # Nil

Linkable == Node \cup {Front}

VARIABLES
    next,       \* np->next
    pre,        \* np->pre
    nextFree,   \* np->next_free
    tail,       \* q->tail
    recycle,    \* q->recycle
    used,       \* the nodes that have been allocated
    pc,         \* where thread th is
    np,         \* the locals of push: np, and cur_next or old_next
    old,
    prev,       \* the locals of pop: prev, and tail
    last,
    cur,        \* the local of recycle_node
    out,        \* *data, Nil without success
    order,      \* history: every node linked so far, oldest first
    gone        \* history: how many of them have been unlinked

shared == <<next, pre, nextFree, tail, recycle, used>>
local  == <<pc, np, old, prev, last, cur, out>>
history == <<order, gone>>
vars   == <<shared, local, history>>

Goto(th, l) == pc' = [pc EXCEPT ![th] = l]
At(th, l)   == pc[th] = l

\* The call returns and its locals are gone.
Return(th) ==
    /\ Goto(th, "idle")
    /\ np' = [np EXCEPT ![th] = Nil]
    /\ old' = [old EXCEPT ![th] = Nil]
    /\ prev' = [prev EXCEPT ![th] = Nil]
    /\ last' = [last EXCEPT ![th] = Nil]
    /\ cur' = [cur EXCEPT ![th] = Nil]

-----------------------------------------------------------------------------
\* TWI_Nb_queue_push

Push(th) ==
    /\ At(th, "idle")
    /\ \E n \in Node \ used :
        /\ used' = used \cup {n}
        /\ np' = [np EXCEPT ![th] = n]
        /\ pre' = [pre EXCEPT ![n] = Front]
        /\ nextFree' = [nextFree EXCEPT ![n] = Nil]
    /\ Goto(th, "push_load")
    /\ UNCHANGED <<next, tail, recycle, old, prev, last, cur, out, history>>

\* The load of head.next, or the value a failed compare-and-swap found there.
Prepare(th) ==
    /\ old' = [old EXCEPT ![th] = next[Front]]
    /\ next' = [next EXCEPT ![np[th]] = next[Front]]
    /\ Goto(th, "push_cas")

PushLoad(th) ==
    /\ At(th, "push_load")
    /\ Prepare(th)
    /\ UNCHANGED <<pre, nextFree, tail, recycle, used, np, prev, last, cur, out, history>>

PushCas(th) ==
    /\ At(th, "push_cas")
    /\ next[Front] = old[th]
    /\ next' = [next EXCEPT ![Front] = np[th]]
    /\ order' = Append(order, np[th])
    /\ Goto(th, "push_reload")
    /\ UNCHANGED <<pre, nextFree, tail, recycle, used, np, old, prev, last, cur, out, gone>>

PushRetry(th) ==
    /\ At(th, "push_cas")
    /\ next[Front] # old[th]
    /\ Prepare(th)
    /\ UNCHANGED <<pre, nextFree, tail, recycle, used, np, prev, last, cur, out, history>>

PushReload(th) ==
    /\ At(th, "push_reload")
    /\ old' = [old EXCEPT ![th] = next[np[th]]]
    /\ Goto(th, "push_hint")
    /\ UNCHANGED <<shared, np, prev, last, cur, out, history>>

\* "Update pre of next", or the tail when there is none.
PushHint(th) ==
    /\ At(th, "push_hint")
    /\ IF old[th] # Nil
       THEN pre' = [pre EXCEPT ![old[th]] = np[th]] /\ UNCHANGED tail
       ELSE tail' = np[th] /\ UNCHANGED pre
    /\ Return(th)
    /\ UNCHANGED <<next, nextFree, recycle, used, out, history>>

-----------------------------------------------------------------------------
\* TWI_Nb_queue_pop

Pop(th) ==
    /\ At(th, "idle")
    /\ Goto(th, "pop_tail")
    /\ UNCHANGED <<shared, np, old, prev, last, cur, out, history>>

PopTail(th) ==
    /\ At(th, "pop_tail")
    /\ prev' = [prev EXCEPT ![th] = tail]
    /\ Goto(th, "pop_back")
    /\ UNCHANGED <<shared, np, old, last, cur, out, history>>

\* Mutant of PopBack: without a walk along pre, q->tail is trusted.
PopBackTrusting(th) ==
    /\ At(th, "pop_back")
    /\ IF next[prev[th]] # Nil \/ prev[th] # Front
       THEN /\ Goto(th, IF next[prev[th]] # Nil THEN "pop_first" ELSE "pop_tail")
            /\ UNCHANGED <<np, old, prev, last, cur, out>>
       ELSE Return(th) /\ out' = [out EXCEPT ![th] = Nil]
    /\ UNCHANGED <<shared, history>>

\* "walk backward until the first non-tail we seen".  Only the head has no pre,
\* so the queue is empty when the head has no next.
PopBack(th) ==
    /\ At(th, "pop_back")
    /\ IF next[prev[th]] # Nil \/ prev[th] # Front
       THEN /\ Goto(th, IF next[prev[th]] # Nil THEN "pop_first" ELSE "pop_pre")
            /\ UNCHANGED <<np, old, prev, last, cur, out>>
       ELSE Return(th) /\ out' = [out EXCEPT ![th] = Nil]
    /\ UNCHANGED <<shared, history>>

PopPre(th) ==
    /\ At(th, "pop_pre")
    /\ prev' = [prev EXCEPT ![th] = pre[prev[th]]]
    /\ Goto(th, "pop_back")
    /\ UNCHANGED <<shared, np, old, last, cur, out, history>>

\* prev's next may have been popped since: then look for the tail again.
PopFirst(th) ==
    /\ At(th, "pop_first")
    /\ last' = [last EXCEPT ![th] = next[prev[th]]]
    /\ Goto(th, IF next[prev[th]] = Nil THEN "pop_tail" ELSE "pop_forward")
    /\ UNCHANGED <<shared, np, old, prev, cur, out, history>>

\* Mutant of PopForward: pre is trusted to have led to the last node but one.
PopForwardNot(th) ==
    /\ At(th, "pop_forward")
    /\ Goto(th, "pop_cas")
    /\ UNCHANGED <<shared, np, old, prev, last, cur, out, history>>

\* "walk forward to reach the real tail"
PopForward(th) ==
    /\ At(th, "pop_forward")
    /\ IF next[last[th]] = Nil
       THEN Goto(th, "pop_cas") /\ UNCHANGED <<prev, last>>
       ELSE /\ prev' = [prev EXCEPT ![th] = last[th]]
            /\ last' = [last EXCEPT ![th] = next[last[th]]]
            /\ UNCHANGED pc
    /\ UNCHANGED <<shared, np, old, cur, out, history>>

PopCas(th) ==
    /\ At(th, "pop_cas")
    /\ next[prev[th]] = last[th]
    /\ next' = [next EXCEPT ![prev[th]] = Nil]
    /\ out' = [out EXCEPT ![th] = last[th]]
    /\ gone' = gone + 1
    /\ Goto(th, "pop_store")
    /\ UNCHANGED <<pre, nextFree, tail, recycle, used, np, old, prev, last, cur, order>>

PopRetry(th) ==
    /\ At(th, "pop_cas")
    /\ next[prev[th]] # last[th]
    /\ Goto(th, "pop_tail")
    /\ UNCHANGED <<shared, np, old, prev, last, cur, out, history>>

PopStore(th) ==
    /\ At(th, "pop_store")
    /\ tail' = prev[th]
    /\ Goto(th, "recycle_load")
    /\ UNCHANGED <<next, pre, nextFree, recycle, used, np, old, prev, last, cur, out, history>>

-----------------------------------------------------------------------------
\* TWI_Nb_queue_recycle_node

Chain(th) ==
    /\ cur' = [cur EXCEPT ![th] = recycle]
    /\ nextFree' = [nextFree EXCEPT ![last[th]] = recycle]
    /\ Goto(th, "recycle_cas")

RecycleLoad(th) ==
    /\ At(th, "recycle_load")
    /\ Chain(th)
    /\ UNCHANGED <<next, pre, tail, recycle, used, np, old, prev, last, out, history>>

\* Mutant of RecycleCas: the node is stored, not compared and swapped.
RecycleStore(th) ==
    /\ At(th, "recycle_cas")
    /\ recycle' = last[th]
    /\ Return(th)
    /\ UNCHANGED <<next, pre, nextFree, tail, used, out, history>>

RecycleCas(th) ==
    /\ At(th, "recycle_cas")
    /\ recycle = cur[th]
    /\ recycle' = last[th]
    /\ Return(th)
    /\ UNCHANGED <<next, pre, nextFree, tail, used, out, history>>

RecycleRetry(th) ==
    /\ At(th, "recycle_cas")
    /\ recycle # cur[th]
    /\ Chain(th)
    /\ UNCHANGED <<next, pre, tail, recycle, used, np, old, prev, last, out, history>>

-----------------------------------------------------------------------------

Init ==
    /\ next = [n \in Linkable |-> Nil]
    /\ pre = [n \in Linkable |-> Nil]
    /\ nextFree = [n \in Node |-> Nil]
    /\ tail = Front
    /\ recycle = Nil
    /\ used = {}
    /\ pc = [th \in Thread |-> "idle"]
    /\ np = [th \in Thread |-> Nil]
    /\ old = [th \in Thread |-> Nil]
    /\ prev = [th \in Thread |-> Nil]
    /\ last = [th \in Thread |-> Nil]
    /\ cur = [th \in Thread |-> Nil]
    /\ out = [th \in Thread |-> Nil]
    /\ order = <<>>
    /\ gone = 0

PushGoes(th) ==
    PushLoad(th) \/ PushCas(th) \/ PushRetry(th) \/ PushReload(th) \/ PushHint(th)

PopGoes(th) ==
    \/ PopTail(th) \/ PopBack(th) \/ PopPre(th) \/ PopFirst(th) \/ PopForward(th)
    \/ PopCas(th) \/ PopRetry(th) \/ PopStore(th)
    \/ RecycleLoad(th) \/ RecycleCas(th) \/ RecycleRetry(th)

Next == \E th \in Thread : Push(th) \/ Pop(th) \/ PushGoes(th) \/ PopGoes(th)

Spec == Init /\ [][Next]_vars

\* The operating system runs every thread that is inside a call.
FairSpec == Spec /\ \A th \in Thread : WF_vars(PushGoes(th) \/ PopGoes(th))

-----------------------------------------------------------------------------

Label == {"idle", "push_load", "push_cas", "push_reload", "push_hint",
          "pop_tail", "pop_back", "pop_pre", "pop_first", "pop_forward", "pop_cas",
          "pop_store", "recycle_load", "recycle_cas"}

\* The values the variables take.
TypeOK ==
    /\ next \in [Linkable -> Node \cup {Nil}]
    /\ pre \in [Linkable -> Linkable \cup {Nil}]
    /\ nextFree \in [Node -> Node \cup {Nil}]
    /\ tail \in Linkable
    /\ recycle \in Node \cup {Nil}
    /\ used \in SUBSET Node
    /\ pc \in [Thread -> Label]
    /\ np \in [Thread -> Node \cup {Nil}]
    /\ old \in [Thread -> Node \cup {Nil}]
    /\ prev \in [Thread -> Linkable \cup {Nil}]
    /\ last \in [Thread -> Node \cup {Nil}]
    /\ cur \in [Thread -> Node \cup {Nil}]
    /\ out \in [Thread -> Node \cup {Nil}]
    /\ order \in Seq(Node)
    /\ gone \in 0..Len(order)

\* The nodes that are or were in the queue.
Linked == {order[i] : i \in 1..Len(order)}
Link   == Linked \cup {Front}

\* What the i-th node's next must be: the node before it until that is popped.
Older(i) == IF i - 1 > gone THEN order[i - 1] ELSE Nil

\* next is exact: whatever has been pushed and popped meanwhile, it leads from
\* the head through the nodes that are queued, and from no node anywhere else.
ChainOK ==
    /\ \A i, j \in 1..Len(order) : order[i] = order[j] => i = j
    /\ next[Front] = Older(Len(order) + 1)
    /\ \A i \in 1..Len(order) : next[order[i]] = Older(i)

\* The hints may be outdated but lead nowhere else.
HintsOK ==
    /\ tail \in Link
    /\ pre[Front] = Nil
    /\ \A n \in Linked : pre[n] \in Link
    /\ Linked \subseteq used

Making(th) == pc[th] \in {"push_load", "push_cas"}

PusherOK(th) ==
    /\ Making(th) =>
        /\ np[th] \in used \ Linked
        /\ pre[np[th]] = Front
        /\ \A th2 \in Thread \ {th} : Making(th2) => np[th2] # np[th]
    /\ At(th, "push_cas") => next[np[th]] = old[th]
    /\ pc[th] \in {"push_reload", "push_hint"} => np[th] \in Linked
    /\ At(th, "push_hint") => old[th] \in Linked \cup {Nil}

PopperOK(th) ==
    /\ pc[th] \in {"pop_back", "pop_first", "pop_forward", "pop_cas", "pop_store"}
        => prev[th] \in Link
    /\ At(th, "pop_pre") => prev[th] \in Linked
    /\ pc[th] \in {"pop_forward", "pop_cas"} => last[th] \in Linked
    /\ At(th, "pop_cas") => next[last[th]] = Nil
    /\ pc[th] \in {"pop_store", "recycle_load", "recycle_cas"} => last[th] \in Node

\* What every thread has seen stays true of the links, whoever changes them in
\* the meantime: the inductive invariant of the proofs.
IInv ==
    /\ TypeOK
    /\ ChainOK
    /\ HintsOK
    /\ \A th \in Thread : PusherOK(th) /\ PopperOK(th)

\* The nodes a walk along the links finds, as TWI_Nb_queue_finalize makes it.
Walk(first, link) ==
    LET at[k \in 0..Len(order)] ==
            IF k = 0 THEN first
            ELSE IF at[k - 1] = Nil THEN Nil ELSE link[at[k - 1]]
    IN {at[k] : k \in 0..Len(order)} \ {Nil}

\* When no call is in progress, every node is in the queue or in the recycle
\* list and in one of them only: TWI_Nb_queue_finalize frees each node once.
FinalizeFreesAll ==
    (\A th \in Thread : At(th, "idle")) =>
        LET queued   == Walk(next[Front], next)
            recycled == Walk(recycle, nextFree)
        IN queued \cup recycled = used /\ queued \cap recycled = {}

\* However many threads push and pop at once, and however outdated q->tail and
\* pre are, the queue is a first-in first-out queue: pushes and pops take effect
\* at their compare-and-swap, and a pop that finds nothing found an empty queue.
Queue == INSTANCE Fifo WITH Item <- Node, items <- SubSeq(order, gone + 1, Len(order))
ImplementsFifo == Queue!Spec

\* No call is trapped in the search for the tail: every push and every pop
\* returns once the other threads stop getting in its way.
CallsReturn == \A th \in Thread : ~At(th, "idle") ~> At(th, "idle")
=============================================================================
