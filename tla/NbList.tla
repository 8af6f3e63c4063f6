--------------------------------- MODULE NbList ---------------------------------
(***************************************************************************)
(* The non-blocking list of common/twi_nb_list.c as the argobots driver    *)
(* uses it for the tasks of an engine: commits insert at the front, the    *)
(* thread that completes a task deletes it, others iterate.                *)
(*                                                                         *)
(* A step is one access to memory that threads share.  An item stands for  *)
(* its node.  The list of deleted nodes, l->ref and recycle are left out:  *)
(* find increments l->ref a second time instead of decrementing it, so     *)
(* after the first deletion l->ref is never 0 again, recycle frees         *)
(* nothing, and a deleted node stays readable.                             *)
(***************************************************************************)
EXTENDS Integers, Sequences

CONSTANTS
    Thread,
    Item,
    Before, End,    \* &(l->head) and &(l->tail)
    Nil             \* NULL

ASSUME EndsAssumption ==
    /\ Before \notin Item /\ End \notin Item /\ Nil \notin Item
    /\ Before # End /\ Nil # Before /\ Nil # End

VARIABLES
    next,       \* the pointer of n->next
    marked,     \* its DEL_FLAG
    pc,         \* where thread th is
    node,       \* the item it inserts or deletes
    cur,        \* where its walk has come to
    pre,        \* the locals pre, next and step of del_at
    nx,
    step,
    seen,       \* the items its iteration has met
    used,       \* the items inserted so far
    order,      \* history: what has been linked, the newest last
    gone,       \* history: what has been unlinked since
    before,     \* history: what was live when the iteration of th began and still is
    overlap,    \* history: two calls of del have run at the same time
    fault       \* whether the process has followed a NULL pointer

heap    == <<next, marked>>
local   == <<pc, node, cur, pre, nx, step, seen>>
history == <<order, gone, before, overlap>>
vars    == <<heap, local, used, history, fault>>

\* The items that have been linked and are not marked.
Live == {order[i] : i \in {j \in DOMAIN order : ~marked[order[j]]}}

At(th, l)   == pc[th] = l /\ ~fault
Goto(th, l) == pc' = [pc EXCEPT ![th] = l]

Return(th) ==
    /\ Goto(th, "idle")
    /\ node' = [node EXCEPT ![th] = Nil]
    /\ cur' = [cur EXCEPT ![th] = Nil]
    /\ pre' = [pre EXCEPT ![th] = Nil]
    /\ nx' = [nx EXCEPT ![th] = Nil]
    /\ step' = [step EXCEPT ![th] = 0]
    /\ seen' = [seen EXCEPT ![th] = {}]

\* The threads in del.
Deleting == {th \in Thread : pc[th] \in {"search", "find", "load", "begin", "pre", "mark", "unlink"}}

-----------------------------------------------------------------------------
\* TWI_Nb_list_insert_front

\* The pointer of the new node, which nobody else can see yet.
Aim(th, x) ==
    /\ next' = [next EXCEPT ![x] = next[Before]]
    /\ Goto(th, "cas")

Insert(th) ==
    /\ At(th, "idle")
    /\ \E x \in Item \ used :
        /\ used' = used \cup {x}
        /\ node' = [node EXCEPT ![th] = x]
        /\ Aim(th, x)
    /\ UNCHANGED <<marked, cur, pre, nx, step, seen, history, fault>>

InsertCas(th) ==
    /\ At(th, "cas")
    /\ next[Before] = next[node[th]]
    /\ next' = [next EXCEPT ![Before] = node[th]]
    /\ order' = Append(order, node[th])
    /\ Return(th)
    /\ UNCHANGED <<marked, used, gone, before, overlap, fault>>

InsertRetry(th) ==
    /\ At(th, "cas")
    /\ next[Before] # next[node[th]]
    /\ Aim(th, node[th])
    /\ UNCHANGED <<marked, node, cur, pre, nx, step, seen, used, history, fault>>

-----------------------------------------------------------------------------
\* TWI_Nb_list_del, of an item that is, or was, in the list.

Del(th) ==
    /\ At(th, "idle")
    /\ \E x \in used : node' = [node EXCEPT ![th] = x]
    /\ Goto(th, "search")
    /\ overlap' = (overlap \/ Deleting # {})
    /\ UNCHANGED <<heap, cur, pre, nx, step, seen, used, order, gone, before, fault>>

\* TWI_Nb_list_find
FindBegin(th) ==
    /\ At(th, "search")
    /\ cur' = [cur EXCEPT ![th] = next[Before]]
    /\ Goto(th, "find")
    /\ UNCHANGED <<heap, node, pre, nx, step, seen, used, history, fault>>

Find(th) ==
    /\ At(th, "find")
    /\ cur[th] \notin {node[th], End}
    /\ cur' = [cur EXCEPT ![th] = next[cur[th]]]
    /\ UNCHANGED <<heap, pc, node, pre, nx, step, seen, used, history, fault>>

Found(th) ==
    /\ At(th, "find")
    /\ cur[th] = node[th]
    /\ Goto(th, "load")
    /\ UNCHANGED <<heap, node, cur, pre, nx, step, seen, used, history, fault>>

NotFound(th) ==
    /\ At(th, "find")
    /\ cur[th] = End
    /\ Return(th)
    /\ UNCHANGED <<heap, used, history, fault>>

-----------------------------------------------------------------------------
\* TWI_Nb_list_del_at

DelLoad(th) ==
    /\ At(th, "load")
    /\ nx' = [nx EXCEPT ![th] = next[node[th]]]
    /\ Goto(th, "begin")
    /\ UNCHANGED <<heap, node, cur, pre, step, seen, used, history, fault>>

\* TWI_Nb_list_pre
PreBegin(th) ==
    /\ At(th, "begin")
    /\ pre' = [pre EXCEPT ![th] = Before]
    /\ cur' = [cur EXCEPT ![th] = next[Before]]
    /\ Goto(th, "pre")
    /\ UNCHANGED <<heap, node, nx, step, seen, used, history, fault>>

PreNext(th) ==
    /\ At(th, "pre")
    /\ cur[th] \notin {node[th], End}
    /\ pre' = [pre EXCEPT ![th] = cur[th]]
    /\ cur' = [cur EXCEPT ![th] = next[cur[th]]]
    /\ UNCHANGED <<heap, pc, node, nx, step, seen, used, history, fault>>

PreEnd(th) ==
    /\ At(th, "pre")
    /\ cur[th] \in {node[th], End}
    /\ pre' = [pre EXCEPT ![th] = IF cur[th] = End THEN Nil ELSE @]
    /\ Goto(th, IF step[th] = 0 THEN "mark" ELSE "unlink")
    /\ UNCHANGED <<heap, node, cur, nx, step, seen, used, history, fault>>

\* Step 0; it goes on to step 1 whatever the compare-and-swap has found.
Mark(th) ==
    /\ At(th, "mark")
    /\ LET x == node[th]
       IN  \/ /\ next[x] = nx[th] /\ ~marked[x]
              /\ marked' = [marked EXCEPT ![x] = TRUE]
              /\ step' = [step EXCEPT ![th] = 1]
              /\ before' = [t \in Thread |-> before[t] \ {x}]
           \/ marked[x] /\ step' = [step EXCEPT ![th] = 5] /\ UNCHANGED <<marked, before>>
           \/ next[x] # nx[th] /\ ~marked[x] /\ UNCHANGED <<marked, step, before>>
    /\ Goto(th, "unlink")
    /\ UNCHANGED <<next, node, cur, pre, nx, seen, used, order, gone, overlap, fault>>

\* Step 1, which succeeds when pre still leads to the item and is not deleted.
Links(th) == next[pre[th]] = node[th] /\ pre[th] \notin {x \in Item : marked[x]}

\* What follows step s: another round, the end, or find again.
Goes(th, s) ==
    \/ s < 2 /\ Goto(th, "load") /\ step' = [step EXCEPT ![th] = s]
             /\ UNCHANGED <<node, cur, pre, nx, seen>>
    \/ s = 2 /\ Return(th)
    \/ s > 2 /\ Goto(th, "search") /\ step' = [step EXCEPT ![th] = 0]
             /\ UNCHANGED <<node, cur, pre, nx, seen>>

\* Mutant of UnlinkFails: the deletion is taken for done.
UnlinkGivesUp(th) ==
    /\ At(th, "unlink")
    /\ pre[th] # Nil
    /\ ~Links(th)
    /\ Goes(th, 2)
    /\ UNCHANGED <<heap, used, history, fault>>

\* Mutant of UnlinkFails: pre is not looked for again.
UnlinkRetries(th) ==
    /\ At(th, "unlink")
    /\ pre[th] # Nil
    /\ ~Links(th)
    /\ UNCHANGED vars

UnlinkTo(th, n, s) ==
    /\ At(th, "unlink")
    /\ pre[th] # Nil
    /\ Links(th)
    /\ next' = [next EXCEPT ![pre[th]] = n]
    /\ gone' = gone \cup {node[th]}
    /\ Goes(th, s)
    /\ UNCHANGED <<marked, used, order, before, overlap, fault>>

Unlink(th) == UnlinkTo(th, nx[th], step[th] + 1)

UnlinkFails(th) ==
    /\ At(th, "unlink")
    /\ pre[th] # Nil
    /\ ~Links(th)
    /\ Goes(th, step[th])
    /\ UNCHANGED <<heap, used, history, fault>>

\* &(pre->next) of no node.
UnlinkNull(th) ==
    /\ At(th, "unlink")
    /\ pre[th] = Nil
    /\ fault' = TRUE
    /\ UNCHANGED <<heap, local, used, history>>

-----------------------------------------------------------------------------
\* An iteration by the caller (TWABT_Engine_do_work).

ScanFrom(th, n) ==
    /\ At(th, "idle")
    /\ cur' = [cur EXCEPT ![th] = n]
    /\ before' = [before EXCEPT ![th] = Live]
    /\ Goto(th, "scan")
    /\ UNCHANGED <<heap, node, pre, nx, step, seen, used, order, gone, overlap, fault>>

\* Mutant of ScanBegin: TWI_Nb_list_next is called before the first item is met.
ScanSecond(th) ==
    ScanFrom(th, IF next[Before] = End THEN End ELSE next[next[Before]])

\* TWI_Nb_list_begin
ScanBegin(th) == ScanFrom(th, next[Before])

\* TWI_Nb_list_next
ScanNext(th) ==
    /\ At(th, "scan")
    /\ cur[th] # End
    /\ seen' = [seen EXCEPT ![th] = @ \cup {cur[th]}]
    /\ cur' = [cur EXCEPT ![th] = next[cur[th]]]
    /\ UNCHANGED <<heap, pc, node, pre, nx, step, used, history, fault>>

ScanEnd(th) ==
    /\ At(th, "scan")
    /\ cur[th] = End
    /\ Return(th)
    /\ before' = [before EXCEPT ![th] = {}]
    /\ UNCHANGED <<heap, used, order, gone, overlap, fault>>

-----------------------------------------------------------------------------
\* TWI_Nb_list_init
Init ==
    /\ next = [n \in Item \cup {Before} |-> End]
    /\ marked = [n \in Item |-> FALSE]
    /\ pc = [th \in Thread |-> "idle"]
    /\ node = [th \in Thread |-> Nil]
    /\ cur = [th \in Thread |-> Nil]
    /\ pre = [th \in Thread |-> Nil]
    /\ nx = [th \in Thread |-> Nil]
    /\ step = [th \in Thread |-> 0]
    /\ seen = [th \in Thread |-> {}]
    /\ used = {}
    /\ order = <<>>
    /\ gone = {}
    /\ before = [th \in Thread |-> {}]
    /\ overlap = FALSE
    /\ fault = FALSE

Continue(th) ==
    \/ InsertCas(th) \/ InsertRetry(th)
    \/ FindBegin(th) \/ Find(th) \/ Found(th) \/ NotFound(th)
    \/ DelLoad(th) \/ PreBegin(th) \/ PreNext(th) \/ PreEnd(th)
    \/ Mark(th) \/ Unlink(th) \/ UnlinkFails(th) \/ UnlinkNull(th)
    \/ ScanNext(th) \/ ScanEnd(th)

Next == \E th \in Thread : Insert(th) \/ Del(th) \/ ScanBegin(th) \/ Continue(th)

Spec == Init /\ [][Next]_vars
FairSpec == Spec /\ \A th \in Thread : WF_vars(Continue(th))

-----------------------------------------------------------------------------
Walk == Item \cup {Before, End, Nil}

\* The values the variables take: a part of Contents.
TypeOK ==
    /\ next \in [Item \cup {Before} -> Item \cup {End}]
    /\ marked \in [Item -> BOOLEAN]
    /\ pc \in [Thread -> {"idle", "cas", "search", "find", "load", "begin", "pre", "mark",
                          "unlink", "scan"}]
    /\ node \in [Thread -> Item \cup {Nil}]
    /\ cur \in [Thread -> Walk] /\ pre \in [Thread -> Walk] /\ nx \in [Thread -> Walk]
    /\ step \in [Thread -> {0, 1, 5}]
    /\ seen \in [Thread -> SUBSET Item]
    /\ used \subseteq Item
    /\ order \in Seq(Item)
    /\ gone \subseteq Item
    /\ before \in [Thread -> SUBSET Item]
    /\ overlap \in BOOLEAN /\ fault \in BOOLEAN

\* The items that are in the list, by the order in which they came, and the one of
\* them that came last before i.
Linked == {i \in DOMAIN order : order[i] \notin gone}
Older(i) ==
    LET older == {j \in Linked : j < i}
    IN  IF older = {} THEN End
        ELSE order[CHOOSE j \in older : \A k \in older : k <= j]

\* The list is the chain of what has been inserted and not deleted, whatever
\* inserts and iterations come between the two steps of one deletion, and no NULL
\* is followed on the way.
Contents ==
    TypeOK /\ (~overlap =>
        /\ ~fault
        /\ next[Before] = Older(Len(order) + 1)
        /\ \A i \in Linked : next[order[i]] = Older(i)
        /\ \A i \in DOMAIN order :
             /\ order[i] \in gone => marked[order[i]]
             /\ i \in Linked /\ marked[order[i]] => \E th \in Deleting : node[th] = order[i])

\* An iteration meets everything that was live when it began and still is, also
\* when it stands on a node that is deleted meanwhile.
ScansComplete ==
    [][\A th \in Thread : pc[th] = "scan" /\ pc'[th] = "idle"
            => overlap \/ before[th] \subseteq seen[th]]_vars

\* A deletion comes to its end beside any inserts: it is not sent round for ever.
DelReturns ==
    \A th \in Thread : pc[th] = "search" ~> pc[th] = "idle" \/ fault \/ overlap
=============================================================================
