------------------------------ MODULE NbListProofs ------------------------------
(***************************************************************************)
(* The non-blocking list stays the chain of what has been inserted and not *)
(* deleted, as long as one deletion runs at a time, beside any inserts and *)
(* iterations, for every set of threads and items.                         *)
(*                                                                         *)
(* An item's place is the order in which it came.  The pointer of a node,  *)
(* also of one that is no longer linked, leads to an older item, past none *)
(* that is still linked (Leads): an iteration that stands on a deleted node*)
(* therefore misses nothing, and unlinking a node or putting one in front  *)
(* leaves every other pointer right.                                       *)
(***************************************************************************)
EXTENDS NbList, TLAPS

Heads == Item \cup {End}

\* n is the end or an item that is linked.
On(n) == n = End \/ \E j \in Linked : n = order[j]

\* n is what is linked below place i, if it is anything, or leads there.
Leads(n, i) ==
    \/ n = End /\ \A k \in Linked : k >= i
    \/ \E j \in DOMAIN order : n = order[j] /\ j < i /\ \A k \in Linked : k < i => k <= j

OrderOK ==
    /\ \A i, j \in DOMAIN order : order[i] = order[j] => i = j
    /\ \A i \in DOMAIN order : order[i] \in used /\ Leads(next[order[i]], i)
    /\ \A i \in Linked : On(next[order[i]])
    /\ Leads(next[Before], Len(order) + 1) /\ On(next[Before])

\* Only the item that the deletion is unlinking is marked and linked.
MarksOK ==
    /\ \A x \in Item : marked[x] => \E i \in DOMAIN order : order[i] = x
    /\ \A x \in gone : marked[x]
    /\ \A i \in Linked : marked[order[i]]
                            => \E th \in Deleting : node[th] = order[i] /\ step[th] = 1

Inserting == {th \in Thread : pc[th] = "cas"}

FreshOK ==
    /\ \A a \in Inserting : node[a] \in used /\ \A i \in DOMAIN order : order[i] # node[a]
    /\ \A a, b \in Inserting : node[a] = node[b] => a = b

Lone == \A a, b \in Deleting : a = b

At5 == {"load", "begin", "pre", "mark", "unlink"}

\* What a deletion knows.
DelOK(th) ==
    /\ step[th] \in {0, 1}
    /\ pc[th] \notin At5 => step[th] = 0
    /\ pc[th] = "find" => On(cur[th])
    /\ pc[th] \in At5 => \E k \in Linked : node[th] = order[k]
    /\ pc[th] \in {"begin", "pre", "mark", "unlink"} => nx[th] = next[node[th]]
    /\ pc[th] = "pre" => \E c, k \in Linked : /\ cur[th] = order[c] /\ node[th] = order[k]
                                              /\ k <= c
    /\ pc[th] \in {"mark", "unlink"} => cur[th] = node[th]
    /\ pc[th] \in {"pre", "mark", "unlink"} =>
         pre[th] = Before \/ \E p \in Linked : pre[th] = order[p] /\ next[pre[th]] = cur[th]
    /\ pc[th] = "mark" => step[th] = 0
    /\ pc[th] = "unlink" => step[th] = 1
    /\ step[th] = 1 => marked[node[th]]

\* What an iteration has not met it has still to come to.
ScanOK(th) ==
    pc[th] = "scan" =>
        /\ before[th] \subseteq Live
        /\ \/ cur[th] = End /\ before[th] \subseteq seen[th]
           \/ \E c \in DOMAIN order :
                /\ cur[th] = order[c]
                /\ \A k \in DOMAIN order : order[k] \in before[th]
                                            => order[k] \in seen[th] \/ k <= c

LocalOK(th) ==
    /\ pc[th] \notin {"idle", "scan"} => node[th] \in Item
    /\ pc[th] \in {"find", "pre", "scan"} => cur[th] \in Heads
    /\ pc[th] \in {"begin", "pre", "mark", "unlink"} => nx[th] \in Heads

Good ==
    /\ ~fault
    /\ OrderOK /\ MarksOK /\ FreshOK /\ Lone
    /\ \A th \in Thread : DelOK(th) /\ ScanOK(th)

ListInv == TypeOK /\ (\A th \in Thread : LocalOK(th)) /\ (~overlap => Good)

-----------------------------------------------------------------------------
LEMMA Orders ==
  ASSUME TypeOK
  PROVE  /\ DOMAIN order = 1..Len(order) /\ Len(order) \in Nat
         /\ \A i \in DOMAIN order : i \in Nat /\ order[i] \in Item /\ order[i] # End
                                    /\ order[i] # Before
         /\ Linked \subseteq DOMAIN order
         /\ \A i \in DOMAIN order : i \in Linked <=> order[i] \notin gone
  BY EndsAssumption DEF TypeOK, Linked

LEMMA DeletingIs ==
  ASSUME NEW th \in Thread
  PROVE  /\ th \in Deleting <=> pc[th] \in {"search", "find"} \cup At5
         /\ th \in Inserting <=> pc[th] = "cas"
  BY DEF Deleting, Inserting, At5

\* A step of th that leaves the list alone.
Others(th) == \A u \in Thread : u # th =>
    /\ pc'[u] = pc[u] /\ node'[u] = node[u] /\ cur'[u] = cur[u] /\ pre'[u] = pre[u]
    /\ nx'[u] = nx[u] /\ step'[u] = step[u] /\ seen'[u] = seen[u] /\ before'[u] = before[u]

LEMMA LocalKeeps ==
  ASSUME TypeOK, Good, NEW th \in Thread, Others(th), ~fault',
         UNCHANGED <<next, marked, used, order, gone>>,
         th \in Deleting' => th \in Deleting,
         th \in Inserting' => th \in Inserting /\ node'[th] = node[th],
         th \in Deleting /\ step[th] = 1 => /\ th \in Deleting'
                                          /\ node'[th] = node[th] /\ step'[th] = 1,
         DelOK(th)', ScanOK(th)'
  PROVE  Good'
<1>1. OrderOK'
  BY DEF Good, OrderOK, Leads, On, Linked
<1>2. /\ Deleting' \subseteq Deleting /\ Inserting' \subseteq Inserting
      /\ \A u \in Deleting : u # th => u \in Deleting'
  BY DEF Others, Deleting, Inserting
<1>3. MarksOK'
  <2>1. ASSUME NEW i \in Linked, marked[order[i]]
        PROVE  \E u \in Deleting' : node'[u] = order[i] /\ step'[u] = 1
    <3>1. PICK u \in Deleting : node[u] = order[i] /\ step[u] = 1
      BY <2>1 DEF Good, MarksOK
    <3>2. CASE u = th
      BY <3>1, <3>2
    <3>3. CASE u # th
      <4>1. u \in Thread
        BY DEF Deleting
      <4> QED
        BY <1>2, <3>1, <3>3, <4>1 DEF Others
    <3> QED
      BY <3>2, <3>3
  <2> QED
    BY <2>1 DEF Good, MarksOK, Linked
<1>4. FreshOK' /\ Lone'
  BY <1>2 DEF Good, FreshOK, Lone, Others, Inserting
<1>5. ASSUME NEW u \in Thread, u # th PROVE DelOK(u)' /\ ScanOK(u)'
  <2>1. DelOK(u) /\ ScanOK(u)
    BY DEF Good
  <2>2. DelOK(u)'
    BY <1>5, <2>1 DEF Others, DelOK, On, Linked
  <2>3. ScanOK(u)'
    BY <1>5, <2>1 DEF Others, ScanOK, Live
  <2> QED
    BY <2>2, <2>3
<1> QED
  BY <1>1, <1>3, <1>4, <1>5 DEF Good

\* A thread that is in no deletion and no iteration.
LEMMA IdleOK ==
  ASSUME NEW th \in Thread, step[th] = 0, pc[th] \in {"idle", "cas", "search"}
  PROVE  DelOK(th) /\ ScanOK(th)
  BY DEF DelOK, ScanOK, At5

LEMMA Returned ==
  ASSUME TypeOK, NEW th \in Thread, Return(th)
  PROVE  /\ pc' \in [Thread -> {"idle", "cas", "search", "find", "load", "begin", "pre", "mark",
                                "unlink", "scan"}]
         /\ node' \in [Thread -> Item \cup {Nil}]
         /\ cur' \in [Thread -> Walk] /\ pre' \in [Thread -> Walk] /\ nx' \in [Thread -> Walk]
         /\ step' \in [Thread -> {0, 1, 5}]
         /\ seen' \in [Thread -> SUBSET Item]
         /\ pc'[th] = "idle" /\ step'[th] = 0
         /\ \A u \in Thread : u # th =>
              /\ pc'[u] = pc[u] /\ node'[u] = node[u] /\ cur'[u] = cur[u] /\ pre'[u] = pre[u]
              /\ nx'[u] = nx[u] /\ step'[u] = step[u] /\ seen'[u] = seen[u]
  BY DEF Return, Goto, TypeOK, Walk

LEMMA LocalsKeep ==
  ASSUME \A u \in Thread : LocalOK(u), NEW th \in Thread, LocalOK(th)',
         \A u \in Thread : u # th => /\ pc'[u] = pc[u] /\ node'[u] = node[u] /\ cur'[u] = cur[u]
                                     /\ nx'[u] = nx[u]
  PROVE  \A u \in Thread : LocalOK(u)'
  BY DEF LocalOK

LEMMA NextIs ==
  ASSUME TypeOK, NEW n \in Item \cup {Before}
  PROVE  next[n] \in Heads /\ next[n] \in Walk /\ next[n] # Before /\ next[n] # Nil
  BY EndsAssumption DEF TypeOK, Walk, Heads

LEMMA InitInv == Init => ListInv
<1> SUFFICES ASSUME Init PROVE ListInv
  OBVIOUS
<1>1. /\ order = <<>> /\ order \in Seq(Item) /\ DOMAIN order = {} /\ Len(order) = 0
      /\ Deleting = {} /\ Inserting = {} /\ Linked = {}
  BY DEF Init, Deleting, Inserting, Linked
<1>2. TypeOK
  BY <1>1 DEF Init, TypeOK, Walk
<1>3. \A th \in Thread : LocalOK(th)
  <2> SUFFICES ASSUME NEW th \in Thread PROVE LocalOK(th)
    OBVIOUS
  <2>1. pc[th] = "idle"
    BY DEF Init
  <2> QED
    BY <2>1 DEF LocalOK
<1>4. next[Before] = End
  BY DEF Init
<1>5. OrderOK
  BY <1>1, <1>4 DEF OrderOK, Leads, On
<1>6. MarksOK
  BY <1>1 DEF Init, MarksOK
<1>7. FreshOK /\ Lone
  BY <1>1 DEF FreshOK, Lone
<1>8. ASSUME NEW th \in Thread
      PROVE  step[th] = 0 /\ pc[th] \in {"idle", "cas", "search"}
  BY DEF Init
<1>9. ~fault
  BY DEF Init
<1> QED
  BY <1>2, <1>3, <1>5, <1>6, <1>7, <1>8, <1>9, IdleOK DEF ListInv, Good

\* A deletion begins; it is the only one, or overlap says so.
LEMMA DelStep ==
  ASSUME ListInv, NEW th \in Thread, Del(th)
  PROVE  ListInv'
<1>1. PICK x \in used : node' = [node EXCEPT ![th] = x]
  BY DEF Del
<1>2. /\ pc[th] = "idle" /\ ~fault /\ fault' = fault /\ pc' = [pc EXCEPT ![th] = "search"]
      /\ overlap' = (overlap \/ Deleting # {})
      /\ UNCHANGED <<next, marked, cur, pre, nx, step, seen, used, order, gone, before>>
  BY DEF Del, At, Goto, heap
<1>3. TypeOK /\ x \in Item /\ \A u \in Thread : LocalOK(u)
  BY DEF ListInv, TypeOK
<1>4. TypeOK'
  BY <1>1, <1>2, <1>3 DEF TypeOK
<1>5. /\ pc'[th] = "search" /\ node'[th] = x
      /\ \A u \in Thread : u # th => pc'[u] = pc[u] /\ node'[u] = node[u]
  BY <1>1, <1>2, <1>3 DEF TypeOK
<1>6. \A u \in Thread : LocalOK(u)'
  <2>1. LocalOK(th)'
    BY <1>3, <1>5 DEF LocalOK
  <2> QED
    BY <1>2, <1>3, <1>5, <2>1, LocalsKeep
<1>7. ASSUME ~overlap' PROVE Good'
  <2>1. Good /\ Deleting = {}
    BY <1>2, <1>7 DEF ListInv
  <2>2. Deleting' = {th} /\ Inserting' = Inserting /\ th \notin Inserting
    BY <1>2, <1>5, <2>1 DEF Deleting, Inserting
  <2>3. OrderOK'
    BY <1>2, <2>1 DEF Good, OrderOK, Leads, On, Linked
  <2>4. MarksOK'
    BY <1>2, <2>1 DEF Good, MarksOK, Linked
  <2>5. FreshOK' /\ Lone'
    <3>1. \A a \in Inserting : a \in Thread /\ a # th
      BY <2>2 DEF Inserting
    <3> QED
      BY <1>2, <1>5, <2>1, <2>2, <3>1 DEF Good, FreshOK, Lone
  <2>6. step[th] = 0
    BY <1>2, <2>1 DEF Good, DelOK, At5
  <2>7. ASSUME NEW u \in Thread PROVE DelOK(u)' /\ ScanOK(u)'
    <3>1. CASE u = th
      BY <1>2, <1>5, <2>6, <3>1 DEF DelOK, ScanOK, At5
    <3>2. CASE u # th
      <4>1. DelOK(u) /\ ScanOK(u)
        BY <2>1 DEF Good
      <4>2. DelOK(u)'
        BY <1>2, <1>5, <3>2, <4>1 DEF DelOK, On, Linked
      <4>3. ScanOK(u)'
        BY <1>2, <1>5, <3>2, <4>1 DEF ScanOK, Live
      <4> QED
        BY <4>2, <4>3
    <3> QED
      BY <3>1, <3>2
  <2> QED
    BY <1>2, <2>3, <2>4, <2>5, <2>7 DEF Good
<1> QED
  BY <1>4, <1>6, <1>7 DEF ListInv

\* TWI_Nb_list_find stays in the list: nothing on its way is unlinked.
LEMMA FindBeginStep ==
  ASSUME ListInv, NEW th \in Thread, FindBegin(th)
  PROVE  ListInv'
<1>1. /\ pc[th] = "search" /\ ~fault /\ pc' = [pc EXCEPT ![th] = "find"]
      /\ cur' = [cur EXCEPT ![th] = next[Before]]
      /\ UNCHANGED <<next, marked, node, pre, nx, step, seen, used, order, gone, before, overlap,
                     fault>>
  BY DEF FindBegin, At, Goto, heap, history
<1>2. TypeOK /\ \A u \in Thread : LocalOK(u)
  BY DEF ListInv
<1>3. next[Before] \in Heads /\ next[Before] \in Walk
  BY <1>2, NextIs
<1>4. TypeOK'
  BY <1>1, <1>2, <1>3 DEF TypeOK
<1>5. /\ pc'[th] = "find" /\ cur'[th] = next[Before] /\ Others(th)
  BY <1>1, <1>2 DEF TypeOK, Others
<1>6. \A u \in Thread : LocalOK(u)'
  <2>1. LocalOK(th)'
    BY <1>1, <1>2, <1>3, <1>5 DEF LocalOK
  <2> QED
    BY <1>2, <1>5, <2>1, LocalsKeep DEF Others
<1>7. ASSUME ~overlap' PROVE Good'
  <2>1. Good
    BY <1>1, <1>7 DEF ListInv
  <2>2. step[th] = 0 /\ On(next[Before])
    BY <1>1, <2>1 DEF Good, DelOK, At5, OrderOK
  <2>3. DelOK(th)' /\ ScanOK(th)'
    BY <1>1, <1>5, <2>2 DEF DelOK, ScanOK, At5, On, Linked
  <2>4. th \in Deleting /\ th \notin Inserting'
    BY <1>1, <1>5 DEF Deleting, Inserting
  <2> QED
    BY <1>1, <1>2, <1>5, <2>1, <2>2, <2>3, <2>4, LocalKeeps DEF ListInv
<1> QED
  BY <1>4, <1>6, <1>7 DEF ListInv

LEMMA FindStep ==
  ASSUME ListInv, NEW th \in Thread, Find(th)
  PROVE  ListInv'
<1>1. /\ pc[th] = "find" /\ cur[th] \notin {node[th], End}
      /\ cur' = [cur EXCEPT ![th] = next[cur[th]]]
      /\ UNCHANGED <<next, marked, pc, node, pre, nx, step, seen, used, order, gone, before,
                     overlap, fault>>
  BY DEF Find, At, heap, history
<1>2. TypeOK /\ ~fault /\ \A u \in Thread : LocalOK(u)
  BY DEF ListInv, Find, At
<1>3. cur[th] \in Item /\ next[cur[th]] \in Heads /\ next[cur[th]] \in Walk
  <2>1. cur[th] \in Item
    BY <1>1, <1>2 DEF LocalOK, Heads
  <2> QED
    BY <1>2, <2>1, NextIs
<1>4. TypeOK'
  BY <1>1, <1>2, <1>3 DEF TypeOK
<1>5. /\ cur'[th] = next[cur[th]] /\ Others(th)
  BY <1>1, <1>2 DEF TypeOK, Others
<1>6. \A u \in Thread : LocalOK(u)'
  <2>1. LocalOK(th)'
    BY <1>1, <1>2, <1>3, <1>5 DEF LocalOK
  <2> QED
    BY <1>1, <1>2, <1>5, <2>1, LocalsKeep DEF Others
<1>7. ASSUME ~overlap' PROVE Good'
  <2>1. Good
    BY <1>1, <1>7 DEF ListInv
  <2>2. step[th] = 0 /\ On(next[cur[th]])
    BY <1>1, <2>1 DEF Good, DelOK, At5, OrderOK, On
  <2>3. DelOK(th)' /\ ScanOK(th)'
    BY <1>1, <1>5, <2>2 DEF DelOK, ScanOK, At5, On, Linked
  <2>4. th \in Deleting /\ th \notin Inserting'
    BY <1>1 DEF Deleting, Inserting
  <2> QED
    BY <1>1, <1>2, <1>5, <2>1, <2>2, <2>3, <2>4, LocalKeeps DEF ListInv
<1> QED
  BY <1>4, <1>6, <1>7 DEF ListInv

\* What is linked below a pointer's place, the pointer leads to or past.
LEMMA LeadsTo ==
  ASSUME TypeOK, OrderOK, NEW n, NEW i \in Int, Leads(n, i), On(n), NEW k \in Linked, k < i
  PROVE  \E c \in Linked : n = order[c] /\ k <= c /\ c < i
<1>1. n # End
  <2>1. CASE n = End /\ \A j \in Linked : j >= i
    BY <2>1, Orders
  <2>2. CASE \E j \in DOMAIN order : n = order[j]
    BY <2>2, Orders
  <2> QED
    BY <2>1, <2>2 DEF Leads
<1>2. PICK c \in DOMAIN order : n = order[c] /\ c < i /\ \A j \in Linked : j < i => j <= c
  BY <1>1 DEF Leads
<1>3. PICK d \in Linked : n = order[d]
  BY <1>1 DEF On
<1>4. c = d
  BY <1>2, <1>3, Orders DEF OrderOK
<1> QED
  BY <1>2, <1>3, <1>4

\* The item is in the list: del_at begins.
LEMMA FoundStep ==
  ASSUME ListInv, NEW th \in Thread, Found(th)
  PROVE  ListInv'
<1>1. /\ pc[th] = "find" /\ ~fault /\ cur[th] = node[th]
      /\ pc' = [pc EXCEPT ![th] = "load"]
      /\ UNCHANGED <<next, marked, node, cur, pre, nx, step, seen, used, order, gone, before,
                     overlap, fault>>
  BY DEF Found, At, Goto, heap, history
<1>2. TypeOK /\ \A u \in Thread : LocalOK(u)
  BY DEF ListInv
<1>3. TypeOK'
  BY <1>1, <1>2 DEF TypeOK
<1>4. pc'[th] = "load" /\ Others(th)
  BY <1>1, <1>2 DEF TypeOK, Others
<1>5. node[th] \in Item
  BY <1>1, <1>2 DEF LocalOK
<1>6. \A u \in Thread : LocalOK(u)'
  <2>1. LocalOK(th)'
    BY <1>1, <1>4, <1>5 DEF LocalOK
  <2> QED
    BY <1>1, <1>2, <1>4, <2>1, LocalsKeep DEF Others
<1>7. ASSUME ~overlap' PROVE Good'
  <2>1. Good
    BY <1>1, <1>7 DEF ListInv
  <2>2. step[th] = 0 /\ \E k \in Linked : node[th] = order[k]
    <3>1. DelOK(th)
      BY <2>1 DEF Good
    <3> QED
      BY <1>1, <1>5, <3>1, EndsAssumption DEF DelOK, At5, On
  <2>3. DelOK(th)' /\ ScanOK(th)'
    BY <1>1, <1>4, <2>2 DEF DelOK, ScanOK, At5, Linked
  <2>4. th \in Deleting /\ th \notin Inserting'
    BY <1>1, <1>4 DEF Deleting, Inserting
  <2> QED
    BY <1>1, <1>2, <1>4, <2>1, <2>2, <2>3, <2>4, LocalKeeps
<1> QED
  BY <1>3, <1>6, <1>7 DEF ListInv

LEMMA NotFoundStep ==
  ASSUME ListInv, NEW th \in Thread, NotFound(th)
  PROVE  ListInv'
<1>1. /\ pc[th] = "find" /\ ~fault /\ Return(th)
      /\ UNCHANGED <<next, marked, used, order, gone, before, overlap, fault>>
  BY DEF NotFound, At, heap, history
<1>2. TypeOK /\ \A u \in Thread : LocalOK(u)
  BY DEF ListInv
<1>3. TypeOK'
  BY <1>1, <1>2, Returned DEF TypeOK
<1>4. pc'[th] = "idle" /\ step'[th] = 0 /\ Others(th)
  BY <1>1, <1>2, Returned DEF Others
<1>6. \A u \in Thread : LocalOK(u)'
  <2>1. LocalOK(th)'
    BY <1>4 DEF LocalOK
  <2> QED
    BY <1>2, <1>4, <2>1, LocalsKeep DEF Others
<1>7. ASSUME ~overlap' PROVE Good'
  <2>1. Good
    BY <1>1, <1>7 DEF ListInv
  <2>2. step[th] = 0
    BY <1>1, <2>1 DEF Good, DelOK, At5
  <2>3. DelOK(th)' /\ ScanOK(th)'
    BY <1>4 DEF DelOK, ScanOK, At5
  <2>4. th \notin Deleting' /\ th \notin Inserting'
    BY <1>4 DEF Deleting, Inserting
  <2> QED
    BY <1>1, <1>2, <1>4, <2>1, <2>2, <2>3, <2>4, LocalKeeps
<1> QED
  BY <1>3, <1>6, <1>7 DEF ListInv

LEMMA DelLoadStep ==
  ASSUME ListInv, NEW th \in Thread, DelLoad(th)
  PROVE  ListInv'
<1>1. /\ pc[th] = "load" /\ ~fault /\ pc' = [pc EXCEPT ![th] = "begin"]
      /\ nx' = [nx EXCEPT ![th] = next[node[th]]]
      /\ UNCHANGED <<next, marked, node, cur, pre, step, seen, used, order, gone, before,
                     overlap, fault>>
  BY DEF DelLoad, At, Goto, heap, history
<1>2. TypeOK /\ \A u \in Thread : LocalOK(u)
  BY DEF ListInv
<1>3. node[th] \in Item /\ next[node[th]] \in Heads /\ next[node[th]] \in Walk
  <2>1. node[th] \in Item
    BY <1>1, <1>2 DEF LocalOK
  <2> QED
    BY <1>2, <2>1, NextIs
<1>4. TypeOK'
  BY <1>1, <1>2, <1>3 DEF TypeOK
<1>5. pc'[th] = "begin" /\ nx'[th] = next[node[th]] /\ Others(th)
  BY <1>1, <1>2 DEF TypeOK, Others
<1>6. \A u \in Thread : LocalOK(u)'
  <2>1. LocalOK(th)'
    BY <1>1, <1>3, <1>5 DEF LocalOK
  <2> QED
    BY <1>1, <1>2, <1>5, <2>1, LocalsKeep DEF Others
<1>7. ASSUME ~overlap' PROVE Good'
  <2>1. Good
    BY <1>1, <1>7 DEF ListInv
  <2>2. DelOK(th)
    BY <2>1 DEF Good
  <2>3. DelOK(th)' /\ ScanOK(th)'
    BY <1>1, <1>5, <2>2 DEF DelOK, ScanOK, At5, Linked
  <2>4. th \in Deleting' /\ th \in Deleting /\ th \notin Inserting'
    BY <1>1, <1>5 DEF Deleting, Inserting
  <2> QED
    BY <1>1, <1>2, <1>5, <2>1, <2>3, <2>4, LocalKeeps
<1> QED
  BY <1>4, <1>6, <1>7 DEF ListInv

LEMMA PreBeginStep ==
  ASSUME ListInv, NEW th \in Thread, PreBegin(th)
  PROVE  ListInv'
<1>1. /\ pc[th] = "begin" /\ ~fault /\ pc' = [pc EXCEPT ![th] = "pre"]
      /\ pre' = [pre EXCEPT ![th] = Before] /\ cur' = [cur EXCEPT ![th] = next[Before]]
      /\ UNCHANGED <<next, marked, node, nx, step, seen, used, order, gone, before,
                     overlap, fault>>
  BY DEF PreBegin, At, Goto, heap, history
<1>2. TypeOK /\ \A u \in Thread : LocalOK(u)
  BY DEF ListInv
<1>3. next[Before] \in Heads /\ next[Before] \in Walk /\ Before \in Walk
  BY <1>2, NextIs DEF Walk
<1>4. TypeOK'
  BY <1>1, <1>2, <1>3 DEF TypeOK
<1>5. pc'[th] = "pre" /\ pre'[th] = Before /\ cur'[th] = next[Before] /\ Others(th)
  BY <1>1, <1>2 DEF TypeOK, Others
<1>6. \A u \in Thread : LocalOK(u)'
  <2>1. LocalOK(th)'
    BY <1>1, <1>2, <1>3, <1>5 DEF LocalOK
  <2> QED
    BY <1>1, <1>2, <1>5, <2>1, LocalsKeep DEF Others
<1>7. ASSUME ~overlap' PROVE Good'
  <2>1. Good
    BY <1>1, <1>7 DEF ListInv
  <2>2. DelOK(th) /\ OrderOK
    BY <2>1 DEF Good
  <2>3. PICK k \in Linked : node[th] = order[k]
    BY <1>1, <2>2 DEF DelOK, At5
  <2>4. \E c \in Linked : next[Before] = order[c] /\ k <= c
    <3>1. Leads(next[Before], Len(order) + 1) /\ On(next[Before])
      BY <2>2 DEF OrderOK
    <3>2. k < Len(order) + 1 /\ Len(order) + 1 \in Int
      BY <1>2, Orders
    <3> QED
      BY <1>2, <2>2, <3>1, <3>2, LeadsTo
  <2>5. DelOK(th)' /\ ScanOK(th)'
    BY <1>1, <1>5, <2>2, <2>3, <2>4 DEF DelOK, ScanOK, At5, Linked
  <2>6. th \in Deleting' /\ th \in Deleting /\ th \notin Inserting'
    BY <1>1, <1>5 DEF Deleting, Inserting
  <2> QED
    BY <1>1, <1>2, <1>5, <2>1, <2>5, <2>6, LocalKeeps
<1> QED
  BY <1>4, <1>6, <1>7 DEF ListInv

LEMMA PreNextStep ==
  ASSUME ListInv, NEW th \in Thread, PreNext(th)
  PROVE  ListInv'
<1>1. /\ pc[th] = "pre" /\ ~fault /\ cur[th] \notin {node[th], End}
      /\ pre' = [pre EXCEPT ![th] = cur[th]] /\ cur' = [cur EXCEPT ![th] = next[cur[th]]]
      /\ UNCHANGED <<next, marked, pc, node, nx, step, seen, used, order, gone, before,
                     overlap, fault>>
  BY DEF PreNext, At, heap, history
<1>2. TypeOK /\ \A u \in Thread : LocalOK(u)
  BY DEF ListInv
<1>3. cur[th] \in Item /\ cur[th] \in Walk /\ next[cur[th]] \in Heads /\ next[cur[th]] \in Walk
  <2>1. cur[th] \in Item
    BY <1>1, <1>2 DEF LocalOK, Heads
  <2> QED
    BY <1>2, <2>1, NextIs DEF Walk
<1>4. TypeOK'
  BY <1>1, <1>2, <1>3 DEF TypeOK
<1>5. pre'[th] = cur[th] /\ cur'[th] = next[cur[th]] /\ Others(th)
  BY <1>1, <1>2 DEF TypeOK, Others
<1>6. \A u \in Thread : LocalOK(u)'
  <2>1. LocalOK(th)'
    BY <1>1, <1>2, <1>3, <1>5 DEF LocalOK
  <2> QED
    BY <1>1, <1>2, <1>5, <2>1, LocalsKeep DEF Others
<1>7. ASSUME ~overlap' PROVE Good'
  <2>1. Good
    BY <1>1, <1>7 DEF ListInv
  <2>2. DelOK(th) /\ OrderOK
    BY <2>1 DEF Good
  <2>3. PICK c \in Linked : cur[th] = order[c] /\ \E k \in Linked : node[th] = order[k] /\ k <= c
    BY <1>1, <2>2 DEF DelOK
  <2>4. PICK k \in Linked : node[th] = order[k] /\ k <= c
    BY <2>3
  <2>5. \E d \in Linked : next[cur[th]] = order[d] /\ k <= d
    <3>1. k < c /\ c \in Int
      BY <1>1, <1>2, <2>3, <2>4, Orders
    <3>2. Leads(next[order[c]], c) /\ On(next[order[c]])
      BY <1>2, <2>2, Orders DEF OrderOK
    <3> QED
      BY <1>2, <2>2, <2>3, <3>1, <3>2, LeadsTo
  <2>6. DelOK(th)' /\ ScanOK(th)'
    BY <1>1, <1>5, <2>2, <2>3, <2>4, <2>5 DEF DelOK, ScanOK, At5, Linked
  <2>7. th \in Deleting' /\ th \in Deleting /\ th \notin Inserting'
    BY <1>1, <1>5 DEF Deleting, Inserting
  <2> QED
    BY <1>1, <1>2, <1>5, <2>1, <2>6, <2>7, LocalKeeps
<1> QED
  BY <1>4, <1>6, <1>7 DEF ListInv

\* TWI_Nb_list_pre finds the item: it is not unlinked by anybody else.
LEMMA PreEndStep ==
  ASSUME ListInv, NEW th \in Thread, PreEnd(th)
  PROVE  ListInv'
<1>1. /\ pc[th] = "pre" /\ ~fault /\ cur[th] \in {node[th], End}
      /\ pre' = [pre EXCEPT ![th] = IF cur[th] = End THEN Nil ELSE @]
      /\ pc' = [pc EXCEPT ![th] = IF step[th] = 0 THEN "mark" ELSE "unlink"]
      /\ UNCHANGED <<next, marked, node, cur, nx, step, seen, used, order, gone, before,
                     overlap, fault>>
  BY DEF PreEnd, At, Goto, heap, history
<1>2. TypeOK /\ \A u \in Thread : LocalOK(u)
  BY DEF ListInv
<1>4. TypeOK'
  <2>1. pre' \in [Thread -> Walk]
    BY <1>1, <1>2 DEF TypeOK, Walk
  <2> QED
    BY <1>1, <1>2, <2>1 DEF TypeOK
<1>5. /\ pc'[th] = (IF step[th] = 0 THEN "mark" ELSE "unlink")
      /\ cur[th] # End => pre'[th] = pre[th]
      /\ Others(th)
  BY <1>1, <1>2 DEF TypeOK, Others
<1>6. \A u \in Thread : LocalOK(u)'
  <2>1. LocalOK(th)'
    BY <1>1, <1>2, <1>5 DEF LocalOK
  <2> QED
    BY <1>1, <1>2, <1>5, <2>1, LocalsKeep DEF Others
<1>7. ASSUME ~overlap' PROVE Good'
  <2>1. Good
    BY <1>1, <1>7 DEF ListInv
  <2>2. DelOK(th)
    BY <2>1 DEF Good
  <2>3. cur[th] = node[th] /\ cur[th] # End
    <3>1. cur[th] # End
      BY <1>1, <1>2, <2>2, Orders DEF DelOK
    <3> QED
      BY <1>1, <3>1
  <2>4. DelOK(th)' /\ ScanOK(th)'
    BY <1>1, <1>5, <2>2, <2>3 DEF DelOK, ScanOK, At5, Linked
  <2>5. th \in Deleting' /\ th \in Deleting /\ th \notin Inserting'
    BY <1>1, <1>5 DEF Deleting, Inserting
  <2> QED
    BY <1>1, <1>2, <1>5, <2>1, <2>4, <2>5, LocalKeeps
<1> QED
  BY <1>4, <1>6, <1>7 DEF ListInv

\* The item is marked before it is unlinked, and by this deletion.
LEMMA MarkStep ==
  ASSUME ListInv, NEW th \in Thread, Mark(th)
  PROVE  ListInv'
<1> DEFINE x == node[th]
<1>1. /\ pc[th] = "mark" /\ ~fault /\ pc' = [pc EXCEPT ![th] = "unlink"]
      /\ \/ /\ next[x] = nx[th] /\ ~marked[x]
            /\ marked' = [marked EXCEPT ![x] = TRUE]
            /\ step' = [step EXCEPT ![th] = 1]
            /\ before' = [t \in Thread |-> before[t] \ {x}]
         \/ marked[x] /\ step' = [step EXCEPT ![th] = 5] /\ UNCHANGED <<marked, before>>
         \/ next[x] # nx[th] /\ ~marked[x] /\ UNCHANGED <<marked, step, before>>
      /\ UNCHANGED <<next, node, cur, pre, nx, seen, used, order, gone, overlap, fault>>
  BY DEF Mark, At, Goto
<1>2. TypeOK /\ \A u \in Thread : LocalOK(u)
  BY DEF ListInv
<1>3. x \in Item
  BY <1>1, <1>2 DEF LocalOK
<1>4. TypeOK'
  <2>1. /\ marked' \in [Item -> BOOLEAN] /\ step' \in [Thread -> {0, 1, 5}]
        /\ before' \in [Thread -> SUBSET Item]
    <3>1. /\ marked \in [Item -> BOOLEAN] /\ step \in [Thread -> {0, 1, 5}]
          /\ before \in [Thread -> SUBSET Item]
      BY <1>2 DEF TypeOK
    <3> HIDE DEF x
    <3>2. marked' \in [Item -> BOOLEAN]
      BY <1>1, <3>1
    <3>3. step' \in [Thread -> {0, 1, 5}]
      BY <1>1, <3>1
    <3>4. before' \in [Thread -> SUBSET Item]
      BY <1>1, <3>1
    <3> QED
      BY <3>2, <3>3, <3>4
  <2> QED
    BY <1>1, <1>2, <2>1 DEF TypeOK
<1>5. pc'[th] = "unlink" /\ \A u \in Thread : u # th => pc'[u] = pc[u]
  BY <1>1, <1>2 DEF TypeOK
<1>6. \A u \in Thread : LocalOK(u)'
  <2>1. LocalOK(th)'
    BY <1>1, <1>2, <1>5 DEF LocalOK
  <2> QED
    BY <1>1, <1>2, <1>5, <2>1, LocalsKeep
<1>7. ASSUME ~overlap' PROVE Good'
  <2>1. Good
    BY <1>1, <1>7 DEF ListInv
  <2>2. DelOK(th) /\ OrderOK /\ MarksOK /\ Lone /\ th \in Deleting
    BY <1>1, <2>1 DEF Good, Deleting
  <2>3. PICK k \in Linked : x = order[k]
    BY <1>1, <2>2 DEF DelOK, At5
  <2>4. step[th] = 0 /\ nx[th] = next[x]
    BY <1>1, <2>2 DEF DelOK
  <2>5. ~marked[x]
    BY <2>2, <2>3, <2>4 DEF MarksOK, Lone
  <2>6. /\ marked' = [marked EXCEPT ![x] = TRUE] /\ step' = [step EXCEPT ![th] = 1]
        /\ before' = [t \in Thread |-> before[t] \ {x}]
    BY <1>1, <2>4, <2>5
  <2> HIDE DEF x
  <2>7. /\ marked'[x] /\ \A y \in Item : y # x => marked'[y] = marked[y]
        /\ step'[th] = 1 /\ \A u \in Thread : u # th => step'[u] = step[u]
        /\ \A u \in Thread : before'[u] = before[u] \ {x}
    BY <1>2, <1>3, <2>6 DEF TypeOK
  <2>8. Deleting' = Deleting /\ Inserting' = Inserting
    BY <1>1, <1>5 DEF Deleting, Inserting
  <2>9. OrderOK' /\ FreshOK' /\ Lone'
    BY <1>1, <2>1, <2>8 DEF Good, OrderOK, FreshOK, Lone, Leads, On, Linked
  <2>10. MarksOK'
    <3>1. \A i \in DOMAIN order : order[i] \in Item
      BY <1>2, Orders
    <3>2. \A y \in gone : y \in Item
      BY <1>2 DEF TypeOK
    <3>3. \A y \in Item : marked'[y] => \E i \in DOMAIN order : order[i] = y
      BY <1>2, <2>2, <2>3, <2>7, Orders DEF MarksOK
    <3>4. \A y \in gone : marked'[y]
      BY <2>2, <2>7, <3>2 DEF MarksOK
    <3>5. ASSUME NEW i \in Linked, marked'[order[i]]
          PROVE  \E u \in Deleting' : node'[u] = order[i] /\ step'[u] = 1
      <4>1. CASE order[i] = x
        BY <1>1, <2>2, <2>7, <2>8, <4>1 DEF x
      <4>2. CASE order[i] # x
        <5>1. marked[order[i]]
          BY <1>2, <2>7, <3>1, <3>5, <4>2, Orders
        <5>2. \E u \in Deleting : node[u] = order[i] /\ step[u] = 1
          BY <2>2, <5>1 DEF MarksOK
        <5> QED
          BY <2>2, <2>4, <5>2 DEF Lone
      <4> QED
        BY <4>1, <4>2
    <3> QED
      BY <1>1, <3>3, <3>4, <3>5 DEF MarksOK, Linked
  <2>11. ASSUME NEW u \in Thread PROVE ScanOK(u)'
    <3>1. ScanOK(u)
      BY <2>1 DEF Good
    <3>2. CASE u = th
      BY <1>5, <3>2 DEF ScanOK
    <3>3. CASE u # th /\ pc[u] = "scan"
      <4>1. before'[u] \subseteq Live'
        <5>1. ASSUME NEW y \in Live, y # x PROVE y \in Live'
          <6>1. PICK i \in DOMAIN order : y = order[i] /\ ~marked[y]
            BY <5>1 DEF Live
          <6>2. ~marked'[y]
            BY <1>2, <2>7, <5>1, <6>1, Orders
          <6> QED
            BY <1>1, <6>1, <6>2 DEF Live
        <5> QED
          BY <2>7, <3>1, <3>3, <5>1 DEF ScanOK
      <4> QED
        BY <1>1, <1>5, <2>7, <3>1, <3>3, <4>1 DEF ScanOK
    <3>4. CASE u # th /\ pc[u] # "scan"
      BY <1>5, <3>4 DEF ScanOK
    <3> QED
      BY <3>2, <3>3, <3>4
  <2>12. ASSUME NEW u \in Thread PROVE DelOK(u)'
    <3>1. DelOK(u)
      BY <2>1 DEF Good
    <3>2. CASE u = th
      <4>1. Linked' = Linked
        BY <1>1 DEF Linked
      <4> QED
        BY <1>1, <1>5, <2>2, <2>4, <2>7, <3>2, <4>1 DEF DelOK, At5, x
    <3>3. CASE u # th
      <4>1. step[u] = 0
        <5>1. u \notin Deleting
          BY <2>2, <3>3 DEF Lone
        <5> QED
          BY <3>1, <5>1 DEF DelOK, At5, Deleting
      <4> QED
        BY <1>1, <1>5, <2>7, <3>1, <3>3, <4>1 DEF DelOK, On, Linked
    <3> QED
      BY <3>2, <3>3
  <2> QED
    BY <1>1, <2>9, <2>10, <2>11, <2>12 DEF Good
<1> QED
  BY <1>4, <1>6, <1>7 DEF ListInv

\* Somebody has put a node in front of the item meanwhile: another round.
LEMMA UnlinkFailsStep ==
  ASSUME ListInv, NEW th \in Thread, UnlinkFails(th)
  PROVE  ListInv'
<1>1. /\ pc[th] = "unlink" /\ ~fault /\ Goes(th, step[th])
      /\ UNCHANGED <<next, marked, used, order, gone, before, overlap, fault>>
  BY DEF UnlinkFails, At, heap, history
<1>2. TypeOK /\ (\A u \in Thread : LocalOK(u)) /\ step[th] \in {0, 1, 5}
  BY DEF ListInv, TypeOK
<1>3. \/ /\ step[th] < 2 /\ pc' = [pc EXCEPT ![th] = "load"]
         /\ step' = [step EXCEPT ![th] = step[th]] /\ UNCHANGED <<node, cur, pre, nx, seen>>
      \/ /\ step[th] > 2 /\ pc' = [pc EXCEPT ![th] = "search"]
         /\ step' = [step EXCEPT ![th] = 0] /\ UNCHANGED <<node, cur, pre, nx, seen>>
  BY <1>1, <1>2 DEF Goes, Goto
<1>4. TypeOK'
  BY <1>1, <1>2, <1>3 DEF TypeOK
<1>5. /\ pc'[th] \in {"load", "search"} /\ node' = node /\ cur' = cur /\ nx' = nx
      /\ step[th] < 2 => pc'[th] = "load" /\ step'[th] = step[th]
      /\ Others(th)
  BY <1>1, <1>2, <1>3 DEF TypeOK, Others
<1>6. \A u \in Thread : LocalOK(u)'
  <2>1. LocalOK(th)'
    BY <1>1, <1>2, <1>5 DEF LocalOK
  <2> QED
    BY <1>2, <1>5, <2>1, LocalsKeep DEF Others
<1>7. ASSUME ~overlap' PROVE Good'
  <2>1. Good
    BY <1>1, <1>7 DEF ListInv
  <2>2. DelOK(th)
    BY <2>1 DEF Good
  <2>3. pc'[th] = "load" /\ step'[th] = 1 /\ step[th] = 1
    BY <1>1, <1>5, <2>2 DEF DelOK
  <2>4. DelOK(th)' /\ ScanOK(th)'
    BY <1>1, <1>5, <2>2, <2>3 DEF DelOK, ScanOK, At5, Linked
  <2>5. th \in Deleting' /\ th \in Deleting /\ th \notin Inserting'
    BY <1>1, <2>3 DEF Deleting, Inserting
  <2> QED
    BY <1>1, <1>2, <1>5, <2>1, <2>3, <2>4, <2>5, LocalKeeps
<1> QED
  BY <1>4, <1>6, <1>7 DEF ListInv

\* The node before an item is Before or linked, never NULL.
LEMMA UnlinkNullStep ==
  ASSUME ListInv, NEW th \in Thread, UnlinkNull(th)
  PROVE  ListInv'
<1>1. /\ pc[th] = "unlink" /\ pre[th] = Nil /\ fault' = TRUE
      /\ UNCHANGED <<next, marked, pc, node, cur, pre, nx, step, seen, used, order, gone, before,
                     overlap>>
  BY DEF UnlinkNull, At, heap, local, history
<1>2. TypeOK /\ \A u \in Thread : LocalOK(u)
  BY DEF ListInv
<1>3. TypeOK' /\ \A u \in Thread : LocalOK(u)'
  BY <1>1, <1>2 DEF TypeOK, LocalOK
<1>4. overlap
  <2> SUFFICES ASSUME ~overlap PROVE FALSE
    OBVIOUS
  <2>1. DelOK(th)
    BY DEF ListInv, Good
  <2>2. pre[th] = Before \/ \E p \in Linked : pre[th] = order[p]
    BY <1>1, <2>1 DEF DelOK
  <2>3. \A p \in Linked : order[p] \in Item
    BY <1>2, Orders
  <2> QED
    BY <1>1, <2>2, <2>3, EndsAssumption
<1> QED
  BY <1>1, <1>3, <1>4 DEF ListInv

\* Two pointers of the list do not lead to the same item.
LEMMA OneLeads ==
  ASSUME TypeOK, OrderOK, NEW k \in Linked, NEW i \in Linked, NEW j \in Int,
         Leads(order[k], i), Leads(order[k], j)
  PROVE  i >= j
<1>1. /\ i \in Int /\ k \in DOMAIN order /\ order[k] # End
      /\ \A c \in DOMAIN order : order[c] = order[k] => c = k
  BY Orders DEF OrderOK
<1>2. k < i /\ \A m \in Linked : m < j => m <= k
  BY <1>1 DEF Leads
<1> QED
  BY <1>1, <1>2, Orders

\* What led past item k still leads to or past what is below it.
LEMMA SkipLeads ==
  ASSUME TypeOK, OrderOK, NEW k \in Linked, order' = order, Linked' = Linked \ {k},
         NEW n, NEW i \in Int
  PROVE  /\ Leads(n, i) => Leads(n, i)'
         /\ Leads(n, k) /\ Leads(order[k], i) => Leads(n, i)'
<1>1. /\ k \in DOMAIN order /\ k \in Int /\ order[k] # End
      /\ \A c \in DOMAIN order : c \in Int /\ (order[c] = order[k] => c = k)
      /\ \A c \in Linked : c \in DOMAIN order
  BY Orders DEF OrderOK
<1>2. Leads(n, i) => Leads(n, i)'
  BY DEF Leads
<1>3. ASSUME Leads(n, k), Leads(order[k], i) PROVE Leads(n, i)'
  <2>1. k < i /\ \A m \in Linked : m < i => m <= k
    BY <1>1, <1>3 DEF Leads
  <2>2. CASE n = End /\ \A m \in Linked : m >= k
    <3>1. \A m \in Linked' : m >= i
      BY <1>1, <2>1, <2>2
    <3> QED
      BY <2>2, <3>1 DEF Leads
  <2>3. CASE \E j \in DOMAIN order : n = order[j] /\ j < k /\ \A m \in Linked : m < k => m <= j
    <3>1. PICK j \in DOMAIN order : n = order[j] /\ j < k /\ \A m \in Linked : m < k => m <= j
      BY <2>3
    <3>2. j < i /\ \A m \in Linked' : m < i => m <= j
      BY <1>1, <2>1, <3>1
    <3> QED
      BY <3>1, <3>2 DEF Leads
  <2> QED
    BY <1>3, <2>2, <2>3 DEF Leads
<1> QED
  BY <1>2, <1>3

\* The item is unlinked: the node before it leads to the one after it.
LEMMA UnlinkOrder ==
  ASSUME TypeOK, OrderOK, order' = order, used' = used, NEW k \in Linked, NEW q \in Item \cup {Before},
         q = Before \/ (\E p \in Linked : q = order[p]), next[q] = order[k],
         next' = [next EXCEPT ![q] = next[order[k]]], gone' = gone \cup {order[k]}
  PROVE  OrderOK' /\ Linked' = Linked \ {k}
<1> DEFINE x == order[k]
<1>1. /\ \A i \in DOMAIN order : /\ i \in Int /\ order[i] \in Item /\ order[i] # Before
                                 /\ order[i] \in used
                                 /\ \A j \in DOMAIN order : order[i] = order[j] => i = j
      /\ Linked \subseteq DOMAIN order /\ Len(order) + 1 \in Int
      /\ \A i \in DOMAIN order : i < Len(order) + 1
  BY Orders DEF OrderOK
<1>2. Linked' = Linked \ {k}
  BY <1>1 DEF Linked
<1>3. /\ next'[q] = next[x]
      /\ \A n \in Item \cup {Before} : n # q => next'[n] = next[n]
  BY DEF TypeOK
<1> HIDE DEF x
<1>4. PICK y : y = next[x] /\ Leads(y, k) /\ On(y)
  BY <1>1 DEF OrderOK, x
<1>5. On(y)'
  <2>1. y # x
    BY <1>1, <1>4, Orders DEF Leads, x
  <2> QED
    BY <1>1, <1>2, <1>4, <2>1 DEF On, x
<1>6. ASSUME NEW i \in DOMAIN order PROVE Leads(next[order[i]], i)'
  <2>1. PICK n : n = next[order[i]] /\ Leads(n, i)
    BY DEF OrderOK
  <2>2. CASE order[i] = q
    <3>1. Leads(y, i)'
      BY <1>1, <1>2, <1>4, <2>1, <2>2, SkipLeads DEF x
    <3> QED
      BY <1>3, <1>4, <2>2, <3>1 DEF Leads
  <2>3. CASE order[i] # q
    <3>1. Leads(n, i)'
      BY <1>1, <1>2, <2>1, SkipLeads
    <3>2. next'[order[i]] = n
      BY <1>1, <1>3, <2>1, <2>3
    <3> QED
      BY <3>1, <3>2 DEF Leads
  <2> QED
    BY <2>2, <2>3
<1>7. Leads(next[Before], Len(order) + 1)'
  <2>1. PICK n : n = next[Before] /\ Leads(n, Len(order) + 1) /\ Len(order') = Len(order)
    BY DEF OrderOK
  <2>2. PICK m : m = Len(order) + 1
    OBVIOUS
  <2>3. CASE q = Before
    <3>1. Leads(y, m)'
      BY <1>1, <1>2, <1>4, <2>1, <2>2, <2>3, SkipLeads DEF x
    <3> QED
      BY <1>3, <1>4, <2>1, <2>2, <2>3, <3>1 DEF Leads
  <2>4. CASE q # Before
    <3>1. Leads(n, m)'
      BY <1>1, <1>2, <2>1, <2>2, SkipLeads
    <3>2. next'[Before] = n
      BY <1>3, <2>1, <2>4
    <3> QED
      BY <2>1, <2>2, <3>1, <3>2 DEF Leads
  <2> QED
    BY <2>3, <2>4
<1>8. ASSUME NEW i \in Linked' PROVE On(next[order[i]])'
  <2>1. /\ i \in Linked /\ i # k /\ i \in DOMAIN order /\ Leads(next[order[i]], i)
        /\ On(next[order[i]])
    BY <1>1, <1>2 DEF OrderOK
  <2>2. CASE order[i] = q
    BY <1>3, <1>4, <1>5, <2>1, <2>2 DEF On
  <2>3. CASE order[i] # q
    <3>1. next'[order[i]] = next[order[i]]
      BY <1>1, <1>3, <2>1, <2>3
    <3>2. next[order[i]] # x
      <4> SUFFICES ASSUME next[order[i]] = x PROVE FALSE
        OBVIOUS
      <4>1. Leads(x, i)
        BY <2>1
      <4>2. CASE q = Before
        <5>1. Leads(x, Len(order) + 1)
          BY <4>2 DEF OrderOK, x
        <5>2. i >= Len(order) + 1
          BY <1>1, <2>1, <4>1, <5>1, OneLeads DEF x
        <5> QED
          BY <1>1, <2>1, <5>2
      <4>3. CASE \E p \in Linked : q = order[p]
        <5>1. PICK p \in Linked : q = order[p]
          BY <4>3
        <5>2. Leads(x, p) /\ p # i /\ p \in Int /\ i \in Int
          BY <1>1, <2>1, <2>3, <5>1 DEF OrderOK, x
        <5>3. i >= p
          BY <2>1, <4>1, <5>2, OneLeads DEF x
        <5>4. p >= i
          BY <2>1, <4>1, <5>2, OneLeads DEF x
        <5> QED
          BY <5>2, <5>3, <5>4
      <4> QED
        BY <4>2, <4>3
    <3> QED
      BY <1>1, <1>2, <2>1, <3>1, <3>2 DEF On, x
  <2> QED
    BY <2>2, <2>3
<1>9. On(next[Before])'
  <2>1. On(next[Before]) /\ Leads(next[Before], Len(order) + 1)
    BY DEF OrderOK
  <2>2. CASE q = Before
    BY <1>3, <1>4, <1>5, <2>2 DEF On
  <2>3. CASE q # Before
    <3>1. next'[Before] = next[Before]
      BY <1>3, <2>3
    <3>2. next[Before] # x
      <4> SUFFICES ASSUME next[Before] = x PROVE FALSE
        OBVIOUS
      <4>1. PICK p \in Linked : q = order[p]
        BY <2>3
      <4>2. Leads(x, p) /\ Leads(x, Len(order) + 1) /\ p \in Int /\ p < Len(order) + 1
        BY <1>1, <2>1, <4>1 DEF OrderOK, x
      <4>3. p >= Len(order) + 1
        BY <1>1, <4>2, OneLeads DEF x
      <4> QED
        BY <1>1, <4>2, <4>3
    <3> QED
      BY <1>1, <1>2, <2>1, <3>1, <3>2 DEF On, x
  <2> QED
    BY <2>2, <2>3
<1> QED
  BY <1>1, <1>2, <1>6, <1>7, <1>8, <1>9 DEF OrderOK

LEMMA UnlinkStep ==
  ASSUME ListInv, NEW th \in Thread, Unlink(th)
  PROVE  ListInv'
<1> DEFINE x == node[th]
           q == pre[th]
<1>1. /\ pc[th] = "unlink" /\ ~fault /\ q # Nil /\ next[q] = x
      /\ next' = [next EXCEPT ![q] = nx[th]] /\ gone' = gone \cup {x}
      /\ Goes(th, step[th] + 1)
      /\ UNCHANGED <<marked, used, order, before, overlap, fault>>
  BY DEF Unlink, UnlinkTo, Links, At
<1>2. TypeOK /\ (\A u \in Thread : LocalOK(u)) /\ step[th] \in {0, 1, 5}
  BY DEF ListInv, TypeOK
<1>3. x \in Item /\ nx[th] \in Heads
  BY <1>1, <1>2 DEF LocalOK
<1>4. \/ /\ step[th] = 0 /\ pc' = [pc EXCEPT ![th] = "load"]
         /\ step' = [step EXCEPT ![th] = 1] /\ UNCHANGED <<node, cur, pre, nx, seen>>
      \/ step[th] = 1 /\ Return(th)
      \/ /\ step[th] = 5 /\ pc' = [pc EXCEPT ![th] = "search"]
         /\ step' = [step EXCEPT ![th] = 0] /\ UNCHANGED <<node, cur, pre, nx, seen>>
  BY <1>1, <1>2 DEF Goes, Goto
<1>5. TypeOK'
  <2>1. next' \in [Item \cup {Before} -> Item \cup {End}] /\ gone' \subseteq Item
    <3> HIDE DEF x, q
    <3> QED
      BY <1>1, <1>2, <1>3 DEF TypeOK, Heads
  <2>2. CASE Return(th)
    BY <1>1, <1>2, <2>1, <2>2, Returned DEF TypeOK
  <2>3. CASE ~Return(th)
    BY <1>1, <1>2, <1>4, <2>1, <2>3 DEF TypeOK
  <2> QED
    BY <2>2, <2>3
<1>6. /\ pc'[th] \in {"load", "search", "idle"}
      /\ pc'[th] # "idle" => node' = node
      /\ step[th] = 1 => pc'[th] = "idle" /\ step'[th] = 0
      /\ Others(th)
  <2>1. CASE Return(th)
    BY <1>1, <1>2, <2>1, Returned DEF Others
  <2>2. CASE ~Return(th)
    BY <1>1, <1>2, <1>4, <2>2 DEF TypeOK, Others
  <2> QED
    BY <2>1, <2>2
<1>7. \A u \in Thread : LocalOK(u)'
  <2>1. LocalOK(th)'
    BY <1>3, <1>6 DEF LocalOK
  <2> QED
    BY <1>2, <1>6, <2>1, LocalsKeep DEF Others
<1>8. ASSUME ~overlap' PROVE Good'
  <2>1. Good
    BY <1>1, <1>8 DEF ListInv
  <2>2. DelOK(th) /\ OrderOK /\ MarksOK /\ FreshOK /\ Lone
    BY <2>1 DEF Good
  <2>3. /\ step[th] = 1 /\ marked[x] /\ nx[th] = next[x]
        /\ pc'[th] = "idle" /\ step'[th] = 0
    BY <1>1, <1>6, <2>2 DEF DelOK
  <2>4. PICK k \in Linked : x = order[k]
    BY <1>1, <2>2 DEF DelOK, At5
  <2>5. q = Before \/ \E p \in Linked : q = order[p]
    BY <1>1, <2>2 DEF DelOK
  <2>6. q \in Item \cup {Before}
    BY <1>2, <2>5, Orders
  <2> HIDE DEF x, q
  <2>7. OrderOK' /\ Linked' = Linked \ {k}
    BY <1>1, <1>2, <2>2, <2>3, <2>4, <2>5, <2>6, UnlinkOrder
  <2>8. Deleting = {th} /\ Deleting' = {} /\ Inserting' = Inserting /\ th \notin Inserting
    BY <1>1, <1>6, <2>2, <2>3 DEF Deleting, Inserting, Others, Lone
  <2>9. MarksOK'
    <3>1. \A y \in gone' : marked'[y]
      BY <1>1, <2>2, <2>3 DEF MarksOK
    <3>2. ASSUME NEW i \in Linked', marked[order[i]] PROVE FALSE
      <4>1. i \in Linked /\ i # k
        BY <2>7
      <4>2. x = order[i]
        BY <2>2, <2>8, <3>2, <4>1 DEF MarksOK, x
      <4> QED
        BY <1>2, <2>2, <2>4, <4>1, <4>2, Orders DEF OrderOK
    <3> QED
      BY <1>1, <2>2, <3>1, <3>2 DEF MarksOK
  <2>10. FreshOK' /\ Lone'
    BY <1>1, <1>6, <2>2, <2>8 DEF FreshOK, Lone, Others, Inserting
  <2>11. ASSUME NEW u \in Thread PROVE DelOK(u)' /\ ScanOK(u)'
    <3>1. CASE u = th
      BY <2>3, <3>1 DEF DelOK, ScanOK, At5
    <3>2. CASE u # th
      <4>1. DelOK(u) /\ ScanOK(u)
        BY <2>1 DEF Good
      <4>2. u \notin Deleting /\ pc'[u] = pc[u] /\ step'[u] = step[u]
        BY <1>6, <2>8, <3>2 DEF Others
      <4>3. DelOK(u)'
        BY <4>1, <4>2 DEF DelOK, At5, Deleting
      <4>4. ScanOK(u)'
        BY <1>1, <1>6, <3>2, <4>1 DEF Others, ScanOK, Live
      <4> QED
        BY <4>3, <4>4
    <3> QED
      BY <3>1, <3>2
  <2> QED
    BY <1>1, <2>7, <2>9, <2>10, <2>11 DEF Good
<1> QED
  BY <1>5, <1>7, <1>8 DEF ListInv

\* The pointer of a node that is not linked yet is nobody else's.
LEMMA AimOrder ==
  ASSUME TypeOK, OrderOK, order' = order, gone' = gone, used \subseteq used', NEW x \in Item,
         \A i \in DOMAIN order : order[i] # x, NEW n \in Heads, next' = [next EXCEPT ![x] = n]
  PROVE  /\ OrderOK' /\ next'[Before] = next[Before]
         /\ \A i \in DOMAIN order : next'[order[i]] = next[order[i]]
<1>1. x # Before
  BY EndsAssumption
<1>2. /\ next'[Before] = next[Before]
      /\ \A i \in DOMAIN order : next'[order[i]] = next[order[i]]
  BY <1>1, Orders DEF TypeOK
<1> QED
  BY <1>2, Orders DEF OrderOK, On, Leads, Linked

\* A step of an insertion before its node is linked.
LEMMA AimKeeps ==
  ASSUME TypeOK, Good, NEW th \in Thread, Others(th), ~fault', NEW x \in Item,
         th \notin Deleting, pc[th] # "scan", pc'[th] = "cas", node'[th] = x, step' = step,
         \A i \in DOMAIN order : order[i] # x, NEW n \in Heads, next' = [next EXCEPT ![x] = n],
         UNCHANGED <<marked, order, gone>>, used' = used \cup {x},
         \A a \in Inserting : a # th => node[a] # x
  PROVE  Good'
<1>1. OrderOK' /\ MarksOK /\ FreshOK /\ Lone /\ Linked' = Linked
  <2>1. OrderOK' /\ OrderOK
    BY AimOrder DEF Good
  <2> QED
    BY <2>1 DEF Good, Linked
<1>2. /\ next'[Before] = next[Before]
      /\ \A i \in DOMAIN order : next'[order[i]] = next[order[i]]
  BY AimOrder DEF Good
<1>3. Deleting' = Deleting /\ Inserting' = Inserting \cup {th}
  BY DEF Others, Deleting, Inserting
<1>4. MarksOK'
  <2>1. ASSUME NEW i \in Linked, marked[order[i]]
        PROVE  \E u \in Deleting' : node'[u] = order[i] /\ step'[u] = 1
    <3>1. PICK u \in Deleting : node[u] = order[i] /\ step[u] = 1
      BY <1>1, <2>1 DEF MarksOK
    <3>2. u # th /\ u \in Thread
      BY DEF Deleting
    <3> QED
      BY <1>3, <3>1, <3>2 DEF Others
  <2> QED
    BY <1>1, <2>1 DEF MarksOK
<1>5. FreshOK' /\ Lone'
  <2>1. \A a \in Inserting : a \in Thread
    BY DEF Inserting
  <2>2. \A a \in Inserting : a # th => node'[a] = node[a]
    BY <2>1 DEF Others
  <2> QED
    BY <1>1, <1>3, <2>2 DEF FreshOK, Lone
<1>6. ASSUME NEW u \in Thread PROVE DelOK(u)' /\ ScanOK(u)'
  <2>1. DelOK(u) /\ ScanOK(u)
    BY DEF Good
  <2>2. CASE u = th
    <3>1. step[th] = 0
      BY <2>1, <2>2 DEF DelOK, At5, Deleting
    <3> QED
      BY <2>2, <3>1 DEF DelOK, ScanOK, At5
  <2>3. CASE u # th
    <3>1. DelOK(u)'
      <4>1. \A i \in Linked : next'[order[i]] = next[order[i]]
        BY <1>2 DEF Linked
      <4> QED
        BY <1>1, <2>1, <2>3, <4>1 DEF Others, DelOK, At5, On
    <3>2. ScanOK(u)'
      BY <2>1, <2>3 DEF Others, ScanOK, Live
    <3> QED
      BY <3>1, <3>2
  <2> QED
    BY <2>2, <2>3
<1> QED
  BY <1>1, <1>4, <1>5, <1>6 DEF Good

LEMMA InsertStep ==
  ASSUME ListInv, NEW th \in Thread, Insert(th)
  PROVE  ListInv'
<1>1. PICK x \in Item \ used : /\ used' = used \cup {x}
                               /\ node' = [node EXCEPT ![th] = x] /\ Aim(th, x)
  BY DEF Insert
<1>2. /\ pc[th] = "idle" /\ ~fault /\ pc' = [pc EXCEPT ![th] = "cas"]
      /\ next' = [next EXCEPT ![x] = next[Before]]
      /\ UNCHANGED <<marked, cur, pre, nx, step, seen, order, gone, before, overlap, fault>>
  BY <1>1 DEF Insert, At, Aim, Goto, history
<1>3. TypeOK /\ \A u \in Thread : LocalOK(u)
  BY DEF ListInv
<1>4. next[Before] \in Heads
  BY <1>3, NextIs
<1>5. TypeOK'
  BY <1>1, <1>2, <1>3, <1>4 DEF TypeOK, Heads
<1>6. pc'[th] = "cas" /\ node'[th] = x /\ Others(th)
  BY <1>1, <1>2, <1>3 DEF TypeOK, Others
<1>7. \A u \in Thread : LocalOK(u)'
  <2>1. LocalOK(th)'
    BY <1>1, <1>6 DEF LocalOK
  <2> QED
    BY <1>3, <1>6, <2>1, LocalsKeep DEF Others
<1>8. ASSUME ~overlap' PROVE Good'
  <2>1. Good /\ OrderOK /\ FreshOK
    BY <1>2, <1>8 DEF ListInv, Good
  <2>2. (\A i \in DOMAIN order : order[i] # x) /\ \A a \in Inserting : node[a] # x
    BY <1>1, <2>1 DEF OrderOK, FreshOK
  <2>3. th \notin Deleting
    BY <1>2 DEF Deleting
  <2> QED
    BY <1>1, <1>2, <1>3, <1>4, <1>6, <2>1, <2>2, <2>3, AimKeeps
<1> QED
  BY <1>5, <1>7, <1>8 DEF ListInv

LEMMA InsertRetryStep ==
  ASSUME ListInv, NEW th \in Thread, InsertRetry(th)
  PROVE  ListInv'
<1>2. /\ pc[th] = "cas" /\ ~fault /\ pc' = [pc EXCEPT ![th] = "cas"]
      /\ next' = [next EXCEPT ![node[th]] = next[Before]]
      /\ UNCHANGED <<marked, node, cur, pre, nx, step, seen, used, order, gone, before, overlap,
                     fault>>
  BY DEF InsertRetry, At, Aim, Goto, history
<1>3. TypeOK /\ \A u \in Thread : LocalOK(u)
  BY DEF ListInv
<1>4. next[Before] \in Heads /\ node[th] \in Item
  BY <1>2, <1>3, NextIs DEF LocalOK
<1>5. TypeOK'
  BY <1>2, <1>3, <1>4 DEF TypeOK, Heads
<1>6. pc' = pc /\ Others(th)
  BY <1>2, <1>3 DEF TypeOK, Others
<1>7. \A u \in Thread : LocalOK(u)'
  <2>1. LocalOK(th)'
    BY <1>2, <1>4, <1>6 DEF LocalOK
  <2> QED
    BY <1>3, <1>6, <2>1, LocalsKeep DEF Others
<1>8. ASSUME ~overlap' PROVE Good'
  <2>1. Good /\ FreshOK
    BY <1>2, <1>8 DEF ListInv, Good
  <2>2. th \in Inserting /\ th \notin Deleting
    BY <1>2 DEF Inserting, Deleting
  <2>3. /\ \A i \in DOMAIN order : order[i] # node[th]
        /\ \A a \in Inserting : a # th => node[a] # node[th]
        /\ used' = used \cup {node[th]}
    BY <1>2, <2>1, <2>2 DEF FreshOK
  <2>4. PICK x \in Item : x = node[th]
    BY <1>4
  <2> QED
    BY <1>2, <1>3, <1>4, <1>6, <2>1, <2>2, <2>3, <2>4, AimKeeps
<1> QED
  BY <1>5, <1>7, <1>8 DEF ListInv

\* The compare-and-swap at &(l->head) links the node in front.
LEMMA InsertCasStep ==
  ASSUME ListInv, NEW th \in Thread, InsertCas(th)
  PROVE  ListInv'
<1> DEFINE x == node[th]
           n == Len(order)
<1>1. /\ pc[th] = "cas" /\ ~fault /\ next[Before] = next[x]
      /\ next' = [next EXCEPT ![Before] = x] /\ order' = Append(order, x) /\ Return(th)
      /\ UNCHANGED <<marked, used, gone, before, overlap, fault>>
  BY DEF InsertCas, At
<1>2. TypeOK /\ (\A u \in Thread : LocalOK(u)) /\ x \in Item
  BY <1>1 DEF ListInv, LocalOK
<1>3. /\ pc'[th] = "idle" /\ step'[th] = 0 /\ Others(th)
      /\ \A u \in Thread : u # th => node'[u] = node[u]
  BY <1>1, <1>2, Returned DEF Others
<1> HIDE DEF x
<1>4. /\ n \in Nat /\ Len(order') = n + 1 /\ DOMAIN order = 1..n /\ DOMAIN order' = 1..(n + 1)
      /\ \A i \in DOMAIN order : order'[i] = order[i]
      /\ order'[n + 1] = x /\ order' \in Seq(Item)
  BY <1>1, <1>2 DEF TypeOK
<1>5. TypeOK'
  <2>1. next' \in [Item \cup {Before} -> Item \cup {End}]
    BY <1>1, <1>2 DEF TypeOK
  <2> QED
    BY <1>1, <1>2, <1>4, <2>1, Returned DEF TypeOK
<1>6. \A u \in Thread : LocalOK(u)'
  <2>1. LocalOK(th)'
    BY <1>3 DEF LocalOK
  <2> QED
    BY <1>2, <1>3, <2>1, LocalsKeep DEF Others
<1>7. ASSUME ~overlap' PROVE Good'
  <2>1. Good /\ OrderOK /\ MarksOK /\ FreshOK /\ Lone
    BY <1>1, <1>7 DEF ListInv, Good
  <2>2. x \in used /\ \A i \in DOMAIN order : order[i] # x
    BY <1>1, <2>1 DEF FreshOK, Inserting, x
  <2>3. ~marked[x] /\ x \notin gone
    BY <1>2, <2>1, <2>2 DEF MarksOK
  <2>4. Linked' = Linked \cup {n + 1}
    BY <1>1, <1>4, <2>3 DEF Linked
  <2>5. Linked \subseteq DOMAIN order
    BY DEF Linked
  <2>6. /\ next'[Before] = x /\ next'[x] = next[Before]
        /\ \A i \in DOMAIN order : next'[order[i]] = next[order[i]] /\ order[i] # Before
    <3>1. x # Before /\ \A i \in DOMAIN order : order[i] # Before /\ order[i] \in Item
      BY <1>2, Orders, EndsAssumption
    <3> QED
      BY <1>1, <1>2, <3>1 DEF TypeOK
  <2>7. \A a \in Item \cup {End} : On(a) => On(a)'
    BY <1>4, <2>4, <2>5 DEF On
  <2>8. OrderOK'
    <3>1. \A i, j \in DOMAIN order' : order'[i] = order'[j] => i = j
      BY <1>4, <2>1, <2>2 DEF OrderOK
    <3>2. \A i \in DOMAIN order' : order'[i] \in used'
      BY <1>1, <1>4, <2>1, <2>2 DEF OrderOK
    <3>3. ASSUME NEW i \in DOMAIN order, NEW a, Leads(a, i) PROVE Leads(a, i)'
      BY <1>4, <2>4, <2>5, <3>3 DEF Leads
    <3>4. ASSUME NEW i \in DOMAIN order PROVE Leads(next[order[i]], i)'
      <4>1. PICK a : a = next[order[i]] /\ Leads(a, i)
        BY <2>1 DEF OrderOK
      <4>2. Leads(a, i)' /\ next'[order'[i]] = a
        BY <1>4, <2>6, <3>3, <4>1
      <4> QED
        BY <4>2 DEF Leads
    <3>5. ASSUME NEW i \in DOMAIN order', i = n + 1 PROVE Leads(next[order[i]], i)'
      <4>1. PICK a : a = next[Before] /\ Leads(a, i)
        BY <1>4, <2>1, <3>5 DEF OrderOK
      <4>2. next'[order'[i]] = a
        BY <1>4, <2>6, <3>5, <4>1
      <4>3. \A k \in Linked' : k < i => k \in Linked
        BY <1>4, <2>4, <2>5, <3>5
      <4>4. CASE a = End /\ \A k \in Linked : k >= i
        <5>1. \A k \in Linked' : k >= i
          BY <1>4, <2>4, <3>5, <4>4
        <5> QED
          BY <4>2, <4>4, <5>1 DEF Leads
      <4>5. CASE \E j \in DOMAIN order : /\ a = order[j] /\ j < i
                                         /\ \A k \in Linked : k < i => k <= j
        <5>1. \E j \in DOMAIN order' : /\ a = order'[j] /\ j < i
                                       /\ \A k \in Linked' : k < i => k <= j
          BY <1>4, <4>3, <4>5
        <5> QED
          BY <4>2, <5>1 DEF Leads
      <4> QED
        BY <4>1, <4>4, <4>5 DEF Leads
    <3>6. Leads(next[Before], Len(order) + 1)'
      <4>1. n + 1 \in DOMAIN order' /\ n + 1 < Len(order') + 1 /\ \A k \in Linked' : k <= n + 1
        BY <1>4, <2>4, <2>5
      <4> QED
        BY <1>4, <2>6, <4>1 DEF Leads
    <3>7. \A i \in Linked' : On(next[order[i]])'
      <4>1. ASSUME NEW i \in Linked' PROVE On(next[order[i]])'
        <5>1. CASE i = n + 1
          <6>1. PICK a \in Item \cup {End} : a = next[Before] /\ On(a)
            BY <1>2, <2>1, NextIs DEF OrderOK, Heads
          <6>2. On(a)' /\ next'[order'[i]] = a
            BY <1>4, <2>6, <2>7, <5>1, <6>1
          <6> QED
            BY <6>2 DEF On
        <5>2. CASE i # n + 1
          <6>1. i \in Linked /\ next'[order'[i]] = next[order[i]] /\ On(next[order[i]])
            BY <1>4, <2>1, <2>4, <2>5, <2>6, <5>2 DEF OrderOK
          <6> QED
            BY <1>4, <2>4, <2>5, <6>1 DEF On
        <5> QED
          BY <5>1, <5>2
      <4> QED
        BY <4>1
    <3>8. On(next[Before])'
      BY <1>4, <2>4, <2>6 DEF On
    <3>9. \A i \in DOMAIN order' : Leads(next[order[i]], i)'
      <4>1. \A i \in DOMAIN order' : i \in DOMAIN order \/ i = n + 1
        BY <1>4
      <4> QED
        BY <3>4, <3>5, <4>1 DEF Leads
    <3> QED
      BY <3>1, <3>2, <3>6, <3>7, <3>8, <3>9 DEF OrderOK
  <2>9. Deleting' = Deleting /\ Inserting' = Inserting \ {th}
    BY <1>1, <1>3 DEF Deleting, Inserting, Others
  <2>10. MarksOK'
    <3>1. ASSUME NEW i \in Linked, marked[order[i]]
          PROVE  \E u \in Deleting' : node'[u] = order[i] /\ step'[u] = 1
      <4>1. PICK u \in Deleting : node[u] = order[i] /\ step[u] = 1
        BY <2>1, <3>1 DEF MarksOK
      <4>2. u # th /\ u \in Thread
        BY <1>1 DEF Deleting
      <4> QED
        BY <1>3, <2>9, <4>1, <4>2 DEF Others
    <3>2. ASSUME NEW i \in Linked', marked'[order'[i]]
          PROVE  \E u \in Deleting' : node'[u] = order'[i] /\ step'[u] = 1
      <4>1. i \in Linked
        BY <1>1, <1>4, <2>3, <2>4, <3>2
      <4> QED
        BY <1>1, <1>4, <2>5, <3>1, <3>2, <4>1
    <3>3. /\ \A y \in Item : marked'[y] => \E i \in DOMAIN order' : order'[i] = y
          /\ \A y \in gone' : marked'[y]
      BY <1>1, <1>4, <2>1 DEF MarksOK
    <3> QED
      BY <3>2, <3>3 DEF MarksOK
  <2>11. FreshOK' /\ Lone'
    <3>1. \A a \in Inserting : a \in Thread
      BY DEF Inserting
    <3>2. \A a \in Inserting : a # th => node'[a] = node[a] /\ node[a] # x
      BY <1>1, <1>3, <2>1, <3>1 DEF FreshOK, Inserting, x
    <3>3. ASSUME NEW a \in Inserting'
          PROVE  node'[a] \in used' /\ \A i \in DOMAIN order' : order'[i] # node'[a]
      BY <1>1, <1>4, <2>1, <2>9, <3>2, <3>3 DEF FreshOK
    <3>4. \A a, b \in Inserting' : node'[a] = node'[b] => a = b
      BY <2>1, <2>9, <3>2 DEF FreshOK
    <3> QED
      BY <2>1, <2>9, <3>3, <3>4 DEF FreshOK, Lone
  <2>12. ASSUME NEW u \in Thread PROVE DelOK(u)' /\ ScanOK(u)'
    <3>1. CASE u = th
      BY <1>3, <3>1 DEF DelOK, ScanOK, At5
    <3>2. CASE u # th
      <4>1. DelOK(u) /\ ScanOK(u)
        BY <2>1 DEF Good
      <4>2. DelOK(u)'
        <5>1. \A i \in Linked : /\ i \in Linked' /\ order'[i] = order[i] /\ order[i] # Before
                                /\ next'[order[i]] = next[order[i]]
          BY <1>4, <2>4, <2>5, <2>6
        <5>2. On(cur[u]) => On(cur[u])'
          BY <1>3, <3>2, <5>1 DEF On, Others
        <5> QED
          <6>1. /\ pc'[u] = pc[u] /\ node'[u] = node[u] /\ cur'[u] = cur[u] /\ pre'[u] = pre[u]
                /\ nx'[u] = nx[u] /\ step'[u] = step[u] /\ marked' = marked
            BY <1>1, <1>3, <3>2 DEF Others
          <6>2. pc[u] \in At5 => /\ \E k \in Linked' : node[u] = order'[k]
                                 /\ next'[node[u]] = next[node[u]]
            BY <4>1, <5>1 DEF DelOK
          <6>3. pc[u] = "pre" => \E c, k \in Linked' : /\ cur[u] = order'[c]
                                                       /\ node[u] = order'[k] /\ k <= c
            BY <4>1, <5>1 DEF DelOK
          <6>4. pc[u] \in {"pre", "mark", "unlink"} =>
                   pre[u] = Before
                   \/ \E p \in Linked' : pre[u] = order'[p] /\ next'[pre[u]] = cur[u]
            BY <4>1, <5>1 DEF DelOK
          <6> HIDE <5>1, <5>2
          <6> QED
            BY <4>1, <5>2, <6>1, <6>2, <6>3, <6>4 DEF DelOK, At5
      <4>3. ScanOK(u)'
        <5>1. Live \subseteq Live'
          BY <1>1, <1>4 DEF Live
        <5>2. x \notin Live
          BY <2>2 DEF Live
        <5>3. pc[u] = "scan" => before[u] \subseteq Live' /\ x \notin before[u]
          BY <4>1, <5>1, <5>2 DEF ScanOK
        <5>4. \A i \in DOMAIN order : i \in DOMAIN order'
          BY <1>4
        <5>5. \A i \in DOMAIN order' : i \in DOMAIN order \/ order'[i] = x
          BY <1>4
        <5> QED
          BY <1>1, <1>3, <1>4, <3>2, <4>1, <5>3, <5>4, <5>5 DEF Others, ScanOK
      <4> QED
        BY <4>2, <4>3
    <3> QED
      BY <3>1, <3>2
  <2> QED
    BY <1>1, <2>8, <2>10, <2>11, <2>12 DEF Good
<1> QED
  BY <1>5, <1>6, <1>7 DEF ListInv

\* What is live is linked: it was not unlinked without being marked.
LEMMA LiveLinked ==
  ASSUME TypeOK, MarksOK, NEW y \in Live
  PROVE  \E k \in Linked : y = order[k]
<1>1. PICK k \in DOMAIN order : y = order[k] /\ ~marked[order[k]]
  BY DEF Live
<1>2. order[k] \notin gone
  BY <1>1 DEF MarksOK
<1> QED
  BY <1>1, <1>2, Orders

LEMMA ScanBeginStep ==
  ASSUME ListInv, NEW th \in Thread, ScanBegin(th)
  PROVE  ListInv'
<1>1. /\ pc[th] = "idle" /\ ~fault /\ pc' = [pc EXCEPT ![th] = "scan"]
      /\ cur' = [cur EXCEPT ![th] = next[Before]] /\ before' = [before EXCEPT ![th] = Live]
      /\ UNCHANGED <<next, marked, node, pre, nx, step, seen, used, order, gone, overlap, fault>>
  BY DEF ScanBegin, ScanFrom, At, Goto, heap
<1>2. TypeOK /\ \A u \in Thread : LocalOK(u)
  BY DEF ListInv
<1>3. next[Before] \in Heads /\ next[Before] \in Walk
  BY <1>2, NextIs
<1>4. TypeOK'
  <2>1. Live \subseteq Item
    BY <1>2, Orders DEF Live
  <2> QED
    BY <1>1, <1>2, <1>3, <2>1 DEF TypeOK
<1>5. pc'[th] = "scan" /\ cur'[th] = next[Before] /\ before'[th] = Live /\ Others(th)
  BY <1>1, <1>2 DEF TypeOK, Others
<1>6. \A u \in Thread : LocalOK(u)'
  <2>1. LocalOK(th)'
    BY <1>1, <1>2, <1>3, <1>5 DEF LocalOK
  <2> QED
    BY <1>1, <1>2, <1>5, <2>1, LocalsKeep DEF Others
<1>7. ASSUME ~overlap' PROVE Good'
  <2>1. Good /\ OrderOK /\ MarksOK /\ DelOK(th)
    BY <1>1, <1>7 DEF ListInv, Good
  <2>2. DelOK(th)'
    <3>1. step[th] = 0
      BY <1>1, <2>1 DEF DelOK, At5
    <3> QED
      BY <1>1, <1>5, <3>1 DEF DelOK, At5
  <2>3. ScanOK(th)'
    <3>1. /\ Leads(next[Before], Len(order) + 1)
          /\ \A y \in Live : \E k \in Linked : y = order[k]
      BY <1>2, <2>1, LiveLinked DEF OrderOK
    <3>2. \A k \in Linked : k < Len(order) + 1 /\ k \in Int
      BY <1>2, Orders
    <3>3. CASE next[Before] = End /\ \A k \in Linked : k >= Len(order) + 1
      <4>1. Live = {}
        BY <1>2, <3>1, <3>2, <3>3, Orders
      <4> QED
        BY <1>5, <3>3, <4>1 DEF ScanOK
    <3>4. CASE \E j \in DOMAIN order : /\ next[Before] = order[j]
                                       /\ \A k \in Linked : k < Len(order) + 1 => k <= j
      <4>1. \E j \in DOMAIN order : /\ next[Before] = order[j]
                                    /\ \A k \in DOMAIN order : order[k] \in Live => k <= j
        <5>1. \A k \in DOMAIN order : order[k] \in Live => k \in Linked
          BY <1>2, <2>1, <3>1, Orders DEF OrderOK
        <5> QED
          BY <3>2, <3>4, <5>1
      <4>2. Live' = Live
        BY <1>1 DEF Live
      <4> QED
        BY <1>1, <1>5, <4>1, <4>2 DEF ScanOK
    <3> QED
      BY <3>1, <3>3, <3>4 DEF Leads
  <2>4. th \notin Deleting' /\ th \notin Deleting /\ th \notin Inserting'
    BY <1>1, <1>5 DEF Deleting, Inserting
  <2> QED
    BY <1>1, <1>2, <1>5, <2>1, <2>2, <2>3, <2>4, LocalKeeps
<1> QED
  BY <1>4, <1>6, <1>7 DEF ListInv

\* Also the pointer of a node that is deleted meanwhile leads past nothing live.
LEMMA ScanNextStep ==
  ASSUME ListInv, NEW th \in Thread, ScanNext(th)
  PROVE  ListInv'
<1>1. /\ pc[th] = "scan" /\ ~fault /\ cur[th] # End
      /\ seen' = [seen EXCEPT ![th] = @ \cup {cur[th]}]
      /\ cur' = [cur EXCEPT ![th] = next[cur[th]]]
      /\ UNCHANGED <<next, marked, pc, node, pre, nx, step, used, order, gone, before, overlap,
                     fault>>
  BY DEF ScanNext, At, heap, history
<1>2. TypeOK /\ \A u \in Thread : LocalOK(u)
  BY DEF ListInv
<1>3. cur[th] \in Item /\ next[cur[th]] \in Heads /\ next[cur[th]] \in Walk
  <2>1. cur[th] \in Item
    BY <1>1, <1>2 DEF LocalOK, Heads
  <2> QED
    BY <1>2, <2>1, NextIs
<1>4. TypeOK'
  BY <1>1, <1>2, <1>3 DEF TypeOK
<1>5. seen'[th] = seen[th] \cup {cur[th]} /\ cur'[th] = next[cur[th]] /\ Others(th)
  BY <1>1, <1>2 DEF TypeOK, Others
<1>6. \A u \in Thread : LocalOK(u)'
  <2>1. LocalOK(th)'
    BY <1>1, <1>2, <1>3, <1>5 DEF LocalOK
  <2> QED
    BY <1>1, <1>2, <1>5, <2>1, LocalsKeep DEF Others
<1>7. ASSUME ~overlap' PROVE Good'
  <2>1. Good /\ OrderOK /\ MarksOK /\ DelOK(th) /\ ScanOK(th)
    BY <1>1, <1>7 DEF ListInv, Good
  <2>2. DelOK(th)'
    <3>1. step[th] = 0
      BY <1>1, <2>1 DEF DelOK, At5
    <3> QED
      BY <1>1, <1>5, <3>1 DEF DelOK, At5
  <2>3. ScanOK(th)'
    <3>1. PICK c \in DOMAIN order :
             /\ cur[th] = order[c]
             /\ \A k \in DOMAIN order : order[k] \in before[th] => order[k] \in seen[th] \/ k <= c
      BY <1>1, <2>1 DEF ScanOK
    <3>2. /\ \A y \in before[th] : \E k \in Linked : y = order[k]
          /\ before[th] \subseteq Live /\ Leads(next[order[c]], c)
      BY <1>1, <1>2, <2>1, LiveLinked DEF OrderOK, ScanOK
    <3>3. \A k \in Linked : order[k] \in before[th] => order[k] \in seen'[th] \/ k < c
      <4>1. \A k \in Linked : k \in DOMAIN order /\ k \in Int /\ c \in Int
        BY <1>2, Orders
      <4> QED
        BY <1>5, <3>1, <4>1
    <3>4. Live' = Live /\ pc'[th] = "scan" /\ before'[th] = before[th] /\ order' = order
      BY <1>1 DEF Live
    <3>5. CASE next[order[c]] = End /\ \A k \in Linked : k >= c
      <4>1. \A k \in Linked : k \in Int /\ c \in Int
        BY <1>2, Orders
      <4>2. before[th] \subseteq seen'[th]
        BY <3>2, <3>3, <3>5, <4>1
      <4> QED
        BY <1>5, <3>1, <3>2, <3>4, <3>5, <4>2 DEF ScanOK
    <3>6. CASE \E j \in DOMAIN order : /\ next[order[c]] = order[j]
                                       /\ \A k \in Linked : k < c => k <= j
      <4>1. \A k \in DOMAIN order : order[k] \in before[th] => k \in Linked
        BY <1>2, <2>1, <3>2, Orders DEF OrderOK
      <4>2. \E j \in DOMAIN order :
               /\ next[order[c]] = order[j]
               /\ \A k \in DOMAIN order : order[k] \in before[th]
                                            => order[k] \in seen'[th] \/ k <= j
        BY <3>3, <3>6, <4>1
      <4> QED
        BY <1>5, <3>1, <3>2, <3>4, <4>2 DEF ScanOK
    <3> QED
      BY <3>2, <3>5, <3>6 DEF Leads
  <2>4. th \notin Deleting' /\ th \notin Deleting /\ th \notin Inserting'
    BY <1>1, <1>5 DEF Deleting, Inserting
  <2> QED
    BY <1>1, <1>2, <1>5, <2>1, <2>2, <2>3, <2>4, LocalKeeps
<1> QED
  BY <1>4, <1>6, <1>7 DEF ListInv

LEMMA ScanEndStep ==
  ASSUME ListInv, NEW th \in Thread, ScanEnd(th)
  PROVE  ListInv'
<1>1. /\ pc[th] = "scan" /\ ~fault /\ cur[th] = End /\ Return(th)
      /\ before' = [before EXCEPT ![th] = {}]
      /\ UNCHANGED <<next, marked, used, order, gone, overlap, fault>>
  BY DEF ScanEnd, At, heap
<1>2. TypeOK /\ \A u \in Thread : LocalOK(u)
  BY DEF ListInv
<1>3. TypeOK'
  BY <1>1, <1>2, Returned DEF TypeOK
<1>4. pc'[th] = "idle" /\ step'[th] = 0 /\ Others(th)
  <2>1. \A u \in Thread : u # th => before'[u] = before[u]
    BY <1>1, <1>2 DEF TypeOK
  <2> QED
    BY <1>1, <1>2, <2>1, Returned DEF Others
<1>5. \A u \in Thread : LocalOK(u)'
  <2>1. LocalOK(th)'
    BY <1>4 DEF LocalOK
  <2> QED
    BY <1>2, <1>4, <2>1, LocalsKeep DEF Others
<1>6. ASSUME ~overlap' PROVE Good'
  <2>1. Good
    BY <1>1, <1>6 DEF ListInv
  <2>2. DelOK(th)' /\ ScanOK(th)'
    BY <1>4 DEF DelOK, ScanOK, At5
  <2>3. th \notin Deleting' /\ th \notin Inserting' /\ th \notin Deleting
    BY <1>1, <1>4 DEF Deleting, Inserting
  <2> QED
    BY <1>1, <1>2, <1>4, <2>1, <2>2, <2>3, LocalKeeps
<1> QED
  BY <1>3, <1>5, <1>6 DEF ListInv

LEMMA NextInv == ListInv /\ [Next]_vars => ListInv'
<1> SUFFICES ASSUME ListInv, [Next]_vars PROVE ListInv'
  OBVIOUS
<1>1. CASE UNCHANGED vars
  <2>1. UNCHANGED <<next, marked, pc, node, cur, pre, nx, step, seen, used, order, gone, before,
                    overlap, fault>>
    BY <1>1 DEF vars, heap, local, history
  <2> QED
    BY <2>1 DEF ListInv, TypeOK, LocalOK, Good, OrderOK, MarksOK, FreshOK, Lone, DelOK, ScanOK,
                Leads, On, Linked, Live, Deleting, Inserting
<1>2. CASE Next
  <2>1. PICK th \in Thread : Insert(th) \/ Del(th) \/ ScanBegin(th) \/ Continue(th)
    BY <1>2 DEF Next
  <2>2. CASE Continue(th)
    BY <2>2, InsertCasStep, InsertRetryStep, FindBeginStep, FindStep, FoundStep, NotFoundStep,
       DelLoadStep, PreBeginStep, PreNextStep, PreEndStep, MarkStep, UnlinkStep, UnlinkFailsStep,
       UnlinkNullStep, ScanNextStep, ScanEndStep DEF Continue
  <2> QED
    BY <2>1, <2>2, InsertStep, DelStep, ScanBeginStep
<1> QED
  BY <1>1, <1>2

\* ListInv holds of every state: the chain, what each deletion knows and what each
\* iteration has still to meet.
THEOREM Invariance == Spec => []ListInv
  BY InitInv, NextInv, PTL DEF Spec

\* A pointer that leads to a linked item leads to the one that came last before.
LEMMA LeadsOlder ==
  ASSUME TypeOK, OrderOK, NEW n, NEW i \in Int, Leads(n, i), On(n)
  PROVE  n = Older(i)
<1> DEFINE older == {j \in Linked : j < i}
<1>1. \A j \in Linked : j \in Int /\ order[j] # End
  BY Orders
<1>2. CASE older = {}
  <2>1. CASE n = End
    BY <1>2, <2>1 DEF Older
  <2>2. CASE n # End
    BY <1>2, <2>2, Orders DEF Leads, On, OrderOK
  <2> QED
    BY <2>1, <2>2
<1>3. CASE older # {}
  <2>1. PICK k \in older : TRUE
    BY <1>3
  <2>2. PICK c \in Linked : n = order[c] /\ c < i
    BY <2>1, LeadsTo
  <2>3. \A m \in older : m <= c
    <3>1. ASSUME NEW m \in older PROVE m <= c
      <4>1. PICK d \in Linked : n = order[d] /\ m <= d
        BY LeadsTo
      <4>2. c = d
        BY <2>2, <4>1, Orders DEF OrderOK
      <4> QED
        BY <4>1, <4>2
    <3> QED
      BY <3>1
  <2>4. c \in older
    BY <2>2
  <2>5. (CHOOSE j \in older : \A m \in older : m <= j) = c
    <3>1. \A j \in older : (\A m \in older : m <= j) => j = c
      BY <1>1, <2>3, <2>4
    <3> QED
      BY <2>3, <2>4, <3>1
  <2>6. Older(i) = IF older = {} THEN End
                   ELSE order[CHOOSE j \in older : \A m \in older : m <= j]
    BY Zenon DEF Older
  <2> HIDE DEF older
  <2> QED
    BY <1>3, <2>2, <2>5, <2>6
<1> QED
  BY <1>2, <1>3

\* TWI_Nb_list_insert_front and TWI_Nb_list_del: as long as no two deletions run
\* at the same time, the list is the chain of what has been inserted and not
\* deleted, the newest first, and no NULL is followed.
THEOREM ContentsHold == Spec => []Contents
<1>1. ListInv => Contents
  <2> SUFFICES ASSUME ListInv PROVE Contents
    OBVIOUS
  <2>1. TypeOK
    BY DEF ListInv
  <2>2. ASSUME ~overlap
        PROVE  /\ ~fault
               /\ next[Before] = Older(Len(order) + 1)
               /\ \A i \in Linked : next[order[i]] = Older(i)
               /\ \A i \in DOMAIN order :
                    /\ order[i] \in gone => marked[order[i]]
                    /\ i \in Linked /\ marked[order[i]]
                         => \E th \in Deleting : node[th] = order[i]
    <3>1. ~fault /\ OrderOK /\ MarksOK
      BY <2>2 DEF ListInv, Good
    <3>2. next[Before] = Older(Len(order) + 1)
      <4>1. /\ Leads(next[Before], Len(order) + 1) /\ On(next[Before])
            /\ Len(order) + 1 \in Int
        BY <2>1, <3>1, Orders DEF OrderOK
      <4> QED
        BY <2>1, <3>1, <4>1, LeadsOlder
    <3>3. ASSUME NEW i \in Linked PROVE next[order[i]] = Older(i)
      <4>1. i \in Int /\ Leads(next[order[i]], i) /\ On(next[order[i]])
        BY <2>1, <3>1, Orders DEF OrderOK
      <4> QED
        BY <2>1, <3>1, <4>1, LeadsOlder
    <3> QED
      BY <3>1, <3>2, <3>3 DEF MarksOK
  <2> QED
    BY <2>1, <2>2 DEF Contents
<1> QED
  BY <1>1, Invariance, PTL

\* TWI_Nb_list_begin and TWI_Nb_list_next: an iteration meets everything that was
\* live when it began and is live when it ends.
THEOREM ScansCompleteHolds == Spec => ScansComplete
<1>1. ListInv /\ [Next]_vars
        => [\A th \in Thread : pc[th] = "scan" /\ pc'[th] = "idle"
                => overlap \/ before[th] \subseteq seen[th]]_vars
  <2> SUFFICES ASSUME ListInv, Next, NEW th \in Thread, pc[th] = "scan", pc'[th] = "idle",
                      ~overlap
               PROVE  before[th] \subseteq seen[th]
    OBVIOUS
  <2>1. TypeOK /\ ScanOK(th)
    BY DEF ListInv, Good
  <2>2. PICK u \in Thread : Insert(u) \/ Del(u) \/ ScanBegin(u) \/ Continue(u)
    BY DEF Next
  <2>3. u = th
    <3> SUFFICES ASSUME u # th PROVE pc'[th] = pc[th]
      OBVIOUS
    <3>1. Return(u) => pc'[th] = pc[th]
      BY <2>1 DEF Return, Goto, TypeOK
    <3>2. \A l : Goto(u, l) => pc'[th] = pc[th]
      BY <2>1 DEF Goto, TypeOK
    <3>3. \A s : Goes(u, s) => pc'[th] = pc[th]
      BY <3>1, <3>2 DEF Goes
    <3> QED
      BY <2>2, <3>1, <3>2, <3>3 DEF Insert, Aim, Del, ScanBegin, ScanFrom, Continue, InsertCas,
         InsertRetry, FindBegin, Find, Found, NotFound, DelLoad, PreBegin, PreNext, PreEnd, Mark,
         Unlink, UnlinkTo, UnlinkFails, UnlinkNull, ScanNext, ScanEnd, local
  <2>4. ScanEnd(th) \/ ScanNext(th)
    BY <2>2, <2>3 DEF At, Insert, Del, ScanBegin, ScanFrom, Continue, InsertCas, InsertRetry,
       FindBegin, Find, Found, NotFound, DelLoad, PreBegin, PreNext, PreEnd, Mark, Unlink,
       UnlinkTo, UnlinkFails, UnlinkNull
  <2>5. cur[th] = End
    BY <2>4 DEF ScanEnd, ScanNext
  <2>6. \A c \in DOMAIN order : order[c] # End
    BY <2>1, Orders
  <2> QED
    BY <2>1, <2>5, <2>6 DEF ScanOK
<1> QED
  BY <1>1, Invariance, PTL DEF Spec, ScansComplete

=============================================================================
