----------------------------- MODULE NbQueueProofs -----------------------------
(***************************************************************************)
(* The non-blocking queue is a first-in first-out queue, for any number of *)
(* threads and nodes.  IInv (module NbQueue) is inductive: one lemma per   *)
(* action.  The refinement follows, one step at a time.                    *)
(* At the end: finalize frees each node once.                              *)
(***************************************************************************)
EXTENDS NbQueue, SequenceTheorems, FiniteSetTheorems, TLAPS

\* The part of a thread's state that IInv speaks of.
Own(u) == <<pc[u], np[u], old[u], prev[u], last[u]>>

\* Where next leads from a node of the chain.
LEMMA NextLinked ==
  ASSUME IInv, NEW n \in Link
  PROVE  next[n] \in Linked \cup {Nil}
<1>1. /\ order \in Seq(Node) /\ gone \in 0..Len(order)
      /\ next[Front] = Older(Len(order) + 1)
      /\ \A i \in 1..Len(order) : next[order[i]] = Older(i)
  BY DEF IInv, TypeOK, ChainOK
<1>2. \A i \in 1..(Len(order) + 1) : Older(i) \in Linked \cup {Nil}
  BY <1>1 DEF Older, Linked
<1> QED
  BY <1>1, <1>2 DEF Link, Linked

LEMMA LinkTypes ==
  ASSUME TypeOK
  PROVE  Linked \subseteq Node /\ Link \subseteq Linkable
  BY DEF TypeOK, Linked, Link, Linkable

\* A step that leaves next alone and keeps the hints and its own thread in order
\* keeps the invariant.
LEMMA HintStep ==
  ASSUME IInv, TypeOK', HintsOK', NEW th \in Thread,
         UNCHANGED <<next, used, order, gone>>,
         \A n \in Node \ Linked : pre'[n] = pre[n],
         \A u \in Thread \ {th} : UNCHANGED Own(u),
         ~Making(th)', PusherOK(th)', PopperOK(th)'
  PROVE  IInv'
<1>1. Linked' = Linked /\ Link' = Link
  BY DEF Linked, Link
<1>2. ChainOK'
  BY DEF IInv, ChainOK, Older
<1>3. ASSUME NEW u \in Thread \ {th}
      PROVE  PusherOK(u)' /\ PopperOK(u)'
  <2>1. \A v \in Thread \ {th} : Making(v)' <=> Making(v)
    BY DEF Making, Own
  <2>2. PusherOK(u) /\ PopperOK(u) /\ UNCHANGED Own(u)
    BY <1>3 DEF IInv
  <2>3. PusherOK(u)'
    <3>1. \A v \in Thread \ {th} : np'[v] = np[v]
      BY DEF Own
    <3>2. Making(u) => pre'[np[u]] = pre[np[u]]
      BY <2>2 DEF PusherOK, IInv, TypeOK
    <3> QED
      BY <1>1, <1>3, <2>1, <2>2, <3>1, <3>2 DEF PusherOK, Own, At
  <2> QED
    BY <1>1, <2>2, <2>3 DEF PopperOK, Own, At
<1> QED
  BY <1>2, <1>3 DEF IInv

LEMMA LocalStep ==
  ASSUME IInv, TypeOK', NEW th \in Thread,
         UNCHANGED <<next, pre, tail, used, order, gone>>,
         \A u \in Thread \ {th} : UNCHANGED Own(u),
         ~Making(th)', PusherOK(th)', PopperOK(th)'
  PROVE  IInv'
<1>1. HintsOK'
  BY DEF IInv, HintsOK, Linked, Link
<1> QED
  BY <1>1, HintStep

-----------------------------------------------------------------------------
\* Pops.

LEMMA PopStep ==
  ASSUME IInv, NEW th \in Thread, Pop(th) \/ PopTail(th) \/ PopRetry(th)
  PROVE  IInv'
<1>1. UNCHANGED <<next, pre, tail, used, order, gone>>
  BY DEF Pop, PopTail, PopRetry, shared, history
<1>2. TypeOK'
  BY DEF IInv, TypeOK, Pop, PopTail, PopRetry, shared, history, Goto, Label, Linkable
<1>3. \A u \in Thread \ {th} : UNCHANGED Own(u)
  BY DEF IInv, TypeOK, Pop, PopTail, PopRetry, Goto, Own
<1>4. /\ pc'[th] \in {"pop_tail", "pop_back"}
      /\ pc'[th] = "pop_back" => prev'[th] = tail
  BY DEF IInv, TypeOK, Pop, PopTail, PopRetry, Goto
<1>5. Link' = Link /\ tail \in Link
  BY <1>1 DEF IInv, HintsOK, Link, Linked
<1>6. ~Making(th)' /\ PusherOK(th)' /\ PopperOK(th)'
  BY <1>4, <1>5 DEF Making, PusherOK, PopperOK, At
<1> QED
  BY <1>1, <1>2, <1>3, <1>6, LocalStep

LEMMA PopBackStep ==
  ASSUME IInv, NEW th \in Thread, PopBack(th)
  PROVE  IInv'
<1>1. UNCHANGED <<next, pre, tail, used, order, gone>>
  BY DEF PopBack, shared, history
<1>2. TypeOK'
  BY DEF IInv, TypeOK, PopBack, Return, shared, history, Goto, Label, Linkable
<1>3. \A u \in Thread \ {th} : UNCHANGED Own(u)
  BY DEF IInv, TypeOK, PopBack, Return, Goto, Own
<1>4. prev[th] \in Link
  BY DEF PopBack, IInv, PopperOK, At
<1>5. Link' = Link /\ Linked' = Linked
  BY <1>1 DEF Link, Linked
<1>6. CASE next[prev[th]] = Nil /\ prev[th] = Front
  <2>1. pc'[th] = "idle"
    BY <1>6 DEF IInv, TypeOK, PopBack, Return, Goto
  <2>2. ~Making(th)' /\ PusherOK(th)' /\ PopperOK(th)'
    BY <2>1 DEF Making, PusherOK, PopperOK, At
  <2> QED
    BY <1>1, <1>2, <1>3, <2>2, LocalStep
<1>7. CASE ~(next[prev[th]] = Nil /\ prev[th] = Front)
  <2>1. /\ prev'[th] = prev[th]
        /\ pc'[th] \in {"pop_first", "pop_pre"}
        /\ pc'[th] = "pop_pre" => prev[th] # Front
    BY <1>7 DEF IInv, TypeOK, PopBack, Goto
  <2>2. ~Making(th)' /\ PusherOK(th)' /\ PopperOK(th)'
    BY <1>4, <1>5, <2>1 DEF Making, PusherOK, PopperOK, At, Link
  <2> QED
    BY <1>1, <1>2, <1>3, <2>2, LocalStep
<1> QED
  BY <1>6, <1>7

LEMMA PopPreStep ==
  ASSUME IInv, NEW th \in Thread, PopPre(th)
  PROVE  IInv'
<1>1. UNCHANGED <<next, pre, tail, used, order, gone>>
  BY DEF PopPre, shared, history
<1>2. prev[th] \in Linked /\ pre[prev[th]] \in Link
  BY DEF PopPre, IInv, PopperOK, HintsOK, At
<1>3. TypeOK'
  BY <1>2, LinkTypes
     DEF IInv, TypeOK, PopPre, shared, history, Goto, Label, Linkable
<1>4. \A u \in Thread \ {th} : UNCHANGED Own(u)
  BY DEF IInv, TypeOK, PopPre, Goto, Own
<1>5. pc'[th] = "pop_back" /\ prev'[th] = pre[prev[th]]
  BY DEF IInv, TypeOK, PopPre, Goto
<1>6. ~Making(th)' /\ PusherOK(th)' /\ PopperOK(th)'
  BY <1>1, <1>2, <1>5 DEF Making, PusherOK, PopperOK, At, Link, Linked
<1> QED
  BY <1>1, <1>3, <1>4, <1>6, LocalStep

LEMMA PopFirstStep ==
  ASSUME IInv, NEW th \in Thread, PopFirst(th)
  PROVE  IInv'
<1>1. UNCHANGED <<next, pre, tail, used, order, gone>>
  BY DEF PopFirst, shared, history
<1>2. prev[th] \in Link /\ next[prev[th]] \in Linked \cup {Nil}
  BY NextLinked DEF PopFirst, IInv, PopperOK, At
<1>3. TypeOK'
  BY <1>2, LinkTypes
     DEF IInv, TypeOK, PopFirst, shared, history, Goto, Label, Linkable
<1>4. \A u \in Thread \ {th} : UNCHANGED Own(u)
  BY DEF IInv, TypeOK, PopFirst, Goto, Own
<1>5. /\ last'[th] = next[prev[th]] /\ prev'[th] = prev[th]
      /\ pc'[th] = IF next[prev[th]] = Nil THEN "pop_tail" ELSE "pop_forward"
  BY DEF IInv, TypeOK, PopFirst, Goto
<1>6. ~Making(th)' /\ PusherOK(th)' /\ PopperOK(th)'
  BY <1>1, <1>2, <1>5 DEF Making, PusherOK, PopperOK, At, Link, Linked
<1> QED
  BY <1>1, <1>3, <1>4, <1>6, LocalStep

LEMMA PopForwardStep ==
  ASSUME IInv, NEW th \in Thread, PopForward(th)
  PROVE  IInv'
<1>1. UNCHANGED <<next, pre, tail, used, order, gone>>
  BY DEF PopForward, shared, history
<1>2. /\ prev[th] \in Link /\ last[th] \in Linked
      /\ next[last[th]] \in Linked \cup {Nil}
  BY NextLinked DEF PopForward, IInv, PopperOK, At, Link
<1>3. TypeOK'
  BY <1>2, LinkTypes
     DEF IInv, TypeOK, PopForward, shared, history, Goto, Label, Linkable
<1>4. \A u \in Thread \ {th} : UNCHANGED Own(u)
  BY DEF IInv, TypeOK, PopForward, Goto, Own
<1>5. Link' = Link /\ Linked' = Linked
  BY <1>1 DEF Link, Linked
<1>6. CASE next[last[th]] = Nil
  <2>1. pc'[th] = "pop_cas" /\ prev'[th] = prev[th] /\ last'[th] = last[th]
    BY <1>6 DEF IInv, TypeOK, PopForward, Goto
  <2>2. ~Making(th)' /\ PusherOK(th)' /\ PopperOK(th)'
    BY <1>1, <1>2, <1>5, <1>6, <2>1 DEF Making, PusherOK, PopperOK, At
  <2> QED
    BY <1>1, <1>3, <1>4, <2>2, LocalStep
<1>7. CASE next[last[th]] # Nil
  <2>1. /\ pc'[th] = "pop_forward" /\ prev'[th] = last[th]
        /\ last'[th] = next[last[th]]
    BY <1>7 DEF IInv, TypeOK, PopForward, At
  <2>2. ~Making(th)' /\ PusherOK(th)' /\ PopperOK(th)'
    BY <1>2, <1>5, <1>7, <2>1 DEF Making, PusherOK, PopperOK, At, Link
  <2> QED
    BY <1>1, <1>3, <1>4, <2>2, LocalStep
<1> QED
  BY <1>6, <1>7

LEMMA PopStoreStep ==
  ASSUME IInv, NEW th \in Thread, PopStore(th)
  PROVE  IInv'
<1>1. UNCHANGED <<next, pre, used, order, gone>> /\ tail' = prev[th]
  BY DEF PopStore, history
<1>2. prev[th] \in Link /\ last[th] \in Node
  BY DEF PopStore, IInv, PopperOK, At
<1>3. HintsOK'
  BY <1>1, <1>2 DEF IInv, HintsOK, Link, Linked
<1>4. TypeOK'
  BY <1>2, LinkTypes DEF IInv, TypeOK, PopStore, history, Goto, Label, Linkable
<1>5. \A u \in Thread \ {th} : UNCHANGED Own(u)
  BY DEF IInv, TypeOK, PopStore, Goto, Own
<1>6. pc'[th] = "recycle_load" /\ last'[th] = last[th]
  BY DEF IInv, TypeOK, PopStore, Goto
<1>7. ~Making(th)' /\ PusherOK(th)' /\ PopperOK(th)'
  BY <1>2, <1>6 DEF Making, PusherOK, PopperOK, At
<1> QED
  BY <1>1, <1>3, <1>4, <1>5, <1>7, HintStep

LEMMA RecycleStep ==
  ASSUME IInv, NEW th \in Thread,
         RecycleLoad(th) \/ RecycleCas(th) \/ RecycleRetry(th)
  PROVE  IInv'
<1>1. UNCHANGED <<next, pre, tail, used, order, gone>>
  BY DEF RecycleLoad, RecycleCas, RecycleRetry, history
<1>2. last[th] \in Node
  BY DEF RecycleLoad, RecycleCas, RecycleRetry, IInv, PopperOK, At
<1>3. TypeOK'
  <2>1. TypeOK
    BY DEF IInv
  <2>2. CASE RecycleLoad(th) \/ RecycleRetry(th)
    BY <1>2, <2>1, <2>2
       DEF TypeOK, RecycleLoad, RecycleRetry, Chain, history, Goto, Label
  <2>3. CASE RecycleCas(th)
    BY <1>2, <2>1, <2>3 DEF TypeOK, RecycleCas, Return, history, Goto, Label
  <2> QED
    BY <2>2, <2>3
<1>4. \A u \in Thread \ {th} : UNCHANGED Own(u)
  BY DEF IInv, TypeOK, RecycleLoad, RecycleCas, RecycleRetry, Chain, Return, Goto, Own
<1>5. /\ pc'[th] \in {"recycle_cas", "idle"}
      /\ pc'[th] = "recycle_cas" => last'[th] = last[th]
  BY DEF IInv, TypeOK, RecycleLoad, RecycleCas, RecycleRetry, Chain, Return, Goto
<1>6. ~Making(th)' /\ PusherOK(th)' /\ PopperOK(th)'
  BY <1>2, <1>5 DEF Making, PusherOK, PopperOK, At
<1> QED
  BY <1>1, <1>3, <1>4, <1>6, LocalStep

\* The compare-and-swap succeeds on the oldest node only: next is exact, and
\* the node was seen to have no next itself.
LEMMA PopCasFacts ==
  ASSUME IInv, NEW th \in Thread, PopCas(th)
  PROVE  /\ gone < Len(order)
         /\ last[th] = order[gone + 1]
         /\ prev[th] = IF gone + 1 = Len(order) THEN Front ELSE order[gone + 2]
<1>1. /\ order \in Seq(Node) /\ gone \in 0..Len(order)
      /\ \A i, j \in 1..Len(order) : order[i] = order[j] => i = j
      /\ next[Front] = Older(Len(order) + 1)
      /\ \A i \in 1..Len(order) : next[order[i]] = Older(i)
  BY DEF IInv, TypeOK, ChainOK
<1>2. /\ prev[th] \in Link /\ last[th] \in Linked /\ next[last[th]] = Nil
      /\ next[prev[th]] = last[th]
  BY DEF IInv, PopperOK, PopCas, At
<1>3. PICK i \in 1..Len(order) : last[th] = order[i]
  BY <1>2 DEF Linked
<1>4. /\ \A j \in 1..Len(order) : order[j] \in Node /\ order[j] # Nil
      /\ Len(order) \in Nat
  BY <1>1, NodeAssumption
<1>5. i - 1 <= gone
  <2>1. Older(i) = Nil
    BY <1>1, <1>2, <1>3
  <2> QED
    BY <1>1, <1>3, <1>4, <2>1 DEF Older
<1>6. CASE prev[th] = Front
  <2>1. Older(Len(order) + 1) = order[i]
    BY <1>1, <1>2, <1>3, <1>6
  <2>2. Len(order) > gone /\ order[Len(order)] = order[i]
    BY <1>1, <1>3, <1>4, <2>1 DEF Older
  <2>3. i = Len(order)
    BY <1>1, <1>3, <1>4, <2>2
  <2> QED
    BY <1>1, <1>3, <1>4, <1>5, <1>6, <2>2, <2>3
<1>7. CASE prev[th] # Front
  <2>1. PICK k \in 1..Len(order) : prev[th] = order[k]
    BY <1>2, <1>7 DEF Link, Linked
  <2>2. Older(k) = order[i]
    BY <1>1, <1>2, <1>3, <2>1
  <2>3. k - 1 > gone /\ order[k - 1] = order[i]
    BY <1>1, <1>3, <1>4, <2>1, <2>2 DEF Older
  <2>4. k - 1 = i
    BY <1>1, <1>3, <1>4, <2>1, <2>3
  <2> QED
    BY <1>1, <1>3, <1>4, <1>5, <2>1, <2>3, <2>4
<1> QED
  BY <1>6, <1>7

LEMMA PopCasStep ==
  ASSUME IInv, NEW th \in Thread, PopCas(th)
  PROVE  IInv'
<1>1. /\ next' = [next EXCEPT ![prev[th]] = Nil] /\ gone' = gone + 1
      /\ UNCHANGED <<pre, tail, used, order>>
  BY DEF PopCas
<1>2. /\ order \in Seq(Node) /\ gone \in 0..Len(order) /\ Len(order) \in Nat
      /\ next \in [Linkable -> Node \cup {Nil}]
      /\ \A i, j \in 1..Len(order) : order[i] = order[j] => i = j
      /\ next[Front] = Older(Len(order) + 1)
      /\ \A i \in 1..Len(order) : next[order[i]] = Older(i)
      /\ \A i \in 1..Len(order) : order[i] \in Node
  BY DEF IInv, TypeOK, ChainOK
<1>3. /\ gone < Len(order)
      /\ last[th] = order[gone + 1]
      /\ prev[th] = IF gone + 1 = Len(order) THEN Front ELSE order[gone + 2]
  BY PopCasFacts
<1>4. Linked' = Linked /\ Link' = Link /\ Linked \subseteq Node /\ Link \subseteq Linkable
  BY <1>1, LinkTypes DEF IInv, Linked, Link
<1>5. prev[th] \in Link /\ last[th] \in Linked
  BY DEF IInv, PopperOK, PopCas, At
<1>6. TypeOK'
  BY <1>2, <1>3, <1>4, <1>5 DEF IInv, TypeOK, PopCas, Goto, Label
<1>7. ChainOK'
  <2>1. \A i \in 1..(Len(order) + 1) :
            Older(i)' = IF i = gone + 2 THEN Nil ELSE Older(i)
    BY <1>1, <1>2 DEF Older
  <2>2. next'[Front] = Older(Len(order) + 1)'
    BY <1>1, <1>2, <1>3, <2>1, NodeAssumption DEF Linkable
  <2>3. ASSUME NEW i \in 1..Len(order)
        PROVE  next'[order[i]] = Older(i)'
    <3>1. order[i] \in Linkable /\ order[i] # Front
      BY <1>2, NodeAssumption DEF Linkable
    <3>2. order[i] = prev[th] <=> i = gone + 2
      BY <1>2, <1>3, <3>1
    <3> QED
      BY <1>1, <1>2, <2>1, <3>1, <3>2
  <2> QED
    BY <1>1, <1>2, <2>2, <2>3 DEF ChainOK
<1>8. HintsOK'
  BY <1>1, <1>4 DEF IInv, HintsOK
<1>9. \A u \in Thread \ {th} : UNCHANGED Own(u)
  BY DEF IInv, TypeOK, PopCas, Goto, Own
<1>10. pc'[th] = "pop_store" /\ prev'[th] = prev[th] /\ last'[th] = last[th]
  BY DEF IInv, TypeOK, PopCas, Goto
<1>11. \A n \in Linkable : n \notin Link \/ next[n] = Nil => next'[n] = next[n]
  BY <1>1, <1>2, <1>4, <1>5
<1>12. PusherOK(th)' /\ PopperOK(th)'
  BY <1>4, <1>5, <1>10 DEF PusherOK, PopperOK, Making, At
<1>13. ASSUME NEW u \in Thread \ {th}
       PROVE  PusherOK(u)' /\ PopperOK(u)'
  <2>1. PusherOK(u) /\ PopperOK(u) /\ UNCHANGED Own(u)
    BY <1>9 DEF IInv
  <2>2. \A v \in Thread : Making(v)' => Making(v) /\ np'[v] = np[v]
    BY <1>9, <1>10 DEF Making, Own
  <2>3. Making(u) => np[u] \in Linkable /\ np[u] \notin Link
    <3>1. Making(u) => np[u] \in used \ Linked /\ used \subseteq Node
      BY <2>1 DEF PusherOK, IInv, TypeOK
    <3> QED
      BY <3>1, NodeAssumption DEF Linkable, Link
  <2>4. At(u, "pop_cas") => last[u] \in Linkable /\ next[last[u]] = Nil
    BY <1>4, <2>1 DEF PopperOK, At, Linkable
  <2>5. PusherOK(u)'
    BY <1>1, <1>4, <1>11, <2>1, <2>2, <2>3 DEF PusherOK, Own, At, Making
  <2>6. PopperOK(u)'
    BY <1>1, <1>4, <1>11, <2>1, <2>4 DEF PopperOK, Own, At
  <2> QED
    BY <2>5, <2>6
<1> QED
  BY <1>6, <1>7, <1>8, <1>12, <1>13 DEF IInv

-----------------------------------------------------------------------------
\* Pushes.

LEMMA PushStep ==
  ASSUME IInv, NEW th \in Thread, Push(th)
  PROVE  IInv'
<1>1. PICK n \in Node \ used :
        /\ used' = used \cup {n}
        /\ np' = [np EXCEPT ![th] = n]
        /\ pre' = [pre EXCEPT ![n] = Front]
        /\ nextFree' = [nextFree EXCEPT ![n] = Nil]
  BY DEF Push
<1>2. UNCHANGED <<next, tail, order, gone>> /\ pc' = [pc EXCEPT ![th] = "push_load"]
  BY DEF Push, history, Goto
<1>3. Linked' = Linked /\ Link' = Link /\ Linked \subseteq used /\ n \notin Linked
      /\ n # Front
  BY <1>1, <1>2, NodeAssumption DEF IInv, HintsOK, Linked, Link
<1>4. TypeOK'
  BY <1>1 DEF IInv, TypeOK, Push, history, Goto, Label, Linkable
<1>5. ChainOK'
  BY <1>2 DEF IInv, ChainOK, Older
<1>6. HintsOK'
  BY <1>1, <1>2, <1>3 DEF IInv, TypeOK, HintsOK, Linkable, Link
<1>7. \A u \in Thread \ {th} : UNCHANGED Own(u)
  BY <1>1, <1>2 DEF IInv, TypeOK, Push, Own
<1>8. pc'[th] = "push_load" /\ np'[th] = n
  BY <1>1, <1>2 DEF IInv, TypeOK
<1>9. \A u \in Thread \ {th} : Making(u)' => Making(u) /\ np'[u] = np[u] /\ np[u] \in used
  BY <1>7 DEF IInv, PusherOK, Making, Own
<1>10. PusherOK(th)' /\ PopperOK(th)'
  <2>1. pre'[n] = Front
    BY <1>1 DEF IInv, TypeOK, Linkable
  <2> QED
    BY <1>1, <1>3, <1>8, <1>9, <2>1 DEF PusherOK, PopperOK, Making, At
<1>11. ASSUME NEW u \in Thread \ {th}
       PROVE  PusherOK(u)' /\ PopperOK(u)'
  <2>1. PusherOK(u) /\ PopperOK(u) /\ UNCHANGED Own(u)
    BY <1>7 DEF IInv
  <2>2. PusherOK(u)'
    BY <1>1, <1>2, <1>3, <1>8, <1>9, <2>1 DEF PusherOK, Own, At, Making
  <2>3. PopperOK(u)'
    BY <1>2, <1>3, <2>1 DEF PopperOK, Own, At
  <2> QED
    BY <2>2, <2>3
<1> QED
  BY <1>4, <1>5, <1>6, <1>10, <1>11 DEF IInv

\* Writing next of a node that is not in the queue yet.
LEMMA PrepareStep ==
  ASSUME IInv, NEW th \in Thread, PushLoad(th) \/ PushRetry(th)
  PROVE  IInv'
<1> DEFINE n == np[th]
<1>1. /\ next' = [next EXCEPT ![n] = next[Front]]
      /\ old' = [old EXCEPT ![th] = next[Front]]
      /\ pc' = [pc EXCEPT ![th] = "push_cas"]
      /\ UNCHANGED <<pre, tail, used, np, prev, last, order, gone>>
  BY DEF PushLoad, PushRetry, Prepare, Goto, history
<1>2. Making(th) /\ n \in used \ Linked /\ n \in Linkable /\ n # Front
  <2>1. Making(th) /\ PusherOK(th)
    BY DEF IInv, PushLoad, PushRetry, Making, At
  <2> QED
    BY <2>1, NodeAssumption DEF IInv, TypeOK, PusherOK, Linkable
<1>3. Linked' = Linked /\ Link' = Link /\ Linked \subseteq Linkable
  BY <1>1, LinkTypes DEF IInv, Linked, Link, Linkable
<1>4. TypeOK'
  BY <1>1, <1>2 DEF IInv, TypeOK, PushLoad, PushRetry, Label, Linkable, history
<1>5. \A m \in Linkable : m # n => next'[m] = next[m]
  BY <1>1, <1>2 DEF IInv, TypeOK
<1>6. ChainOK'
  <2>1. \A i \in 1..Len(order) : order[i] \in Linked
    BY DEF Linked
  <2>2. \A i \in 1..Len(order) : order[i] \in Linkable /\ order[i] # n
    BY <1>2, <1>3, <2>1
  <2>3. Front \in Linkable
    BY DEF Linkable
  <2> QED
    BY <1>1, <1>2, <1>5, <2>2, <2>3 DEF IInv, ChainOK, Older
<1>7. HintsOK'
  BY <1>1, <1>3 DEF IInv, HintsOK
<1>8. \A u \in Thread \ {th} : UNCHANGED Own(u)
  BY <1>1 DEF IInv, TypeOK, Own
<1>9. \A u \in Thread : Making(u)' => Making(u) /\ np'[u] = np[u]
  BY <1>1, <1>2, <1>8 DEF Making, Own
<1>10. pc'[th] = "push_cas" /\ next'[n] = old'[th]
  BY <1>1, <1>2 DEF IInv, TypeOK
<1>11. PusherOK(th)' /\ PopperOK(th)'
  BY <1>1, <1>2, <1>3, <1>9, <1>10 DEF IInv, PusherOK, PopperOK, Making, At
<1>12. ASSUME NEW u \in Thread \ {th}
       PROVE  PusherOK(u)' /\ PopperOK(u)'
  <2>1. PusherOK(u) /\ PopperOK(u) /\ UNCHANGED Own(u)
    BY <1>8 DEF IInv
  <2>2. Making(u) => np[u] \in Linkable /\ np[u] # n
    BY <1>2, <2>1 DEF IInv, TypeOK, PusherOK, Linkable
  <2>3. At(u, "pop_cas") => last[u] \in Linkable /\ last[u] # n
    BY <1>2, <1>3, <2>1 DEF PopperOK, At
  <2>4. PusherOK(u)'
    BY <1>1, <1>3, <1>5, <1>9, <2>1, <2>2 DEF PusherOK, Own, At, Making
  <2>5. PopperOK(u)'
    BY <1>3, <1>5, <2>1, <2>3 DEF PopperOK, Own, At
  <2> QED
    BY <2>4, <2>5
<1> QED
  BY <1>4, <1>6, <1>7, <1>11, <1>12 DEF IInv

LEMMA PushCasStep ==
  ASSUME IInv, NEW th \in Thread, PushCas(th)
  PROVE  IInv'
<1> DEFINE n == np[th]
<1>1. /\ next' = [next EXCEPT ![Front] = n]
      /\ order' = Append(order, n)
      /\ pc' = [pc EXCEPT ![th] = "push_reload"]
      /\ UNCHANGED <<pre, tail, used, np, old, prev, last, gone>>
      /\ next[Front] = old[th]
  BY DEF PushCas, Goto
<1>2. /\ Making(th) /\ n \in used \ Linked /\ n \in Node /\ n # Front
      /\ next[n] = old[th]
      /\ \A u \in Thread \ {th} : Making(u) => np[u] # n
  <2>1. At(th, "push_cas") /\ PusherOK(th)
    BY DEF IInv, PushCas
  <2>2. Making(th)
    BY <2>1 DEF Making, At
  <2>3. n \in used \ Linked /\ next[n] = old[th]
        /\ \A u \in Thread \ {th} : Making(u) => np[u] # n
    BY <2>1, <2>2 DEF PusherOK
  <2> QED
    BY <2>2, <2>3, NodeAssumption DEF IInv, TypeOK
<1>3. /\ order \in Seq(Node) /\ gone \in 0..Len(order) /\ Len(order) \in Nat
      /\ next \in [Linkable -> Node \cup {Nil}]
      /\ \A i, j \in 1..Len(order) : order[i] = order[j] => i = j
      /\ next[Front] = Older(Len(order) + 1)
      /\ \A i \in 1..Len(order) : next[order[i]] = Older(i)
      /\ \A i \in 1..Len(order) : order[i] \in Node /\ order[i] # n /\ order[i] # Front
  BY <1>2, NodeAssumption DEF IInv, TypeOK, ChainOK, Linked
<1>4. /\ Len(order') = Len(order) + 1 /\ order'[Len(order) + 1] = n
      /\ \A i \in 1..Len(order) : order'[i] = order[i]
  BY <1>1, <1>2, <1>3
<1>5. Linked' = Linked \cup {n} /\ Link' = Link \cup {n}
  <2>1. Linked' = Linked \cup {n}
    BY <1>3, <1>4 DEF Linked
  <2> QED
    BY <2>1 DEF Link
<1> HIDE DEF n
<1>6. TypeOK'
  <2>1. order' \in Seq(Node) /\ gone' \in 0..Len(order')
    <3>1. order' \in Seq(Node)
      BY <1>1, <1>2, <1>3
    <3> QED
      BY <1>1, <1>3, <1>4, <3>1
  <2>2. next' \in [Linkable -> Node \cup {Nil}] /\ pc' \in [Thread -> Label]
    BY <1>1, <1>2, <1>3 DEF IInv, TypeOK, Label
  <2> QED
    BY <1>1, <2>1, <2>2 DEF IInv, TypeOK, PushCas
<1>7. ChainOK'
  <2>0. gone' = gone
    BY <1>1
  <2>a. PICK L \in Nat : L = Len(order)
    BY <1>3
  <2>1. \A i \in 1..(Len(order) + 1) : Older(i)' = Older(i)
    <3>1. ASSUME NEW i \in 1..(Len(order) + 1)
          PROVE  Older(i)' = Older(i)
      <4>1. i - 1 > gone => i - 1 \in 1..Len(order)
        BY <1>3
      <4>2. i - 1 > gone => order'[i - 1] = order[i - 1]
        BY <1>4, <4>1
      <4> QED
        BY <2>0, <4>2 DEF Older
    <3> QED
      BY <3>1
  <2>2. Older(L + 2)' = n
    <3>1. L + 2 - 1 = L + 1 /\ L + 1 > gone /\ order'[L + 1] = n
      BY <1>3, <1>4, <2>a
    <3> QED
      BY <2>0, <3>1 DEF Older
  <2>3. next'[Front] = n /\ next'[n] = next[n]
        /\ \A i \in 1..Len(order) : next'[order[i]] = next[order[i]]
    BY <1>1, <1>2, <1>3 DEF Linkable
  <2>4. \A i \in 1..Len(order') : next'[order'[i]] = Older(i)'
    <3>1. ASSUME NEW i \in 1..Len(order)
          PROVE  next'[order'[i]] = Older(i)'
      <4>1. next'[order[i]] = Older(i) /\ order'[i] = order[i]
        BY <1>3, <1>4, <2>3
      <4>2. i \in 1..(Len(order) + 1)
        BY <1>3
      <4>3. Older(i)' = Older(i)
        BY <2>1, <4>2
      <4> QED
        BY <4>1, <4>3
    <3>2. next'[order'[L + 1]] = Older(L + 1)'
      <4>1. next[n] = next[Front]
        BY <1>1, <1>2
      <4>2. L + 1 \in 1..(Len(order) + 1)
        BY <2>a
      <4>3. Older(L + 1)' = Older(L + 1)
        BY <2>1, <4>2
      <4> QED
        BY <1>3, <1>4, <2>3, <2>a, <4>1, <4>3
    <3>3. \A i \in 1..Len(order') : i \in 1..Len(order) \/ i = L + 1
      BY <1>3, <1>4, <2>a
    <3> QED
      BY <3>1, <3>2, <3>3
  <2>5. \A i, j \in 1..Len(order') : order'[i] = order'[j] => i = j
    BY <1>3, <1>4
  <2>6. (next[Front] = Older(Len(order) + 1))'
    <3>1. Len(order)' + 1 = L + 2
      BY <1>4, <2>a
    <3> QED
      BY <2>0, <2>2, <2>3, <3>1 DEF Older
  <2> QED
    BY <2>4, <2>5, <2>6 DEF ChainOK
<1>8. HintsOK'
  <2>1. pre[n] = Front
    BY <1>2 DEF IInv, PusherOK, n
  <2> QED
    BY <1>1, <1>2, <1>5, <2>1 DEF IInv, HintsOK, Link
<1>9. \A u \in Thread \ {th} : UNCHANGED Own(u)
  BY <1>1 DEF IInv, TypeOK, Own
<1>10. pc'[th] = "push_reload" /\ np'[th] = n
  BY <1>1 DEF IInv, TypeOK, n
<1>11. PusherOK(th)' /\ PopperOK(th)'
  BY <1>5, <1>10 DEF PusherOK, PopperOK, Making, At
<1>12. ASSUME NEW u \in Thread \ {th}
       PROVE  PusherOK(u)' /\ PopperOK(u)'
  <2>1. PusherOK(u) /\ PopperOK(u) /\ UNCHANGED Own(u)
    BY <1>9 DEF IInv
  <2>2. \A v \in Thread : Making(v)' => Making(v) /\ np'[v] = np[v]
    BY <1>9, <1>10 DEF Making, Own
  <2>3. Making(u) => np[u] \in Node /\ np[u] # n /\ next'[np[u]] = next[np[u]]
    <3>1. Making(u) => np[u] \in Node /\ np[u] # n
      BY <1>2, <2>1 DEF IInv, TypeOK, PusherOK
    <3> QED
      BY <1>1, <1>3, <3>1, NodeAssumption DEF Linkable
  <2>4. last[u] \in Linked => next'[last[u]] = next[last[u]]
    BY <1>1, <1>3, NodeAssumption DEF Linkable, Linked
  <2>5. PusherOK(u)'
    BY <1>1, <1>5, <2>1, <2>2, <2>3 DEF PusherOK, Own, At, Making
  <2>6. PopperOK(u)'
    BY <1>5, <2>1, <2>4 DEF PopperOK, Own, At
  <2> QED
    BY <2>5, <2>6
<1> QED
  BY <1>6, <1>7, <1>8, <1>11, <1>12 DEF IInv

LEMMA PushReloadStep ==
  ASSUME IInv, NEW th \in Thread, PushReload(th)
  PROVE  IInv'
<1>1. UNCHANGED <<next, pre, tail, used, order, gone>>
  BY DEF PushReload, shared, history
<1>2. np[th] \in Linked /\ next[np[th]] \in Linked \cup {Nil}
  <2>1. np[th] \in Linked
    BY DEF PushReload, IInv, PusherOK, At
  <2> QED
    BY <2>1, NextLinked DEF Link
<1>3. TypeOK'
  BY <1>2, LinkTypes DEF IInv, TypeOK, PushReload, shared, history, Goto, Label
<1>4. \A u \in Thread \ {th} : UNCHANGED Own(u)
  BY DEF IInv, TypeOK, PushReload, Goto, Own
<1>5. pc'[th] = "push_hint" /\ np'[th] = np[th] /\ old'[th] = next[np[th]]
  BY DEF IInv, TypeOK, PushReload, Goto
<1>6. ~Making(th)' /\ PusherOK(th)' /\ PopperOK(th)'
  BY <1>1, <1>2, <1>5 DEF Making, PusherOK, PopperOK, At, Linked
<1> QED
  BY <1>1, <1>3, <1>4, <1>6, LocalStep

LEMMA PushHintStep ==
  ASSUME IInv, NEW th \in Thread, PushHint(th)
  PROVE  IInv'
<1>1. UNCHANGED <<next, used, order, gone>>
  BY DEF PushHint, history
<1>2. np[th] \in Linked /\ old[th] \in Linked \cup {Nil}
  BY DEF PushHint, IInv, PusherOK, At
<1>3. Linked' = Linked /\ Link' = Link /\ Linked \subseteq Node /\ Nil \notin Linked
  BY <1>1, LinkTypes, NodeAssumption DEF IInv, Linked, Link
<1>4. \/ pre' = [pre EXCEPT ![old[th]] = np[th]] /\ old[th] \in Linked /\ UNCHANGED tail
      \/ tail' = np[th] /\ UNCHANGED pre
  BY <1>2 DEF PushHint
<1>5. TypeOK'
  BY <1>2, <1>3, <1>4
     DEF IInv, TypeOK, PushHint, Return, Goto, history, Label, Linkable
<1>6. HintsOK' /\ \A n \in Node \ Linked : pre'[n] = pre[n]
  BY <1>1, <1>2, <1>3, <1>4, NodeAssumption DEF IInv, TypeOK, HintsOK, Link, Linkable
<1>7. \A u \in Thread \ {th} : UNCHANGED Own(u)
  BY DEF IInv, TypeOK, PushHint, Return, Goto, Own
<1>8. pc'[th] = "idle"
  BY DEF IInv, TypeOK, PushHint, Return, Goto
<1>9. ~Making(th)' /\ PusherOK(th)' /\ PopperOK(th)'
  BY <1>8 DEF Making, PusherOK, PopperOK, At
<1> QED
  BY <1>1, <1>5, <1>6, <1>7, <1>9, HintStep

LEMMA Inductive ==
  ASSUME IInv, [Next]_vars
  PROVE  IInv'
<1>1. CASE UNCHANGED vars
  BY <1>1 DEF vars, shared, local, history, IInv, TypeOK, ChainOK, HintsOK, PusherOK,
              PopperOK, Making, At, Linked, Link, Older
<1>2. ASSUME NEW th \in Thread, Push(th) \/ PushGoes(th)
      PROVE  IInv'
  BY <1>2, PushStep, PrepareStep, PushCasStep, PushReloadStep, PushHintStep DEF PushGoes
<1>3. ASSUME NEW th \in Thread, Pop(th) \/ PopGoes(th)
      PROVE  IInv'
  BY <1>3, PopStep, PopBackStep, PopPreStep, PopFirstStep, PopForwardStep, PopCasStep,
     PopStoreStep, RecycleStep DEF PopGoes
<1> QED
  BY <1>1, <1>2, <1>3 DEF Next

LEMMA InitOK == Init => IInv
<1> SUFFICES ASSUME Init PROVE IInv
  OBVIOUS
<1>1. TypeOK
  BY NodeAssumption DEF Init, TypeOK, Linkable, Label
<1>2. Len(order) = 0 /\ Linked = {}
  BY DEF Init, Linked
<1>3. ChainOK /\ HintsOK
  BY <1>2 DEF Init, ChainOK, HintsOK, Linkable, Link, Older
<1>4. \A th \in Thread : PusherOK(th) /\ PopperOK(th)
  BY DEF Init, PusherOK, PopperOK, Making, At
<1> QED
  BY <1>1, <1>3, <1>4 DEF IInv

\* For any number of threads and nodes, next leads from the head through the
\* queued nodes and nowhere else, and what push and pop have read stays usable.
THEOREM Invariance == Spec => []IInv
<1> QED
  BY InitOK, Inductive, PTL DEF Spec

LEMMA QueueInit == Init => Queue!Init
<1> SUFFICES ASSUME Init PROVE Queue!Init
  OBVIOUS
<1>1. SubSeq(order, gone + 1, Len(order)) = <<>>
  BY SubSeqEmpty DEF Init
<1> QED
  BY <1>1 DEF Init, Queue!Init

\* A successful push appends its node to what is queued.
LEMMA PushAppends ==
  ASSUME IInv, NEW th \in Thread, PushCas(th)
  PROVE  Queue!Next
<1> DEFINE n == np[th]
<1> DEFINE q == SubSeq(order, gone + 1, Len(order))
<1>1. /\ order \in Seq(Node) /\ gone \in 0..Len(order) /\ n \in Node
      /\ order' = Append(order, n) /\ gone' = gone /\ out' = out
  BY DEF IInv, TypeOK, PushCas, PusherOK, Making, At
<1>2. q' = Append(q, n)
  <2> HIDE DEF n
  <2>0. PICK L \in Nat : L = Len(order)
    BY <1>1
  <2>1. /\ Len(order') = L + 1 /\ order'[L + 1] = n /\ order' \in Seq(Node)
        /\ \A i \in 1..L : order'[i] = order[i]
    BY <1>1, <2>0, AppendProperties
  <2>2. q' = SubSeq(order', gone + 1, L + 1)
    BY <1>1, <2>1
  <2>3. /\ SubSeq(order, gone + 1, L) \in Seq(Node)
        /\ Len(SubSeq(order, gone + 1, L)) = L - gone
        /\ \A i \in 1..(L - gone) : SubSeq(order, gone + 1, L)[i] = order[gone + i]
    <3>1. \A i \in (gone + 1)..L : order[i] \in Node
      BY <1>1, <2>0
    <3> QED
      BY <1>1, <2>0, <3>1, SubSeqProperties
  <2>4. /\ SubSeq(order', gone + 1, L + 1) \in Seq(Node)
        /\ Len(SubSeq(order', gone + 1, L + 1)) = L + 1 - gone
        /\ \A i \in 1..(L + 1 - gone) :
               SubSeq(order', gone + 1, L + 1)[i] = order'[gone + i]
    <3>1. \A i \in (gone + 1)..(L + 1) : order'[i] \in Node
      BY <1>1, <2>0, <2>1
    <3> QED
      BY <1>1, <2>0, <3>1, SubSeqProperties
  <2>5. q = SubSeq(order, gone + 1, L)
    BY <2>0
  <2> HIDE DEF q
  <2>6. /\ Append(q, n) \in Seq(Node) /\ Len(Append(q, n)) = L + 1 - gone
        /\ \A i \in 1..(L - gone) : Append(q, n)[i] = q[i]
        /\ Append(q, n)[L - gone + 1] = n
    BY <1>1, <2>0, <2>3, <2>5, AppendProperties
  <2>7. ASSUME NEW i \in 1..(L + 1 - gone)
        PROVE  q'[i] = Append(q, n)[i]
    <3>1. CASE i \in 1..(L - gone)
      <4>1. gone + i \in 1..L
        BY <1>1, <2>0, <3>1
      <4> QED
        BY <2>1, <2>2, <2>3, <2>4, <2>5, <2>6, <2>7, <3>1, <4>1
    <3>2. CASE i = L - gone + 1
      <4>1. gone + i = L + 1
        BY <1>1, <2>0, <3>2
      <4> QED
        BY <2>1, <2>2, <2>4, <2>6, <2>7, <3>2, <4>1
    <3>3. i \in 1..(L - gone) \/ i = L - gone + 1
      BY <1>1, <2>0, <2>7
    <3> QED
      BY <3>1, <3>2, <3>3
  <2>8. Len(q') = Len(Append(q, n)) /\ q' \in Seq(Node)
    BY <2>2, <2>4, <2>6
  <2> QED
    BY <2>6, <2>7, <2>8, SeqEqual
<1> QED
  BY <1>1, <1>2 DEF Queue!Next, Queue!Push

\* A successful pop takes the oldest node that is queued.
LEMMA PopTakesOldest ==
  ASSUME IInv, NEW th \in Thread, PopCas(th)
  PROVE  Queue!Next
<1> DEFINE q == SubSeq(order, gone + 1, Len(order))
<1>1. /\ order \in Seq(Node) /\ gone \in 0..Len(order) /\ Len(order) \in Nat
      /\ order' = order /\ gone' = gone + 1
      /\ out' = [out EXCEPT ![th] = last[th]]
  BY DEF IInv, TypeOK, PopCas
<1>2. gone < Len(order) /\ last[th] = order[gone + 1]
  BY PopCasFacts
<1>3. gone + 1 \in 1..Len(order) /\ Len(order) \in (gone + 1)..Len(order)
  BY <1>1, <1>2
<1>4. Head(q) = order[gone + 1] /\ Tail(q) = SubSeq(order, gone + 1 + 1, Len(order))
  BY <1>1, <1>3, HeadTailOfSubSeq
<1>5. q # <<>>
  <2>1. \A i \in (gone + 1)..Len(order) : order[i] \in Node
    BY <1>1
  <2>2. Len(q) = Len(order) - (gone + 1) + 1
    BY <1>1, <1>2, <2>1, SubSeqProperties
  <2>3. Len(q) > 0
    BY <1>1, <1>2, <2>2
  <2> HIDE DEF q
  <2> QED
    BY <2>3
<1>6. q' = Tail(q)
  BY <1>1, <1>4
<1> QED
  BY <1>1, <1>2, <1>4, <1>5, <1>6 DEF Queue!Next, Queue!Pop

\* A pop that comes back to the head when the head has no next leaves an empty
\* queue empty.
LEMMA PopFindsNothing ==
  ASSUME IInv, NEW th \in Thread, PopBack(th)
  PROVE  [Queue!Next]_Queue!vars
<1> DEFINE q == SubSeq(order, gone + 1, Len(order))
<1>1. q' = q
  BY DEF PopBack, history
<1>2. CASE out' = out
  BY <1>1, <1>2 DEF Queue!vars
<1>3. CASE out' = [out EXCEPT ![th] = Nil] /\ next[Front] = Nil
  <2>1. /\ order \in Seq(Node) /\ gone \in 0..Len(order)
        /\ Older(Len(order) + 1) = Nil
    BY <1>3 DEF IInv, TypeOK, ChainOK
  <2>2. gone = Len(order)
    BY <2>1, NodeAssumption DEF Older
  <2>3. q = <<>>
    BY <2>1, <2>2, SubSeqEmpty
  <2> QED
    BY <1>1, <1>3, <2>3 DEF Queue!Next, Queue!PopNothing
<1> QED
  BY <1>2, <1>3 DEF PopBack

LEMMA QueueNext ==
  ASSUME IInv, [Next]_vars
  PROVE  [Queue!Next]_Queue!vars
<1>1. CASE UNCHANGED vars
  BY <1>1 DEF vars, local, history, Queue!vars
<1>2. ASSUME UNCHANGED <<out, order, gone>>
      PROVE  [Queue!Next]_Queue!vars
  BY <1>2 DEF Queue!vars
<1>3. ASSUME NEW th \in Thread, Push(th) \/ PushGoes(th)
      PROVE  [Queue!Next]_Queue!vars
  <2>1. CASE PushCas(th)
    BY <2>1, PushAppends
  <2>2. CASE Push(th) \/ PushLoad(th) \/ PushRetry(th) \/ PushReload(th) \/ PushHint(th)
    BY <1>2, <2>2
       DEF Push, PushLoad, PushRetry, PushReload, PushHint, Return, shared, history
  <2> QED
    BY <1>3, <2>1, <2>2 DEF PushGoes
<1>4. ASSUME NEW th \in Thread, Pop(th) \/ PopGoes(th)
      PROVE  [Queue!Next]_Queue!vars
  <2>1. CASE PopCas(th)
    BY <2>1, PopTakesOldest
  <2>2. CASE PopBack(th)
    BY <2>2, PopFindsNothing
  <2>3. CASE \/ Pop(th) \/ PopTail(th) \/ PopPre(th) \/ PopFirst(th) \/ PopForward(th)
             \/ PopRetry(th) \/ PopStore(th)
    BY <1>2, <2>3
       DEF Pop, PopTail, PopPre, PopFirst, PopForward, PopRetry, PopStore, history
  <2>4. CASE RecycleLoad(th) \/ RecycleCas(th) \/ RecycleRetry(th)
    BY <1>2, <2>4 DEF RecycleLoad, RecycleCas, RecycleRetry, Return, history
  <2> QED
    BY <1>4, <2>1, <2>2, <2>3, <2>4 DEF PopGoes
<1> QED
  BY <1>1, <1>3, <1>4 DEF Next

\* The lock-free queue is linearizable to a first-in first-out queue for any
\* number of threads and nodes (TWI_Nb_queue_push, TWI_Nb_queue_pop).
THEOREM QueueImplemented == Spec => ImplementsFifo
<1> QED
  BY QueueInit, QueueNext, Invariance, PTL DEF Spec, ImplementsFifo, Queue!Spec
-----------------------------------------------------------------------------
(* Each node is freed once. *)

\* The nodes that have been unlinked, the threads that have one to recycle, and
\* what they have.
Popped        == {order[j] : j \in 1..gone}
Recycling(th) == pc[th] \in {"pop_store", "recycle_load", "recycle_cas"}
Owned         == {last[th] : th \in {u \in Thread : Recycling(u)}}

\* The nodes that are being pushed.
Fresh == {np[th] : th \in {u \in Thread : Making(u)}}

\* The recycle list is r, its top last.
Recycled(r) ==
    /\ r \in Seq(Node)
    /\ \A k, m \in 1..Len(r) : r[k] = r[m] => k = m
    /\ recycle = IF Len(r) = 0 THEN Nil ELSE r[Len(r)]
    /\ \A k \in 1..Len(r) : nextFree[r[k]] = IF k > 1 THEN r[k - 1] ELSE Nil
    /\ \A k \in 1..Len(r) : r[k] \in Popped \ Owned
    /\ \A n \in Popped \ Owned : \E k \in 1..Len(r) : n = r[k]

\* A node that has been unlinked is in the recycle list, or one thread has it.
RecycleInv ==
    /\ used = Linked \cup Fresh
    /\ \A th \in Thread : Recycling(th) => last[th] \in Popped
    /\ \A th, u \in Thread : Recycling(th) /\ Recycling(u) /\ last[th] = last[u] => th = u
    /\ \A th \in Thread : At(th, "recycle_cas") => nextFree[last[th]] = cur[th]
    /\ \E r : Recycled(r)

LEMMA PoppedLinked ==
  ASSUME IInv
  PROVE  /\ Popped \subseteq Linked /\ Linked \subseteq Node /\ Linked \subseteq used
         /\ Len(order) \in Nat /\ gone \in 0..Len(order)
         /\ \A j \in 1..Len(order) : order[j] \in Linked
         /\ \A j \in 1..Len(order) : order[j] \in Popped => j <= gone
  BY DEF IInv, TypeOK, ChainOK, HintsOK, Popped, Linked

LEMMA InitRecycle == Init => RecycleInv
<1> SUFFICES ASSUME Init PROVE RecycleInv
  OBVIOUS
<1>1. /\ Len(order) = 0 /\ gone = 0 /\ recycle = Nil /\ used = {}
      /\ \A th \in Thread : pc[th] = "idle"
  BY DEF Init
<1>2. Popped = {} /\ Linked = {} /\ Fresh = {}
  BY <1>1 DEF Popped, Linked, Fresh, Making
<1>3. Recycled(<<>>)
  BY <1>1, <1>2 DEF Recycled
<1> QED
  BY <1>1, <1>2, <1>3 DEF RecycleInv, Recycling, At

\* A step of th that neither pushes nor pops a node nor changes the recycle list.
LEMMA AsideStep ==
  ASSUME IInv, RecycleInv, NEW th \in Thread,
         UNCHANGED <<nextFree, recycle, used, order, gone>>,
         \A u \in Thread \ {th} : UNCHANGED Own(u) /\ cur'[u] = cur[u],
         Recycling(th)' = Recycling(th), Recycling(th) => last'[th] = last[th],
         Making(th)' = Making(th), Making(th) => np'[th] = np[th],
         pc'[th] # "recycle_cas"
  PROVE  RecycleInv'
<1>1. /\ \A u \in Thread : Recycling(u)' = Recycling(u) /\ (Recycling(u) => last'[u] = last[u])
      /\ \A u \in Thread : Making(u)' = Making(u) /\ (Making(u) => np'[u] = np[u])
  BY DEF Own, Recycling, Making
<1>2. Popped' = Popped /\ Linked' = Linked
  BY DEF Popped, Linked
<1>3. Owned' = Owned
  BY <1>1 DEF Owned
<1>4. Fresh' = Fresh
  BY <1>1 DEF Fresh
<1>5. PICK r : Recycled(r)
  BY DEF RecycleInv
<1>6. Recycled(r)'
  BY <1>2, <1>3, <1>5 DEF Recycled
<1>7. ASSUME NEW u \in Thread, At(u, "recycle_cas")'
      PROVE  nextFree'[last'[u]] = cur'[u]
  <2>1. u # th /\ At(u, "recycle_cas") /\ last'[u] = last[u] /\ cur'[u] = cur[u]
    BY <1>7 DEF At, Own
  <2> QED
    BY <2>1 DEF RecycleInv
<1> QED
  BY <1>1, <1>2, <1>4, <1>6, <1>7 DEF RecycleInv

LEMMA PlainStep ==
  ASSUME IInv, RecycleInv, NEW th \in Thread,
         \/ Pop(th) \/ PopTail(th) \/ PopBack(th) \/ PopPre(th) \/ PopFirst(th)
         \/ PopForward(th) \/ PopRetry(th) \/ PopStore(th)
         \/ PushLoad(th) \/ PushRetry(th) \/ PushReload(th) \/ PushHint(th)
  PROVE  RecycleInv'
<1>1. UNCHANGED <<nextFree, recycle, used, order, gone>>
  BY DEF Pop, PopTail, PopBack, PopPre, PopFirst, PopForward, PopRetry, PopStore, PushLoad,
         PushRetry, PushReload, PushHint, shared, history
<1>2. \A u \in Thread \ {th} : UNCHANGED Own(u) /\ cur'[u] = cur[u]
  BY DEF Pop, PopTail, PopBack, PopPre, PopFirst, PopForward, PopRetry, PopStore, PushLoad,
         PushRetry, PushReload, PushHint, Prepare, Return, Goto, Own, IInv, TypeOK
<1>3. /\ Recycling(th)' = Recycling(th) /\ (Recycling(th) => last'[th] = last[th])
      /\ pc'[th] # "recycle_cas"
  BY DEF Pop, PopTail, PopBack, PopPre, PopFirst, PopForward, PopRetry, PopStore, PushLoad,
         PushRetry, PushReload, PushHint, Prepare, Return, Goto, At, Recycling, IInv, TypeOK
<1>4. Making(th)' = Making(th) /\ (Making(th) => np'[th] = np[th])
  BY DEF Pop, PopTail, PopBack, PopPre, PopFirst, PopForward, PopRetry, PopStore, PushLoad,
         PushRetry, PushReload, PushHint, Prepare, Return, Goto, At, Making, IInv, TypeOK
<1> QED
  BY <1>1, <1>2, <1>3, <1>4, AsideStep

LEMMA RecycleLoadStep ==
  ASSUME IInv, RecycleInv, NEW th \in Thread, RecycleLoad(th) \/ RecycleRetry(th)
  PROVE  RecycleInv'
<1>1. /\ nextFree' = [nextFree EXCEPT ![last[th]] = recycle]
      /\ cur' = [cur EXCEPT ![th] = recycle]
      /\ pc' = [pc EXCEPT ![th] = "recycle_cas"]
      /\ UNCHANGED <<recycle, used, order, gone, np, last>>
  BY DEF RecycleLoad, RecycleRetry, Chain, Goto, history
<1>2. Recycling(th) /\ ~Making(th)
  BY DEF RecycleLoad, RecycleRetry, At, Recycling, Making
<1>3. /\ pc \in [Thread -> Label] /\ cur \in [Thread -> Node \cup {Nil}]
      /\ nextFree \in [Node -> Node \cup {Nil}]
  BY DEF IInv, TypeOK
<1>4. /\ \A u \in Thread : Recycling(u)' = Recycling(u) /\ Making(u)' = Making(u)
      /\ \A u \in Thread \ {th} : pc'[u] = pc[u] /\ cur'[u] = cur[u]
  BY <1>1, <1>2, <1>3 DEF Recycling, Making
<1>5. Popped' = Popped /\ Linked' = Linked /\ Owned' = Owned /\ Fresh' = Fresh
  BY <1>1, <1>4 DEF Popped, Linked, Owned, Fresh
<1>6. last[th] \in Popped /\ last[th] \in Node /\ last[th] \in Owned
  BY <1>2, PoppedLinked DEF RecycleInv, Owned
<1>7. PICK r : Recycled(r)
  BY DEF RecycleInv
<1>8. \A k \in 1..Len(r) : nextFree'[r[k]] = nextFree[r[k]]
  BY <1>1, <1>3, <1>6, <1>7 DEF Recycled
<1>9. Recycled(r)'
  BY <1>1, <1>5, <1>7, <1>8 DEF Recycled
<1>10. ASSUME NEW u \in Thread, At(u, "recycle_cas")'
       PROVE  nextFree'[last'[u]] = cur'[u]
  <2>1. CASE u = th
    BY <1>1, <1>3, <1>6, <2>1
  <2>2. CASE u # th
    <3>1. At(u, "recycle_cas") /\ Recycling(u) /\ last[u] # last[th] /\ last[u] \in Node
      BY <1>2, <1>4, <1>10, <2>2, PoppedLinked DEF At, Recycling, RecycleInv
    <3>2. nextFree[last[u]] = cur[u]
      BY <3>1 DEF RecycleInv
    <3> QED
      BY <1>1, <1>3, <1>4, <2>2, <3>1, <3>2
  <2> QED
    BY <2>1, <2>2
<1> QED
  BY <1>1, <1>4, <1>5, <1>9, <1>10 DEF RecycleInv

LEMMA RecycleCasStep ==
  ASSUME IInv, RecycleInv, NEW th \in Thread, RecycleCas(th)
  PROVE  RecycleInv'
<1>1. /\ pc[th] = "recycle_cas" /\ recycle = cur[th] /\ recycle' = last[th]
      /\ pc' = [pc EXCEPT ![th] = "idle"]
      /\ np' = [np EXCEPT ![th] = Nil] /\ last' = [last EXCEPT ![th] = Nil]
      /\ cur' = [cur EXCEPT ![th] = Nil]
      /\ UNCHANGED <<nextFree, used, order, gone>>
  BY DEF RecycleCas, Return, Goto, At, history
<1>2. /\ pc \in [Thread -> Label] /\ np \in [Thread -> Node \cup {Nil}]
      /\ last \in [Thread -> Node \cup {Nil}] /\ cur \in [Thread -> Node \cup {Nil}]
  BY DEF IInv, TypeOK
<1>3. /\ \A u \in Thread \ {th} : /\ Recycling(u)' = Recycling(u) /\ Making(u)' = Making(u)
                                  /\ pc'[u] = pc[u] /\ last'[u] = last[u] /\ np'[u] = np[u]
                                  /\ cur'[u] = cur[u]
      /\ Recycling(th) /\ ~Recycling(th)' /\ ~Making(th) /\ ~Making(th)'
  BY <1>1, <1>2 DEF Recycling, Making
<1>4. Popped' = Popped /\ Linked' = Linked /\ Fresh' = Fresh
  BY <1>1, <1>3 DEF Popped, Linked, Fresh
<1> DEFINE n == last[th]
<1>5. n \in Popped /\ n \in Node /\ n \in Owned /\ nextFree[n] = recycle
  BY <1>1, <1>3, PoppedLinked DEF RecycleInv, Owned, At
<1>6. \A u \in Thread \ {th} : Recycling(u) => last[u] # n
  BY <1>3 DEF RecycleInv
<1>7. Owned' = Owned \ {n}
  BY <1>3, <1>6 DEF Owned
<1>8. PICK r : Recycled(r)
  BY DEF RecycleInv
<1>9. \E s : Recycled(s)'
  <2> HIDE DEF n
  <2>0. PICK s : s = Append(r, n)
    OBVIOUS
  <2>1. /\ r \in Seq(Node) /\ Len(r) \in Nat /\ s \in Seq(Node) /\ Len(s) = Len(r) + 1
        /\ \A k \in 1..Len(r) : s[k] = r[k]
        /\ s[Len(r) + 1] = n
    BY <1>5, <1>8, <2>0 DEF Recycled
  <2>2. \A k \in 1..Len(r) : r[k] # n
    BY <1>5, <1>8 DEF Recycled
  <2>3. \A k, m \in 1..Len(s) : s[k] = s[m] => k = m
    BY <1>8, <2>1, <2>2 DEF Recycled
  <2>4. ASSUME NEW k \in 1..Len(s)
        PROVE  /\ nextFree'[s[k]] = IF k > 1 THEN s[k - 1] ELSE Nil
               /\ s[k] \in Popped' \ Owned'
    <3>1. CASE k <= Len(r)
      BY <1>1, <1>4, <1>7, <1>8, <2>1, <2>2, <3>1 DEF Recycled
    <3>2. CASE k = Len(r) + 1
      BY <1>1, <1>4, <1>5, <1>7, <1>8, <2>1, <3>2 DEF Recycled
    <3> QED
      BY <2>1, <3>1, <3>2
  <2>5. ASSUME NEW x \in Popped' \ Owned'
        PROVE  \E k \in 1..Len(s) : x = s[k]
    <3>1. CASE x = n
      BY <2>1, <3>1
    <3>2. CASE x # n
      <4>1. PICK k \in 1..Len(r) : x = r[k]
        BY <1>4, <1>7, <1>8, <3>2 DEF Recycled
      <4> QED
        BY <2>1, <4>1
    <3> QED
      BY <3>1, <3>2
  <2>6. recycle' = s[Len(s)] /\ Len(s) # 0
    BY <1>1, <2>1 DEF n
  <2>7. Recycled(s)'
    BY <2>1, <2>3, <2>4, <2>5, <2>6 DEF Recycled
  <2> QED
    BY <2>7
<1>10. ASSUME NEW u \in Thread, At(u, "recycle_cas")'
       PROVE  nextFree'[last'[u]] = cur'[u]
  <2>1. u # th /\ At(u, "recycle_cas") /\ last'[u] = last[u] /\ cur'[u] = cur[u]
    BY <1>1, <1>2, <1>3, <1>10 DEF At
  <2> QED
    BY <1>1, <2>1 DEF RecycleInv
<1> QED
  BY <1>1, <1>3, <1>4, <1>9, <1>10 DEF RecycleInv

LEMMA UnlinkStep ==
  ASSUME IInv, RecycleInv, NEW th \in Thread, PopCas(th)
  PROVE  RecycleInv'
<1>1. /\ pc[th] = "pop_cas" /\ gone' = gone + 1
      /\ pc' = [pc EXCEPT ![th] = "pop_store"]
      /\ UNCHANGED <<nextFree, recycle, used, order, np, last, cur>>
  BY DEF PopCas, Goto, At
<1>2. pc \in [Thread -> Label]
  BY DEF IInv, TypeOK
<1>3. /\ \A u \in Thread \ {th} : /\ Recycling(u)' = Recycling(u) /\ Making(u)' = Making(u)
                                  /\ pc'[u] = pc[u]
      /\ ~Recycling(th) /\ Recycling(th)' /\ ~Making(th) /\ ~Making(th)'
  BY <1>1, <1>2 DEF Recycling, Making
<1>4. Linked' = Linked /\ Fresh' = Fresh
  BY <1>1, <1>3 DEF Linked, Fresh
<1> DEFINE n == last[th]
<1>5. gone + 1 \in 1..Len(order) /\ n = order[gone + 1] /\ gone \in Nat
  BY PopCasFacts, PoppedLinked
<1>6. n \notin Popped
  BY <1>5, PoppedLinked
<1>7. Popped' = Popped \cup {n}
  BY <1>1, <1>5 DEF Popped
<1>8. Owned' = Owned \cup {n}
  BY <1>1, <1>3 DEF Owned
<1>9. Popped' \ Owned' = Popped \ Owned
  BY <1>6, <1>7, <1>8
<1>10. PICK r : Recycled(r)
  BY DEF RecycleInv
<1>11. Recycled(r)'
  BY <1>1, <1>9, <1>10 DEF Recycled
<1>12. \A u, v \in Thread : Recycling(u)' /\ Recycling(v)' /\ last'[u] = last'[v] => u = v
  BY <1>1, <1>3, <1>6 DEF RecycleInv
<1>13. \A u \in Thread : Recycling(u)' => last'[u] \in Popped'
  BY <1>1, <1>3, <1>7 DEF RecycleInv
<1>14. \A u \in Thread : At(u, "recycle_cas")' => nextFree'[last'[u]] = cur'[u]
  BY <1>1, <1>2 DEF RecycleInv, At
<1> QED
  BY <1>1, <1>4, <1>11, <1>12, <1>13, <1>14 DEF RecycleInv

LEMMA LinkStep ==
  ASSUME IInv, RecycleInv, NEW th \in Thread, PushCas(th)
  PROVE  RecycleInv'
<1>1. /\ pc[th] = "push_cas" /\ order' = Append(order, np[th])
      /\ pc' = [pc EXCEPT ![th] = "push_reload"]
      /\ UNCHANGED <<nextFree, recycle, used, np, last, cur, gone>>
  BY DEF PushCas, Goto, At
<1>2. pc \in [Thread -> Label] /\ order \in Seq(Node) /\ gone \in 0..Len(order)
  BY DEF IInv, TypeOK
<1>3. /\ \A u \in Thread \ {th} : /\ Recycling(u)' = Recycling(u) /\ Making(u)' = Making(u)
                                  /\ pc'[u] = pc[u]
      /\ ~Recycling(th) /\ ~Recycling(th)' /\ Making(th) /\ ~Making(th)'
  BY <1>1, <1>2 DEF Recycling, Making
<1>4. np[th] \in Node /\ \A u \in Thread \ {th} : Making(u) => np[u] # np[th]
  BY <1>3 DEF IInv, PusherOK, TypeOK
<1>5. /\ Len(order') = Len(order) + 1 /\ Len(order) \in Nat
      /\ order'[Len(order) + 1] = np[th]
      /\ \A j \in 1..Len(order) : order'[j] = order[j]
  BY <1>1, <1>2, <1>4
<1>6. Linked' = Linked \cup {np[th]}
  BY <1>5 DEF Linked
<1>7. Popped' = Popped
  BY <1>1, <1>2, <1>5 DEF Popped
<1>8. Fresh' \cup {np[th]} = Fresh
  BY <1>1, <1>3 DEF Fresh
<1>9. Owned' = Owned
  BY <1>1, <1>3 DEF Owned
<1>10. PICK r : Recycled(r)
  BY DEF RecycleInv
<1>11. Recycled(r)'
  BY <1>1, <1>7, <1>9, <1>10 DEF Recycled
<1>12. \A u \in Thread : Recycling(u)' <=> Recycling(u)
  BY <1>3
<1>13. \A u \in Thread : At(u, "recycle_cas")' => At(u, "recycle_cas")
  BY <1>1, <1>2 DEF At
<1> QED
  BY <1>1, <1>6, <1>7, <1>8, <1>11, <1>12, <1>13 DEF RecycleInv

LEMMA AllocateStep ==
  ASSUME IInv, RecycleInv, NEW th \in Thread, Push(th)
  PROVE  RecycleInv'
<1>1. PICK n \in Node \ used :
        /\ used' = used \cup {n}
        /\ np' = [np EXCEPT ![th] = n]
        /\ nextFree' = [nextFree EXCEPT ![n] = Nil]
  BY DEF Push
<1>2. /\ pc[th] = "idle" /\ pc' = [pc EXCEPT ![th] = "push_load"]
      /\ UNCHANGED <<recycle, order, gone, last, cur>>
  BY DEF Push, Goto, At, history
<1>3. /\ pc \in [Thread -> Label] /\ np \in [Thread -> Node \cup {Nil}]
      /\ nextFree \in [Node -> Node \cup {Nil}]
  BY DEF IInv, TypeOK
<1>4. /\ \A u \in Thread \ {th} : /\ Recycling(u)' = Recycling(u) /\ Making(u)' = Making(u)
                                  /\ pc'[u] = pc[u] /\ np'[u] = np[u]
      /\ ~Recycling(th) /\ ~Recycling(th)' /\ ~Making(th) /\ Making(th)' /\ np'[th] = n
  BY <1>1, <1>2, <1>3 DEF Recycling, Making
<1>5. Linked' = Linked /\ Popped' = Popped
  BY <1>2 DEF Linked, Popped
<1>6. Owned' = Owned
  BY <1>2, <1>4 DEF Owned
<1>7. Fresh' = Fresh \cup {n}
  BY <1>4 DEF Fresh
<1>8. \A x \in Popped : nextFree'[x] = nextFree[x]
  BY <1>1, <1>3, PoppedLinked
<1>9. PICK r : Recycled(r)
  BY DEF RecycleInv
<1>10. Recycled(r)'
  BY <1>2, <1>5, <1>6, <1>8, <1>9 DEF Recycled
<1>11. \A u \in Thread : Recycling(u)' <=> Recycling(u)
  BY <1>4
<1>12. ASSUME NEW u \in Thread, At(u, "recycle_cas")'
       PROVE  nextFree'[last'[u]] = cur'[u]
  <2>1. At(u, "recycle_cas") /\ Recycling(u)
    BY <1>2, <1>3, <1>12 DEF At, Recycling
  <2>2. last[u] \in Popped
    BY <2>1 DEF RecycleInv
  <2> QED
    BY <1>2, <1>8, <2>1, <2>2 DEF RecycleInv
<1> QED
  BY <1>1, <1>2, <1>5, <1>7, <1>10, <1>11, <1>12 DEF RecycleInv

LEMMA NextRecycle == IInv /\ RecycleInv /\ [Next]_vars => RecycleInv'
<1> SUFFICES ASSUME IInv, RecycleInv, [Next]_vars PROVE RecycleInv'
  OBVIOUS
<1>1. CASE UNCHANGED vars
  <2>1. UNCHANGED <<nextFree, recycle, used, order, gone, pc, np, last, cur>>
    BY <1>1 DEF vars, shared, local, history
  <2>2. Popped' = Popped /\ Linked' = Linked /\ Owned' = Owned /\ Fresh' = Fresh
    BY <2>1 DEF Popped, Linked, Owned, Fresh, Recycling, Making
  <2>3. PICK r : Recycled(r)
    BY DEF RecycleInv
  <2>4. Recycled(r)'
    BY <2>1, <2>2, <2>3 DEF Recycled
  <2> QED
    BY <2>1, <2>2, <2>4 DEF RecycleInv, Recycling, At
<1>2. ASSUME NEW th \in Thread, Push(th) \/ Pop(th) \/ PushGoes(th) \/ PopGoes(th)
      PROVE  RecycleInv'
  BY <1>2, PlainStep, RecycleLoadStep, RecycleCasStep, UnlinkStep, LinkStep, AllocateStep
     DEF PushGoes, PopGoes
<1> QED
  BY <1>1, <1>2 DEF Next

\* A set of numbers that is not empty has a least one: induction, with a set for
\* the numbers that lack the property.
LEMMA Least ==
  ASSUME NEW T, T \subseteq Nat, T # {}
  PROVE  \E x \in T : \A y \in T : x <= y
<1>1. \E R : IsWellFoundedOn(R, Nat) /\ \A x, y \in Nat : y < x => <<y, x>> \in R
  <2>1. \A x, y \in Nat : y < x => <<y, x>> \in OpToRel(<, Nat)
    BY DEF OpToRel
  <2> QED
    BY <2>1, NatLessThanWellFounded
<1>2. PICK R : IsWellFoundedOn(R, Nat) /\ \A x, y \in Nat : y < x => <<y, x>> \in R
  BY <1>1
<1>3. PICK x \in T : \A y \in T : ~(<<y, x>> \in R)
  BY <1>2, WFMin
<1>4. \A y \in T : y \in Nat /\ x \in Nat /\ ~(y < x)
  BY <1>2, <1>3
<1>5. \A y \in T : x <= y
  BY <1>4
<1> QED
  BY <1>5

\* first is s[hi], and link leads from each s[k] to the one before it, down to
\* s[lo + 1].
Leads(first, link, s, lo, hi) ==
    /\ first = IF hi > lo THEN s[hi] ELSE Nil
    /\ \A k \in (lo + 1)..hi :
          s[k] # Nil /\ link[s[k]] = IF k - 1 > lo THEN s[k - 1] ELSE Nil

Part(s, lo, hi) == {s[k] : k \in (lo + 1)..hi}

\* A walk from there finds just these.
LEMMA WalkFinds ==
  ASSUME NEW s, NEW lo \in Nat, NEW hi \in Nat, lo <= hi, hi - lo <= Len(order),
         Len(order) \in Nat, NEW first, NEW link, Leads(first, link, s, lo, hi)
  PROVE  Walk(first, link) = Part(s, lo, hi)
<1> DEFINE D == 0..Len(order)
           v(k) == IF hi - k > lo THEN s[hi - k] ELSE Nil
           g == [k \in D |-> v(k)]
           To(f) == [k \in D |-> IF k = 0 THEN first
                                 ELSE IF f[k - 1] = Nil THEN Nil ELSE link[f[k - 1]]]
           at == CHOOSE f : f = To(f)
<1>0. /\ first = IF hi > lo THEN s[hi] ELSE Nil
      /\ \A k \in (lo + 1)..hi :
            s[k] # Nil /\ link[s[k]] = IF k - 1 > lo THEN s[k - 1] ELSE Nil
  BY DEF Leads
<1>1. ASSUME NEW k \in D
      PROVE  v(k) = IF k = 0 THEN first ELSE IF v(k - 1) = Nil THEN Nil ELSE link[v(k - 1)]
  <2>1. CASE k = 0
    BY <1>0, <2>1
  <2>2. CASE k # 0 /\ hi - (k - 1) > lo
    <3>1. hi - (k - 1) \in (lo + 1)..hi /\ (hi - (k - 1)) - 1 = hi - k
      BY <2>2
    <3> QED
      BY <1>0, <2>2, <3>1
  <2>3. CASE k # 0 /\ ~(hi - (k - 1) > lo)
    <3>1. ~(hi - k > lo)
      BY <2>3
    <3> QED
      BY <2>3, <3>1
  <2> QED
    BY <2>1, <2>2, <2>3
<1>2. g = To(g)
  <2> HIDE DEF v
  <2>1. \A k \in D : k # 0 => k - 1 \in D
    OBVIOUS
  <2>2. \A k \in D : k # 0 => g[k - 1] = v(k - 1)
    BY <2>1
  <2>3. \A k \in D : v(k) = IF k = 0 THEN first
                            ELSE IF g[k - 1] = Nil THEN Nil ELSE link[g[k - 1]]
    BY <1>1, <2>2
  <2> QED
    BY <2>3
<1>3. at = To(at)
  <2> HIDE DEF g, To
  <2> QED
    BY <1>2
<1>4. Walk(first, link) = {at[k] : k \in D} \ {Nil}
  BY DEF Walk
<1> HIDE DEF at
<1>5. \A k \in D : at[k] = v(k)
  <2> DEFINE T == {k \in D : at[k] # v(k)}
  <2> SUFFICES ASSUME T # {} PROVE FALSE
    OBVIOUS
  <2>1. PICK n \in T : \A k \in T : n <= k
    <3>1. T \subseteq Nat
      OBVIOUS
    <3> HIDE DEF T
    <3> QED
      BY <3>1, Least
  <2>2. at[n] = IF n = 0 THEN first ELSE IF at[n - 1] = Nil THEN Nil ELSE link[at[n - 1]]
    BY <1>3, <2>1
  <2>3. n # 0 => n - 1 \in D /\ n - 1 \notin T
    BY <2>1
  <2> HIDE DEF v
  <2>4. n # 0 => at[n - 1] = v(n - 1)
    BY <2>3
  <2> QED
    BY <1>1, <2>1, <2>2, <2>4
<1>6. \A k \in (lo + 1)..hi : hi - k \in D /\ v(hi - k) = s[k] /\ s[k] # Nil
  BY <1>0
<1>7. \A k \in D : v(k) # Nil => hi - k \in (lo + 1)..hi /\ v(k) = s[hi - k]
  OBVIOUS
<1> HIDE DEF v, D
<1>8. {at[k] : k \in D} \ {Nil} \subseteq Part(s, lo, hi)
  BY <1>5, <1>7 DEF Part
<1>9. Part(s, lo, hi) \subseteq {at[k] : k \in D} \ {Nil}
  BY <1>5, <1>6 DEF Part
<1> QED
  BY <1>4, <1>8, <1>9

\* The recycle list is not longer than what has been linked.
LEMMA RecycledShort ==
  ASSUME IInv, NEW r, Recycled(r)
  PROVE  Len(r) <= Len(order)
<1>1. Len(order) \in Nat /\ gone \in 0..Len(order) /\ r \in Seq(Node) /\ Len(r) \in Nat
  BY PoppedLinked DEF Recycled
<1> DEFINE f == [k \in 1..Len(r) |-> CHOOSE j \in 1..Len(order) : order[j] = r[k]]
<1>2. ASSUME NEW k \in 1..Len(r)
      PROVE  f[k] \in 1..Len(order) /\ order[f[k]] = r[k]
  <2>1. \E j \in 1..Len(order) : order[j] = r[k]
    BY <1>1 DEF Recycled, Popped
  <2> QED
    BY <2>1
<1>3. f \in [1..Len(r) -> 1..Len(order)]
  BY <1>2
<1>4. \A k, m \in 1..Len(r) : f[k] = f[m] => k = m
  <2> HIDE DEF f
  <2> QED
    BY <1>2 DEF Recycled
<1> HIDE DEF f
<1>5. f \in Injection(1..Len(r), 1..Len(order))
  BY <1>3, <1>4 DEF Injection, IsInjective
<1>6. ASSUME NEW n \in Nat
      PROVE  IsFiniteSet(1..n) /\ Cardinality(1..n) = n
  <2>1. /\ IsFiniteSet(1..n)
        /\ Cardinality(1..n) = IF 1 > n THEN 0 ELSE n - 1 + 1
    BY FS_Interval
  <2> QED
    BY <2>1
<1> QED
  BY <1>1, <1>5, <1>6, FS_Injection

\* At rest the walks of TWI_Nb_queue_finalize find every node once.
LEMMA RestFrees ==
  ASSUME IInv, RecycleInv, \A th \in Thread : At(th, "idle")
  PROVE  /\ Walk(next[Front], next) \cup Walk(recycle, nextFree) = used
         /\ Walk(next[Front], next) \cap Walk(recycle, nextFree) = {}
<1>1. Fresh = {} /\ Owned = {} /\ used = Linked
  BY DEF Fresh, Owned, Making, Recycling, At, RecycleInv
<1>2. /\ order \in Seq(Node) /\ Len(order) \in Nat /\ gone \in Nat /\ gone <= Len(order)
      /\ \A j \in 1..Len(order) : order[j] # Nil
      /\ \A j \in 1..Len(order) : next[order[j]] = Older(j)
      /\ next[Front] = Older(Len(order) + 1)
  BY PoppedLinked, NodeAssumption DEF IInv, TypeOK, ChainOK
<1> DEFINE Q == Part(order, gone, Len(order))
<1>3. Walk(next[Front], next) = Q
  <2>1. next[Front] = IF Len(order) > gone THEN order[Len(order)] ELSE Nil
    BY <1>2 DEF Older
  <2>2. \A k \in (gone + 1)..Len(order) :
           order[k] # Nil /\ next[order[k]] = IF k - 1 > gone THEN order[k - 1] ELSE Nil
    BY <1>2 DEF Older
  <2>3. Len(order) - gone <= Len(order)
    BY <1>2
  <2>4. Leads(next[Front], next, order, gone, Len(order))
    BY <2>1, <2>2 DEF Leads
  <2>5. gone \in Nat /\ Len(order) \in Nat /\ gone <= Len(order)
    BY <1>2
  <2> QED
    BY <2>3, <2>4, <2>5, WalkFinds
<1>4. PICK r : Recycled(r)
  BY DEF RecycleInv
<1>5. /\ r \in Seq(Node) /\ Len(r) \in Nat /\ Len(r) <= Len(order)
      /\ \A k \in 1..Len(r) : r[k] # Nil
  BY <1>4, RecycledShort, NodeAssumption DEF Recycled
<1>6. Walk(recycle, nextFree) = Part(r, 0, Len(r))
  <2>1. recycle = IF Len(r) > 0 THEN r[Len(r)] ELSE Nil
    BY <1>4, <1>5 DEF Recycled
  <2>2. \A k \in (0 + 1)..Len(r) :
           r[k] # Nil /\ nextFree[r[k]] = IF k - 1 > 0 THEN r[k - 1] ELSE Nil
    BY <1>4, <1>5 DEF Recycled
  <2>3. 0 <= Len(r) /\ Len(r) - 0 <= Len(order) /\ 0 \in Nat
    BY <1>5
  <2>4. Leads(recycle, nextFree, r, 0, Len(r))
    BY <2>1, <2>2 DEF Leads
  <2>5. Len(order) \in Nat /\ Len(r) \in Nat
    BY <1>2, <1>5
  <2> QED
    BY <2>3, <2>4, <2>5, WalkFinds
<1>7. Part(r, 0, Len(r)) = Popped
  BY <1>1, <1>4, <1>5 DEF Recycled, Part
<1>8. Linked = Q \cup Popped /\ Q \cap Popped = {}
  <2>1. \A j \in 1..Len(order) : j \in 1..gone \/ j \in (gone + 1)..Len(order)
    BY <1>2
  <2>2. \A j \in (gone + 1)..Len(order) : j \in 1..Len(order) /\ ~(j <= gone)
    BY <1>2
  <2>3. \A j \in 1..gone : j \in 1..Len(order)
    BY <1>2
  <2>4. Linked = Q \cup Popped
    BY <2>1, <2>2, <2>3 DEF Linked, Popped, Part
  <2>5. Q \cap Popped = {}
    BY <2>2, PoppedLinked DEF Part
  <2> QED
    BY <2>4, <2>5
<1> QED
  BY <1>1, <1>3, <1>6, <1>7, <1>8

\* TWI_Nb_queue_finalize gives each node back once, for any number of threads and
\* nodes: however pops race for the top of the recycle list
\* (TWI_Nb_queue_recycle_node), a node that has been unlinked gets there once, and one
\* that is still queued never.
THEOREM FinalizeFreesEach == Spec => []FinalizeFreesAll
<1>1. Spec => []RecycleInv
  BY Invariance, InitRecycle, NextRecycle, PTL DEF Spec
<1>2. IInv /\ RecycleInv => FinalizeFreesAll
  BY RestFrees DEF FinalizeFreesAll
<1> QED
  BY <1>1, <1>2, Invariance, PTL

=============================================================================
