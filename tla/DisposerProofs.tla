----------------------------- MODULE DisposerProofs -----------------------------
(***************************************************************************)
(* What the disposer promises, for any number of threads and objects.      *)
(*                                                                         *)
(* The heart of the invariant is Held: the time stamp a thread has agreed  *)
(* to is never above an object it may still hold.  With Searching, that    *)
(* the minimum found so far is below what every visited thread has agreed  *)
(* to, nothing below the minimum is held; and as long as the list is in    *)
(* the order of the time stamps, only such objects are freed.              *)
(***************************************************************************)
EXTENDS Disposer, FiniteSetTheorems, SequenceTheorems, WellFoundedInduction, TLAPS

\* What thread th has agreed to.
Stamp(th) == tss[tid[th] - 1]

Disposing == {th \in Thread : pc[th] \in {"load", "cas"}}
Flushing  == {th \in Thread : pc[th] \in {"agree", "check", "try", "min"}}
Listed    == {trash[i] : i \in DOMAIN trash}

\* A thread that has ever joined has an entry of tss to itself.
Entries ==
    /\ \A a, b \in Thread : tid[a] = tid[b] /\ tid[a] # 0 => a = b
    /\ Cardinality({th \in Thread : tid[th] # 0}) = nt
    /\ \A th \in Inside : tid[th] # 0 /\ Stamp(th) <= ts

Calls ==
    /\ \A th \in Thread : obj[th] # Nil <=> th \in Disposing
    /\ \A th \in Flushing : cnt[th] = 1
    /\ \A th \in Thread : pc[th] = "agree" => agreed[th] <= ts
    /\ \A th \in Thread : pc[th] \in {"try", "min"} => Stamp(th) > BinSize

\* Who searches for the minimum holds the lock.
Searching ==
    /\ \A th \in Thread : pc[th] # "min" => entry[th] = 0
    /\ \A a \in Thread : pc[a] = "min" =>
        /\ lock
        /\ \A b \in Thread : pc[b] = "min" => a = b
        /\ \A i \in 0..(entry[a] - 1) : agreed[a] <= tss[i]

Held == \A o \in Obj : \A th \in holders[o] :
    /\ th \in Inside
    /\ Stamp(th) <= o /\ o < ts
    /\ pc[th] = "agree" => agreed[th] <= o

\* An object is being disposed of, on the list or freed.
Objects ==
    /\ \A a, b \in Disposing : obj[a] = obj[b] => a = b
    /\ \A th \in Disposing : obj[th] < ts /\ obj[th] \notin Listed /\ obj[th] \notin freed
    /\ \A i, j \in DOMAIN trash : trash[i] = trash[j] => i = j
    /\ ~ended => Listed \cap freed = {}
    /\ 1..(ts - 1) = freed \cup Listed \cup {obj[th] : th \in Disposing}
    /\ trash = <<>> => freed = {}

Sorted == ~crossed => \A i, j \in DOMAIN trash : i < j => trash[i] > trash[j]

IInv ==
    /\ TypeOK /\ Entries /\ Calls /\ Searching /\ Held /\ Objects /\ Sorted
    /\ FreedOnce /\ NobodyHolds

-----------------------------------------------------------------------------
\* Facts about the constants, numbers and the list.

LEMMA Constants ==
  /\ Never \in Nat /\ MaxObj \in Nat /\ BinSize \in Nat /\ MaxDepth \in Nat
  /\ MaxObj + 1 < Never
  /\ IsFiniteSet(Thread) /\ Cardinality(Thread) \in Nat \ {0}
  /\ Member \subseteq Thread /\ Nil \notin Obj /\ Nil = 0
  /\ Obj \subseteq Nat
<1>1. Cardinality(Thread) \in Nat /\ Cardinality(Thread) # 0
  BY ThreadAssumption, FS_CardinalityType, FS_EmptySet
<1> QED
  BY <1>1, NeverAssumption, ThreadAssumption, MemberAssumption, BoundAssumption
     DEF Obj, Nil

LEMMA Smallest ==
  ASSUME NEW S \in SUBSET Nat, S # {}
  PROVE  \E n \in S : \A m \in S : n <= m
<1> DEFINE R == OpToRel(<, Nat)
<1>1. IsWellFoundedOn(R, Nat)
  BY NatLessThanWellFounded
<1>2. \A m, n \in Nat : m < n => <<m, n>> \in R
  BY DEF OpToRel
<1> HIDE DEF R
<1>3. PICK n \in S : \A m \in S : ~(<<m, n>> \in R)
  BY <1>1, WFMin
<1>4. \A m \in S : ~(m < n)
  BY <1>2, <1>3
<1> QED
  BY <1>4

\* The list is cut in two; only the part below is gone.
LEMMA Cut ==
  ASSUME TypeOK, NEW m \in Nat
  PROVE  \E k \in 0..Len(trash) :
            /\ Kept(m) = SubSeq(trash, 1, k)
            /\ Gone(m) = {trash[i] : i \in (k + 1)..Len(trash)}
            /\ k = 0 => trash = <<>>
            /\ k < Len(trash) => k > 0 /\ trash[k] <= m
<1>1. trash \in Seq(Obj) /\ DOMAIN trash = 1..Len(trash) /\ Len(trash) \in Nat
  BY DEF TypeOK
<1>2. CASE Agreed(m) = {}
  <2>1. Kept(m) = trash /\ Gone(m) = {}
    BY <1>2 DEF Kept, Gone
  <2>2. trash = SubSeq(trash, 1, Len(trash))
    BY <1>1
  <2>3. {trash[i] : i \in (Len(trash) + 1)..Len(trash)} = {}
    BY <1>1
  <2>4. Len(trash) = 0 => trash = <<>>
    BY <1>1
  <2>5. Len(trash) \in 0..Len(trash) /\ ~(Len(trash) < Len(trash))
    BY <1>1
  <2>6. Gone(m) = {trash[i] : i \in (Len(trash) + 1)..Len(trash)}
    BY <2>1, <2>3
  <2>7. Kept(m) = SubSeq(trash, 1, Len(trash))
    BY <2>1, <2>2
  <2> QED
    BY <2>4, <2>5, <2>6, <2>7
<1>3. CASE Agreed(m) # {}
  <2>1. Agreed(m) \in SUBSET Nat
    BY <1>1 DEF Agreed
  <2>2. First(m) \in Agreed(m)
    BY <1>3, <2>1, Smallest DEF First
  <2>3. First(m) \in 1..Len(trash) /\ trash[First(m)] <= m
    BY <1>1, <2>2 DEF Agreed
  <2>4. Gone(m) = {trash[i] : i \in (First(m) + 1)..Len(trash)}
    BY <1>1, <1>3, <2>3 DEF Gone
  <2>5. Kept(m) = SubSeq(trash, 1, First(m))
    BY <1>3 DEF Kept
  <2> QED
    BY <1>1, <2>3, <2>4, <2>5
<1> QED
  BY <1>2, <1>3

LEMMA InitInv == Init => IInv
<1> SUFFICES ASSUME Init PROVE IInv
  OBVIOUS
<1>1. TypeOK
  <2>1. trash \in Seq(Obj)
    BY DEF Init
  <2>2. ts \in 1..(MaxObj + 1) /\ tmin \in 0..ts /\ Never \in 0..Never
    BY Constants DEF Init
  <2>3. Locals
    BY Constants DEF Init, Locals
  <2>4. /\ nt \in 0..Cardinality(Thread)
        /\ cnt \in [Thread -> 0..MaxDepth] /\ tid \in [Thread -> 0..nt]
        /\ freed \subseteq Obj
    BY Constants DEF Init
  <2>5. /\ lock \in BOOLEAN /\ crossed \in BOOLEAN /\ ended \in BOOLEAN
        /\ holders \in [Obj -> SUBSET Thread]
    BY DEF Init
  <2>6. tss \in [0..(Cardinality(Thread) - 1) -> 0..Never]
    BY <2>2 DEF Init
  <2> QED
    BY <2>1, <2>2, <2>3, <2>4, <2>5, <2>6 DEF Init, TypeOK
<1>2. Disposing = {} /\ Flushing = {} /\ Inside = {} /\ Listed = {}
  BY DEF Init, Disposing, Flushing, Inside, Listed
<1>3. Entries
  <2>1. {th \in Thread : tid[th] # 0} = {}
    BY DEF Init
  <2> QED
    BY <1>2, <2>1, FS_EmptySet DEF Init, Entries
<1>4. Calls /\ Searching /\ Held
  BY <1>2 DEF Init, Calls, Searching, Held
<1>5. Objects /\ Sorted
  BY <1>2 DEF Init, Objects, Sorted
<1> QED
  BY <1>1, <1>3, <1>4, <1>5 DEF IInv, FreedOnce, NobodyHolds, Init

-----------------------------------------------------------------------------
\* One lemma per action.

\* A step that frees nothing, lets the process live and gives nobody a freed object.
LEMMA NothingFreed ==
  ASSUME IInv, TypeOK', UNCHANGED <<freed, crossed, ended, fault>>, ~ended, fault = "none",
         \A o \in freed : holders'[o] \subseteq holders[o]
  PROVE  FreedOnce' /\ NobodyHolds'
<1>1. FreedOnce'
  BY DEF FreedOnce
<1>2. NobodyHolds'
  BY DEF IInv, NobodyHolds
<1> QED
  BY <1>1, <1>2

LEMMA StampType ==
  ASSUME TypeOK, Entries
  PROVE  \A u \in Inside : Stamp(u) \in Nat
BY Constants DEF TypeOK, Entries, Stamp, Inside

LEMMA JoinStep ==
  ASSUME IInv, NEW th \in Thread, Join(th)
  PROVE  IInv'
<1> USE Constants
<1>1. /\ TypeOK /\ Entries /\ Calls /\ Searching /\ Held /\ Objects /\ Sorted
      /\ At(th, "idle") /\ cnt[th] < MaxDepth
      /\ UNCHANGED <<ts, tmin, lock, trash, freed, pc, obj, old, agreed, entry,
                     holders, crossed, ended, fault>>
      /\ cnt' = [cnt EXCEPT ![th] = @ + 1]
  BY DEF IInv, Join, clock, list, local, history
<1>2. /\ Inside' = Inside \cup {th}
      /\ Disposing' = Disposing /\ Flushing' = Flushing /\ Listed' = Listed
  BY <1>1 DEF TypeOK, Inside, Disposing, Flushing, Listed
<1>3. cnt' \in [Thread -> 0..MaxDepth]
  BY <1>1 DEF TypeOK
<1>4. CASE cnt[th] = 0 /\ tid[th] = 0
  <2>1. /\ nt' = nt + 1 /\ ~lock
        /\ tid' = [tid EXCEPT ![th] = nt + 1]
        /\ tss' = [tss EXCEPT ![nt] = ts]
    BY <1>4 DEF Join
  <2> DEFINE Old == {u \in Thread : tid[u] # 0}
  <2>2. Cardinality(Old \cup {th}) = nt + 1 /\ Cardinality(Old \cup {th}) <= Cardinality(Thread)
    <3>1. IsFiniteSet(Old) /\ Cardinality(Old) = nt /\ th \notin Old
      BY <1>1, <1>4, FS_Subset DEF Entries
    <3> QED
      BY <3>1, FS_AddElement, FS_Subset
  <2>3. {u \in Thread : tid'[u] # 0} = Old \cup {th}
    BY <1>1, <2>1 DEF TypeOK
  <2>4. TypeOK'
    <3>1. ts \in 0..Never /\ nt + 1 \in 0..Cardinality(Thread)
      BY <1>1, <2>2 DEF TypeOK
    <3>2. tid' \in [Thread -> 0..nt']
      BY <1>1, <2>1 DEF TypeOK
    <3>3. tss' \in [0..(Cardinality(Thread) - 1) -> 0..Never]
      BY <1>1, <2>1, <3>1 DEF TypeOK
    <3>4. entry' \in [Thread -> 0..nt']
      BY <1>1, <2>1 DEF TypeOK, Locals
    <3> QED
      BY <1>1, <1>3, <2>1, <3>1, <3>2, <3>3, <3>4 DEF TypeOK, Locals
  <2>5. \A u \in Inside : Stamp(u)' = Stamp(u) /\ u # th
    BY <1>1, <1>4, <2>1 DEF TypeOK, Entries, Stamp, Inside
  <2>6. Stamp(th)' = ts
    BY <1>1, <2>1, <2>2 DEF TypeOK, Stamp
  <2>7. Entries'
    <3>1. \A a, b \in Thread : tid'[a] = tid'[b] /\ tid'[a] # 0 => a = b
      BY <1>1, <2>1 DEF TypeOK, Entries
    <3>2. \A u \in Inside' : tid'[u] # 0 /\ Stamp(u)' <= ts'
      BY <1>1, <1>2, <2>1, <2>5, <2>6 DEF TypeOK, Entries
    <3> QED
      BY <2>1, <2>2, <2>3, <3>1, <3>2 DEF Entries
  <2>8. Calls'
    BY <1>1, <1>2, <2>1, <2>5 DEF TypeOK, Calls, Inside, Flushing, At
  <2>9. Searching'
    BY <1>1, <2>1 DEF Searching
  <2>10. Held'
    BY <1>1, <1>2, <2>5 DEF Held
  <2> QED
    BY <1>1, <1>2, <2>4, <2>7, <2>8, <2>9, <2>10, NothingFreed DEF IInv, Objects, Sorted, At
<1>5. CASE cnt[th] = 0 /\ tid[th] # 0
  <2>1. ~lock /\ tss' = [tss EXCEPT ![tid[th] - 1] = ts] /\ UNCHANGED <<nt, tid>>
    BY <1>5 DEF Join
  <2>2. TypeOK'
    <3>1. ts \in 0..Never
      BY <1>1 DEF TypeOK
    <3>2. tss' \in [0..(Cardinality(Thread) - 1) -> 0..Never]
      BY <1>1, <2>1, <3>1 DEF TypeOK
    <3> QED
      BY <1>1, <1>3, <2>1, <3>2 DEF TypeOK, Locals
  <2>3. \A u \in Inside : Stamp(u)' = Stamp(u) /\ u # th
    BY <1>1, <1>5, <2>1 DEF TypeOK, Entries, Stamp, Inside
  <2>4. Stamp(th)' = ts
    BY <1>1, <1>5, <2>1 DEF TypeOK, Stamp
  <2>5. Entries'
    BY <1>1, <1>2, <1>5, <2>1, <2>3, <2>4 DEF TypeOK, Entries
  <2>6. Calls'
    BY <1>1, <1>2, <2>1, <2>3 DEF TypeOK, Calls, Inside, Flushing, At
  <2>7. Searching'
    BY <1>1, <2>1 DEF Searching
  <2>8. Held'
    BY <1>1, <1>2, <2>3 DEF Held
  <2> QED
    BY <1>1, <1>2, <2>2, <2>5, <2>6, <2>7, <2>8, NothingFreed DEF IInv, Objects, Sorted, At
<1>6. CASE cnt[th] > 0
  <2>1. UNCHANGED <<nt, tid, tss>> /\ Inside' = Inside
    BY <1>1, <1>2, <1>6 DEF Join, TypeOK, Inside
  <2>2. TypeOK'
    BY <1>1, <1>3, <2>1 DEF TypeOK, Locals
  <2>3. Entries' /\ Searching' /\ Held'
    BY <1>1, <2>1 DEF Entries, Searching, Held, Stamp
  <2>4. Calls'
    BY <1>1, <1>2, <2>1 DEF TypeOK, Calls, Flushing, At, Stamp
  <2> QED
    BY <1>1, <1>2, <2>2, <2>3, <2>4, NothingFreed DEF IInv, Objects, Sorted, At
<1> QED
  BY <1>1, <1>4, <1>5, <1>6 DEF TypeOK

LEMMA LeaveStep ==
  ASSUME IInv, NEW th \in Thread, Leave(th)
  PROVE  IInv'
<1> USE Constants
<1>1. /\ TypeOK /\ Entries /\ Calls /\ Searching /\ Held /\ Objects /\ Sorted
      /\ At(th, "idle") /\ cnt[th] > 0
      /\ UNCHANGED <<ts, tmin, lock, nt, tid, trash, freed, pc, obj, old, agreed, entry,
                     crossed, ended, fault>>
      /\ cnt' = [cnt EXCEPT ![th] = @ - 1]
  BY DEF IInv, Leave, clock, list, local
<1>2. Disposing' = Disposing /\ Flushing' = Flushing /\ Listed' = Listed
  BY <1>1 DEF Disposing, Flushing, Listed
<1>3. cnt' \in [Thread -> 0..MaxDepth]
  BY <1>1 DEF TypeOK
<1>4. CASE cnt[th] = 1
  <2>1. /\ ~lock /\ tss' = [tss EXCEPT ![tid[th] - 1] = Never]
        /\ holders' = [o \in Obj |-> holders[o] \ {th}]
    BY <1>4 DEF Leave, LetGo
  <2>2. Inside' = Inside \ {th} /\ th \in Inside
    BY <1>1, <1>4 DEF TypeOK, Inside
  <2>3. TypeOK'
    <3>1. Never \in 0..Never => tss' \in [0..(Cardinality(Thread) - 1) -> 0..Never]
      BY <1>1, <2>1 DEF TypeOK
    <3>2. \A o \in Obj : holders[o] \ {th} \in SUBSET Thread
      BY <1>1 DEF TypeOK
    <3>3. holders' \in [Obj -> SUBSET Thread]
      BY <2>1, <3>2
    <3>4. Never \in 0..Never
      OBVIOUS
    <3> QED
      BY <1>1, <1>3, <3>1, <3>3, <3>4 DEF TypeOK, Locals
  <2>4. \A u \in Inside' : Stamp(u)' = Stamp(u)
    BY <1>1, <2>1, <2>2 DEF TypeOK, Entries, Stamp, Inside
  <2>5. Entries'
    BY <1>1, <2>2, <2>4 DEF Entries
  <2>6. Calls'
    <3>1. \A u \in Flushing : u # th /\ cnt'[u] = 1
      BY <1>1 DEF TypeOK, Calls, Flushing, At
    <3>2. \A u \in Flushing : u \in Inside'
      BY <3>1 DEF Inside, Flushing
    <3> QED
      BY <1>1, <1>2, <2>4, <3>1, <3>2 DEF Calls, Flushing
  <2>7. Searching'
    BY <1>1, <2>1 DEF Searching
  <2>8. Held'
    BY <1>1, <2>1, <2>2, <2>4 DEF TypeOK, Held
  <2>9. \A o \in freed : holders'[o] \subseteq holders[o]
    BY <1>1, <2>1 DEF TypeOK
  <2> QED
    BY <1>1, <1>2, <2>3, <2>5, <2>6, <2>7, <2>8, <2>9, NothingFreed
       DEF IInv, Objects, Sorted, At
<1>5. CASE cnt[th] > 1
  <2>1. UNCHANGED <<tss, holders>>
    BY <1>5 DEF Leave
  <2>2. Inside' = Inside
    BY <1>1, <1>5 DEF TypeOK, Inside
  <2>3. TypeOK'
    BY <1>1, <1>3, <2>1 DEF TypeOK, Locals
  <2>4. Entries' /\ Searching' /\ Held'
    BY <1>1, <2>1, <2>2 DEF Entries, Searching, Held, Stamp
  <2>5. Calls'
    BY <1>1, <1>2, <2>1 DEF TypeOK, Calls, Flushing, At, Stamp
  <2> QED
    BY <1>1, <1>2, <2>1, <2>3, <2>4, <2>5, NothingFreed DEF IInv, Objects, Sorted, At
<1> QED
  BY <1>1, <1>4, <1>5 DEF TypeOK

LEMMA DisposeStep ==
  ASSUME IInv, NEW th \in Thread, Dispose(th)
  PROVE  IInv'
<1> USE Constants
<1>1. /\ TypeOK /\ Entries /\ Calls /\ Searching /\ Held /\ Objects /\ Sorted
      /\ At(th, "idle") /\ ts <= MaxObj
      /\ ts' = ts + 1
      /\ obj' = [obj EXCEPT ![th] = ts]
      /\ holders' = [holders EXCEPT ![ts] = Inside]
      /\ pc' = [pc EXCEPT ![th] = "load"]
      /\ UNCHANGED <<tmin, lock, nt, tss, cnt, tid, trash, freed, old, agreed, entry,
                     crossed, ended, fault>>
  BY DEF IInv, Dispose, members, list, Goto
<1>2. ts \in Obj /\ ts # 0 /\ ts \in Nat
  BY <1>1 DEF TypeOK, Obj
<1>3. /\ Disposing' = Disposing \cup {th} /\ th \notin Disposing
      /\ Flushing' = Flushing /\ Listed' = Listed /\ Inside' = Inside /\ Inside \subseteq Thread
      /\ \A u \in Thread : Stamp(u)' = Stamp(u)
  BY <1>1 DEF TypeOK, Locals, Disposing, Flushing, Listed, Inside, At, Stamp
<1>4. /\ \A u \in Disposing : obj'[u] = obj[u] /\ obj[u] # ts
      /\ obj'[th] = ts
  BY <1>1, <1>3 DEF TypeOK, Locals, Disposing, Objects
<1>5. freed \subseteq 1..(ts - 1) /\ Listed \subseteq 1..(ts - 1)
  BY <1>1 DEF Objects
<1>6. TypeOK'
  <2>1. ts' \in 1..(MaxObj + 1) /\ tmin' \in 0..ts'
    BY <1>1 DEF TypeOK
  <2>2. holders' \in [Obj -> SUBSET Thread]
    BY <1>1, <1>2, <1>3 DEF TypeOK
  <2>3. Locals'
    BY <1>1, <1>2 DEF TypeOK, Locals
  <2> QED
    BY <1>1, <2>1, <2>2, <2>3 DEF TypeOK
<1>7. Entries'
  <2>1. \A u \in Inside : tid[u] # 0 /\ Stamp(u) <= ts + 1
    BY <1>1, <1>2, StampType DEF Entries
  <2> QED
    BY <1>1, <1>3, <2>1 DEF Entries
<1>8. Calls'
  <2>1. \A u \in Thread : obj'[u] # Nil <=> u \in Disposing'
    BY <1>1, <1>2, <1>3 DEF TypeOK, Locals, Calls
  <2>2. \A u \in Thread : pc'[u] = "agree" => agreed'[u] <= ts'
    BY <1>1, <1>2 DEF TypeOK, Locals, Calls
  <2>3. \A u \in Thread : pc'[u] \in {"try", "min"} => Stamp(u)' > BinSize
    BY <1>1, <1>3 DEF TypeOK, Locals, Calls
  <2> QED
    BY <1>1, <1>3, <2>1, <2>2, <2>3 DEF Calls
<1>9. Searching'
  BY <1>1 DEF TypeOK, Locals, Searching, At
<1>10. Held'
  <2> SUFFICES ASSUME NEW o \in Obj, NEW u \in holders'[o]
               PROVE  /\ u \in Inside /\ Stamp(u) <= o /\ o < ts + 1
                      /\ pc'[u] = "agree" => agreed[u] <= o
    BY <1>1, <1>3 DEF Held
  <2>1. CASE o = ts
    <3>1. u \in Inside /\ u \in Thread
      BY <1>1, <1>2, <1>3, <2>1 DEF TypeOK
    <3>2. pc'[u] = "agree" => pc[u] = "agree"
      BY <1>1, <3>1 DEF TypeOK, Locals
    <3> QED
      BY <1>1, <1>2, <2>1, <3>1, <3>2 DEF Entries, Calls
  <2>2. CASE o # ts
    <3>1. u \in holders[o] /\ u \in Thread
      BY <1>1, <1>2, <2>2 DEF TypeOK
    <3>2. pc'[u] = "agree" => pc[u] = "agree"
      BY <1>1, <3>1 DEF TypeOK, Locals
    <3>3. o \in Nat
      OBVIOUS
    <3> QED
      BY <1>1, <1>2, <3>1, <3>2, <3>3 DEF Held
  <2> QED
    BY <2>1, <2>2
<1>11. Objects'
  <2>1. \A a, b \in Disposing' : obj'[a] = obj'[b] => a = b
    BY <1>1, <1>3, <1>4 DEF Objects
  <2>2. \A u \in Disposing' : obj'[u] < ts' /\ obj'[u] \notin Listed' /\ obj'[u] \notin freed'
    <3>1. \A u \in Disposing : obj[u] \in Nat
      BY <1>1 DEF TypeOK, Locals, Disposing, Obj, Nil
    <3> QED
      BY <1>1, <1>2, <1>3, <1>4, <1>5, <3>1 DEF Objects
  <2>3. {obj'[u] : u \in Disposing'} = {obj[u] : u \in Disposing} \cup {ts}
    BY <1>3, <1>4
  <2>4. 1..(ts' - 1) = 1..(ts - 1) \cup {ts}
    BY <1>1, <1>2
  <2> QED
    BY <1>1, <1>3, <2>1, <2>2, <2>3, <2>4 DEF Objects
<1>12. \A o \in freed : holders'[o] \subseteq holders[o]
  BY <1>1, <1>2, <1>5 DEF TypeOK
<1> QED
  BY <1>1, <1>6, <1>7, <1>8, <1>9, <1>10, <1>11, <1>12, NothingFreed DEF IInv, Sorted, At

\* A step in which thread th only moves on inside its call.
LEMMA LocalStep ==
  ASSUME IInv, NEW th \in Thread, fault = "none", ~ended,
         UNCHANGED <<ts, tmin, nt, tss, cnt, tid, trash, freed, obj,
                     holders, crossed, ended, fault>>,
         TypeOK', Searching',
         \A u \in Thread \ {th} : pc'[u] = pc[u] /\ agreed'[u] = agreed[u],
         th \in Disposing' <=> th \in Disposing,
         th \in Flushing' => th \in Flushing,
         pc'[th] # "agree",
         pc'[th] \in {"try", "min"} => Stamp(th) > BinSize
  PROVE  IInv'
<1>1. Inside' = Inside /\ Listed' = Listed /\ \A u \in Thread : Stamp(u)' = Stamp(u)
  BY DEF Inside, Listed, Stamp
<1>2. Disposing' = Disposing /\ Flushing' \subseteq Flushing
  BY DEF Disposing, Flushing
<1>3. Entries'
  <2>1. Entries /\ Inside \subseteq Thread
    BY DEF IInv, Inside
  <2>2. {u \in Thread : tid'[u] # 0} = {u \in Thread : tid[u] # 0}
    OBVIOUS
  <2> QED
    BY <1>1, <2>1, <2>2 DEF Entries
<1>4. Calls'
  BY <1>1, <1>2 DEF IInv, Calls
<1>5. Held'
  <2>1. \A o \in Obj : holders[o] \subseteq Thread
    BY DEF IInv, TypeOK
  <2> QED
    BY <1>1, <2>1 DEF IInv, Held
<1>6. Objects' /\ Sorted'
  BY <1>1, <1>2 DEF IInv, Objects, Sorted
<1> QED
  BY <1>3, <1>4, <1>5, <1>6, NothingFreed DEF IInv

LEMMA DisposeLoadStep ==
  ASSUME IInv, NEW th \in Thread, DisposeLoad(th)
  PROVE  IInv'
<1>1. /\ TypeOK /\ Searching /\ At(th, "load")
      /\ old' = [old EXCEPT ![th] = Newest]
      /\ pc' = [pc EXCEPT ![th] = "cas"]
      /\ UNCHANGED <<ts, tmin, lock, nt, tss, cnt, tid, trash, freed, obj, agreed, entry,
                     holders, crossed, ended, fault>>
  BY DEF IInv, DisposeLoad, clock, members, list, history, Goto
<1>2. TypeOK'
  <2>1. Newest \in Obj \cup {Nil}
    BY <1>1 DEF TypeOK, Newest
  <2> QED
    BY <1>1, <2>1 DEF TypeOK, Locals
<1>3. Searching'
  BY <1>1 DEF TypeOK, Locals, Searching, At
<1>4. th \in Disposing' /\ th \in Disposing /\ th \notin Flushing' /\ pc'[th] = "cas"
  BY <1>1 DEF TypeOK, Locals, At, Disposing, Flushing
<1>5. \A u \in Thread \ {th} : pc'[u] = pc[u] /\ agreed'[u] = agreed[u]
  BY <1>1 DEF TypeOK, Locals
<1> QED
  BY <1>1, <1>2, <1>3, <1>4, <1>5, LocalStep DEF At

LEMMA CheckStep ==
  ASSUME IInv, NEW th \in Thread, Check(th)
  PROVE  IInv'
<1>1. /\ TypeOK /\ Entries /\ Calls /\ Searching /\ At(th, "check")
      /\ UNCHANGED <<ts, tmin, lock, nt, tss, cnt, tid, trash, freed, obj, old, entry,
                     holders, crossed, ended, fault>>
      /\ \/ pc' = [pc EXCEPT ![th] = "try"] /\ UNCHANGED agreed /\ Stamp(th) - tmin > BinSize
         \/ pc' = [pc EXCEPT ![th] = "idle"] /\ agreed' = [agreed EXCEPT ![th] = 0]
  BY DEF IInv, Check, Back, Goto, clock, members, list, history, Stamp
<1>2. th \in Flushing /\ th \in Inside /\ th \notin Disposing
  BY <1>1 DEF Calls, Flushing, Disposing, Inside, At
<1>3. Stamp(th) \in Nat /\ tmin \in Nat
  BY <1>1, <1>2, StampType DEF TypeOK
<1>4. TypeOK'
  <2>1. 0 \in 0..Never
    BY Constants
  <2>2. Locals'
    BY <1>1, <2>1 DEF TypeOK, Locals
  <2> QED
    BY <1>1, <2>2 DEF TypeOK
<1>5. Searching'
  BY <1>1 DEF TypeOK, Locals, Searching, At
<1>6. /\ pc'[th] \in {"try", "idle"} /\ th \notin Disposing'
      /\ pc'[th] = "try" => Stamp(th) > BinSize
  BY <1>1, <1>3, Constants DEF TypeOK, Locals, Disposing
<1>7. \A u \in Thread \ {th} : pc'[u] = pc[u] /\ agreed'[u] = agreed[u]
  BY <1>1 DEF TypeOK, Locals
<1> QED
  BY <1>1, <1>2, <1>4, <1>5, <1>6, <1>7, LocalStep DEF At

LEMMA TryLockStep ==
  ASSUME IInv, NEW th \in Thread, TryLock(th)
  PROVE  IInv'
<1>1. /\ TypeOK /\ Calls /\ Searching /\ At(th, "try")
      /\ UNCHANGED <<ts, tmin, nt, tss, cnt, tid, trash, freed, obj, old, entry,
                     holders, crossed, ended, fault>>
      /\ \/ /\ ~lock /\ lock' = TRUE
            /\ pc' = [pc EXCEPT ![th] = "min"]
            /\ agreed' = [agreed EXCEPT ![th] = Never]
         \/ /\ UNCHANGED lock
            /\ pc' = [pc EXCEPT ![th] = "idle"]
            /\ agreed' = [agreed EXCEPT ![th] = 0]
  BY DEF IInv, TryLock, Back, Goto, clock, members, list, history
<1>2. th \in Flushing /\ th \notin Disposing /\ Stamp(th) > BinSize
  BY <1>1 DEF Calls, Flushing, Disposing, At
<1>3. TypeOK'
  <2>1. lock' \in BOOLEAN
    BY <1>1 DEF TypeOK
  <2>2. 0 \in 0..Never /\ Never \in 0..Never
    BY Constants
  <2>3. Locals'
    BY <1>1, <2>2 DEF TypeOK, Locals
  <2> QED
    BY <1>1, <2>1, <2>3 DEF TypeOK
<1>4. Searching'
  BY <1>1 DEF TypeOK, Locals, Searching, At
<1>5. pc'[th] \in {"min", "idle"} /\ th \notin Disposing'
  BY <1>1 DEF TypeOK, Locals, Disposing
<1>6. \A u \in Thread \ {th} : pc'[u] = pc[u] /\ agreed'[u] = agreed[u]
  BY <1>1 DEF TypeOK, Locals
<1> QED
  BY <1>1, <1>2, <1>3, <1>4, <1>5, <1>6, LocalStep DEF At

LEMMA FindMinStep ==
  ASSUME IInv, NEW th \in Thread, FindMin(th)
  PROVE  IInv'
<1>1. /\ TypeOK /\ Calls /\ Searching /\ At(th, "min") /\ entry[th] < nt
      /\ agreed' = [agreed EXCEPT
             ![th] = IF @ > tss[entry[th]] THEN tss[entry[th]] ELSE @]
      /\ entry' = [entry EXCEPT ![th] = @ + 1]
      /\ UNCHANGED <<ts, tmin, lock, nt, tss, cnt, tid, trash, freed, pc, obj, old,
                     holders, crossed, ended, fault>>
  BY DEF IInv, FindMin, clock, members, list, history
<1>2. entry[th] \in Nat /\ tss[entry[th]] \in 0..Never /\ agreed[th] \in 0..Never
  BY <1>1, Constants DEF TypeOK, Locals
<1>3. TypeOK'
  <2>1. agreed' \in [Thread -> 0..Never] /\ entry' \in [Thread -> 0..nt]
    BY <1>1, <1>2 DEF TypeOK, Locals
  <2> QED
    BY <1>1, <2>1 DEF TypeOK, Locals
<1>4. /\ agreed'[th] <= tss[entry[th]] /\ agreed'[th] <= agreed[th]
      /\ agreed'[th] \in Int /\ entry'[th] = entry[th] + 1
  BY <1>1, <1>2, Constants DEF TypeOK, Locals
<1>5. \A u \in Thread \ {th} : pc'[u] = pc[u] /\ agreed'[u] = agreed[u] /\ entry'[u] = entry[u]
  BY <1>1 DEF TypeOK, Locals
<1>6. Searching'
  <2>1. \A i \in 0..(entry'[th] - 1) : agreed'[th] <= tss[i]
    <3> SUFFICES ASSUME NEW i \in 0..entry[th] PROVE agreed'[th] <= tss[i]
      BY <1>2, <1>4
    <3>1. CASE i = entry[th]
      BY <1>4, <3>1
    <3>2. CASE i \in 0..(entry[th] - 1)
      <4>1. agreed[th] <= tss[i]
        BY <1>1, <3>2 DEF Searching, At
      <4>2. tss[i] \in Int
        <5>1. i \in 0..(Cardinality(Thread) - 1)
          BY <1>1, <1>2, <3>2, Constants DEF TypeOK
        <5> QED
          BY <1>1, <5>1, Constants DEF TypeOK
      <4> QED
        BY <1>2, <1>4, <4>1, <4>2
    <3> QED
      BY <1>2, <3>1, <3>2
  <2>2. \A a \in Thread : pc[a] = "min" => a = th
    BY <1>1 DEF Searching, At
  <2> QED
    BY <1>1, <1>5, <2>1, <2>2 DEF Searching, At
<1>7. /\ pc'[th] = "min" /\ Stamp(th) > BinSize
      /\ Disposing' = Disposing /\ Flushing' = Flushing
  BY <1>1 DEF Calls, Disposing, Flushing, At
<1> QED
  BY <1>1, <1>3, <1>5, <1>6, <1>7, LocalStep DEF At

LEMMA Prepend ==
  ASSUME NEW s \in Seq(Obj), NEW o \in Obj
  PROVE  /\ <<o>> \o s \in Seq(Obj)
         /\ Len(<<o>> \o s) = Len(s) + 1
         /\ (<<o>> \o s)[1] = o
         /\ \A i \in 2..(Len(s) + 1) : (<<o>> \o s)[i] = s[i - 1]
OBVIOUS

LEMMA DisposeCasStep ==
  ASSUME IInv, NEW th \in Thread, DisposeCas(th)
  PROVE  IInv'
<1> USE Constants
<1>1. /\ TypeOK /\ Entries /\ Calls /\ Searching /\ Held /\ Objects /\ Sorted
      /\ At(th, "cas")
      /\ old' = [old EXCEPT ![th] = Nil]
      /\ UNCHANGED <<ts, tmin, lock, nt, tss, cnt, tid, freed, agreed, entry,
                     holders, ended, fault>>
  BY DEF IInv, DisposeCas, clock, members
<1>2. CASE Newest # old[th]
  <2>1. pc' = [pc EXCEPT ![th] = "load"] /\ UNCHANGED <<trash, crossed, obj>>
    BY <1>2 DEF DisposeCas, Goto
  <2>2. TypeOK'
    BY <1>1, <2>1 DEF TypeOK, Locals
  <2>3. Searching'
    BY <1>1, <2>1 DEF TypeOK, Locals, Searching, At
  <2>4. th \in Disposing' /\ th \in Disposing /\ th \notin Flushing' /\ pc'[th] = "load"
    BY <1>1, <2>1 DEF TypeOK, Locals, At, Disposing, Flushing
  <2>5. \A u \in Thread \ {th} : pc'[u] = pc[u] /\ agreed'[u] = agreed[u]
    BY <1>1, <2>1 DEF TypeOK, Locals
  <2> QED
    BY <1>1, <2>1, <2>2, <2>3, <2>4, <2>5, LocalStep DEF At
<1>3. CASE Newest = old[th]
  <2>1. /\ trash' = <<obj[th]>> \o trash
        /\ crossed' = (crossed \/ Newest > obj[th])
        /\ pc' = [pc EXCEPT ![th] = "idle"]
        /\ obj' = [obj EXCEPT ![th] = Nil]
    BY <1>3 DEF DisposeCas, Goto
  <2>2. th \in Disposing /\ obj[th] \in Obj /\ obj[th] \notin Listed /\ obj[th] \notin freed
    BY <1>1 DEF TypeOK, Locals, Calls, Objects, Disposing, At
  <2>3. /\ trash \in Seq(Obj) /\ trash' \in Seq(Obj) /\ Len(trash') = Len(trash) + 1
        /\ trash'[1] = obj[th]
        /\ \A i \in 2..(Len(trash) + 1) : trash'[i] = trash[i - 1]
    BY <1>1, <2>1, <2>2, Prepend DEF TypeOK
  <2>4. /\ DOMAIN trash = 1..Len(trash) /\ Len(trash) \in Nat
        /\ DOMAIN trash' = 1..(Len(trash) + 1)
    BY <2>3
  <2>5. /\ Disposing' = Disposing \ {th} /\ Flushing' = Flushing
        /\ Inside' = Inside /\ Inside \subseteq Thread
        /\ \A u \in Thread : Stamp(u)' = Stamp(u)
        /\ \A u \in Disposing' : obj'[u] = obj[u] /\ u \in Thread
    BY <1>1, <2>1 DEF TypeOK, Locals, Disposing, Flushing, Inside, At, Stamp
  <2>6. Listed' = Listed \cup {obj[th]}
    <3>1. \A i \in DOMAIN trash : i + 1 \in 2..(Len(trash) + 1) /\ trash'[i + 1] = trash[i]
      BY <2>3, <2>4
    <3>2. \A i \in DOMAIN trash' : i = 1 \/ (i - 1 \in DOMAIN trash /\ trash'[i] = trash[i - 1])
      BY <2>3, <2>4
    <3>3. \A i \in DOMAIN trash : i + 1 \in DOMAIN trash'
      BY <2>4
    <3>4. 1 \in DOMAIN trash'
      BY <2>4
    <3>5. Listed \cup {obj[th]} \subseteq Listed'
      BY <2>3, <3>1, <3>3, <3>4 DEF Listed
    <3>6. Listed' \subseteq Listed \cup {obj[th]}
      BY <2>3, <3>2 DEF Listed
    <3> QED
      BY <3>5, <3>6
  <2>7. TypeOK'
    <3>1. Locals'
      BY <1>1, <2>1 DEF TypeOK, Locals
    <3>2. crossed' \in BOOLEAN
      BY <1>1, <2>1 DEF TypeOK
    <3> QED
      BY <1>1, <2>3, <3>1, <3>2 DEF TypeOK
  <2>8. Entries'
    <3>1. {u \in Thread : tid'[u] # 0} = {u \in Thread : tid[u] # 0}
      BY <1>1
    <3> QED
      BY <1>1, <2>5, <3>1 DEF Entries
  <2>9. Calls' /\ Searching'
    <3>1. Calls'
      BY <1>1, <2>1, <2>2, <2>5 DEF TypeOK, Locals, Calls
    <3>2. Searching'
      BY <1>1, <2>1 DEF TypeOK, Locals, Searching, At
    <3> QED
      BY <3>1, <3>2
  <2>10. Held'
    <3>1. \A o \in Obj : holders[o] \subseteq Thread
      BY <1>1 DEF TypeOK
    <3>2. \A u \in Thread : pc'[u] = "agree" => pc[u] = "agree"
      BY <1>1, <2>1 DEF TypeOK, Locals
    <3> QED
      BY <1>1, <2>5, <3>1, <3>2 DEF Held
  <2>11. Objects'
    <3>1. \A a, b \in Disposing' : obj'[a] = obj'[b] => a = b
      BY <1>1, <2>5 DEF Objects
    <3>2. \A u \in Disposing' : obj'[u] < ts' /\ obj'[u] \notin Listed' /\ obj'[u] \notin freed'
      BY <1>1, <2>2, <2>5, <2>6 DEF Objects
    <3>3. \A i, j \in DOMAIN trash' : trash'[i] = trash'[j] => i = j
      <4> SUFFICES ASSUME NEW i \in DOMAIN trash', NEW j \in DOMAIN trash', trash'[i] = trash'[j]
                   PROVE  i = j
        OBVIOUS
      <4>1. \A k \in DOMAIN trash' : k # 1 => k - 1 \in DOMAIN trash /\ trash'[k] = trash[k - 1]
        BY <2>3, <2>4
      <4>2. \A k \in DOMAIN trash' : k # 1 => trash'[k] # obj[th]
        BY <2>2, <4>1 DEF Listed
      <4>3. i # 1 /\ j # 1 => i - 1 = j - 1
        BY <1>1, <4>1 DEF Objects
      <4> QED
        BY <2>3, <2>4, <4>2, <4>3
    <3>4. Listed' \cap freed' = {}
      BY <1>1, <2>2, <2>6 DEF Objects, At
    <3>5. {obj[u] : u \in Disposing} = {obj'[u] : u \in Disposing'} \cup {obj[th]}
      BY <2>2, <2>5
    <3>6. trash' # <<>>
      BY <2>3, <2>4
    <3>7. 1..(ts' - 1) = freed' \cup Listed' \cup {obj'[u] : u \in Disposing'}
      BY <1>1, <2>6, <3>5 DEF Objects
    <3> QED
      BY <3>1, <3>2, <3>3, <3>4, <3>6, <3>7 DEF Objects
  <2>12. Sorted'
    <3> SUFFICES ASSUME ~crossed', NEW i \in DOMAIN trash', NEW j \in DOMAIN trash', i < j
                 PROVE  trash'[i] > trash'[j]
      BY DEF Sorted
    <3>1. ~crossed /\ ~(Newest > obj[th])
      BY <2>1
    <3>2. j - 1 \in DOMAIN trash /\ trash'[j] = trash[j - 1] /\ trash[j - 1] \in Nat
      <4>1. j - 1 \in DOMAIN trash /\ trash'[j] = trash[j - 1]
        BY <2>3, <2>4
      <4>2. trash[j - 1] \in Obj
        BY <2>3, <2>4, <4>1
      <4> QED
        BY <4>1, <4>2 DEF Obj
    <3>3. CASE i = 1
      <4>1. trash # <<>> /\ Newest = trash[1] /\ 1 \in DOMAIN trash
        BY <2>3, <2>4, <3>2 DEF Newest
      <4>2. trash[1] # obj[th] /\ trash[1] \in Nat /\ obj[th] \in Nat
        <5>1. trash[1] \in Obj
          BY <2>3, <2>4, <4>1
        <5> QED
          BY <2>2, <4>1, <5>1 DEF Listed, Obj
      <4>3. trash[1] < obj[th]
        BY <2>2, <3>1, <4>1, <4>2
      <4>4. trash[j - 1] <= trash[1]
        <5>1. j - 1 = 1 \/ 1 < j - 1
          BY <2>4, <3>2
        <5> QED
          BY <1>1, <3>1, <3>2, <4>1, <4>2, <5>1 DEF Sorted
      <4> QED
        BY <2>2, <2>3, <3>2, <3>3, <4>2, <4>3, <4>4
    <3>4. CASE i # 1
      <4>1. i - 1 \in DOMAIN trash /\ trash'[i] = trash[i - 1] /\ i - 1 < j - 1
        BY <2>3, <2>4, <3>4
      <4> QED
        BY <1>1, <3>1, <3>2, <4>1 DEF Sorted
    <3> QED
      BY <3>3, <3>4
  <2>13. FreedOnce'
    BY <1>1, <2>7 DEF FreedOnce, At
  <2>14. NobodyHolds'
    BY <1>1, <2>1 DEF IInv, NobodyHolds
  <2> QED
    BY <2>7, <2>8, <2>9, <2>10, <2>11, <2>12, <2>13, <2>14 DEF IInv
<1> QED
  BY <1>2, <1>3

LEMMA FlushStep ==
  ASSUME IInv, NEW th \in Thread, Flush(th)
  PROVE  IInv'
<1> USE Constants
<1>1. /\ TypeOK /\ Entries /\ Calls /\ Searching /\ Held /\ Objects /\ Sorted
      /\ At(th, "idle") /\ cnt[th] = 1
      /\ holders' = [o \in Obj |-> holders[o] \ {th}]
      /\ agreed' = [agreed EXCEPT ![th] = ts]
      /\ pc' = [pc EXCEPT ![th] = "agree"]
      /\ UNCHANGED <<ts, tmin, lock, nt, tss, cnt, tid, trash, freed, obj, old, entry,
                     crossed, ended, fault>>
  BY DEF IInv, Flush, LetGo, Goto, clock, members, list
<1>2. /\ Disposing' = Disposing /\ Flushing' = Flushing \cup {th} /\ Listed' = Listed
      /\ Inside' = Inside /\ th \in Inside /\ Inside \subseteq Thread
      /\ \A u \in Thread : Stamp(u)' = Stamp(u)
  BY <1>1 DEF TypeOK, Locals, Disposing, Flushing, Listed, Inside, At, Stamp
<1>3. \A o \in Obj : holders'[o] = holders[o] \ {th} /\ holders[o] \subseteq Thread
  BY <1>1 DEF TypeOK
<1>4. ts \in 0..Never /\ ts <= ts
  BY <1>1 DEF TypeOK
<1>5. TypeOK'
  <2>1. holders' \in [Obj -> SUBSET Thread]
    BY <1>1, <1>3
  <2>2. Locals'
    BY <1>1, <1>4 DEF TypeOK, Locals
  <2> QED
    BY <1>1, <2>1, <2>2 DEF TypeOK
<1>6. Entries'
  <2>1. {u \in Thread : tid'[u] # 0} = {u \in Thread : tid[u] # 0}
    BY <1>1
  <2> QED
    BY <1>1, <1>2, <2>1 DEF Entries
<1>7. Calls'
  <2>1. \A u \in Thread \ {th} : agreed'[u] = agreed[u] /\ pc'[u] = pc[u]
    BY <1>1 DEF TypeOK, Locals
  <2>2. agreed'[th] = ts /\ pc'[th] = "agree"
    BY <1>1 DEF TypeOK, Locals
  <2> QED
    BY <1>1, <1>2, <1>4, <2>1, <2>2 DEF Calls
<1>8. Searching'
  BY <1>1 DEF TypeOK, Locals, Searching, At
<1>9. Held'
  <2>1. \A u \in Thread \ {th} : agreed'[u] = agreed[u] /\ pc'[u] = pc[u]
    BY <1>1 DEF TypeOK, Locals
  <2> QED
    BY <1>1, <1>2, <1>3, <2>1 DEF Held
<1>10. \A o \in freed : holders'[o] \subseteq holders[o]
  BY <1>1, <1>3 DEF TypeOK
<1> QED
  BY <1>1, <1>2, <1>5, <1>6, <1>7, <1>8, <1>9, <1>10, NothingFreed
     DEF IInv, Objects, Sorted, At

LEMMA AgreeStep ==
  ASSUME IInv, NEW th \in Thread, Agree(th)
  PROVE  IInv'
<1> USE Constants
<1>1. /\ TypeOK /\ Entries /\ Calls /\ Searching /\ Held /\ Objects /\ Sorted
      /\ At(th, "agree")
      /\ UNCHANGED <<ts, tmin, lock, nt, cnt, tid, trash, freed, obj, old, entry,
                     holders, crossed, ended, fault>>
  BY DEF IInv, Agree, clock, list, history
<1>2. th \in Flushing /\ th \in Inside /\ th \notin Disposing
  BY <1>1 DEF Calls, Flushing, Disposing, Inside, At
<1>3. CASE Stamp(th) >= agreed[th]
  <2>1. /\ pc' = [pc EXCEPT ![th] = "idle"]
        /\ agreed' = [agreed EXCEPT ![th] = 0]
        /\ UNCHANGED tss
    <3>1. Stamp(th) \in Int /\ agreed[th] \in Int
      BY <1>1, <1>2, StampType DEF TypeOK, Locals
    <3> QED
      BY <1>3, <3>1 DEF Agree, Back, Goto, Stamp
  <2>2. TypeOK'
    <3>1. 0 \in 0..Never
      OBVIOUS
    <3>2. Locals'
      BY <1>1, <2>1, <3>1 DEF TypeOK, Locals
    <3> QED
      BY <1>1, <2>1, <3>2 DEF TypeOK
  <2>3. Searching'
    BY <1>1, <2>1 DEF TypeOK, Locals, Searching, At
  <2>4. pc'[th] = "idle" /\ th \notin Disposing' /\ th \notin Flushing'
    BY <1>1, <2>1 DEF TypeOK, Locals, Disposing, Flushing
  <2>5. \A u \in Thread \ {th} : pc'[u] = pc[u] /\ agreed'[u] = agreed[u]
    BY <1>1, <2>1 DEF TypeOK, Locals
  <2> QED
    BY <1>1, <1>2, <2>1, <2>2, <2>3, <2>4, <2>5, LocalStep DEF At
<1>4. CASE Stamp(th) < agreed[th]
  <2>1. /\ tss' = [tss EXCEPT ![tid[th] - 1] = agreed[th]]
        /\ pc' = [pc EXCEPT ![th] = "check"]
        /\ UNCHANGED agreed
    <3>1. Stamp(th) \in Int /\ agreed[th] \in Int
      BY <1>1, <1>2, StampType DEF TypeOK, Locals
    <3> QED
      BY <1>4, <3>1 DEF Agree, Back, Goto, Stamp
  <2>2. TypeOK'
    <3>1. agreed[th] \in 0..Never
      BY <1>1 DEF TypeOK, Locals
    <3>2. tss' \in [0..(Cardinality(Thread) - 1) -> 0..Never]
      BY <1>1, <2>1, <3>1 DEF TypeOK
    <3>3. Locals'
      BY <1>1, <2>1 DEF TypeOK, Locals
    <3> QED
      BY <1>1, <3>2, <3>3 DEF TypeOK
  <2>3. /\ Disposing' = Disposing /\ Flushing' = Flushing /\ Listed' = Listed
        /\ Inside' = Inside /\ Inside \subseteq Thread
    BY <1>1, <2>1 DEF TypeOK, Locals, Disposing, Flushing, Listed, Inside, At
  <2>4. \A u \in Inside \ {th} : Stamp(u)' = Stamp(u)
    BY <1>1, <1>2, <2>1 DEF TypeOK, Entries, Stamp, Inside
  <2>5. Stamp(th)' = agreed[th]
    BY <1>1, <1>2, <2>1 DEF TypeOK, Entries, Stamp, Inside
  <2>6. Entries'
    <3>1. {u \in Thread : tid'[u] # 0} = {u \in Thread : tid[u] # 0}
      BY <1>1
    <3>2. agreed[th] <= ts
      BY <1>1 DEF Calls, At
    <3>3. \A u \in Inside : Stamp(u)' <= ts
      BY <1>1, <2>4, <2>5, <3>2 DEF Entries
    <3> QED
      BY <1>1, <2>3, <3>1, <3>3 DEF Entries
  <2>7. \A u \in Thread : pc'[u] = IF u = th THEN "check" ELSE pc[u]
    BY <1>1, <2>1 DEF TypeOK, Locals
  <2>8. Calls'
    <3>1. \A u \in Flushing : u \in Inside
      BY <1>1 DEF Calls, Flushing, Inside
    <3> QED
      BY <1>1, <2>1, <2>3, <2>4, <2>7, <3>1 DEF Calls, Flushing
  <2>9. Searching'
    <3> DEFINE Slots == 0..(Cardinality(Thread) - 1)
    <3>1. \A i \in Slots : tss[i] \in Int /\ tss'[i] \in Int
      BY <1>1, <2>2 DEF TypeOK
    <3>2. \A i \in Slots : tss[i] <= tss'[i]
      <4> SUFFICES ASSUME NEW i \in Slots PROVE tss[i] <= tss'[i]
        OBVIOUS
      <4>1. CASE i = tid[th] - 1
        BY <1>1, <1>4, <2>1, <3>1, <4>1 DEF TypeOK, Locals, Stamp
      <4>2. CASE i # tid[th] - 1
        BY <1>1, <2>1, <3>1, <4>2 DEF TypeOK
      <4> QED
        BY <4>1, <4>2
    <3>3. \A a \in Thread : entry[a] \in 0..nt /\ agreed[a] \in Int
      BY <1>1 DEF TypeOK, Locals
    <3>4. nt \in 0..Cardinality(Thread)
      BY <1>1 DEF TypeOK
    <3>5. \A a \in Thread : \A i \in 0..(entry[a] - 1) : i \in Slots
      BY <3>3, <3>4
    <3> HIDE DEF Slots
    <3>6. \A a \in Thread : \A i \in 0..(entry[a] - 1) :
             i \in Slots /\ tss[i] \in Int /\ tss'[i] \in Int /\ agreed[a] \in Int
      BY <3>1, <3>3, <3>5
    <3>7. \A a \in Thread : pc'[a] = "min" => pc[a] = "min"
      BY <2>7
    <3>8. \A a \in Thread : pc'[a] = "min" =>
             \A i \in 0..(entry[a] - 1) : agreed[a] <= tss'[i]
      BY <1>1, <3>2, <3>6, <3>7 DEF Searching
    <3> QED
      BY <1>1, <2>1, <2>7, <3>7, <3>8 DEF Searching, At
  <2>10. Held'
    <3>1. \A o \in Obj : holders[o] \subseteq Thread
      BY <1>1 DEF TypeOK
    <3> QED
      BY <1>1, <2>1, <2>3, <2>4, <2>5, <2>7, <3>1 DEF Held, At
  <2> QED
    BY <1>1, <2>2, <2>3, <2>6, <2>8, <2>9, <2>10, NothingFreed DEF IInv, Objects, Sorted, At
<1> QED
  <2>1. Stamp(th) \in Int /\ agreed[th] \in Int
    BY <1>1, <1>2, StampType DEF TypeOK, Locals
  <2> QED
    BY <1>3, <1>4, <2>1

\* When the list is still empty, whatever has a time stamp is on its way to it:
\* more than BinSize objects when somebody gets as far as the search.
LEMMA ManyDisposing ==
  ASSUME IInv, NEW th \in Thread, pc[th] \in {"try", "min"}, trash = <<>>
  PROVE  Cardinality(Disposing) >= BinSize
<1> USE Constants
<1>1. TypeOK /\ Entries /\ Calls /\ Objects
  BY DEF IInv
<1>2. freed = {} /\ Listed = {}
  BY <1>1 DEF Objects, Listed
<1>3. 1..(ts - 1) = {obj[u] : u \in Disposing}
  BY <1>1, <1>2 DEF Objects
<1>4. IsFiniteSet(Disposing) /\ Cardinality(Disposing) \in Nat
  BY FS_Subset, FS_CardinalityType DEF Disposing
<1>5. Cardinality(1..(ts - 1)) <= Cardinality(Disposing)
  <2> DEFINE f == [u \in Disposing |-> obj[u]]
  <2>1. f \in Surjection(Disposing, 1..(ts - 1))
    BY <1>3 DEF Surjection
  <2> QED
    BY <1>4, <2>1, FS_Surjection
<1>6. Cardinality(1..(ts - 1)) = ts - 1
  BY <1>1, FS_Interval DEF TypeOK
<1>7. th \in Inside /\ Stamp(th) > BinSize
  BY <1>1 DEF Calls, Flushing, Inside
<1>8. Stamp(th) \in Nat /\ Stamp(th) <= ts
  BY <1>1, <1>7, StampType DEF Entries
<1> QED
  BY <1>1, <1>4, <1>5, <1>6, <1>7, <1>8 DEF TypeOK

\* At the end of a search nothing below the minimum is held.
LEMMA MinimumAgreed ==
  ASSUME IInv, NEW th \in Thread, pc[th] = "min", entry[th] = nt
  PROVE  /\ agreed[th] \in 0..ts
         /\ \A o \in Obj : o < agreed[th] => holders[o] = {}
<1> USE Constants
<1>1. TypeOK /\ Entries /\ Calls /\ Searching /\ Held
  BY DEF IInv
<1>2. \A u \in Inside : tid[u] - 1 \in 0..(nt - 1) /\ Stamp(u) \in Nat
  BY <1>1, StampType DEF TypeOK, Entries, Inside
<1>3. \A u \in Inside : agreed[th] <= Stamp(u)
  BY <1>1, <1>2 DEF Searching, Stamp
<1>4. agreed[th] \in Nat
  BY <1>1 DEF TypeOK, Locals
<1>5. th \in Inside
  BY <1>1 DEF Calls, Flushing, Inside
<1>6. agreed[th] <= ts /\ ts \in Nat
  BY <1>1, <1>2, <1>3, <1>4, <1>5 DEF Entries, TypeOK
<1>7. ASSUME NEW o \in Obj, o < agreed[th], NEW u \in holders[o]
      PROVE  FALSE
  <2>1. u \in Inside /\ Stamp(u) <= o
    BY <1>1 DEF Held
  <2>2. o \in Nat
    OBVIOUS
  <2> QED
    BY <1>2, <1>3, <1>4, <1>7, <2>1, <2>2
<1>8. agreed[th] \in 0..ts
  BY <1>4, <1>6
<1> QED
  BY <1>7, <1>8

LEMMA CollectStep ==
  ASSUME IInv, NEW th \in Thread, Collect(th)
  PROVE  IInv'
<1> USE Constants
<1>1. /\ TypeOK /\ Entries /\ Calls /\ Searching /\ Held /\ Objects /\ Sorted
      /\ At(th, "min") /\ entry[th] = nt
      /\ tmin' = agreed[th] /\ lock' = FALSE
      /\ entry' = [entry EXCEPT ![th] = 0]
      /\ agreed' = [agreed EXCEPT ![th] = 0]
      /\ pc' = [pc EXCEPT ![th] = "idle"]
      /\ UNCHANGED <<ts, nt, tss, cnt, tid, obj, old, holders, crossed, ended>>
  BY DEF IInv, Collect, CollectTo, Back, Goto, members, history
<1>2. agreed[th] \in 0..ts /\ \A o \in Obj : o < agreed[th] => holders[o] = {}
  BY <1>1, MinimumAgreed DEF At
<1>3. \A u \in Thread :
         /\ pc'[u] = IF u = th THEN "idle" ELSE pc[u]
         /\ agreed'[u] = IF u = th THEN 0 ELSE agreed[u]
         /\ entry'[u] = IF u = th THEN 0 ELSE entry[u]
  BY <1>1 DEF TypeOK, Locals
<1>4. /\ Disposing' = Disposing /\ Flushing' = Flushing \ {th} /\ Inside' = Inside
      /\ Inside \subseteq Thread /\ Disposing \subseteq Thread
      /\ \A u \in Thread : Stamp(u)' = Stamp(u)
  BY <1>1, <1>3 DEF Disposing, Flushing, Inside, At, Stamp
<1>5. Locals'
  <2>1. 0 \in 0..Never /\ 0 \in 0..nt
    BY <1>1 DEF TypeOK
  <2> QED
    BY <1>1, <2>1 DEF TypeOK, Locals
<1>6. Entries'
  <2>1. {u \in Thread : tid'[u] # 0} = {u \in Thread : tid[u] # 0}
    BY <1>1
  <2> QED
    BY <1>1, <1>4, <2>1 DEF Entries
<1>7. Calls'
  BY <1>1, <1>3, <1>4 DEF Calls, Flushing
<1>8. Searching'
  <2>1. \A a \in Thread : pc'[a] = "min" => a # th /\ pc[a] = "min"
    BY <1>3
  <2>2. \A a \in Thread : pc'[a] # "min"
    BY <1>1, <2>1 DEF Searching, At
  <2> QED
    BY <1>1, <1>3, <2>2 DEF Searching
<1>9. Held'
  <2>1. \A o \in Obj : holders[o] \subseteq Thread
    BY <1>1 DEF TypeOK
  <2> QED
    BY <1>1, <1>3, <1>4, <2>1 DEF Held
<1>10. CASE trash = <<>>
  <2>1. /\ UNCHANGED <<trash, freed>>
        /\ fault' = "garbage" \/ fault' = "none"
    BY <1>1, <1>10 DEF Collect, CollectTo, At
  <2>2. Cardinality(Disposing) >= BinSize
    BY <1>1, <1>10, ManyDisposing DEF At
  <2>3. TypeOK'
    BY <1>1, <1>2, <1>5, <2>1 DEF TypeOK
  <2>4. Objects' /\ Sorted'
    BY <1>1, <1>4, <2>1 DEF Objects, Sorted, Listed
  <2>5. FreedOnce'
    BY <1>1, <1>4, <2>1, <2>2, <2>3 DEF FreedOnce, At, Disposing
  <2>6. NobodyHolds'
    BY <1>1, <2>1 DEF IInv, NobodyHolds
  <2> QED
    BY <1>6, <1>7, <1>8, <1>9, <2>3, <2>4, <2>5, <2>6 DEF IInv
<1>11. CASE trash # <<>>
  <2>1. /\ trash' = Kept(agreed[th])
        /\ Hand(Gone(agreed[th]))
    BY <1>11 DEF Collect, CollectTo
  <2>2. PICK k \in 0..Len(trash) :
            /\ Kept(agreed[th]) = SubSeq(trash, 1, k)
            /\ Gone(agreed[th]) = {trash[i] : i \in (k + 1)..Len(trash)}
            /\ k = 0 => trash = <<>>
            /\ k < Len(trash) => k > 0 /\ trash[k] <= agreed[th]
    <3>1. agreed[th] \in Nat
      BY <1>1 DEF TypeOK, Locals
    <3> QED
      BY <1>1, <3>1, Cut
  <2>3. /\ trash \in Seq(Obj) /\ Len(trash) \in Nat /\ DOMAIN trash = 1..Len(trash)
        /\ k \in 1..Len(trash)
    BY <1>1, <1>11, <2>2 DEF TypeOK
  <2>4. /\ trash' \in Seq(Obj) /\ trash' # <<>>
        /\ DOMAIN trash' = 1..k /\ 1..k \subseteq DOMAIN trash
        /\ \A i \in 1..k : trash'[i] = trash[i]
    BY <2>1, <2>2, <2>3
  <2>5. Listed' = {trash[i] : i \in 1..k}
    BY <2>4 DEF Listed
  <2>6. /\ Gone(agreed[th]) \subseteq Listed
        /\ Listed = Listed' \cup Gone(agreed[th])
        /\ Listed' \cap Gone(agreed[th]) = {}
    <3>1. DOMAIN trash = 1..k \cup (k + 1)..Len(trash) /\ 1..k \cap (k + 1)..Len(trash) = {}
      BY <2>3
    <3>2. \A i \in 1..k, j \in (k + 1)..Len(trash) : trash[i] # trash[j]
      BY <1>1, <3>1 DEF Objects
    <3>3. Listed = {trash[i] : i \in 1..k \cup (k + 1)..Len(trash)}
      BY <3>1 DEF Listed
    <3> QED
      BY <2>2, <2>5, <3>2, <3>3
  <2>7. Listed \cap freed = {}
    BY <1>1 DEF Objects, At
  <2>8. freed' = freed \cup Gone(agreed[th]) /\ fault' = fault
    BY <2>1, <2>6, <2>7 DEF Hand
  <2>9. TypeOK'
    <3>1. \A i \in (k + 1)..Len(trash) : trash[i] \in Obj
      BY <2>3
    <3>2. freed' \subseteq Obj
      BY <1>1, <2>2, <2>8, <3>1 DEF TypeOK
    <3> QED
      BY <1>1, <1>2, <1>5, <2>4, <2>8, <3>2 DEF TypeOK
  <2>10. Objects'
    <3>1. \A u \in Disposing : obj[u] \notin Listed' /\ obj[u] \notin freed'
      BY <1>1, <2>6, <2>8 DEF Objects
    <3>2. \A i, j \in DOMAIN trash' : trash'[i] = trash'[j] => i = j
      BY <1>1, <2>4 DEF Objects
    <3>3. Listed' \cap freed' = {}
      BY <2>6, <2>7, <2>8
    <3>4. freed' \cup Listed' = freed \cup Listed
      BY <2>6, <2>8
    <3> QED
      BY <1>1, <1>4, <2>4, <3>1, <3>2, <3>3, <3>4 DEF Objects
  <2>11. Sorted'
    BY <1>1, <2>4 DEF Sorted
  <2>12. FreedOnce'
    BY <1>1, <2>8, <2>9 DEF FreedOnce, At
  <2>13. NobodyHolds'
    <3> SUFFICES ASSUME ~crossed, NEW o \in freed' PROVE holders[o] = {}
      BY <1>1 DEF NobodyHolds
    <3>1. CASE o \in freed
      BY <1>1, <3>1 DEF IInv, NobodyHolds, At
    <3>2. CASE o \in Gone(agreed[th])
      <4>1. PICK i \in (k + 1)..Len(trash) : o = trash[i]
        BY <2>2, <3>2
      <4>2. k < i /\ i \in DOMAIN trash /\ k \in DOMAIN trash /\ k < Len(trash)
        BY <2>3
      <4>3. trash[k] > o /\ trash[k] <= agreed[th]
        BY <1>1, <2>2, <4>1, <4>2 DEF Sorted
      <4>4. o \in Obj /\ trash[k] \in Obj
        BY <2>3, <4>1, <4>2
      <4>5. o \in Nat /\ trash[k] \in Nat
        BY <4>4
      <4> QED
        BY <1>2, <4>3, <4>4, <4>5
    <3> QED
      BY <2>8, <3>1, <3>2
  <2> QED
    BY <1>6, <1>7, <1>8, <1>9, <2>9, <2>10, <2>11, <2>12, <2>13 DEF IInv
<1> QED
  BY <1>10, <1>11

LEMMA FinalizeStep ==
  ASSUME IInv, Finalize
  PROVE  IInv'
<1> USE Constants
<1>1. /\ TypeOK /\ Entries /\ Calls /\ Searching /\ Held /\ Objects /\ Sorted
      /\ \A th \in Thread : At(th, "idle")
      /\ Hand(Listed) /\ ended' = TRUE
      /\ UNCHANGED <<ts, tmin, lock, nt, tss, cnt, tid, trash, pc, obj, old, agreed, entry,
                     holders, crossed>>
  BY DEF IInv, Finalize, clock, members, local, history, Listed
<1>2. PICK th \in Thread : TRUE
  BY ThreadAssumption
<1>3. ~ended /\ fault = "none" /\ Disposing = {}
  BY <1>1, <1>2 DEF At, Disposing
<1>4. freed' = freed \cup Listed /\ fault' = "none"
  BY <1>1, <1>3 DEF Hand, Objects
<1>5. TypeOK'
  <2>1. Listed \subseteq Obj
    BY <1>1 DEF TypeOK, Listed
  <2>2. freed' \subseteq Obj /\ ended' \in BOOLEAN
    BY <1>1, <1>4, <2>1 DEF TypeOK
  <2> QED
    BY <1>1, <1>4, <2>2 DEF TypeOK, Locals
<1>6. freed' = 1..(ts - 1)
  BY <1>1, <1>3, <1>4 DEF Objects
<1>7. Inside' = Inside /\ Disposing' = {} /\ Flushing' = Flushing /\ Listed' = Listed
  BY <1>1, <1>3 DEF Inside, Disposing, Flushing, Listed
<1>8. Entries' /\ Searching' /\ Held'
  BY <1>1, <1>7 DEF Entries, Searching, Held, Stamp
<1>9. Calls'
  BY <1>1, <1>3, <1>7 DEF Calls, Stamp
<1>10. Objects'
  <2>1. trash = <<>> => Listed = {}
    BY DEF Listed
  <2> QED
    BY <1>1, <1>4, <1>6, <1>7, <2>1 DEF Objects
<1>11. Sorted' /\ NobodyHolds'
  BY <1>1 DEF Sorted, NobodyHolds
<1>12. FreedOnce'
  BY <1>1, <1>4, <1>5, <1>6 DEF FreedOnce
<1> QED
  BY <1>5, <1>8, <1>9, <1>10, <1>11, <1>12 DEF IInv

LEMMA StepInv == IInv /\ [Next]_vars => IInv'
<1> SUFFICES ASSUME IInv, [Next]_vars PROVE IInv'
  OBVIOUS
<1>1. CASE UNCHANGED vars
  <2>1. UNCHANGED <<ts, tmin, lock, nt, tss, cnt, tid, trash, freed, pc, obj, old, agreed,
                    entry, holders, crossed, ended, fault>>
    BY <1>1 DEF vars, clock, members, list, local, history
  <2>2. Inside' = Inside /\ Disposing' = Disposing /\ Flushing' = Flushing /\ Listed' = Listed
    BY <2>1 DEF Inside, Disposing, Flushing, Listed
  <2>3. TypeOK' /\ Entries' /\ Calls' /\ Searching' /\ Held'
    BY <2>1, <2>2 DEF IInv, TypeOK, Locals, Entries, Calls, Searching, Held, Stamp
  <2>4. Objects' /\ Sorted' /\ FreedOnce' /\ NobodyHolds'
    BY <2>1, <2>2, <2>3 DEF IInv, Objects, Sorted, FreedOnce, NobodyHolds
  <2> QED
    BY <2>3, <2>4 DEF IInv
<1>2. CASE Finalize
  BY <1>2, FinalizeStep
<1>3. ASSUME NEW th \in Thread, Step(th)
      PROVE  IInv'
  BY <1>3, JoinStep, LeaveStep, DisposeStep, DisposeLoadStep, DisposeCasStep, FlushStep,
     AgreeStep, CheckStep, TryLockStep, FindMinStep, CollectStep DEF Step
<1> QED
  BY <1>1, <1>2, <1>3 DEF Next

-----------------------------------------------------------------------------
\* TWI_Disposer_flush and leave: as long as the disposals reach the list in the
\* order of their time stamps, nothing is freed that a thread inside may hold, for
\* any number of threads, members and objects, and whatever falls into the search.
THEOREM NothingHeldIsFreed == Spec => []NobodyHolds
<1>1. IInv => NobodyHolds
  BY DEF IInv
<1> QED
  BY InitInv, StepInv, <1>1, PTL DEF Spec

\* TWI_Disposer_flush and finalize: each object is freed once and none is left
\* behind; and k is read unset only while BinSize disposals have not reached the list.
THEOREM EachFreedOnce == Spec => []FreedOnce
<1>1. IInv => FreedOnce
  BY DEF IInv
<1> QED
  BY InitInv, StepInv, <1>1, PTL DEF Spec

=============================================================================
