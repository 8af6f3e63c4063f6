----------------------------- MODULE TsVectorProofs -----------------------------
(***************************************************************************)
(* The thread-safe vector keeps what is pushed until it is erased, and an  *)
(* iteration meets all of it, for every set of threads and items, every    *)
(* initial size and every growth factor.                                   *)
(*                                                                         *)
(* A slot below size is claimed by one push (SlotsOK) or holds an item that*)
(* is in the vector, and no two hold the same (ItemsOK).  Neither kind of  *)
(* slot changes before the push returns: growing and erasing need the write*)
(* lock, and who writes or iterates has the read lock (LocksOK).  What an  *)
(* iteration has passed, and what it has loaded as its end, is therefore   *)
(* written for good (ScanOK).                                              *)
(***************************************************************************)
EXTENDS TsVector, FiniteSetTheorems, WellFoundedInduction, TLAPS

Claimed == {idx[th] : th \in Pushing}
Written == (0..(size - 1)) \ Claimed

LocksOK ==
    /\ IsFiniteSet(Pushing)
    /\ \A th \in Thread :
         /\ pc[th] \in {"write", "scan"} => th \in readers
         /\ pc[th] \in {"write", "grown"} => idx[th] < nalloc
         /\ pc[th] # "scan" => bound[th] = -1
         /\ th \in Pushing => arg[th] \in Item

\* A push has its slot and its item to itself.
SlotsOK ==
    /\ \A a \in Pushing : idx[a] < size /\ arg[a] \in used /\ arg[a] \notin live
    /\ \A a, b \in Pushing : idx[a] = idx[b] \/ arg[a] = arg[b] => a = b

\* The other slots hold what is in the vector, each item once.
ItemsOK ==
    /\ live \subseteq used
    /\ \A i \in Written : i < nalloc /\ data[i] \in live
    /\ \A x \in live : \E i \in Written : data[i] = x
    /\ \A i, j \in Written : data[i] = data[j] => i = j

\* What an iteration has passed it has seen; what was there when it began is there.
ScanOK(th) ==
    /\ before[th] \subseteq live
    /\ \A i \in 0..(pos[th] - 1) : i \in Written /\ data[i] \in seen[th]
    /\ bound[th] # -1 =>
         /\ pos[th] <= bound[th]
         /\ 0..(bound[th] - 1) \subseteq Written
         /\ \A x \in before[th] : \E i \in 0..(bound[th] - 1) : data[i] = x

Orderly ==
    /\ fault = "none"
    /\ SlotsOK /\ ItemsOK
    /\ \A th \in Thread : pc[th] = "scan" => ScanOK(th)

VecInv == TypeOK /\ LocksOK /\ (~overlap => Orderly)

-----------------------------------------------------------------------------
(* The loop of TWI_Ts_vectori_expand. *)

\* A set of numbers that is not empty has a least one: induction, with a set for
\* the numbers that lack the property.
LEMMA Least ==
  ASSUME NEW T, T \subseteq Nat, T # {}
  PROVE  \E x \in T : \A y \in T : x <= y
<1>1. \E R : IsWellFoundedOn(R, Nat) /\ \A x, y \in Nat : y < x => <<y, x>> \in R
  <2>1. \A x, y \in Nat : y < x => <<y, x>> \in OpToRel(<, Nat)
    BY DEF OpToRel
  <2> QED
    BY <2>1, NatLessThanWellFounded
<1>2. PICK R : IsWellFoundedOn(R, Nat) /\ \A x, y \in Nat : y < x => <<y, x>> \in R
  BY <1>1
<1>3. \E x \in T : \A y \in T : ~(<<y, x>> \in R)
  BY <1>2, WFMin
<1>4. PICK x \in T : \A y \in T : ~(<<y, x>> \in R)
  BY <1>3
<1>5. \A y \in T : y \in Nat /\ x \in Nat /\ ~(y < x)
  BY <1>2, <1>4
<1>6. \A y \in T : x <= y
  BY <1>5
<1> QED
  BY <1>6

LEMMA Multiplied ==
  ASSUME NEW a \in Nat \ {0}
  PROVE  a * Multiplier \in Nat /\ a * Multiplier >= a + 1
  BY SizeAssumption

\* The loop has a value after any number of rounds.
Round(a, need) == IF a < need THEN a * Multiplier ELSE a
Rounds(a, need, m, g) ==
    g = [k \in 0..m |-> IF k = 0 THEN a ELSE Round(g[k - 1], need)]

LEMMA RoundsExist ==
  ASSUME NEW a, NEW need, NEW m \in Nat
  PROVE  \E g : Rounds(a, need, m, g)
<1> DEFINE T == {k \in Nat : ~ \E g : Rounds(a, need, k, g)}
<1> SUFFICES T = {}
  OBVIOUS
<1> SUFFICES ASSUME T # {} PROVE FALSE
  OBVIOUS
<1>1. PICK n \in T : \A k \in T : n <= k
  <2>1. T \subseteq Nat
    OBVIOUS
  <2> HIDE DEF T
  <2> QED
    BY <2>1, Least
<1>2. n # 0
  <2>1. Rounds(a, need, 0, [k \in 0..0 |-> a])
    BY DEF Rounds
  <2> QED
    BY <2>1
<1>3. n - 1 \in Nat /\ n - 1 \notin T
  BY <1>1, <1>2
<1>4. PICK g : Rounds(a, need, n - 1, g)
  BY <1>3
<1> DEFINE h == [k \in 0..n |-> IF k = n THEN Round(g[n - 1], need) ELSE g[k]]
<1>5. Rounds(a, need, n, h)
  <2>1. ASSUME NEW k \in 0..n
        PROVE  h[k] = IF k = 0 THEN a ELSE Round(h[k - 1], need)
    <3>1. CASE k = n
      <4>1. k - 1 \in 0..n /\ k - 1 # n /\ k # 0
        BY <1>1, <1>2, <3>1
      <4> QED
        BY <3>1, <4>1
    <3>2. CASE k # n
      <4>1. k \in 0..(n - 1) /\ h[k] = g[k]
        BY <1>1, <3>2
      <4>2. k # 0 => k - 1 \in 0..n /\ k - 1 # n
        BY <1>1, <2>1, <3>2
      <4> QED
        BY <1>4, <4>1, <4>2 DEF Rounds
    <3> QED
      BY <3>1, <3>2
  <2>2. h = [k \in 0..n |-> h[k]]
    OBVIOUS
  <2> HIDE DEF h
  <2> QED
    BY <2>1, <2>2 DEF Rounds
<1> QED
  BY <1>1, <1>5

LEMMA RoundsGrow ==
  ASSUME NEW a \in Nat \ {0}, NEW need \in Nat, NEW m \in Nat, NEW g, Rounds(a, need, m, g),
         NEW k \in 0..m
  PROVE  /\ g[k] \in Nat /\ g[k] >= a
         /\ g[k] >= need \/ g[k] >= a + k
<1> DEFINE P(j) == g[j] \in Nat /\ g[j] >= a /\ (g[j] >= need \/ g[j] >= a + j)
           T == {j \in 0..m : ~P(j)}
<1> SUFFICES T = {}
  OBVIOUS
<1> SUFFICES ASSUME T # {} PROVE FALSE
  OBVIOUS
<1>1. PICK n \in T : \A j \in T : n <= j
  <2>1. T \subseteq Nat
    OBVIOUS
  <2> HIDE DEF T
  <2> QED
    BY <2>1, Least
<1>2. g[0] = a
  BY DEF Rounds
<1>3. n # 0
  BY <1>2
<1>4. n \in Nat /\ n - 1 \in 0..m /\ n - 1 \notin T
  BY <1>1, <1>3
<1>5. P(n - 1)
  BY <1>4
<1>6. g[n] = Round(g[n - 1], need)
  BY <1>1, <1>3 DEF Rounds
<1>7. P(n)
  <2> DEFINE b == g[n - 1]
  <2>1. b \in Nat \ {0} /\ b >= a /\ (b >= need \/ b >= a + (n - 1))
    BY <1>5
  <2> HIDE DEF b
  <2>2. b * Multiplier \in Nat /\ b * Multiplier >= b + 1
    BY <2>1, Multiplied
  <2> DEFINE c == b * Multiplier
  <2>3. c \in Nat /\ c >= b + 1
    BY <2>2
  <2>4. g[n] = IF b < need THEN c ELSE b
    BY <1>6 DEF Round, b
  <2> HIDE DEF c
  <2> QED
    BY <1>4, <2>1, <2>3, <2>4
<1> QED
  BY <1>1, <1>7

LEMMA RoomFits ==
  ASSUME nalloc \in Nat \ {0}, NEW need \in Nat
  PROVE  Room(need) \in Nat /\ Room(need) >= need /\ Room(need) >= nalloc
<1> DEFINE g == CHOOSE h : Rounds(nalloc, need, need, h)
<1>1. Rounds(nalloc, need, need, g)
  BY RoundsExist
<1>2. Room(need) = g[need]
  BY DEF Room, Rounds, Round
<1> HIDE DEF g
<1>3. need \in 0..need
  OBVIOUS
<1> QED
  BY <1>1, <1>2, <1>3, RoundsGrow

-----------------------------------------------------------------------------
(* VecInv is inductive. *)

LEMMA PushingPart ==
  Pushing \subseteq Thread /\ \A th \in Thread :
      th \in Pushing <=> pc[th] \in {"write", "full", "grown"}
  BY DEF Pushing

LEMMA InitInv == Init => VecInv
<1> SUFFICES ASSUME Init PROVE VecInv
  OBVIOUS
<1>1. Pushing = {}
  BY DEF Init, Pushing
<1>2. Written = {}
  BY DEF Init, Written
<1>3. TypeOK
  BY SizeAssumption DEF Init, TypeOK
<1>4. LocksOK
  BY <1>1, FS_EmptySet DEF Init, LocksOK
<1>5. SlotsOK /\ ItemsOK
  BY <1>1, <1>2 DEF Init, SlotsOK, ItemsOK
<1> QED
  BY <1>3, <1>4, <1>5 DEF Init, VecInv, Orderly

LEMMA ClaimStep ==
  ASSUME VecInv, NEW th \in Thread, Claim(th)
  PROVE  VecInv'
<1>1. PICK x \in Item \ used : used' = used \cup {x} /\ arg' = [arg EXCEPT ![th] = x]
  BY DEF Claim
<1>2. /\ pc[th] = "idle" /\ fault = "none" /\ fault' = fault
      /\ idx' = [idx EXCEPT ![th] = size] /\ size' = size + 1
      /\ nalloc' = nalloc /\ data' = data /\ live' = live /\ overlap' = overlap
      /\ pos' = pos /\ bound' = bound /\ seen' = seen /\ before' = before
      /\ readers \subseteq readers' /\ readers' \subseteq readers \cup {th}
      /\ \E l \in {"write", "full"} : /\ pc' = [pc EXCEPT ![th] = l]
                                      /\ l = "write" => size < nalloc /\ th \in readers'
  BY DEF Claim, At, Goto, scan
<1>3. TypeOK /\ LocksOK
  BY DEF VecInv
<1>4. TypeOK'
  BY <1>1, <1>2, <1>3 DEF TypeOK
<1>5. /\ Pushing' = Pushing \cup {th} /\ th \notin Pushing
      /\ \A a \in Pushing : a # th /\ idx'[a] = idx[a] /\ arg'[a] = arg[a]
      /\ idx'[th] = size /\ arg'[th] = x
  BY <1>1, <1>2, <1>3 DEF TypeOK, Pushing
<1>6. LocksOK'
  <2>1. IsFiniteSet(Pushing')
    BY <1>3, <1>5, FS_AddElement DEF LocksOK
  <2>2. ASSUME NEW u \in Thread
        PROVE  /\ pc'[u] \in {"write", "scan"} => u \in readers'
               /\ pc'[u] \in {"write", "grown"} => idx'[u] < nalloc'
               /\ pc'[u] # "scan" => bound'[u] = -1
               /\ u \in Pushing' => arg'[u] \in Item
    <3>1. CASE u = th
      BY <1>1, <1>2, <1>3, <1>5, <3>1 DEF TypeOK, LocksOK
    <3>2. CASE u # th
      BY <1>2, <1>3, <1>5, <3>2 DEF TypeOK, LocksOK
    <3> QED
      BY <3>1, <3>2
  <2> QED
    BY <2>1, <2>2 DEF LocksOK
<1>7. ASSUME ~overlap' PROVE Orderly'
  <2>1. Orderly /\ size \in Nat
    BY <1>2, <1>3, <1>7 DEF VecInv, TypeOK
  <2>2. SlotsOK'
    <3>1. \A a \in Pushing : idx[a] \in Nat /\ idx[a] < size /\ arg[a] \in used /\ arg[a] \notin live
      BY <1>3, <2>1, PushingPart DEF Orderly, SlotsOK, TypeOK
    <3>2. x \notin used /\ x \notin live /\ size < size + 1
      BY <1>1, <2>1 DEF Orderly, ItemsOK
    <3>3. \A a \in Pushing : idx[a] # size /\ idx[a] < size + 1 /\ arg[a] # x
      BY <2>1, <3>1, <3>2
    <3> QED
      BY <1>1, <1>2, <1>5, <2>1, <3>1, <3>2, <3>3 DEF Orderly, SlotsOK
  <2>3. Written' = Written
    <3>1. Claimed' = Claimed \cup {size}
      BY <1>5 DEF Claimed
    <3>2. 0..(size' - 1) = 0..(size - 1) \cup {size} /\ size \notin 0..(size - 1)
      BY <1>2, <2>1
    <3> QED
      BY <3>1, <3>2 DEF Written
  <2>4. ItemsOK'
    BY <1>1, <1>2, <2>1, <2>3 DEF Orderly, ItemsOK
  <2>5. ASSUME NEW u \in Thread, pc'[u] = "scan" PROVE ScanOK(u)'
    <3>1. pc[u] = "scan"
      BY <1>2, <1>3, <2>5 DEF TypeOK
    <3>2. ScanOK(u)
      BY <2>1, <3>1 DEF Orderly
    <3> QED
      BY <1>2, <2>3, <3>2 DEF ScanOK
  <2> QED
    BY <1>2, <2>1, <2>2, <2>4, <2>5 DEF Orderly
<1> QED
  BY <1>4, <1>6, <1>7 DEF VecInv

\* Growing the vector keeps what is in it.
LEMMA ExpandStep ==
  ASSUME VecInv, NEW th \in Thread, Expand(th)
  PROVE  VecInv'
<1> DEFINE n == Room(idx[th] + 1)
<1>1. /\ pc[th] = "full" /\ fault = "none" /\ fault' = fault
      /\ nalloc' = n
      /\ data' = [i \in 0..(n - 1) |-> IF i < nalloc THEN data[i] ELSE Nil]
      /\ pc' = [pc EXCEPT ![th] = "grown"]
      /\ size' = size /\ readers' = readers /\ arg' = arg /\ idx' = idx
      /\ pos' = pos /\ bound' = bound /\ seen' = seen /\ before' = before
      /\ used' = used /\ live' = live /\ overlap' = overlap
  BY DEF Expand, ExpandTo, At, Goto, scan, push
<1>2. TypeOK /\ LocksOK
  BY DEF VecInv
<1>3. n \in Nat \ {0} /\ n > idx[th] /\ n >= nalloc
  <2>1. idx[th] + 1 \in Nat /\ nalloc \in Nat \ {0} /\ idx[th] \in Nat
    BY <1>2 DEF TypeOK
  <2>2. n \in Nat /\ n >= idx[th] + 1 /\ n >= nalloc
    BY <2>1, RoomFits
  <2> HIDE DEF n
  <2> QED
    BY <2>1, <2>2
<1> HIDE DEF n
<1>4. \A i \in 0..(nalloc - 1) : i \in 0..(n - 1) /\ data'[i] = data[i]
  BY <1>1, <1>2, <1>3 DEF TypeOK
<1>5. TypeOK'
  <2>1. data' \in [0..(n - 1) -> Item \cup {Nil}]
    BY <1>1, <1>2, <1>3 DEF TypeOK
  <2> QED
    BY <1>1, <1>2, <1>3, <2>1 DEF TypeOK
<1>6. Pushing' = Pushing
  BY <1>1, <1>2 DEF TypeOK, Pushing
<1>7. LocksOK'
  <2>1. \A u \in Thread : u # th => pc'[u] = pc[u]
    BY <1>1, <1>2 DEF TypeOK
  <2>2. pc'[th] = "grown" /\ idx[th] < n
    BY <1>1, <1>2, <1>3 DEF TypeOK
  <2>3. \A u \in Thread : idx[u] < nalloc => idx[u] < n
    BY <1>2, <1>3 DEF TypeOK
  <2> QED
    BY <1>1, <1>2, <1>6, <2>1, <2>2, <2>3 DEF LocksOK
<1>8. ASSUME ~overlap' PROVE Orderly'
  <2>1. Orderly
    BY <1>1, <1>8 DEF VecInv
  <2>2. SlotsOK' /\ Written' = Written
    BY <1>1, <1>6, <2>1 DEF Orderly, SlotsOK, Written, Claimed
  <2>3. \A i \in Written : i < n /\ data'[i] = data[i]
    <3>1. \A i \in Written : i \in 0..(nalloc - 1)
      BY <1>2, <2>1 DEF Orderly, ItemsOK, Written, TypeOK
    <3> QED
      BY <1>2, <1>3, <1>4, <3>1 DEF TypeOK
  <2>4. ItemsOK'
    BY <1>1, <2>1, <2>2, <2>3 DEF Orderly, ItemsOK
  <2>5. ASSUME NEW u \in Thread, pc'[u] = "scan" PROVE ScanOK(u)'
    <3>1. pc[u] = "scan"
      BY <1>1, <1>2, <2>5 DEF TypeOK
    <3>2. ScanOK(u)
      BY <2>1, <3>1 DEF Orderly
    <3> QED
      BY <1>1, <2>2, <2>3, <3>2 DEF ScanOK
  <2> QED
    BY <1>1, <2>1, <2>2, <2>4, <2>5 DEF Orderly
<1> QED
  BY <1>5, <1>7, <1>8 DEF VecInv

\* The push has its slot to itself until it returns.
LEMMA WriteStep ==
  ASSUME VecInv, NEW th \in Thread, Write(th)
  PROVE  VecInv'
<1> DEFINE k == idx[th]
           x == arg[th]
<1>1. TypeOK /\ LocksOK
  BY DEF VecInv
<1>2. th \in Pushing /\ pc[th] \in {"write", "grown"} /\ k < nalloc /\ x \in Item /\ k \in Nat
      /\ fault = "none" /\ nalloc \in Nat \ {0}
  <2>1. pc[th] \in {"write", "grown"} /\ fault = "none"
    BY DEF Write, At
  <2>2. th \in Pushing
    BY <2>1, PushingPart
  <2> QED
    BY <1>1, <2>1, <2>2 DEF LocksOK, TypeOK
<1>3. /\ data' = [data EXCEPT ![k] = x] /\ live' = live \cup {x}
      /\ pc' = [pc EXCEPT ![th] = "idle"] /\ arg' = [arg EXCEPT ![th] = Nil]
      /\ idx' = [idx EXCEPT ![th] = 0] /\ readers' = readers \ {th} /\ fault' = fault
      /\ size' = size /\ nalloc' = nalloc /\ used' = used /\ overlap' = overlap
      /\ pos' = pos /\ bound' = bound /\ seen' = seen /\ before' = before
  <2>1. ~(k >= nalloc)
    BY <1>2
  <2> QED
    BY <2>1 DEF Write, Goto, scan
<1>4. k \in 0..(nalloc - 1)
  BY <1>2
<1> HIDE DEF k, x
<1>5. TypeOK'
  <2>1. data' \in [0..(nalloc - 1) -> Item \cup {Nil}]
    BY <1>1, <1>2, <1>3 DEF TypeOK
  <2> QED
    BY <1>1, <1>2, <1>3, <2>1 DEF TypeOK
<1>6. /\ Pushing' = Pushing \ {th}
      /\ \A a \in Pushing' : a # th /\ idx'[a] = idx[a] /\ arg'[a] = arg[a]
  BY <1>1, <1>3 DEF TypeOK, Pushing
<1>7. LocksOK'
  <2>1. IsFiniteSet(Pushing')
    BY <1>1, <1>6, FS_RemoveElement DEF LocksOK
  <2>2. ASSUME NEW u \in Thread
        PROVE  /\ pc'[u] \in {"write", "scan"} => u \in readers'
               /\ pc'[u] \in {"write", "grown"} => idx'[u] < nalloc'
               /\ pc'[u] # "scan" => bound'[u] = -1
               /\ u \in Pushing' => arg'[u] \in Item
    <3>1. CASE u = th
      BY <1>1, <1>2, <1>3, <1>6, <3>1 DEF TypeOK, LocksOK
    <3>2. CASE u # th
      BY <1>1, <1>3, <1>6, <3>2 DEF TypeOK, LocksOK
    <3> QED
      BY <3>1, <3>2
  <2> QED
    BY <2>1, <2>2 DEF LocksOK
<1>8. ASSUME ~overlap' PROVE Orderly'
  <2>1. Orderly /\ size \in Nat
    BY <1>1, <1>3, <1>8 DEF VecInv, TypeOK
  <2>2. k < size /\ x \in used /\ x \notin live
    BY <1>2, <2>1 DEF Orderly, SlotsOK, k, x
  <2>3. \A a \in Pushing' : a \in Pushing /\ idx[a] # k /\ arg[a] # x
    BY <1>2, <1>6, <2>1 DEF Orderly, SlotsOK, k, x
  <2>4. SlotsOK'
    BY <1>3, <1>6, <2>1, <2>3 DEF Orderly, SlotsOK
  <2>5. Written' = Written \cup {k} /\ k \notin Written
    <3>1. Claimed' = Claimed \ {k} /\ k \in Claimed
      BY <1>2, <1>6, <2>3 DEF Claimed, k
    <3>2. k \in 0..(size - 1)
      BY <1>2, <2>1, <2>2
    <3> QED
      BY <1>3, <3>1, <3>2 DEF Written
  <2>6. data'[k] = x /\ \A i \in Written : i \in Nat /\ i < nalloc /\ i # k /\ data'[i] = data[i]
    <3>1. \A i \in Written : i \in Nat /\ i < nalloc /\ i # k
      BY <2>1, <2>5 DEF Orderly, ItemsOK, Written
    <3>2. \A i \in Written : i \in 0..(nalloc - 1)
      BY <1>2, <3>1
    <3> QED
      BY <1>1, <1>3, <1>4, <3>1, <3>2 DEF TypeOK
  <2>7. ItemsOK'
    <3>1. \A i \in Written : data[i] \in live
      BY <2>1 DEF Orderly, ItemsOK
    <3>2. live' \subseteq used'
      BY <1>3, <2>1, <2>2 DEF Orderly, ItemsOK
    <3>3. \A i \in Written' : i < nalloc' /\ data'[i] \in live'
      BY <1>2, <1>3, <2>5, <2>6, <3>1
    <3>4. \A y \in live' : \E i \in Written' : data'[i] = y
      BY <1>3, <2>1, <2>5, <2>6 DEF Orderly, ItemsOK
    <3>5. \A i, j \in Written' : data'[i] = data'[j] => i = j
      BY <2>1, <2>2, <2>5, <2>6, <3>1 DEF Orderly, ItemsOK
    <3> QED
      BY <3>2, <3>3, <3>4, <3>5 DEF ItemsOK
  <2>8. ASSUME NEW u \in Thread, pc'[u] = "scan" PROVE ScanOK(u)'
    <3>1. pc[u] = "scan"
      BY <1>1, <1>3, <2>8 DEF TypeOK
    <3>2. ScanOK(u)
      BY <2>1, <3>1 DEF Orderly
    <3> QED
      BY <1>3, <2>5, <2>6, <3>2 DEF ScanOK
  <2> QED
    BY <1>2, <1>3, <2>4, <2>7, <2>8 DEF Orderly
<1> QED
  BY <1>5, <1>7, <1>8 DEF VecInv

\* Nobody writes or iterates while the write lock is held.
LEMMA NoReaders ==
  ASSUME LocksOK, readers = {}, NEW u \in Thread
  PROVE  pc[u] # "scan" /\ pc[u] # "write"
  BY DEF LocksOK

\* The last item takes the place of the one that is erased.
LEMMA EraseStep ==
  ASSUME VecInv, NEW th \in Thread, SwapErase(th)
  PROVE  VecInv'
<1>1. PICK x \in used :
        /\ \/ /\ Found(x) # {}
              /\ data' = [data EXCEPT ![Last(Found(x))] = data[Size - 1]]
              /\ size' = size - 1
           \/ /\ Found(x) = {}
              /\ UNCHANGED <<data, size>>
        /\ live' = live \ {x}
  BY DEF SwapErase
<1>2. /\ readers = {} /\ fault = "none" /\ fault' = fault
      /\ overlap' = (overlap \/ Pushing # {})
      /\ nalloc' = nalloc /\ readers' = readers /\ pc' = pc /\ arg' = arg /\ idx' = idx
      /\ pos' = pos /\ bound' = bound /\ seen' = seen /\ before' = before /\ used' = used
  BY DEF SwapErase, At, push, scan
<1>3. TypeOK /\ LocksOK /\ size \in Nat /\ nalloc \in Nat \ {0}
  BY DEF VecInv, TypeOK
<1>4. Found(x) # {} => Size - 1 \in 0..(nalloc - 1) /\ size > 0
  BY <1>3 DEF Found, Size
<1>5. TypeOK'
  <2>1. data' \in [0..(nalloc - 1) -> Item \cup {Nil}]
    BY <1>1, <1>3, <1>4 DEF TypeOK
  <2>2. size' \in Nat
    BY <1>1, <1>3, <1>4
  <2> QED
    BY <1>1, <1>2, <1>3, <2>1, <2>2 DEF TypeOK
<1>6. LocksOK' /\ Pushing' = Pushing
  BY <1>2, <1>3 DEF LocksOK, Pushing
<1>7. ASSUME ~overlap' PROVE Orderly'
  <2>1. Orderly /\ Pushing = {} /\ Written = 0..(size - 1) /\ Written' = 0..(size' - 1)
    BY <1>2, <1>6, <1>7 DEF VecInv, Written, Claimed
  <2>2. SlotsOK'
    BY <1>6, <2>1 DEF SlotsOK
  <2>3. ItemsOK /\ \A i \in 0..(size - 1) : i < nalloc /\ data[i] \in live
    BY <2>1 DEF Orderly, ItemsOK
  <2>4. Size = size
    <3>1. size > 0 => size - 1 \in 0..(size - 1)
      BY <1>3
    <3>2. size > 0 => size - 1 < nalloc
      BY <2>3, <3>1
    <3>3. ~(size > nalloc)
      BY <1>3, <3>2
    <3> QED
      BY <3>3 DEF Size
  <2>5. ItemsOK'
    <3>1. CASE Found(x) = {}
      <4>1. x \notin live
        BY <2>1, <2>3, <2>4, <3>1 DEF ItemsOK, Found
      <4> QED
        BY <1>1, <1>2, <2>1, <2>3, <3>1, <4>1 DEF ItemsOK
    <3>2. CASE Found(x) # {}
      <4>1. PICK k \in 0..(size - 1) : data[k] = x
        BY <2>4, <3>2 DEF Found
      <4>2. Found(x) = {k}
        BY <2>1, <2>3, <2>4, <4>1 DEF ItemsOK, Found
      <4>3. Last(Found(x)) = k
        BY <1>3, <4>1, <4>2 DEF Last
      <4> DEFINE n == size - 1
      <4>4. n \in Nat /\ k \in 0..n /\ n \in 0..n /\ size' = n /\ Written = 0..n
            /\ Written' = 0..(n - 1) /\ 0..(n - 1) \subseteq 0..n /\ n \notin 0..(n - 1)
        BY <1>1, <1>3, <2>1, <3>2, <4>1
      <4>5. data' = [data EXCEPT ![k] = data[n]]
        BY <1>1, <2>4, <3>2, <4>3
      <4> HIDE DEF n
      <4>6. \A i \in 0..n : data'[i] = IF i = k THEN data[n] ELSE data[i]
        <5>1. \A i \in 0..n : i \in 0..(nalloc - 1)
          BY <1>3, <2>3, <4>4 DEF n
        <5> QED
          BY <1>3, <4>5, <5>1 DEF TypeOK
      <4>7. \A i, j \in 0..n : data[i] = data[j] => i = j
        BY <2>3, <4>4 DEF ItemsOK
      <4>8. \A i \in 0..(n - 1) : i < nalloc /\ data'[i] \in live /\ data'[i] # x
        BY <2>1, <2>3, <4>1, <4>4, <4>6, <4>7
      <4>9. \A i, j \in 0..(n - 1) : data'[i] = data'[j] => i = j
        BY <4>4, <4>6, <4>7
      <4>10. \A y \in live' : \E i \in 0..(n - 1) : data'[i] = y
        <5> SUFFICES ASSUME NEW y \in live, y # x
                     PROVE  \E i \in 0..(n - 1) : data'[i] = y
          BY <1>1
        <5>1. PICK i \in 0..n : data[i] = y
          BY <2>3, <4>4 DEF ItemsOK
        <5>2. i # k
          BY <4>1, <5>1
        <5>3. CASE i = n
          <6>1. k \in 0..(n - 1) /\ data'[k] = y
            BY <4>4, <4>6, <5>1, <5>2, <5>3
          <6> QED
            BY <6>1
        <5>4. CASE i # n
          <6>1. i \in 0..(n - 1) /\ data'[i] = y
            BY <4>4, <4>6, <5>1, <5>2, <5>4
          <6> QED
            BY <6>1
        <5> QED
          BY <5>3, <5>4
      <4> QED
        BY <1>1, <1>2, <2>3, <4>4, <4>8, <4>9, <4>10 DEF ItemsOK
    <3> QED
      BY <3>1, <3>2
  <2>6. \A u \in Thread : pc'[u] # "scan"
    BY <1>2, <1>3, NoReaders
  <2> QED
    BY <1>2, <2>1, <2>2, <2>5, <2>6 DEF Orderly
<1> QED
  BY <1>5, <1>6, <1>7 DEF VecInv

\* The vector itself and the pushes are as before.
LEMMA ScanKeeps ==
  ASSUME LocksOK, Orderly, NEW th \in Thread,
         UNCHANGED <<size, nalloc, data, arg, idx, used, live>>, fault' = "none",
         Pushing' = Pushing, \A u \in Thread : u # th /\ pc'[u] = "scan" =>
            /\ pc[u] = "scan" /\ before'[u] = before[u] /\ pos'[u] = pos[u]
            /\ seen'[u] = seen[u] /\ bound'[u] = bound[u],
         pc'[th] = "scan" => ScanOK(th)'
  PROVE  Orderly'
<1>1. SlotsOK' /\ Written' = Written
  BY DEF Orderly, SlotsOK, Written, Claimed
<1>2. ItemsOK'
  BY <1>1 DEF Orderly, ItemsOK
<1>3. ASSUME NEW u \in Thread, u # th, pc'[u] = "scan" PROVE ScanOK(u)'
  <2>1. ScanOK(u)
    BY <1>3 DEF Orderly
  <2> QED
    BY <1>1, <1>3, <2>1 DEF ScanOK
<1> QED
  BY <1>1, <1>2, <1>3 DEF Orderly

\* No push is under way when an iteration loads size.
LEMMA ScanBeginStep ==
  ASSUME VecInv, NEW th \in Thread, ScanBegin(th)
  PROVE  VecInv'
<1>1. /\ pc[th] = "idle" /\ fault = "none" /\ fault' = "none"
      /\ scans' = scans + 1 /\ readers' = readers \cup {th} /\ pos' = [pos EXCEPT ![th] = 0]
      /\ before' = [before EXCEPT ![th] = live] /\ seen' = seen
      /\ \/ bound' = [bound EXCEPT ![th] = Size] /\ overlap' = (overlap \/ Pushing # {})
         \/ bound' = bound /\ overlap' = overlap
      /\ pc' = [pc EXCEPT ![th] = "scan"]
      /\ UNCHANGED <<size, nalloc, data, arg, idx, used, live>>
  BY DEF ScanBegin, ScanFrom, At, Goto, push
<1>2. TypeOK /\ LocksOK /\ bound[th] = -1
  BY <1>1 DEF VecInv, LocksOK
<1>3. Size \in Nat
  BY <1>2 DEF TypeOK, Size
<1>4. TypeOK'
  BY <1>1, <1>2, <1>3 DEF TypeOK
<1>5. Pushing' = Pushing
  BY <1>1, <1>2 DEF TypeOK, Pushing
<1>6. LocksOK'
  BY <1>1, <1>2, <1>5 DEF TypeOK, LocksOK
<1>7. ASSUME ~overlap' PROVE Orderly'
  <2>1. Orderly
    BY <1>1, <1>7 DEF VecInv
  <2>2. ScanOK(th)'
    <3>1. before'[th] = live /\ pos'[th] = 0
      BY <1>1, <1>2 DEF TypeOK
    <3>2. CASE bound' = bound
      BY <1>1, <1>2, <3>1, <3>2 DEF ScanOK
    <3>3. CASE bound' = [bound EXCEPT ![th] = Size] /\ Pushing = {}
      <4>1. Written = 0..(size - 1) /\ Written' = Written
        BY <1>1, <1>5, <3>3 DEF Written, Claimed
      <4>2. bound'[th] = Size /\ Size <= size /\ size \in Nat
        BY <1>2, <3>3 DEF TypeOK, Size
      <4>3. 0..(Size - 1) = Written
        <5>1. ASSUME size > nalloc PROVE FALSE
          <6>1. size - 1 \in Written
            BY <4>1, <4>2, <5>1, <1>2 DEF TypeOK
          <6>2. size - 1 < nalloc
            BY <2>1, <6>1 DEF Orderly, ItemsOK
          <6> QED
            BY <1>2, <4>2, <5>1, <6>2 DEF TypeOK
        <5> QED
          BY <4>1, <5>1 DEF Size
      <4>4. \A y \in live : \E i \in 0..(Size - 1) : data[i] = y
        BY <2>1, <4>3 DEF Orderly, ItemsOK
      <4> QED
        BY <1>1, <1>3, <3>1, <4>1, <4>2, <4>3, <4>4 DEF ScanOK
    <3> QED
      BY <1>1, <1>7, <3>2, <3>3
  <2>3. \A u \in Thread : u # th => /\ pc'[u] = pc[u] /\ before'[u] = before[u]
                                    /\ pos'[u] = pos[u] /\ seen'[u] = seen[u]
                                    /\ bound'[u] = bound[u]
    BY <1>1, <1>2 DEF TypeOK
  <2> QED
    BY <1>1, <1>2, <1>5, <2>1, <2>2, <2>3, ScanKeeps
<1> QED
  BY <1>4, <1>6, <1>7 DEF VecInv

\* What an iteration that goes on to the next slot finds there.
LEMMA NextWritten ==
  ASSUME VecInv, NEW th \in Thread, ScanNext(th), ~overlap'
  PROVE  Orderly /\ pos[th] \in Written
<1>1. /\ pc[th] = "scan" /\ pos[th] < Limit(th)
      /\ overlap' = (overlap \/ (bound[th] = -1 /\ Pushing # {}))
  BY DEF ScanNext, At, LoadsEnd
<1>2. Orderly /\ ScanOK(th) /\ pos[th] \in Nat /\ size \in Nat
      /\ bound[th] \in Nat \cup {-1}
  BY <1>1 DEF VecInv, Orderly, TypeOK
<1>3. CASE bound[th] = -1
  <2>1. Written = 0..(size - 1)
    BY <1>1, <1>3 DEF Written, Claimed
  <2> QED
    BY <1>1, <1>2, <1>3, <2>1 DEF Limit
<1>4. CASE bound[th] # -1
  <2>1. pos[th] \in 0..(bound[th] - 1)
    BY <1>1, <1>2, <1>4 DEF Limit
  <2> QED
    BY <1>2, <1>4, <2>1 DEF ScanOK
<1> QED
  BY <1>2, <1>3, <1>4

LEMMA ScanNextStep ==
  ASSUME VecInv, NEW th \in Thread, ScanNext(th)
  PROVE  VecInv'
<1>1. /\ pc[th] = "scan" /\ fault = "none" /\ pos[th] < Limit(th)
      /\ overlap' = (overlap \/ (bound[th] = -1 /\ Pushing # {}))
      /\ UNCHANGED <<size, nalloc, data, readers, pc, arg, idx, bound, before, scans, used, live>>
      /\ \/ /\ pos[th] < nalloc /\ data[pos[th]] # Nil
            /\ seen' = [seen EXCEPT ![th] = @ \cup {data[pos[th]]}]
            /\ pos' = [pos EXCEPT ![th] = @ + 1]
            /\ fault' = fault
         \/ /\ pos[th] < nalloc /\ data[pos[th]] = Nil
            /\ fault' = "unwritten" /\ UNCHANGED <<seen, pos>>
         \/ /\ pos[th] >= nalloc
            /\ fault' = "overrun" /\ UNCHANGED <<seen, pos>>
  BY DEF ScanNext, At, LoadsEnd, shared, push
<1>2. TypeOK /\ LocksOK /\ pos[th] \in Nat /\ nalloc \in Nat \ {0}
  BY DEF VecInv, TypeOK
<1>3. TypeOK'
  <2>1. pos[th] < nalloc /\ data[pos[th]] # Nil => data[pos[th]] \in Item
    BY <1>2 DEF TypeOK
  <2>2. seen' \in [Thread -> SUBSET Item] /\ pos' \in [Thread -> Nat]
    <3>1. seen \in [Thread -> SUBSET Item] /\ pos \in [Thread -> Nat] /\ pos[th] + 1 \in Nat
      BY <1>2 DEF TypeOK
    <3> QED
      BY <1>1, <2>1, <3>1
  <2>3. overlap' \in BOOLEAN /\ fault' \in {"none", "overrun", "unwritten"}
    BY <1>1
  <2> QED
    BY <1>1, <1>2, <2>2, <2>3 DEF TypeOK
<1>4. LocksOK' /\ Pushing' = Pushing
  BY <1>1, <1>2 DEF LocksOK, Pushing
<1>5. ASSUME ~overlap' PROVE Orderly'
  <2>1. Orderly /\ pos[th] \in Written /\ ScanOK(th)
    BY <1>1, <1>5, NextWritten DEF Orderly
  <2>2. pos[th] < nalloc /\ data[pos[th]] \in live /\ data[pos[th]] # Nil
    BY <1>2, <2>1, NilAssumption DEF Orderly, ItemsOK, TypeOK
  <2>3. /\ seen' = [seen EXCEPT ![th] = @ \cup {data[pos[th]]}]
        /\ pos' = [pos EXCEPT ![th] = @ + 1] /\ fault' = "none"
    BY <1>1, <1>2, <2>2
  <2>4. pos'[th] = pos[th] + 1 /\ seen'[th] = seen[th] \cup {data[pos[th]]}
    BY <1>2, <2>3 DEF TypeOK
  <2>5. Written' = Written
    BY <1>1, <1>4 DEF Written, Claimed
  <2>6. ScanOK(th)'
    <3>1. \A i \in 0..(pos'[th] - 1) : i \in 0..(pos[th] - 1) \/ i = pos[th]
      BY <1>2, <2>4
    <3>2. \A i \in 0..(pos'[th] - 1) : i \in Written' /\ data[i] \in seen'[th]
      BY <2>1, <2>4, <2>5, <3>1 DEF ScanOK
    <3>3. bound[th] # -1 => pos'[th] <= bound[th]
      <4>1. bound[th] # -1 => pos[th] < bound[th] /\ bound[th] \in Nat
        BY <1>1, <1>2 DEF Limit, TypeOK
      <4> QED
        BY <1>2, <2>4, <4>1
    <3> QED
      BY <1>1, <2>1, <2>5, <3>2, <3>3 DEF ScanOK
  <2>7. \A u \in Thread : u # th => pos'[u] = pos[u] /\ seen'[u] = seen[u]
    BY <1>2, <2>3 DEF TypeOK
  <2> QED
    BY <1>1, <1>2, <1>4, <2>1, <2>3, <2>6, <2>7, ScanKeeps
<1> QED
  BY <1>3, <1>4, <1>5 DEF VecInv

LEMMA ScanEndStep ==
  ASSUME VecInv, NEW th \in Thread, ScanEnd(th)
  PROVE  VecInv'
<1>1. /\ pc[th] = "scan" /\ fault = "none" /\ fault' = "none"
      /\ overlap' = (overlap \/ (bound[th] = -1 /\ Pushing # {}))
      /\ pc' = [pc EXCEPT ![th] = "idle"] /\ readers' = readers \ {th}
      /\ pos' = [pos EXCEPT ![th] = 0] /\ bound' = [bound EXCEPT ![th] = -1]
      /\ seen' = [seen EXCEPT ![th] = {}] /\ before' = [before EXCEPT ![th] = {}]
      /\ UNCHANGED <<size, nalloc, data, arg, idx, used, live>>
  BY DEF ScanEnd, At, Goto, LoadsEnd, push
<1>2. TypeOK /\ LocksOK
  BY DEF VecInv
<1>3. TypeOK'
  BY <1>1, <1>2 DEF TypeOK
<1>4. Pushing' = Pushing
  BY <1>1, <1>2 DEF TypeOK, Pushing
<1>5. LocksOK'
  BY <1>1, <1>2, <1>4 DEF TypeOK, LocksOK
<1>6. ASSUME ~overlap' PROVE Orderly'
  <2>1. Orderly
    BY <1>1, <1>6 DEF VecInv
  <2>2. \A u \in Thread : u # th => /\ pc'[u] = pc[u] /\ before'[u] = before[u]
                                    /\ pos'[u] = pos[u] /\ seen'[u] = seen[u]
                                    /\ bound'[u] = bound[u]
    BY <1>1, <1>2 DEF TypeOK
  <2>3. pc'[th] # "scan"
    BY <1>1, <1>2 DEF TypeOK
  <2> QED
    BY <1>1, <1>2, <1>4, <2>1, <2>2, <2>3, ScanKeeps
<1> QED
  BY <1>3, <1>5, <1>6 DEF VecInv

LEMMA NextInv == VecInv /\ [Next]_vars => VecInv'
<1> SUFFICES ASSUME VecInv, [Next]_vars PROVE VecInv'
  OBVIOUS
<1>1. CASE UNCHANGED vars
  <2>1. UNCHANGED <<size, nalloc, data, readers, pc, arg, idx, pos, bound, seen, used, live,
                    before, overlap, scans, fault>>
    BY <1>1 DEF vars, shared, push, scan
  <2>2. TypeOK' /\ LocksOK' /\ Written' = Written /\ Pushing' = Pushing
    BY <2>1 DEF VecInv, TypeOK, LocksOK, Written, Claimed, Pushing
  <2>3. \A u \in Thread : ScanOK(u) => ScanOK(u)'
    BY <2>1, <2>2 DEF ScanOK
  <2> QED
    BY <2>1, <2>2, <2>3 DEF VecInv, Orderly, SlotsOK, ItemsOK
<1>2. CASE Next
  BY <1>2, ClaimStep, EraseStep, ScanBeginStep, ExpandStep, WriteStep, ScanNextStep, ScanEndStep
     DEF Next, Continue
<1> QED
  BY <1>1, <1>2

\* VecInv holds of every state: who has which lock, who has claimed which slot, and
\* what an iteration has met.
THEOREM Invariance == Spec => []VecInv
  BY InitInv, NextInv, PTL DEF Spec

\* The slots and the items of VecInv, counted.
LEMMA Counted ==
  ASSUME VecInv, ~overlap
  PROVE  /\ Claimed \subseteq 0..(size - 1)
         /\ Cardinality(Claimed) = Cardinality(Pushing)
         /\ {i \in Written : i < nalloc /\ data[i] \in live} = Written
         /\ {data[i] : i \in Written} = live
         /\ Cardinality(Written) = Cardinality(live)
<1>1. TypeOK /\ LocksOK /\ SlotsOK /\ ItemsOK
  BY DEF VecInv, Orderly
<1>2. Claimed \subseteq 0..(size - 1)
  <2>1. \A th \in Pushing : idx[th] \in Nat /\ idx[th] < size
    BY <1>1, PushingPart DEF TypeOK, SlotsOK
  <2> QED
    BY <1>1, <2>1 DEF Claimed, TypeOK
<1>3. Cardinality(Claimed) = Cardinality(Pushing)
  <2> DEFINE f == [th \in Pushing |-> idx[th]]
  <2>1. f \in Bijection(Pushing, Claimed)
    BY <1>1 DEF Bijection, Injection, Surjection, IsInjective, Range, SlotsOK, Claimed
  <2> QED
    BY <1>1, <2>1, FS_Bijection DEF LocksOK, ExistsBijection
<1>4. {data[i] : i \in Written} = live
  BY <1>1 DEF ItemsOK
<1>5. Cardinality(Written) = Cardinality(live)
  <2> DEFINE f == [i \in Written |-> data[i]]
  <2>1. f \in Bijection(Written, live)
    BY <1>1 DEF Bijection, Injection, Surjection, IsInjective, Range, ItemsOK
  <2>2. IsFiniteSet(Written)
    <3>1. IsFiniteSet(0..(size - 1))
      BY <1>1, FS_Interval DEF TypeOK
    <3> QED
      BY <3>1, FS_Subset DEF Written
  <2> QED
    BY <2>1, <2>2, FS_Bijection DEF ExistsBijection
<1> QED
  BY <1>1, <1>2, <1>3, <1>4, <1>5 DEF ItemsOK

\* No push loses or doubles an item, or writes over another's, however pushes grow the
\* vector at the same time; nothing is read or written where nobody may.
THEOREM ContentsHold == Spec => []Contents
<1>1. VecInv => Contents
  <2> SUFFICES ASSUME VecInv PROVE Contents
    OBVIOUS
  <2>1. CASE overlap
    BY <2>1 DEF VecInv, Contents
  <2>2. CASE ~overlap
    BY <2>2, Counted DEF VecInv, Orderly, Contents, Claimed, Written
  <2> QED
    BY <2>1, <2>2
<1> QED
  BY <1>1, Invariance, PTL

\* An iteration that is not overtaken by a push meets every item that was there when
\* it began: nothing is erased or moved behind it.
THEOREM ScansCompleteHolds == Spec => ScansComplete
<1> DEFINE A == \A th \in Thread : pc[th] = "scan" /\ pc'[th] = "idle"
                    => overlap' \/ before[th] \subseteq seen[th]
<1>1. VecInv /\ [Next]_vars => [A]_vars
  <2> SUFFICES ASSUME VecInv, Next, NEW th \in Thread, pc[th] = "scan", pc'[th] = "idle", ~overlap'
               PROVE  before[th] \subseteq seen[th]
    OBVIOUS
  <2>1. TypeOK
    BY DEF VecInv
  <2>2. ScanEnd(th)
    <3>1. PICK u \in Thread : Claim(u) \/ SwapErase(u) \/ ScanBegin(u) \/ Continue(u)
      BY DEF Next
    <3>2. pc' # pc
      OBVIOUS
    <3>3. \/ pc[u] # "scan" /\ \E l : pc' = [pc EXCEPT ![u] = l]
          \/ ScanEnd(u)
      BY <3>1, <3>2 DEF Claim, SwapErase, ScanBegin, ScanFrom, Continue, Expand, ExpandTo, Write,
                        ScanNext, At, Goto
    <3>4. u = th
      BY <2>1, <3>3 DEF TypeOK, ScanEnd, Goto
    <3> QED
      BY <3>3, <3>4
  <2>3. /\ pos[th] >= Limit(th)
        /\ overlap' = (overlap \/ (bound[th] = -1 /\ Pushing # {}))
    BY <2>2 DEF ScanEnd, LoadsEnd
  <2>4. Orderly /\ ScanOK(th) /\ pos[th] \in Nat /\ size \in Nat /\ bound[th] \in Nat \cup {-1}
    BY <2>3 DEF VecInv, Orderly, TypeOK
  <2>5. CASE bound[th] = -1
    <3>1. \A i \in Written : i \in 0..(pos[th] - 1)
      BY <2>3, <2>4, <2>5 DEF Limit, Written
    <3> QED
      BY <2>4, <3>1 DEF ScanOK, Orderly, ItemsOK
  <2>6. CASE bound[th] # -1
    <3>1. pos[th] = bound[th]
      BY <2>3, <2>4, <2>6 DEF Limit, ScanOK
    <3> QED
      BY <2>4, <2>6, <3>1 DEF ScanOK
  <2> QED
    BY <2>5, <2>6
<1>2. Spec => [][A]_vars
  BY <1>1, Invariance, PTL DEF Spec
<1> QED
  BY <1>2 DEF ScansComplete

=============================================================================
