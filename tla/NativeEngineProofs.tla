--------------------------- MODULE NativeEngineProofs ---------------------------
(***************************************************************************)
(* No job is forgotten by the native engine, for any number of workers,    *)
(* jobs, priorities and resizes, shrinking included.                       *)
(*                                                                         *)
(* Tokens alone is not inductive.  The token of the event loop has to be   *)
(* accounted for by itself (Watchable); a worker that has looked at the    *)
(* last level leaves the scan without a loss only because the scan went    *)
(* through all of them (ScanOK); and a thread is never started over one    *)
(* that is still at work and may hold a token (Staff), because cur_nt is   *)
(* waited for before the size changes.                                     *)
(*                                                                         *)
(* At the end: an engine that has been freed has left nothing behind, as   *)
(* long as it was never made smaller (FreeInv).                            *)
(***************************************************************************)
EXTENDS NativeEngine, FiniteSetTheorems, TLAPS

TokensAt(l) ==
    Cardinality(Queued(l)) + (IF evt THEN 1 ELSE 0)
        <= njob + Cardinality(Promised) + Cardinality(Holders) + Cardinality(Looking(l))

\* The next look at the events is promised by a token or by a worker.
Watchable == evt => njob + Cardinality(Holders) >= 1

\* A job is in the queue of its priority and nowhere else.
Placed == \A l \in 0..Last : \A j \in queue[l] : l = Level[j] /\ j \notin fresh

ScanOK == \A th \in Thread : At(th, "pop") => lvl[th] <= limit[th] /\ Last <= limit[th]

BackOK == \A th \in Thread : At(th, "inc") => back[th] \in PushesFrom(th)

\* The threads that have been created and have not ended.
Present   == {w \in Worker : pc[w] \notin {"none", "gone"}}
NoSurplus == \A w \in Present : w < nt
Running   == \/ pc[App] \in {"threads", "spin", "grow"}
             \/ engine = "open" /\ pc[App] \notin {"wake", "join", "drain"}

Staff ==
    /\ \A w \in Worker : w < nt /\ (At(App, "threads") => w < i)
                            => pc[w] \notin {"none", "exit", "gone"}
    /\ At(App, "threads") =>
        /\ goal = nt
        /\ \A w \in Worker : i <= w /\ w < goal => pc[w] \in {"none", "gone"}
        /\ i < goal => NoSurplus
    /\ NoSurplus \/ Cardinality(Present) <= curNt
    /\ At(App, "grow") => NoSurplus /\ Cardinality(Present) <= curNt

IInv ==
    /\ TypeOK /\ OneWatcher /\ Placed /\ ScanOK /\ BackOK /\ Watchable
    /\ Running => Staff
    /\ \A l \in 0..(Last - 1) : TokensAt(l)

-----------------------------------------------------------------------------
\* Finite sets and how the steps of one thread change them.

LEMMA Constants ==
  /\ Last \in Nat /\ MaxWorkers \in Nat
  /\ IsFiniteSet(Worker) /\ IsFiniteSet(Thread) /\ IsFiniteSet(Job)
  /\ App \notin Worker /\ Worker \subseteq Thread /\ App \in Thread
  /\ Level \in [Job -> 0..(Last - 1)]
  /\ Sizes \subseteq 0..MaxWorkers /\ Resizes \subseteq 0..MaxWorkers
  /\ EventJob \subseteq Job /\ Backends \subseteq BOOLEAN
<1>1. Last \in Nat /\ MaxWorkers \in Nat /\ App \notin Worker
  BY EngineAssumption DEF Worker
<1>2. IsFiniteSet(Worker)
  BY <1>1, FS_Interval DEF Worker
<1>3. IsFiniteSet(Thread)
  BY <1>2, FS_AddElement DEF Thread
<1> QED
  BY <1>1, <1>2, <1>3, EngineAssumption DEF Thread

LEMMA PartCard ==
  ASSUME NEW T, IsFiniteSet(T), NEW S \in SUBSET T
  PROVE  /\ IsFiniteSet(S) /\ Cardinality(S) \in Nat
         /\ \A R \in SUBSET S : Cardinality(R) \in Nat /\ Cardinality(R) <= Cardinality(S)
<1>1. IsFiniteSet(S)
  BY FS_Subset
<1>2. ASSUME NEW R \in SUBSET S
      PROVE  Cardinality(R) \in Nat /\ Cardinality(R) <= Cardinality(S)
  BY <1>1, FS_Subset, FS_CardinalityType
<1> QED
  BY <1>1, <1>2, FS_CardinalityType

\* A set with and without x.
LEMMA SplitCard ==
  ASSUME NEW T, IsFiniteSet(T), NEW S \in SUBSET T, NEW x
  PROVE  /\ Cardinality(S \ {x}) \in Nat
         /\ Cardinality(S) = Cardinality(S \ {x}) + (IF x \in S THEN 1 ELSE 0)
<1>1. IsFiniteSet(S) /\ Cardinality(S) \in Nat
  BY PartCard
<1>2. IsFiniteSet(S \ {x}) /\ Cardinality(S \ {x}) \in Nat
  BY <1>1, PartCard
<1>3. CASE x \in S
  <2>1. Cardinality(S \ {x}) = Cardinality(S) - 1
    BY <1>1, <1>3, FS_RemoveElement
  <2> QED
    BY <1>1, <1>2, <1>3, <2>1
<1>4. CASE x \notin S
  <2>1. S \ {x} = S
    BY <1>4
  <2> QED
    BY <1>1, <1>4, <2>1
<1> QED
  BY <1>3, <1>4

\* What thread th contributes to the right side of TokensAt(l).
Holds(th)     == IF th \in Holders THEN 1 ELSE 0
Weight(th, l) == (IF th \in Promised THEN 1 ELSE 0) + Holds(th)
                    + (IF th \in Looking(l) THEN 1 ELSE 0)

\* Only thread th has moved.
Still(th) == \A u \in Thread \ {th} :
    pc'[u] = pc[u] /\ back'[u] = back[u] /\ lvl'[u] = lvl[u] /\ limit'[u] = limit[u]

LEMMA StillSets ==
  ASSUME NEW th \in Thread, Still(th), NEW l \in Int
  PROVE  /\ Promised' \ {th} = Promised \ {th}
         /\ Holders' \ {th} = Holders \ {th}
         /\ Looking(l)' \ {th} = Looking(l) \ {th}
<1>1. \A u \in Worker : u \in Thread
  BY Constants
<1>2. Promised' \ {th} = Promised \ {th}
  BY DEF Still, Promised, At
<1>3. Holders' \ {th} = Holders \ {th}
  BY <1>1 DEF Still, Holders, Watching, At
<1>4. Looking(l)' \ {th} = Looking(l) \ {th}
  BY <1>1 DEF Still, Looking, At
<1> QED
  BY <1>2, <1>3, <1>4

LEMMA Balance ==
  ASSUME TypeOK, TypeOK', NEW th \in Thread, Still(th), evt' = evt,
         NEW l \in 0..(Last - 1), TokensAt(l),
         NEW d \in Int,
         Cardinality(Queued(l)') <= Cardinality(Queued(l)) + d,
         njob' + Weight(th, l)' >= njob + Weight(th, l) + d
  PROVE  TokensAt(l)'
<1> USE Constants
<1>1. /\ Promised \in SUBSET Thread /\ Promised' \in SUBSET Thread
      /\ Holders \in SUBSET Thread /\ Holders' \in SUBSET Thread
      /\ Looking(l) \in SUBSET Thread /\ Looking(l)' \in SUBSET Thread
      /\ Queued(l) \in SUBSET Job /\ Queued(l)' \in SUBSET Job
  BY DEF Promised, Holders, Looking, Queued
<1>2. Cardinality(Queued(l)) \in Nat /\ Cardinality(Queued(l)') \in Nat
  BY <1>1, PartCard
<1>3. /\ Promised' \ {th} = Promised \ {th}
      /\ Holders' \ {th} = Holders \ {th}
      /\ Looking(l)' \ {th} = Looking(l) \ {th}
  BY StillSets
<1> DEFINE e  == IF evt THEN 1 ELSE 0
           p  == IF th \in Promised THEN 1 ELSE 0
           pn == IF th \in Promised' THEN 1 ELSE 0
           h  == IF th \in Holders THEN 1 ELSE 0
           hn == IF th \in Holders' THEN 1 ELSE 0
           k  == IF th \in Looking(l) THEN 1 ELSE 0
           kn == IF th \in Looking(l)' THEN 1 ELSE 0
<1>4. /\ Cardinality(Promised \ {th}) \in Nat
      /\ Cardinality(Promised) = Cardinality(Promised \ {th}) + p
      /\ Cardinality(Promised') = Cardinality(Promised \ {th}) + pn
  BY <1>1, <1>3, SplitCard
<1>5. /\ Cardinality(Holders \ {th}) \in Nat
      /\ Cardinality(Holders) = Cardinality(Holders \ {th}) + h
      /\ Cardinality(Holders') = Cardinality(Holders \ {th}) + hn
  BY <1>1, <1>3, SplitCard
<1>6. /\ Cardinality(Looking(l) \ {th}) \in Nat
      /\ Cardinality(Looking(l)) = Cardinality(Looking(l) \ {th}) + k
      /\ Cardinality(Looking(l)') = Cardinality(Looking(l) \ {th}) + kn
  BY <1>1, <1>3, SplitCard
<1>7. njob \in Int /\ njob' \in Int
  BY DEF TypeOK
<1>8. njob' + (pn + hn + kn) >= njob + (p + h + k) + d
  BY DEF Weight, Holds
<1>9. Cardinality(Queued(l)) + e
         <= njob + Cardinality(Promised) + Cardinality(Holders) + Cardinality(Looking(l))
  BY DEF TokensAt
<1>10. SUFFICES Cardinality(Queued(l)') + e
         <= njob' + Cardinality(Promised') + Cardinality(Holders') + Cardinality(Looking(l)')
  BY DEF TokensAt
<1>11. {e, p, pn, h, hn, k, kn} \subseteq Int
  OBVIOUS
<1> HIDE DEF e, p, pn, h, hn, k, kn
<1> QED
  BY <1>2, <1>4, <1>5, <1>6, <1>7, <1>8, <1>9, <1>11

LEMMA BalanceWatch ==
  ASSUME TypeOK, TypeOK', NEW th \in Thread, Still(th), evt' = evt, Watchable,
         njob' + Holds(th)' >= njob + Holds(th)
  PROVE  Watchable'
<1>1. Holders \in SUBSET Thread /\ Holders' \in SUBSET Thread
  BY Constants DEF Holders
<1>2. Holders' \ {th} = Holders \ {th}
  BY StillSets, Constants
<1>3. /\ Cardinality(Holders \ {th}) \in Nat
      /\ Cardinality(Holders) = Cardinality(Holders \ {th}) + Holds(th)
      /\ Cardinality(Holders') = Cardinality(Holders \ {th}) + Holds(th)'
  BY <1>1, <1>2, SplitCard, Constants DEF Holds
<1>4. Holds(th) \in Int /\ Holds(th)' \in Int /\ njob \in Int /\ njob' \in Int
  BY DEF Holds, TypeOK
<1>5. njob + Cardinality(Holders) <= njob' + Cardinality(Holders')
  BY <1>3, <1>4
<1>6. Cardinality(Holders) \in Int /\ Cardinality(Holders') \in Int
  BY <1>3, <1>4
<1> QED
  BY <1>4, <1>5, <1>6 DEF Watchable

-----------------------------------------------------------------------------
\* Framing.

\* A step of one thread that pushes nothing and neither takes nor gives back the
\* event lock.
LEMMA Moves ==
  ASSUME IInv, TypeOK', NEW th \in Thread, Still(th),
         UNCHANGED <<evt, evtLock, fresh>>,
         \A l \in 0..Last : queue'[l] \subseteq queue[l],
         th \in Worker => Watching(th)' = Watching(th),
         njob' + Holds(th)' >= njob + Holds(th),
         \A l \in 0..(Last - 1) : njob' + Weight(th, l)' >= njob + Weight(th, l),
         At(th, "pop")' => lvl'[th] <= limit'[th] /\ Last <= limit'[th],
         At(th, "inc")' => back'[th] \in PushesFrom(th),
         Running' => Staff'
  PROVE  IInv'
<1> USE Constants
<1>1. OneWatcher'
  <2>1. \A w \in Worker : Watching(w)' = Watching(w)
    BY DEF Still, Watching, At
  <2> QED
    BY <2>1 DEF IInv, OneWatcher
<1>2. Placed'
  BY DEF IInv, Placed
<1>3. ScanOK'
  BY DEF IInv, ScanOK, Still, At
<1>4. BackOK'
  BY DEF IInv, BackOK, Still, At, PushesFrom
<1>5. Watchable'
  BY BalanceWatch DEF IInv
<1>6. ASSUME NEW l \in 0..(Last - 1)
      PROVE  TokensAt(l)'
  <2>1. Queued(l)' \in SUBSET Queued(l) /\ Queued(l) \in SUBSET Job
    BY <1>6 DEF Queued
  <2>2. Cardinality(Queued(l)') <= Cardinality(Queued(l)) + 0
    BY <2>1, PartCard
  <2>3. Weight(th, l) \in Int /\ njob \in Int
    BY DEF Weight, Holds, IInv, TypeOK
  <2>4. njob' + Weight(th, l)' >= njob + Weight(th, l) + 0
    BY <1>6, <2>3
  <2> QED
    BY <1>6, <2>2, <2>4, Balance DEF IInv
<1> QED
  BY <1>1, <1>2, <1>3, <1>4, <1>5, <1>6 DEF IInv

\* The same for a step that takes no token out of anybody's hands.
LEMMA Quiet ==
  ASSUME IInv, TypeOK', NEW th \in Thread, Still(th),
         UNCHANGED <<evt, evtLock, fresh>>, njob <= njob',
         \A l \in 0..Last : queue'[l] \subseteq queue[l],
         th \in Worker => Watching(th)' = Watching(th),
         th \in Promised => th \in Promised',
         th \in Holders => th \in Holders',
         \A l \in 0..(Last - 1) : th \in Looking(l) => th \in Looking(l)',
         At(th, "pop")' => lvl'[th] <= limit'[th] /\ Last <= limit'[th],
         At(th, "inc")' => back'[th] \in PushesFrom(th),
         Running' => Staff'
  PROVE  IInv'
<1>1. njob \in Int /\ njob' \in Int
  BY DEF IInv, TypeOK
<1>2. Holds(th) <= Holds(th)' /\ Holds(th) \in Int /\ Holds(th)' \in Int
  BY DEF Holds
<1>3. njob' + Holds(th)' >= njob + Holds(th)
  BY <1>1, <1>2
<1>4. ASSUME NEW l \in 0..(Last - 1)
      PROVE  njob' + Weight(th, l)' >= njob + Weight(th, l)
  <2> DEFINE p  == IF th \in Promised THEN 1 ELSE 0
             pn == IF th \in Promised' THEN 1 ELSE 0
             k  == IF th \in Looking(l) THEN 1 ELSE 0
             kn == IF th \in Looking(l)' THEN 1 ELSE 0
  <2>1. p <= pn /\ k <= kn /\ {p, pn, k, kn} \subseteq Int
    BY <1>4
  <2>2. Weight(th, l) = p + Holds(th) + k /\ Weight(th, l)' = pn + Holds(th)' + kn
    BY DEF Weight
  <2> HIDE DEF p, pn, k, kn
  <2> QED
    BY <1>1, <1>2, <2>1, <2>2
<1> QED
  BY <1>3, <1>4, Moves

\* A step in which no thread is created or ends and no call is made or returns.
LEMMA SameStaff ==
  ASSUME IInv, Running' => Running, UNCHANGED <<nt, curNt, i, goal>>,
         \A w \in Worker : \/ pc'[w] = pc[w]
                           \/ {pc[w], pc'[w]} \cap {"none", "exit", "gone"} = {},
         \/ pc'[App] = pc[App]
         \/ {pc[App], pc'[App]} \cap {"threads", "grow"} = {}
  PROVE  Running' => Staff'
<1> SUFFICES ASSUME Running' PROVE Staff'
  OBVIOUS
<1>1. Staff
  BY DEF IInv
<1>2. Present' = Present
  BY DEF Present
<1> QED
  BY <1>1, <1>2 DEF Staff, NoSurplus, At

-----------------------------------------------------------------------------
\* Types and initial states.

LEMMA InitInv == Init => IInv
<1> USE Constants
<1> SUFFICES ASSUME Init PROVE IInv
  OBVIOUS
<1>1. nt \in 0..MaxWorkers /\ evt \in BOOLEAN
  BY DEF Init
<1>2. TypeOK
  <2>1. njob \in Nat
    BY DEF Init
  <2>2. ntAlloc \in Nat /\ curNt \in Int /\ goal \in 0..MaxWorkers /\ i \in Nat /\ sleepNt \in Int
    BY <1>1 DEF Init
  <2>3. 0 \in 0..(Last + 1)
    OBVIOUS
  <2>4. /\ lvl \in [Thread -> 0..(Last + 1)] /\ limit \in [Thread -> 0..(Last + 1)]
        /\ queue \in [0..Last -> SUBSET Job]
    BY <2>3 DEF Init
  <2>5. pc \in [Thread -> Label] /\ back \in [Thread -> Label]
    BY DEF Init, Label
  <2>6. fresh \in SUBSET Job /\ evtLock \in BOOLEAN
    BY DEF Init
  <2> QED
    BY <1>1, <2>1, <2>2, <2>4, <2>5, <2>6 DEF TypeOK, Init
<1>3. pc[App] = "threads" /\ \A w \in Worker : pc[w] = "none"
  BY DEF Init
<1>4. OneWatcher
  BY <1>3 DEF Init, OneWatcher, Watching, At
<1>5. Placed
  BY DEF Init, Placed
<1>6. ScanOK /\ BackOK
  BY <1>3 DEF ScanOK, BackOK, At, Thread
<1>7. Staff
  <2>1. i = 0 /\ goal = nt /\ \A w \in Worker : ~(w < 0)
    BY DEF Init, Worker
  <2>2. Present = {}
    BY <1>3 DEF Present
  <2> QED
    BY <1>3, <2>1, <2>2 DEF Staff, NoSurplus, At
<1>8. evt => njob = 1
  BY DEF Init
<1>9. njob \in Nat
  BY <1>2 DEF TypeOK
<1>10. Cardinality(Holders) \in Nat
  BY PartCard DEF Holders
<1>11. Watchable
  BY <1>8, <1>9, <1>10 DEF Watchable
<1>12. ASSUME NEW l \in 0..(Last - 1)
       PROVE  TokensAt(l)
  <2>1. Queued(l) = {}
    BY DEF Queued, Init
  <2>2. Cardinality(Queued(l)) = 0
    BY <2>1, FS_EmptySet
  <2>3. Cardinality(Promised) \in Nat /\ Cardinality(Looking(l)) \in Nat
    BY PartCard DEF Promised, Looking
  <2>4. (IF evt THEN 1 ELSE 0) <= njob
    BY <1>8, <1>9
  <2> DEFINE e == IF evt THEN 1 ELSE 0
  <2>5. e \in Int
    OBVIOUS
  <2> HIDE DEF e
  <2>6. Cardinality(Queued(l)) + e
          <= njob + Cardinality(Promised) + Cardinality(Holders) + Cardinality(Looking(l))
    BY <1>9, <1>10, <2>2, <2>3, <2>4, <2>5 DEF e
  <2> QED
    BY <2>6 DEF TokensAt, e
<1> QED
  BY <1>2, <1>4, <1>5, <1>6, <1>7, <1>11, <1>12 DEF IInv

\* The steps of any thread.
LEMMA TypeRuns ==
  ASSUME TypeOK, ScanOK, BackOK, NEW th \in Thread, Push(th) \/ Runs(th)
  PROVE  TypeOK'
<1> USE Constants
<1>1. CASE Push(th)
  <2>1. PICK j \in fresh, l \in PushesFrom(th) :
           /\ queue' = [queue EXCEPT ![Level[j]] = @ \cup {j}]
           /\ fresh' = fresh \ {j}
           /\ back' = [back EXCEPT ![th] = l]
           /\ pc' = [pc EXCEPT ![th] = "inc"]
           /\ UNCHANGED <<evt, nt, ntAlloc, curNt, sleepNt, njob, evtLock, lvl, limit,
                          i, goal, engine>>
    BY <1>1 DEF Push, Goto, size, sems, scan, call
  <2>2. l \in Label /\ j \in Job /\ Level[j] \in 0..Last
    BY DEF PushesFrom, Label, TypeOK
  <2>3. queue' \in [0..Last -> SUBSET Job] /\ fresh' \in SUBSET Job
    BY <2>1, <2>2 DEF TypeOK
  <2>4. pc' \in [Thread -> Label] /\ back' \in [Thread -> Label]
    BY <2>1, <2>2 DEF TypeOK, Label
  <2> QED
    BY <2>1, <2>3, <2>4 DEF TypeOK
<1>2. CASE Inc(th)
  <2>1. pc' \in [Thread -> Label] /\ back' \in [Thread -> Label]
    BY <1>2 DEF Inc, Goto, TypeOK, Label
  <2>2. njob' \in Nat
    BY <1>2 DEF Inc, TypeOK
  <2> QED
    BY <1>2, <2>1, <2>2 DEF TypeOK, Inc, jobs, scan, call, size
<1>3. CASE Scan(th)
  <2>1. limit' \in [Thread -> 0..(Last + 1)] /\ lvl' \in [Thread -> 0..(Last + 1)]
    BY <1>3 DEF Scan, TypeOK
  <2>2. pc' \in [Thread -> Label]
    BY <1>3 DEF Scan, Goto, TypeOK, Label
  <2> QED
    BY <1>3, <2>1, <2>2 DEF TypeOK, Scan, jobs, call, size, sems
<1>4. ASSUME NEW l \in Label, Leave(th, l)
      PROVE  /\ pc' \in [Thread -> Label]
             /\ limit' \in [Thread -> 0..(Last + 1)] /\ lvl' \in [Thread -> 0..(Last + 1)]
  <2>1. 0 \in 0..(Last + 1)
    OBVIOUS
  <2> QED
    BY <1>4, <2>1 DEF Leave, Goto, TypeOK
<1>5. CASE Pop(th)
  <2>1. PICK j \in queue[lvl[th]] :
           /\ queue' = [queue EXCEPT ![lvl[th]] = @ \ {j}]
           /\ UNCHANGED <<pc, scan>> \/ Leave(th, "run")
           /\ UNCHANGED <<evt, nt, ntAlloc, curNt, sleepNt, njob, evtLock, fresh, back,
                          i, goal, engine>>
    BY <1>5 DEF Pop, size, sems, call
  <2>2. "run" \in Label
    BY DEF Label
  <2>3. /\ pc' \in [Thread -> Label]
        /\ limit' \in [Thread -> 0..(Last + 1)] /\ lvl' \in [Thread -> 0..(Last + 1)]
    BY <1>4, <2>1, <2>2 DEF TypeOK, scan
  <2>4. queue' \in [0..Last -> SUBSET Job]
    BY <2>1 DEF TypeOK
  <2> QED
    BY <2>1, <2>3, <2>4 DEF TypeOK
<1>6. CASE PopEmpty(th)
  <2>1. lvl[th] + 1 \in 0..(Last + 1)
    BY <1>6 DEF PopEmpty, TypeOK
  <2>2. lvl' \in [Thread -> 0..(Last + 1)]
    BY <1>6, <2>1 DEF PopEmpty, TypeOK
  <2> QED
    BY <1>6, <2>2 DEF TypeOK, PopEmpty, size, sems, jobs, call
<1>7. CASE ScanFails(th)
  <2>1. Returns(th) \in Label
    BY DEF Returns, Label
  <2>2. /\ pc' \in [Thread -> Label]
        /\ limit' \in [Thread -> 0..(Last + 1)] /\ lvl' \in [Thread -> 0..(Last + 1)]
    BY <1>4, <1>7, <2>1 DEF ScanFails
  <2> QED
    BY <1>7, <2>2 DEF ScanFails, TypeOK, size, sems, jobs, call
<1>8. CASE Ran(th)
  <2>1. pc' \in [Thread -> Label]
    BY <1>8 DEF Ran, Goto, Returns, TypeOK, Label
  <2> QED
    BY <1>8, <2>1 DEF Ran, TypeOK, size, sems, jobs, scan, call
<1> QED
  BY <1>1, <1>2, <1>3, <1>5, <1>6, <1>7, <1>8 DEF Runs

\* The steps of a worker beside those.
LEMMA TypeWorks ==
  ASSUME TypeOK, NEW w \in Worker, Works(w)
  PROVE  TypeOK'
<1> USE Constants
<1>1. w \in Thread
  OBVIOUS
<1>2. pc' \in [Thread -> Label]
  BY <1>1 DEF TypeOK, Works, Start, Check, Sleep, Dec, Awake, TryLock, Watched, Release, Exit,
              Goto, Label
<1>3. UNCHANGED <<evt, nt, ntAlloc, queue, fresh, back, lvl, limit, i, goal, engine>>
  BY DEF Works, Start, Check, Sleep, Dec, Awake, TryLock, Watched, Release, Exit,
         size, sems, jobs, scan, call
<1>4. curNt' \in Int /\ sleepNt' \in Int /\ njob' \in Nat
  BY DEF TypeOK, Works, Start, Check, Sleep, Dec, Awake, TryLock, Watched, Release, Exit,
         size, sems
<1>5. evtLock' \in BOOLEAN
  BY DEF TypeOK, Works, Start, Check, Sleep, Dec, Awake, TryLock, Watched, Release, Exit, sems
<1> QED
  BY <1>2, <1>3, <1>4, <1>5 DEF TypeOK

\* The application's calls.
Calls == DoWork \/ SetNumWorkers \/ Free \/ Creating \/ Resizing \/ Freeing

LEMMA TypeCalls ==
  ASSUME TypeOK, Calls
  PROVE  TypeOK'
<1> USE Constants
<1>1. UNCHANGED <<evt, curNt, sleepNt, evtLock, fresh, back, lvl, limit>>
  BY DEF Calls, Creating, Resizing, Freeing, DoWork, SetNumWorkers, Free, StartThread,
         ThreadsStarted, SpinEnds, Double, SetTarget, Wake, Join, DrainTask, DrainEvent,
         DrainLevel, Freed, size, sems, jobs, scan, call
<1>2. pc' \in [Thread -> Label]
  <2>1. CASE StartThread
    <3>1. i \in Thread
      BY <2>1 DEF StartThread, TypeOK, Worker
    <3> QED
      BY <2>1, <3>1 DEF StartThread, TypeOK, Label
  <2>2. CASE ~StartThread
    BY <2>2 DEF TypeOK, Label, Calls, Creating, Resizing, Freeing, DoWork, SetNumWorkers, Free,
           ThreadsStarted, SpinEnds, Double, SetTarget, Wake, Join, DrainTask, DrainEvent,
           DrainLevel, Freed, Goto
  <2> QED
    BY <2>1, <2>2
<1>3. /\ nt' \in 0..MaxWorkers /\ goal' \in 0..MaxWorkers
      /\ i' \in Nat /\ njob' \in Nat /\ ntAlloc' \in Nat
  <2>1. nt' \in 0..MaxWorkers /\ goal' \in 0..MaxWorkers
    BY DEF TypeOK, Calls, Creating, Resizing, Freeing, DoWork, SetNumWorkers, Free, StartThread,
           ThreadsStarted, SpinEnds, Double, SetTarget, Wake, Join, DrainTask, DrainEvent,
           DrainLevel, Freed, size, sems, call
  <2>2. i' \in Nat /\ njob' \in Nat /\ ntAlloc' \in Nat
    BY DEF TypeOK, Calls, Creating, Resizing, Freeing, DoWork, SetNumWorkers, Free, StartThread,
           ThreadsStarted, SpinEnds, Double, SetTarget, Wake, Join, DrainTask, DrainEvent,
           DrainLevel, Freed, size, sems, call
  <2> QED
    BY <2>1, <2>2
<1>4. engine' \in {"open", "freed", "failed"}
  BY DEF TypeOK, Calls, Creating, Resizing, Freeing, DoWork, SetNumWorkers, Free, StartThread,
         ThreadsStarted, SpinEnds, Double, SetTarget, Wake, Join, DrainTask, DrainEvent,
         DrainLevel, Freed, call
<1>5. queue' \in [0..Last -> SUBSET Job]
  <2>1. CASE \E j \in Job : queue' = [queue EXCEPT ![i] = @ \ {j}]
    BY <2>1 DEF TypeOK
  <2>2. CASE UNCHANGED queue
    BY <2>2 DEF TypeOK
  <2>3. (DrainTask \/ DrainEvent) => i \in 0..Last /\ queue[i] \subseteq Job
    BY DEF DrainTask, DrainEvent, TypeOK
  <2>4. (DrainTask \/ DrainEvent) => \E j \in Job : queue' = [queue EXCEPT ![i] = @ \ {j}]
    BY <2>3 DEF DrainTask, DrainEvent
  <2>5. ~(DrainTask \/ DrainEvent) => UNCHANGED queue
    BY DEF Calls, Creating, Resizing, Freeing, DoWork, SetNumWorkers, Free, StartThread,
           ThreadsStarted, SpinEnds, Double, SetTarget, Wake, Join, DrainLevel, Freed, jobs
  <2> QED
    BY <2>1, <2>2, <2>4, <2>5
<1> QED
  BY <1>1, <1>2, <1>3, <1>4, <1>5 DEF TypeOK

-----------------------------------------------------------------------------
\* Steps of any thread.

LEMMA IncStep ==
  ASSUME IInv, NEW th \in Thread, Inc(th)
  PROVE  IInv'
<1> USE Constants
<1>1. /\ TypeOK /\ ScanOK /\ BackOK /\ pc[th] = "inc" /\ back[th] \in PushesFrom(th)
      /\ njob' = njob + 1
      /\ pc' = [pc EXCEPT ![th] = back[th]]
      /\ back' = [back EXCEPT ![th] = "idle"]
      /\ UNCHANGED <<evt, nt, ntAlloc, curNt, sleepNt, evtLock, queue, fresh, lvl, limit,
                     i, goal, engine>>
  BY DEF IInv, Inc, Goto, At, BackOK, size, jobs, scan, call
<1>2. TypeOK'
  BY <1>1, TypeRuns DEF Runs
<1>3. pc'[th] = back[th] /\ pc'[th] \in {"idle", "run", "watch"} /\ Still(th)
  BY <1>1 DEF TypeOK, Still, PushesFrom
<1>4. njob \in Nat
  BY <1>1 DEF TypeOK
<1>5. th \in Worker => Watching(th)' = Watching(th)
  BY <1>1, <1>3 DEF Watching, At
<1>6. njob' + Holds(th)' >= njob + Holds(th)
  <2>1. th \in Holders <=> th \in Holders'
    BY <1>1, <1>3, <1>5 DEF Holders
  <2>2. Holds(th)' = Holds(th) /\ Holds(th) \in Int
    BY <2>1 DEF Holds
  <2> QED
    BY <1>1, <1>4, <2>2
<1>7. ASSUME NEW l \in 0..(Last - 1)
      PROVE  njob' + Weight(th, l)' >= njob + Weight(th, l)
  <2>1. th \in Holders <=> th \in Holders'
    BY <1>1, <1>3, <1>5 DEF Holders
  <2>2. th \notin Looking(l) /\ th \notin Looking(l)' /\ th \in Promised /\ th \notin Promised'
    BY <1>1, <1>3 DEF Looking, Promised, At
  <2>3. Holds(th)' = Holds(th) /\ Holds(th) \in Int
    BY <2>1 DEF Holds
  <2>4. Weight(th, l) = 1 + Holds(th) /\ Weight(th, l)' = Holds(th)
    BY <2>2, <2>3 DEF Weight
  <2> QED
    BY <1>1, <1>4, <2>3, <2>4
<1>8. Running' => Staff'
  <2>1. Running' => Running
    BY <1>1, <1>3 DEF TypeOK, Running
  <2>2. \A w \in Worker : \/ pc'[w] = pc[w]
                          \/ {pc[w], pc'[w]} \cap {"none", "exit", "gone"} = {}
    BY <1>1, <1>3 DEF Still
  <2>3. \/ pc'[App] = pc[App]
        \/ {pc[App], pc'[App]} \cap {"threads", "grow"} = {}
    BY <1>1, <1>3 DEF Still
  <2> QED
    BY <1>1, <2>1, <2>2, <2>3, SameStaff
<1> QED
  BY <1>1, <1>2, <1>3, <1>5, <1>6, <1>7, <1>8, Moves DEF At

LEMMA ScanStep ==
  ASSUME IInv, NEW th \in Thread, Scan(th)
  PROVE  IInv'
<1> USE Constants
<1>1. /\ TypeOK /\ ScanOK /\ BackOK /\ pc[th] = "scan"
      /\ lvl' = [lvl EXCEPT ![th] = 0]
      /\ \/ limit' = [limit EXCEPT ![th] = Last]
         \/ limit' = [limit EXCEPT ![th] = Last + 1]
      /\ pc' = [pc EXCEPT ![th] = "pop"]
      /\ UNCHANGED <<evt, nt, ntAlloc, curNt, sleepNt, njob, evtLock, queue, fresh, back,
                     i, goal, engine>>
  BY DEF IInv, Scan, Goto, At, size, sems, jobs, call
<1>2. TypeOK'
  BY <1>1, TypeRuns DEF Runs
<1>3. pc'[th] = "pop" /\ lvl'[th] = 0 /\ limit'[th] \in {Last, Last + 1} /\ Still(th)
  BY <1>1 DEF TypeOK, Still
<1>4. /\ th \notin Promised /\ th \notin Holders
      /\ th \in Worker => Watching(th)' = Watching(th)
  BY <1>1, <1>3 DEF Promised, Holders, Watching, At
<1>5. \A l \in 0..(Last - 1) : th \in Looking(l) => th \in Looking(l)'
  BY <1>3 DEF Looking, At
<1>6. njob <= njob'
  BY <1>1 DEF TypeOK
<1>7. Running' => Staff'
  <2>1. Running' => Running
    BY <1>1, <1>3 DEF TypeOK, Running
  <2>2. \A w \in Worker : \/ pc'[w] = pc[w]
                          \/ {pc[w], pc'[w]} \cap {"none", "exit", "gone"} = {}
    BY <1>1, <1>3 DEF Still
  <2>3. \/ pc'[App] = pc[App]
        \/ {pc[App], pc'[App]} \cap {"threads", "grow"} = {}
    BY <1>1, <1>3 DEF Still
  <2> QED
    BY <1>1, <2>1, <2>2, <2>3, SameStaff
<1> QED
  BY <1>1, <1>2, <1>3, <1>4, <1>5, <1>6, <1>7, Quiet DEF At

LEMMA ScanFailsStep ==
  ASSUME IInv, NEW th \in Thread, ScanFails(th) \/ Ran(th)
  PROVE  IInv'
<1> USE Constants
<1>1. /\ TypeOK /\ ScanOK /\ BackOK
      /\ (pc[th] = "pop" /\ lvl[th] = limit[th]) \/ pc[th] = "run"
      /\ \/ pc' = [pc EXCEPT ![th] = Returns(th)]
         \/ th = App /\ pc' = [pc EXCEPT ![th] = "scan"]
      /\ \A u \in Thread \ {th} : lvl'[u] = lvl[u] /\ limit'[u] = limit[u]
      /\ UNCHANGED <<evt, nt, ntAlloc, curNt, sleepNt, njob, evtLock, queue, fresh, back,
                     i, goal, engine>>
  BY DEF IInv, TypeOK, ScanFails, Leave, Ran, Goto, At, size, sems, jobs, scan, call
<1>2. TypeOK'
  BY <1>1, TypeRuns DEF Runs
<1>3. pc'[th] \in {"check", "idle", "scan"} /\ (pc'[th] = "scan" => th = App) /\ Still(th)
  BY <1>1 DEF TypeOK, Still, Returns
<1>4. /\ th \notin Promised /\ th \notin Holders
      /\ th \in Worker => Watching(th)' = Watching(th)
  BY <1>1, <1>3 DEF Promised, Holders, Watching, At
<1>5. \A l \in 0..(Last - 1) : th \notin Looking(l)
  <2> SUFFICES ASSUME NEW l \in 0..(Last - 1), pc[th] = "pop", lvl[th] <= l PROVE FALSE
    BY <1>1 DEF Looking, At
  <2>1. Last <= lvl[th] /\ lvl[th] \in Int
    BY <1>1 DEF ScanOK, At, TypeOK
  <2> QED
    BY <2>1
<1>6. njob <= njob'
  BY <1>1 DEF TypeOK
<1>7. Running' => Staff'
  <2>1. Running' => Running
    BY <1>1, <1>3 DEF TypeOK, Running
  <2>2. \A w \in Worker : \/ pc'[w] = pc[w]
                          \/ {pc[w], pc'[w]} \cap {"none", "exit", "gone"} = {}
    BY <1>1, <1>3 DEF Still
  <2>3. \/ pc'[App] = pc[App]
        \/ {pc[App], pc'[App]} \cap {"threads", "grow"} = {}
    BY <1>1, <1>3 DEF Still
  <2> QED
    BY <1>1, <2>1, <2>2, <2>3, SameStaff
<1> QED
  BY <1>1, <1>2, <1>3, <1>4, <1>5, <1>6, <1>7, Quiet DEF At

\* A push adds a job and promises a token for it.
LEMMA PushStep ==
  ASSUME IInv, NEW th \in Thread, Push(th)
  PROVE  IInv'
<1> USE Constants
<1>1. PICK j \in fresh, s \in PushesFrom(th) :
         /\ pc[th] = s
         /\ queue' = [queue EXCEPT ![Level[j]] = @ \cup {j}]
         /\ fresh' = fresh \ {j}
         /\ back' = [back EXCEPT ![th] = s]
         /\ pc' = [pc EXCEPT ![th] = "inc"]
         /\ UNCHANGED <<evt, nt, ntAlloc, curNt, sleepNt, njob, evtLock, lvl, limit,
                        i, goal, engine>>
  BY DEF Push, Goto, At, size, sems, scan, call
<1>2. TypeOK /\ TypeOK' /\ ScanOK /\ BackOK /\ Placed /\ OneWatcher /\ Watchable
  BY TypeRuns DEF IInv
<1>3. /\ pc'[th] = "inc" /\ back'[th] = s /\ Still(th)
      /\ s \in {"idle", "run", "watch"}
      /\ j \in Job /\ Level[j] \in 0..(Last - 1) /\ Level[j] \in 0..Last
  BY <1>1, <1>2 DEF TypeOK, Still, PushesFrom
<1>4. \A w \in Worker : Watching(w)' = Watching(w)
  BY <1>1, <1>2, <1>3 DEF Still, Watching, At
<1>5. OneWatcher'
  BY <1>1, <1>2, <1>4 DEF OneWatcher
<1>6. Placed'
  <2>1. \A l \in 0..Last : queue'[l] = IF l = Level[j] THEN queue[l] \cup {j} ELSE queue[l]
    BY <1>1, <1>2, <1>3 DEF TypeOK
  <2> QED
    BY <1>1, <1>2, <2>1 DEF Placed
<1>7. ScanOK' /\ BackOK'
  <2>1. ScanOK'
    BY <1>1, <1>2, <1>3 DEF ScanOK, Still, At
  <2>2. BackOK'
    BY <1>1, <1>2, <1>3 DEF BackOK, Still, At, PushesFrom
  <2> QED
    BY <2>1, <2>2
<1>8. th \in Holders <=> th \in Holders'
  BY <1>1, <1>3, <1>4 DEF Holders
<1>9. Holds(th)' = Holds(th) /\ Holds(th) \in Int /\ njob \in Int
  BY <1>2, <1>8 DEF Holds, TypeOK
<1>10. Watchable'
  <2>1. njob' + Holds(th)' >= njob + Holds(th)
    BY <1>1, <1>9
  <2> QED
    BY <1>1, <1>2, <1>3, <2>1, BalanceWatch
<1>11. ASSUME NEW l \in 0..(Last - 1)
       PROVE  TokensAt(l)'
  <2>1. Queued(l)' \in SUBSET (Queued(l) \cup {j})
    <3>1. \A k \in 0..l : queue'[k] \subseteq queue[k] \cup {j}
      BY <1>1, <1>2, <1>3, <1>11 DEF TypeOK
    <3> QED
      BY <3>1 DEF Queued
  <2>2. Queued(l) \in SUBSET Job
    BY DEF Queued
  <2>3. IsFiniteSet(Queued(l)) /\ Cardinality(Queued(l)) \in Nat
    BY <2>2, PartCard
  <2>4. /\ IsFiniteSet(Queued(l) \cup {j})
        /\ Cardinality(Queued(l) \cup {j}) <= Cardinality(Queued(l)) + 1
        /\ Cardinality(Queued(l) \cup {j}) \in Nat
    <3>1. /\ IsFiniteSet(Queued(l) \cup {j})
          /\ \/ Cardinality(Queued(l) \cup {j}) = Cardinality(Queued(l))
             \/ Cardinality(Queued(l) \cup {j}) = Cardinality(Queued(l)) + 1
      BY <2>3, FS_AddElement
    <3> QED
      BY <2>3, <3>1
  <2>5. Cardinality(Queued(l)') <= Cardinality(Queued(l)) + 1
    <3>1. /\ Cardinality(Queued(l)') \in Nat
          /\ Cardinality(Queued(l)') <= Cardinality(Queued(l) \cup {j})
      BY <2>1, <2>4, FS_Subset, FS_CardinalityType
    <3> QED
      BY <2>3, <2>4, <3>1
  <2>6. /\ th \notin Looking(l) /\ th \notin Looking(l)'
        /\ th \notin Promised /\ th \in Promised'
    BY <1>1, <1>3 DEF Looking, Promised, At
  <2>7. Weight(th, l) = Holds(th) /\ Weight(th, l)' = 1 + Holds(th)
    BY <1>9, <2>6 DEF Weight
  <2>8. njob' + Weight(th, l)' >= njob + Weight(th, l) + 1
    BY <1>1, <1>9, <2>7
  <2> QED
    BY <1>1, <1>2, <1>3, <1>11, <2>5, <2>8, Balance DEF IInv
<1>12. Running' => Staff'
  <2>1. Running' => Running
    BY <1>1, <1>3 DEF Running
  <2>2. \A w \in Worker : \/ pc'[w] = pc[w]
                          \/ {pc[w], pc'[w]} \cap {"none", "exit", "gone"} = {}
    BY <1>1, <1>3 DEF Still
  <2>3. \/ pc'[App] = pc[App]
        \/ {pc[App], pc'[App]} \cap {"threads", "grow"} = {}
    BY <1>1, <1>3 DEF Still
  <2> QED
    BY <1>1, <2>1, <2>2, <2>3, SameStaff
<1> QED
  BY <1>2, <1>5, <1>6, <1>7, <1>10, <1>11, <1>12 DEF IInv

\* A pop takes a job away from every level the thread has still to look at.
LEMMA PopStep ==
  ASSUME IInv, NEW th \in Thread, Pop(th)
  PROVE  IInv'
<1> USE Constants
<1> DEFINE q == lvl[th]
<1>1. PICK j \in queue[q] :
         /\ pc[th] = "pop" /\ q < limit[th]
         /\ queue' = [queue EXCEPT ![q] = @ \ {j}]
         /\ \/ UNCHANGED <<pc, lvl, limit>>
            \/ /\ pc' = [pc EXCEPT ![th] = "run"]
               /\ lvl' = [lvl EXCEPT ![th] = 0]
               /\ limit' = [limit EXCEPT ![th] = 0]
         /\ UNCHANGED <<evt, nt, ntAlloc, curNt, sleepNt, njob, evtLock, fresh, back,
                        i, goal, engine>>
  BY DEF Pop, Leave, Goto, At, size, sems, scan, call
<1>2. TypeOK /\ TypeOK' /\ ScanOK /\ BackOK /\ Placed /\ OneWatcher /\ Watchable
  BY TypeRuns DEF IInv, Runs
<1>3. /\ Still(th) /\ q \in 0..Last
      /\ \/ pc'[th] = "pop" /\ lvl'[th] = q /\ limit'[th] = limit[th]
         \/ pc'[th] = "run"
  BY <1>1, <1>2 DEF TypeOK, Still
<1>4. j \in Job /\ Level[j] = q /\ \A l \in 0..Last : queue'[l] \subseteq queue[l] \ {j}
  <2>1. j \in Job /\ Level[j] = q
    BY <1>1, <1>2, <1>3 DEF Placed, TypeOK
  <2>2. \A l \in 0..Last : j \in queue[l] => l = q
    BY <1>2, <2>1 DEF Placed
  <2>3. \A l \in 0..Last : queue'[l] = IF l = q THEN queue[l] \ {j} ELSE queue[l]
    BY <1>1, <1>2, <1>3 DEF TypeOK
  <2> QED
    BY <2>1, <2>2, <2>3
<1>5. \A w \in Worker : Watching(w)' = Watching(w)
  BY <1>1, <1>3 DEF Still, Watching, At
<1>6. OneWatcher'
  BY <1>1, <1>2, <1>5 DEF OneWatcher
<1>7. Placed'
  BY <1>1, <1>2, <1>4 DEF Placed
<1>8. ScanOK' /\ BackOK'
  BY <1>1, <1>2, <1>3 DEF ScanOK, BackOK, Still, At
<1>9. th \notin Holders /\ th \notin Holders' /\ th \notin Promised /\ th \notin Promised'
  BY <1>1, <1>3 DEF Holders, Watching, Promised, At
<1>10. njob \in Int
  BY <1>2 DEF TypeOK
<1>11. Watchable'
  <2>1. njob' + Holds(th)' >= njob + Holds(th)
    BY <1>1, <1>9, <1>10 DEF Holds
  <2> QED
    BY <1>1, <1>2, <1>3, <2>1, BalanceWatch
<1>12. ASSUME NEW l \in 0..(Last - 1)
       PROVE  TokensAt(l)'
  <2>1. Queued(l) \in SUBSET Job /\ Queued(l)' \subseteq Queued(l) \ {j}
    BY <1>4, <1>12 DEF Queued
  <2>2. IsFiniteSet(Queued(l)) /\ Cardinality(Queued(l)) \in Nat
    BY <2>1, PartCard
  <2>3. Cardinality(Queued(l)') \in Nat /\ Cardinality(Queued(l)') <= Cardinality(Queued(l) \ {j})
    <3>1. IsFiniteSet(Queued(l) \ {j})
      BY <2>2, FS_Subset
    <3> QED
      BY <2>1, <3>1, FS_Subset, FS_CardinalityType
  <2>4. CASE q <= l
    <3>1. j \in Queued(l)
      BY <1>1, <1>3, <1>4, <1>12, <2>4 DEF Queued
    <3>2. Cardinality(Queued(l) \ {j}) = Cardinality(Queued(l)) - 1
      BY <2>2, <3>1, FS_RemoveElement
    <3>3. Cardinality(Queued(l)') <= Cardinality(Queued(l)) + (-1)
      BY <2>2, <2>3, <3>2
    <3>4. Weight(th, l) \in {0, 1} /\ Weight(th, l)' \in {0, 1}
      BY <1>9 DEF Weight, Holds
    <3>5. njob' + Weight(th, l)' >= njob + Weight(th, l) + (-1)
      BY <1>1, <1>10, <3>4
    <3> QED
      BY <1>1, <1>2, <1>3, <1>12, <3>3, <3>5, Balance DEF IInv
  <2>5. CASE ~(q <= l)
    <3>1. Cardinality(Queued(l)') <= Cardinality(Queued(l)) + 0
      <4>1. Queued(l)' \in SUBSET Queued(l)
        BY <2>1
      <4> QED
        BY <2>1, <2>2, <4>1, PartCard
    <3>2. th \notin Looking(l)
      BY <1>1, <2>5 DEF Looking, At
    <3>3. Weight(th, l) = 0 /\ Weight(th, l)' \in {0, 1}
      BY <1>9, <3>2 DEF Weight, Holds
    <3>4. njob' + Weight(th, l)' >= njob + Weight(th, l) + 0
      BY <1>1, <1>10, <3>3
    <3> QED
      BY <1>1, <1>2, <1>3, <1>12, <3>1, <3>4, Balance DEF IInv
  <2> QED
    BY <2>4, <2>5
<1>13. Running' => Staff'
  <2>1. Running' => Running
    BY <1>1, <1>3 DEF Still, Running
  <2>2. \A w \in Worker : \/ pc'[w] = pc[w]
                          \/ {pc[w], pc'[w]} \cap {"none", "exit", "gone"} = {}
    BY <1>1, <1>3 DEF Still
  <2>3. \/ pc'[App] = pc[App]
        \/ {pc[App], pc'[App]} \cap {"threads", "grow"} = {}
    BY <1>1, <1>3 DEF Still
  <2> QED
    BY <1>1, <2>1, <2>2, <2>3, SameStaff
<1> QED
  BY <1>2, <1>6, <1>7, <1>8, <1>11, <1>12, <1>13 DEF IInv

\* A thread that finds a queue empty goes on: at the level it leaves there is
\* nothing more than one level below, where it has not counted either.
LEMMA PopEmptyStep ==
  ASSUME IInv, NEW th \in Thread, PopEmpty(th)
  PROVE  IInv'
<1> USE Constants
<1> DEFINE q == lvl[th]
<1>1. /\ pc[th] = "pop" /\ q < limit[th] /\ queue[q] = {}
      /\ lvl' = [lvl EXCEPT ![th] = q + 1]
      /\ UNCHANGED <<evt, nt, ntAlloc, curNt, sleepNt, njob, evtLock, queue, fresh, pc, back,
                     limit, i, goal, engine>>
  BY DEF PopEmpty, At, size, sems, jobs, call
<1>2. TypeOK /\ TypeOK' /\ ScanOK /\ BackOK /\ Placed /\ OneWatcher /\ Watchable
  BY TypeRuns DEF IInv, Runs
<1>3. Still(th) /\ q \in 0..Last /\ lvl'[th] = q + 1 /\ limit[th] \in 0..(Last + 1)
  BY <1>1, <1>2 DEF TypeOK, Still
<1>4. OneWatcher' /\ Placed' /\ BackOK'
  BY <1>1, <1>2 DEF OneWatcher, Watching, Placed, BackOK, At
<1>5. ScanOK'
  BY <1>1, <1>2, <1>3 DEF ScanOK, Still, At
<1>6. Holders' = Holders /\ Promised' = Promised
  BY <1>1 DEF Holders, Watching, Promised, At
<1>7. Watchable'
  BY <1>1, <1>2, <1>6 DEF Watchable
<1>8. \A l \in Int : Queued(l)' = Queued(l) /\ Queued(l) \in SUBSET Job
  BY <1>1 DEF Queued
<1>9. ASSUME NEW l \in 0..(Last - 1)
      PROVE  TokensAt(l)'
  <2>1. CASE l # q
    <3>1. Looking(l)' = Looking(l)
      <4>1. lvl'[th] <= l <=> lvl[th] <= l
        BY <1>3, <2>1
      <4>2. \A w \in Worker : w \in Thread
        OBVIOUS
      <4> QED
        BY <1>1, <1>3, <4>1, <4>2 DEF Looking, Still, At
    <3> QED
      BY <1>1, <1>6, <1>8, <1>9, <3>1 DEF TokensAt, IInv
  <2>2. CASE l = q
    <3> DEFINE e == IF evt THEN 1 ELSE 0
    <3>1. /\ Cardinality(Promised) \in Nat /\ Cardinality(Holders) \in Nat
          /\ Cardinality(Looking(l)') \in Nat /\ njob \in Nat
      BY <1>2, PartCard DEF TypeOK, Promised, Holders, Looking
    <3>2. Cardinality(Queued(l)) + e
             <= njob + Cardinality(Promised) + Cardinality(Holders) + Cardinality(Looking(l)')
      <4>1. CASE l = 0
        <5>1. Queued(l) = {}
          BY <1>1, <2>2, <4>1 DEF Queued
        <5>2. Cardinality(Queued(l)) = 0
          BY <5>1, FS_EmptySet
        <5>3. e <= njob + Cardinality(Holders) /\ e \in Int
          BY <1>2, <3>1 DEF Watchable
        <5> HIDE DEF e
        <5> QED
          BY <3>1, <5>2, <5>3
      <4>2. CASE l > 0
        <5>1. l - 1 \in 0..(Last - 1)
          BY <4>2
        <5>2. Queued(l) = Queued(l - 1)
          <6>1. \A k \in 0..l : k = q \/ k \in 0..(l - 1)
            BY <2>2
          <6>2. \A k \in 0..(l - 1) : k \in 0..l
            OBVIOUS
          <6> QED
            BY <1>1, <6>1, <6>2 DEF Queued
        <5>3. Looking(l - 1) \in SUBSET Looking(l)'
          <6>1. \A w \in Worker : At(w, "pop") /\ lvl[w] <= l - 1 => w # th /\ lvl'[w] <= l
            <7>1. \A w \in Worker : w \in Thread /\ lvl[w] \in Int
              BY <1>2 DEF TypeOK
            <7> QED
              BY <1>3, <2>2, <7>1 DEF Still
          <6> QED
            BY <1>1, <6>1 DEF Looking, At
        <5>4. /\ Cardinality(Looking(l - 1)) <= Cardinality(Looking(l)')
              /\ Cardinality(Looking(l - 1)) \in Nat
          <6>1. Looking(l)' \in SUBSET Worker
            BY DEF Looking
          <6> QED
            BY <5>3, <6>1, PartCard
        <5>5. Cardinality(Queued(l - 1)) + e
                 <= njob + Cardinality(Promised) + Cardinality(Holders)
                      + Cardinality(Looking(l - 1))
          BY <5>1 DEF IInv, TokensAt
        <5>6. e \in Int /\ Cardinality(Queued(l - 1)) \in Int
          BY <5>1, <1>8, PartCard
        <5> HIDE DEF e
        <5> QED
          BY <3>1, <5>2, <5>4, <5>5, <5>6
      <4> QED
        BY <1>9, <4>1, <4>2
    <3> QED
      BY <1>1, <1>6, <1>8, <1>9, <3>2 DEF TokensAt
  <2> QED
    BY <2>1, <2>2
<1>10. Running' => Staff'
  BY <1>1, SameStaff DEF Running
<1> QED
  BY <1>2, <1>4, <1>5, <1>7, <1>9, <1>10 DEF IInv

-----------------------------------------------------------------------------
\* Steps of a worker.

\* Check and Sleep have nothing to do with tokens or with who is there.
LEMMA IdleWorkerStep ==
  ASSUME IInv, NEW w \in Worker, Check(w) \/ Sleep(w)
  PROVE  IInv'
<1> USE Constants
<1>1. /\ w \in Thread /\ TypeOK /\ TypeOK'
  BY TypeWorks DEF IInv, Works
<1>2. /\ \/ pc[w] = "check" /\ w < nt /\ pc' = [pc EXCEPT ![w] = "sleep"]
         \/ pc[w] = "check" /\ ~(w < nt) /\ pc' = [pc EXCEPT ![w] = "exit"]
         \/ pc[w] = "sleep" /\ pc' = [pc EXCEPT ![w] = "dec"]
      /\ UNCHANGED <<evt, nt, ntAlloc, curNt, njob, evtLock, queue, fresh, back, lvl, limit,
                     i, goal, engine>>
  BY DEF Check, Sleep, Goto, At, size, sems, jobs, scan, call
<1>3. Still(w) /\ pc'[w] \in {"sleep", "exit", "dec"} /\ pc'[App] = pc[App]
  BY <1>1, <1>2 DEF TypeOK, Still
<1>4. /\ w \notin Promised /\ w \notin Holders /\ Watching(w)' = Watching(w)
      /\ \A l \in 0..(Last - 1) : w \notin Looking(l)
  BY <1>2, <1>3 DEF Promised, Holders, Looking, Watching, At
<1>5. njob <= njob'
  BY <1>1, <1>2 DEF TypeOK
<1>6. Running' => Staff'
  <2> SUFFICES ASSUME Running' PROVE Staff'
    OBVIOUS
  <2>1. Staff
    BY <1>2, <1>3 DEF IInv, Running
  <2>2. Present' = Present
    BY <1>2, <1>3 DEF Present, Still
  <2>3. pc'[w] = "exit" => ~(w < nt)
    BY <1>1, <1>2 DEF TypeOK
  <2>4. pc[w] \notin {"none", "gone"} /\ pc'[w] \notin {"none", "gone"}
    BY <1>2, <1>3
  <2>5. \A v \in Worker : v # w => pc'[v] = pc[v]
    BY <1>3 DEF Still
  <2> QED
    BY <1>2, <1>3, <2>1, <2>2, <2>3, <2>4, <2>5 DEF Staff, NoSurplus, At
<1> QED
  BY <1>1, <1>2, <1>3, <1>4, <1>5, <1>6, Quiet DEF At

\* Start and Exit change cur_nt with the threads that are there.
LEMMA StartExitStep ==
  ASSUME IInv, NEW w \in Worker, Start(w) \/ Exit(w)
  PROVE  IInv'
<1> USE Constants
<1>1. /\ w \in Thread /\ TypeOK /\ TypeOK'
  BY TypeWorks DEF IInv, Works
<1>2. /\ \/ pc[w] = "start" /\ pc' = [pc EXCEPT ![w] = "check"] /\ curNt' = curNt + 1
         \/ pc[w] = "exit" /\ pc' = [pc EXCEPT ![w] = "gone"] /\ curNt' = curNt - 1
      /\ UNCHANGED <<evt, nt, ntAlloc, njob, evtLock, queue, fresh, back, lvl, limit,
                     i, goal, engine>>
  BY DEF Start, Exit, Goto, At, sems, jobs, scan, call
<1>3. Still(w) /\ pc'[w] \in {"check", "gone"} /\ pc'[App] = pc[App]
  BY <1>1, <1>2 DEF TypeOK, Still
<1>4. /\ w \notin Promised /\ w \notin Holders /\ Watching(w)' = Watching(w)
      /\ \A l \in 0..(Last - 1) : w \notin Looking(l)
  BY <1>2, <1>3 DEF Promised, Holders, Looking, Watching, At
<1>5. njob <= njob'
  BY <1>1, <1>2 DEF TypeOK
<1>6. Running' => Staff'
  <2> SUFFICES ASSUME Running' PROVE Staff'
    OBVIOUS
  <2>1. Staff
    BY <1>2, <1>3 DEF IInv, Running
  <2>2. Present \in SUBSET Worker /\ IsFiniteSet(Present) /\ Cardinality(Present) \in Nat
    BY PartCard DEF Present
  <2>3. curNt \in Int
    BY <1>1 DEF TypeOK
  <2>4. \A v \in Worker : v # w => pc'[v] = pc[v]
    BY <1>3 DEF Still
  <2>5. CASE pc[w] = "start"
    <3>1. Present' = Present /\ pc'[w] = "check" /\ curNt' = curNt + 1
      BY <1>1, <1>2, <2>4, <2>5 DEF Present, TypeOK
    <3>2. Cardinality(Present) <= curNt => Cardinality(Present') <= curNt'
      BY <2>2, <2>3, <3>1
    <3> QED
      BY <1>2, <1>3, <2>1, <2>4, <2>5, <3>1, <3>2 DEF Staff, NoSurplus, At
  <2>6. CASE pc[w] = "exit"
    <3>1. Present' = Present \ {w} /\ w \in Present /\ pc'[w] = "gone" /\ curNt' = curNt - 1
      BY <1>1, <1>2, <2>4, <2>6 DEF Present, TypeOK
    <3>2. Cardinality(Present') = Cardinality(Present) - 1
      BY <2>2, <3>1, FS_RemoveElement
    <3>3. Cardinality(Present) <= curNt => Cardinality(Present') <= curNt'
      BY <2>2, <2>3, <3>1, <3>2
    <3>4. NoSurplus => NoSurplus'
      BY <1>2, <3>1 DEF NoSurplus
    <3>5. /\ \A v \in Worker : v < nt /\ (At(App, "threads") => v < i)
                                  => pc'[v] \notin {"none", "exit", "gone"}
          /\ \A v \in Worker : pc[v] \in {"none", "gone"} => pc'[v] \in {"none", "gone"}
      BY <2>1, <2>4, <2>6, <3>1 DEF Staff
    <3> QED
      BY <1>2, <1>3, <2>1, <3>3, <3>4, <3>5 DEF Staff, At
  <2> QED
    BY <1>2, <2>5, <2>6
<1> QED
  BY <1>1, <1>2, <1>3, <1>4, <1>5, <1>6, Quiet DEF At

\* Dec, Awake without an event driver, and Release: a token and a look change
\* places.
LEMMA TokenStep ==
  ASSUME IInv, NEW w \in Worker, Dec(w) \/ Awake(w) \/ Release(w)
  PROVE  IInv'
<1> USE Constants
<1>1. w \in Thread /\ TypeOK /\ TypeOK' /\ njob \in Nat
  BY TypeWorks DEF IInv, Works, TypeOK
<1>2. /\ \/ pc[w] = "dec" /\ pc' = [pc EXCEPT ![w] = "awake"] /\ njob' = njob - 1
         \/ pc[w] = "awake" /\ evt /\ pc' = [pc EXCEPT ![w] = "try"] /\ njob' = njob
         \/ pc[w] = "awake" /\ ~evt /\ pc' = [pc EXCEPT ![w] = "scan"] /\ njob' = njob
         \/ pc[w] = "release" /\ pc' = [pc EXCEPT ![w] = "check"] /\ njob' = njob + 1
      /\ UNCHANGED <<evt, nt, ntAlloc, curNt, evtLock, queue, fresh, back, lvl, limit,
                     i, goal, engine>>
  BY DEF Dec, Awake, Release, Goto, At, size, sems, jobs, scan, call
<1>3. Still(w) /\ pc'[w] \in {"awake", "try", "scan", "check"} /\ pc'[App] = pc[App]
  BY <1>1, <1>2 DEF TypeOK, Still
<1>4. /\ w \notin Promised /\ w \notin Promised' /\ Watching(w)' = Watching(w)
      /\ w \in Holders <=> pc[w] \in {"awake", "release"}
      /\ w \in Holders' <=> pc'[w] \in {"awake", "try"}
  BY <1>2, <1>3 DEF Promised, Holders, Watching, At
<1>5. \A l \in 0..(Last - 1) : w \notin Looking(l) /\ (w \in Looking(l)' <=> pc'[w] = "scan")
  BY <1>2, <1>3 DEF Looking, At
<1>6. \/ pc[w] = "dec" /\ pc'[w] = "awake" /\ njob' = njob - 1
      \/ pc[w] = "awake" /\ pc'[w] = "try" /\ njob' = njob
      \/ pc[w] = "awake" /\ ~evt /\ pc'[w] = "scan" /\ njob' = njob
      \/ pc[w] = "release" /\ pc'[w] = "check" /\ njob' = njob + 1
  BY <1>1, <1>2 DEF TypeOK
<1>7. ASSUME NEW l \in 0..(Last - 1)
      PROVE  njob' + Weight(w, l)' >= njob + Weight(w, l)
  BY <1>1, <1>4, <1>5, <1>6 DEF Weight, Holds
<1>8. Running' => Staff'
  <2>1. Running' => Running
    BY <1>2, <1>3 DEF Running
  <2>2. \A v \in Worker : \/ pc'[v] = pc[v]
                          \/ {pc[v], pc'[v]} \cap {"none", "exit", "gone"} = {}
    BY <1>3, <1>6 DEF Still
  <2> QED
    BY <1>2, <1>3, <2>1, <2>2, SameStaff
<1>9. CASE pc'[w] = "scan"
  \* Without an event driver there is nothing to watch.
  <2>1. Watchable' /\ OneWatcher'
    <3>1. \A v \in Worker : Watching(v)' = Watching(v)
      BY <1>2, <1>3, <1>4 DEF Still, Watching, At
    <3> QED
      BY <1>2, <1>6, <1>9, <3>1 DEF Watchable, IInv, OneWatcher
  <2>2. ASSUME NEW l \in 0..(Last - 1)
        PROVE  TokensAt(l)'
    <3>1. Queued(l)' = Queued(l) /\ Queued(l) \in SUBSET Job
      BY <1>2 DEF Queued
    <3>2. Cardinality(Queued(l)') <= Cardinality(Queued(l)) + 0
      BY <3>1, PartCard
    <3>3. Weight(w, l) \in Int
      BY DEF Weight, Holds
    <3>4. njob' + Weight(w, l)' >= njob + Weight(w, l) + 0
      BY <1>1, <1>7, <2>2, <3>3
    <3> QED
      BY <1>1, <1>2, <1>3, <2>2, <3>2, <3>4, Balance DEF IInv
  <2>3. Placed' /\ ScanOK' /\ BackOK'
    BY <1>2, <1>3, <1>9 DEF IInv, Placed, ScanOK, BackOK, Still, At
  <2> QED
    BY <1>1, <1>8, <2>1, <2>2, <2>3 DEF IInv
<1>10. CASE pc'[w] # "scan"
  <2>1. njob' + Holds(w)' >= njob + Holds(w)
    BY <1>1, <1>4, <1>6, <1>10 DEF Holds
  <2> QED
    BY <1>1, <1>2, <1>3, <1>4, <1>7, <1>8, <2>1, Moves DEF At
<1> QED
  BY <1>9, <1>10

\* The event lock: who does not get it leaves its token to the one that has it.
LEMMA TryLockStep ==
  ASSUME IInv, NEW w \in Worker, TryLock(w)
  PROVE  IInv'
<1> USE Constants
<1>1. /\ w \in Thread /\ TypeOK /\ TypeOK' /\ OneWatcher /\ njob \in Nat
  BY TypeWorks DEF IInv, Works, TypeOK
<1>2. /\ pc[w] = "try" /\ evtLock' = TRUE
      /\ pc' = [pc EXCEPT ![w] = IF evtLock THEN "scan" ELSE "watch"]
      /\ UNCHANGED <<evt, nt, ntAlloc, curNt, njob, queue, fresh, back, lvl, limit,
                     i, goal, engine>>
  BY DEF TryLock, Goto, At, size, jobs, scan, call
<1>3. Still(w) /\ pc'[w] = (IF evtLock THEN "scan" ELSE "watch") /\ pc'[App] = pc[App]
  BY <1>1, <1>2 DEF TypeOK, Still
<1>4. \A v \in Worker : v # w => Watching(v)' = Watching(v)
  BY <1>2, <1>3 DEF Still, Watching, At
<1>5. ~Watching(w) /\ (Watching(w)' <=> ~evtLock)
  BY <1>2, <1>3 DEF Watching, At
<1>6. OneWatcher'
  BY <1>1, <1>2, <1>4, <1>5 DEF OneWatcher
<1>7. Placed' /\ ScanOK' /\ BackOK'
  BY <1>2, <1>3 DEF IInv, Placed, ScanOK, BackOK, Still, At
<1>8. Watchable'
  <2>1. \E v \in Worker : Watching(v)'
    BY <1>1, <1>4, <1>5 DEF OneWatcher
  <2>2. PICK v \in Worker : v \in Holders'
    BY <2>1 DEF Holders
  <2>3. Holders' \in SUBSET Worker /\ {v} \in SUBSET Holders'
    BY <2>2 DEF Holders
  <2>4. Cardinality({v}) = 1
    BY FS_Singleton
  <2>5. Cardinality(Holders') >= 1 /\ Cardinality(Holders') \in Nat
    BY <2>3, <2>4, PartCard
  <2>6. njob' \in Nat
    BY <1>1 DEF TypeOK
  <2> QED
    BY <2>5, <2>6 DEF Watchable
<1>9. ASSUME NEW l \in 0..(Last - 1)
      PROVE  TokensAt(l)'
  <2>1. Queued(l)' = Queued(l) /\ Queued(l) \in SUBSET Job
    BY <1>2 DEF Queued
  <2>2. Cardinality(Queued(l)') <= Cardinality(Queued(l)) + 0
    BY <2>1, PartCard
  <2>3. /\ w \notin Promised /\ w \notin Promised' /\ w \in Holders /\ w \notin Looking(l)
        /\ w \in Looking(l)' <=> evtLock
        /\ w \in Holders' <=> ~evtLock
    BY <1>2, <1>3 DEF Promised, Holders, Looking, Watching, At
  <2>4. Weight(w, l) = 1 /\ Weight(w, l)' = 1
    BY <2>3 DEF Weight, Holds
  <2>5. njob' + Weight(w, l)' >= njob + Weight(w, l) + 0
    BY <1>1, <1>2, <2>4
  <2> QED
    BY <1>1, <1>2, <1>3, <1>9, <2>2, <2>5, Balance DEF IInv
<1>10. Running' => Staff'
  <2>1. Running' => Running
    BY <1>2, <1>3 DEF Running
  <2>2. \A v \in Worker : \/ pc'[v] = pc[v]
                          \/ {pc[v], pc'[v]} \cap {"none", "exit", "gone"} = {}
    BY <1>2, <1>3 DEF Still
  <2> QED
    BY <1>2, <1>3, <2>1, <2>2, SameStaff
<1> QED
  BY <1>1, <1>6, <1>7, <1>8, <1>9, <1>10 DEF IInv

LEMMA WatchedStep ==
  ASSUME IInv, NEW w \in Worker, Watched(w)
  PROVE  IInv'
<1> USE Constants
<1>1. /\ w \in Thread /\ TypeOK /\ TypeOK' /\ OneWatcher /\ njob \in Nat
  BY TypeWorks DEF IInv, Works, TypeOK
<1>2. /\ pc[w] = "watch" /\ evtLock' = FALSE
      /\ pc' = [pc EXCEPT ![w] = "release"]
      /\ UNCHANGED <<evt, nt, ntAlloc, curNt, njob, queue, fresh, back, lvl, limit,
                     i, goal, engine>>
  BY DEF Watched, Goto, At, size, jobs, scan, call
<1>3. Still(w) /\ pc'[w] = "release" /\ pc'[App] = pc[App]
  BY <1>1, <1>2 DEF TypeOK, Still
<1>4. \A v \in Worker : ~Watching(v)'
  <2>1. \A v \in Worker : v # w => Watching(v)' = Watching(v)
    BY <1>2, <1>3 DEF Still, Watching, At
  <2>2. Watching(w) /\ ~Watching(w)'
    BY <1>2, <1>3 DEF Watching, At
  <2> QED
    BY <1>1, <2>1, <2>2 DEF OneWatcher
<1>5. OneWatcher'
  BY <1>2, <1>4 DEF OneWatcher
<1>6. Placed' /\ ScanOK' /\ BackOK'
  BY <1>2, <1>3 DEF IInv, Placed, ScanOK, BackOK, Still, At
<1>7. w \in Holders /\ w \in Holders' /\ w \notin Promised /\ w \notin Promised'
  BY <1>2, <1>3 DEF Holders, Promised, Watching, At
<1>8. Watchable'
  <2>1. njob' + Holds(w)' >= njob + Holds(w)
    BY <1>1, <1>2, <1>7 DEF Holds
  <2> QED
    BY <1>1, <1>2, <1>3, <2>1, BalanceWatch DEF IInv
<1>9. ASSUME NEW l \in 0..(Last - 1)
      PROVE  TokensAt(l)'
  <2>1. Queued(l)' = Queued(l) /\ Queued(l) \in SUBSET Job
    BY <1>2 DEF Queued
  <2>2. Cardinality(Queued(l)') <= Cardinality(Queued(l)) + 0
    BY <2>1, PartCard
  <2>3. w \notin Looking(l) /\ w \notin Looking(l)'
    BY <1>2, <1>3 DEF Looking, At
  <2>4. Weight(w, l) = 1 /\ Weight(w, l)' = 1
    BY <1>7, <2>3 DEF Weight, Holds
  <2>5. njob' + Weight(w, l)' >= njob + Weight(w, l) + 0
    BY <1>1, <1>2, <2>4
  <2> QED
    BY <1>1, <1>2, <1>3, <1>9, <2>2, <2>5, Balance DEF IInv
<1>10. Running' => Staff'
  <2>1. Running' => Running
    BY <1>2, <1>3 DEF Running
  <2>2. \A v \in Worker : \/ pc'[v] = pc[v]
                          \/ {pc[v], pc'[v]} \cap {"none", "exit", "gone"} = {}
    BY <1>2, <1>3 DEF Still
  <2> QED
    BY <1>2, <1>3, <2>1, <2>2, SameStaff
<1> QED
  BY <1>1, <1>5, <1>6, <1>8, <1>9, <1>10 DEF IInv

-----------------------------------------------------------------------------
\* Steps of the application's calls.

LEMMA AppMoves ==
  ASSUME IInv, TypeOK', Still(App), UNCHANGED <<evt, evtLock, fresh>>, njob <= njob',
         \A l \in 0..Last : queue'[l] \subseteq queue[l],
         pc[App] # "inc", pc'[App] \notin {"inc", "pop"},
         Running' => Staff'
  PROVE  IInv'
<1> USE Constants
<1>1. App \notin Promised /\ App \notin Holders /\ \A l \in 0..(Last - 1) : App \notin Looking(l)
  BY DEF Promised, Holders, Looking, At
<1> QED
  BY <1>1, Quiet DEF At

\* Engine_free: the threads end, and none is created any more.
LEMMA FreeStep ==
  ASSUME IInv, Free \/ Freeing
  PROVE  IInv'
<1> USE Constants
<1>1. TypeOK /\ TypeOK' /\ App \in Thread
  BY TypeCalls DEF IInv, Calls
<1>2. /\ pc[App] \in {"idle", "wake", "join", "drain"}
      /\ \/ pc' = [pc EXCEPT ![App] = "wake"]
         \/ pc' = [pc EXCEPT ![App] = "join"]
         \/ pc' = [pc EXCEPT ![App] = "drain"]
         \/ UNCHANGED pc /\ pc[App] # "idle"
         \/ pc' = [pc EXCEPT ![App] = "idle"] /\ engine' \in {"failed", "freed"}
      /\ UNCHANGED <<evt, evtLock, fresh, back, lvl, limit>>
  BY DEF Free, Freeing, Wake, Join, DrainTask, DrainEvent, DrainLevel, Freed, Goto, At,
         size, sems, jobs, scan, call
<1>3. njob <= njob'
  BY <1>1 DEF Free, Freeing, Wake, Join, DrainTask, DrainEvent, DrainLevel, Freed, TypeOK, sems
<1>4. \A l \in 0..Last : queue'[l] \subseteq queue[l]
  <2>0. (DrainTask \/ DrainEvent) => i \in 0..Last
    BY <1>1 DEF DrainTask, DrainEvent, TypeOK
  <2>1. (DrainTask \/ DrainEvent) => \E j : queue' = [queue EXCEPT ![i] = @ \ {j}]
    BY DEF DrainTask, DrainEvent
  <2>2. ~(DrainTask \/ DrainEvent) => UNCHANGED queue
    BY DEF Free, Freeing, Wake, Join, DrainLevel, Freed, jobs
  <2> QED
    BY <1>1, <2>0, <2>1, <2>2 DEF TypeOK
<1>5. /\ Still(App)
      /\ \/ pc'[App] \in {"wake", "join", "drain"}
         \/ pc'[App] = "idle" /\ engine' \in {"failed", "freed"}
  BY <1>1, <1>2 DEF TypeOK, Still
<1>6. ~Running'
  BY <1>5 DEF Running
<1> QED
  BY <1>1, <1>2, <1>3, <1>4, <1>5, <1>6, AppMoves

LEMMA StartThreadStep ==
  ASSUME IInv, StartThread
  PROVE  IInv'
<1> USE Constants
<1>1. TypeOK /\ TypeOK'
  BY TypeCalls DEF IInv, Calls, Creating
<1>2. /\ pc[App] = "threads" /\ i < goal
      /\ pc' = [pc EXCEPT ![i] = "start"]
      /\ i' = i + 1
      /\ UNCHANGED <<evt, nt, ntAlloc, curNt, sleepNt, njob, evtLock, queue, fresh, back,
                     lvl, limit, goal, engine>>
  BY DEF StartThread, At, size, sems, jobs, scan
<1>3. i \in Worker /\ goal \in Int
  BY <1>1, <1>2 DEF TypeOK, Worker
<1>4. PICK w \in Worker : w = i
  BY <1>3
<1>5. w \in Thread /\ w \in Nat /\ w # App
  BY DEF Worker
<1>6. /\ pc' = [pc EXCEPT ![w] = "start"]
      /\ Still(w) /\ pc'[w] = "start" /\ pc'[App] = pc[App]
  BY <1>1, <1>2, <1>4, <1>5 DEF TypeOK, Still
<1>7. Staff /\ pc[w] \in {"none", "gone"} /\ NoSurplus /\ goal = nt
  <2>1. Staff
    BY <1>2 DEF IInv, Running
  <2> QED
    BY <1>2, <1>4, <1>5, <2>1 DEF Staff, At
<1>8. w \notin Promised /\ w \notin Holders /\ \A l \in 0..(Last - 1) : w \notin Looking(l)
  BY <1>7 DEF Promised, Holders, Looking, Watching, At
<1>9. Watching(w)' = Watching(w) /\ ~At(w, "pop")' /\ ~At(w, "inc")'
  BY <1>6, <1>7 DEF Watching, At
<1>10. Staff'
  <2>1. \A v \in Worker : v # w => pc'[v] = pc[v]
    BY <1>6 DEF Still
  <2>2. Present' = Present \cup {w}
    BY <1>6, <2>1 DEF Present
  <2>3. NoSurplus'
    BY <1>2, <1>4, <1>7, <2>2 DEF NoSurplus
  <2>4. \A v \in Worker : v \in Nat
    BY DEF Worker
  <2>5. \A v \in Worker : v < nt' /\ v < i' => pc'[v] \notin {"none", "exit", "gone"}
    BY <1>2, <1>4, <1>6, <1>7, <2>1, <2>4 DEF Staff, At
  <2>6. \A v \in Worker : i' <= v /\ v < goal' => pc'[v] \in {"none", "gone"}
    BY <1>2, <1>3, <1>4, <1>6, <1>7, <2>1, <2>4 DEF Staff, At
  <2> QED
    BY <1>2, <1>6, <1>7, <2>3, <2>5, <2>6 DEF Staff, At
<1>11. njob <= njob' /\ \A l \in 0..Last : queue'[l] \subseteq queue[l]
  BY <1>1, <1>2 DEF TypeOK
<1> QED
  BY <1>1, <1>2, <1>5, <1>6, <1>8, <1>9, <1>10, <1>11, Quiet

\* The size changes only when cur_nt is what it should be: then nobody is at work
\* that should have ended, and nobody is still to start but for those counted twice.
LEMMA Settled ==
  ASSUME TypeOK, Staff, ~At(App, "threads"), nt = curNt
  PROVE  NoSurplus /\ Cardinality(Present) <= curNt
<1> USE Constants
<1>1. Present \in SUBSET Worker /\ IsFiniteSet(Present) /\ Cardinality(Present) \in Nat
  BY PartCard DEF Present
<1>2. nt \in Nat /\ nt <= MaxWorkers
  BY DEF TypeOK
<1>3. IsFiniteSet(0..(nt - 1)) /\ Cardinality(0..(nt - 1)) = nt
  BY <1>2, FS_Interval
<1>4. 0..(nt - 1) \subseteq Present
  BY <1>2 DEF Staff, Present, Worker
<1>5. CASE NoSurplus
  <2>1. Present \in SUBSET (0..(nt - 1))
    BY <1>2, <1>5 DEF NoSurplus, Present, Worker
  <2> QED
    BY <1>3, <1>5, <2>1, PartCard
<1>6. CASE Cardinality(Present) <= curNt
  <2>1. Cardinality(0..(nt - 1)) <= Cardinality(Present)
    BY <1>1, <1>4, FS_Subset
  <2>2. Cardinality(0..(nt - 1)) = Cardinality(Present)
    BY <1>1, <1>2, <1>3, <1>6, <2>1
  <2>3. Present = 0..(nt - 1)
    BY <1>1, <1>4, <2>2, FS_Subset
  <2>4. NoSurplus
    BY <1>2, <2>3 DEF NoSurplus
  <2> QED
    BY <1>6, <2>4
<1> QED
  BY <1>5, <1>6 DEF Staff

LEMMA CallStep ==
  ASSUME IInv, ThreadsStarted \/ DoWork \/ SetNumWorkers \/ Resizing
  PROVE  IInv'
<1> USE Constants
<1>1. TypeOK /\ TypeOK' /\ App \in Thread
  BY TypeCalls DEF IInv, Calls, Creating
<1>2. /\ pc[App] \in {"threads", "idle", "spin", "grow"}
      /\ \/ UNCHANGED pc
         \/ pc' = [pc EXCEPT ![App] = "idle"]
         \/ pc' = [pc EXCEPT ![App] = "scan"]
         \/ pc' = [pc EXCEPT ![App] = "spin"]
         \/ pc' = [pc EXCEPT ![App] = "grow"]
         \/ pc' = [pc EXCEPT ![App] = "threads"]
      /\ UNCHANGED <<evt, curNt, sleepNt, njob, evtLock, queue, fresh, back, lvl, limit, engine>>
  BY DEF ThreadsStarted, DoWork, SetNumWorkers, Resizing, SpinEnds, Double, SetTarget, Goto, At,
         size, sems, jobs, scan, call
<1>3. /\ Still(App) /\ pc'[App] \notin {"inc", "pop"}
      /\ \A w \in Worker : pc'[w] = pc[w]
  BY <1>1, <1>2 DEF TypeOK, Still
<1>4. njob <= njob'
  BY <1>1, <1>2 DEF TypeOK
<1>5. Present' = Present
  BY <1>3 DEF Present
<1>6. Running
  BY DEF Running, ThreadsStarted, DoWork, SetNumWorkers, Resizing, SpinEnds, Double, SetTarget,
         At
<1>7. Staff
  BY <1>6 DEF IInv
<1>8. Staff'
  <2>1. CASE ThreadsStarted
    <3>1. /\ pc[App] = "threads" /\ pc'[App] = "idle" /\ i >= goal
          /\ UNCHANGED <<nt, i, goal>>
      BY <1>1, <2>1 DEF ThreadsStarted, Goto, At, TypeOK, size, call
    <3>2. \A w \in Worker : w < nt => w < i
      BY <1>1, <1>7, <3>1 DEF Staff, At, TypeOK, Worker
    <3> QED
      BY <1>2, <1>3, <1>5, <1>7, <3>1, <3>2 DEF Staff, NoSurplus, At
  <2>2. CASE DoWork \/ SetNumWorkers
    <3>1. pc[App] = "idle" /\ pc'[App] \in {"scan", "spin"} /\ UNCHANGED nt
      BY <1>1, <2>2 DEF DoWork, SetNumWorkers, Goto, At, TypeOK, size
    <3> QED
      BY <1>2, <1>3, <1>5, <1>7, <3>1 DEF Staff, NoSurplus, At
  <2>3. CASE SpinEnds
    <3>1. pc[App] = "spin" /\ pc'[App] = "grow" /\ nt = curNt /\ UNCHANGED nt
      BY <1>1, <2>3 DEF SpinEnds, Goto, At, TypeOK, size
    <3>2. NoSurplus /\ Cardinality(Present) <= curNt
      BY <1>1, <1>7, <3>1, Settled DEF At
    <3> QED
      BY <1>2, <1>3, <1>5, <1>7, <3>1, <3>2 DEF Staff, NoSurplus, At
  <2>4. CASE Double
    <3>1. pc[App] = "grow" /\ pc'[App] = "grow" /\ UNCHANGED nt
      BY <2>4 DEF Double, At
    <3> QED
      BY <1>2, <1>3, <1>5, <1>7, <3>1 DEF Staff, NoSurplus, At
  <2>5. CASE SetTarget
    <3>1. /\ pc[App] = "grow" /\ pc'[App] = "threads"
          /\ i' = nt /\ nt' = goal /\ goal' = goal
      BY <1>1, <2>5 DEF SetTarget, Goto, At, TypeOK
    <3>2. NoSurplus /\ Cardinality(Present) <= curNt
      BY <1>7, <3>1 DEF Staff, At
    <3>3. \A w \in Worker : w \in Int /\ nt \in Int /\ goal \in Int
      BY <1>1 DEF TypeOK, Worker
    <3>4. \A w \in Worker : w < nt' /\ w < i' => pc'[w] \notin {"none", "exit", "gone"}
      BY <1>3, <1>7, <3>1 DEF Staff, At
    <3>5. \A w \in Worker : i' <= w => pc'[w] \in {"none", "gone"}
      BY <1>3, <3>1, <3>2, <3>3 DEF NoSurplus, Present
    <3>6. i' < goal' => NoSurplus'
      BY <1>1, <1>5, <3>1, <3>2, <3>3 DEF NoSurplus, Present
    <3>7. Cardinality(Present') <= curNt'
      BY <1>2, <1>5, <3>2
    <3> QED
      BY <3>1, <3>4, <3>5, <3>6, <3>7 DEF Staff, At
  <2> QED
    BY <2>1, <2>2, <2>3, <2>4, <2>5 DEF Resizing
<1> QED
  BY <1>1, <1>2, <1>3, <1>4, <1>8, AppMoves

LEMMA StepInv == IInv /\ [Next]_vars => IInv'
<1> SUFFICES ASSUME IInv, [Next]_vars PROVE IInv'
  OBVIOUS
<1> USE Constants
<1>1. CASE UNCHANGED vars
  <2>1. UNCHANGED <<evt, nt, ntAlloc, curNt, sleepNt, njob, evtLock, queue, fresh, pc, back,
                    lvl, limit, i, goal, engine>>
    BY <1>1 DEF vars, size, sems, jobs, scan, call
  <2>2. TypeOK'
    BY <2>1 DEF IInv, TypeOK
  <2>3. Running' => Staff'
    BY <2>1, SameStaff DEF Running
  <2>4. njob <= njob' /\ App \in Thread /\ Still(App)
    BY <2>1, <2>2 DEF TypeOK, Still
  <2>5. /\ Watching(App)' = Watching(App)
        /\ App \in Promised => App \in Promised'
        /\ App \in Holders => App \in Holders'
        /\ \A l \in 0..(Last - 1) : App \in Looking(l) => App \in Looking(l)'
    BY <2>1 DEF Watching, Promised, Holders, Looking, At
  <2>6. /\ At(App, "pop")' => lvl'[App] <= limit'[App] /\ Last <= limit'[App]
        /\ At(App, "inc")' => back'[App] \in PushesFrom(App)
    BY <2>1 DEF IInv, ScanOK, BackOK, At
  <2> QED
    BY <2>1, <2>2, <2>3, <2>4, <2>5, <2>6, Quiet
<1>2. ASSUME NEW th \in Thread, Push(th) \/ Runs(th)
      PROVE  IInv'
  BY <1>2, PushStep, IncStep, ScanStep, PopStep, PopEmptyStep, ScanFailsStep DEF Runs
<1>3. ASSUME NEW w \in Worker, Works(w)
      PROVE  IInv'
  BY <1>3, IdleWorkerStep, StartExitStep, TokenStep, TryLockStep, WatchedStep DEF Works
<1>4. CASE DoWork \/ SetNumWorkers \/ Free \/ Creating \/ Resizing \/ Freeing
  BY <1>4, CallStep, FreeStep, StartThreadStep DEF Creating
<1> QED
  BY <1>1, <1>2, <1>3, <1>4 DEF Next

-----------------------------------------------------------------------------
\* The whole invariant, with fairness or without.
THEOREM Invariance == Spec => []IInv
BY InitInv, StepInv, PTL DEF Spec

\* The semaphore njob and the event lock (twnative_engine_sched.c): no queued job
\* is without a token, a promised token or a worker that has still to look for it,
\* and the event loop is not forgotten nor entered by two, for any number of
\* workers, jobs, priorities and resizes, and however the steps interleave.
THEOREM NoJobForgotten == Spec => []Tokens
<1>1. IInv => Tokens
  BY DEF IInv, Tokens, TokensAt
<1> QED
  BY Invariance, <1>1, PTL

-----------------------------------------------------------------------------
(* What is freed is left alone. *)

\* What Enginei_free has reached: the workers it has to join are those below goal,
\* those it has joined are gone, and nobody is left to fill the queues it drains.
FreeInv ==
    /\ Running => NoSurplus
    /\ engine # "open" => /\ pc[App] \in {"idle", "wake", "join", "drain"}
                          /\ Present = {}
    /\ At(App, "wake")  => \A w \in Present : w < goal
    /\ At(App, "join")  => \A w \in Present : i <= w /\ w < goal
    /\ At(App, "drain") => Present = {} /\ \A l \in 0..Last : l < i => queue[l] = {}
    /\ engine = "freed" => At(App, "idle") /\ \A l \in 0..Last : queue[l] = {}

\* Engine_set_num_workers makes the engine smaller.
Shrinks == SetTarget /\ goal < nt

LEMMA InitFree == Init => FreeInv
<1> SUFFICES ASSUME Init PROVE FreeInv
  OBVIOUS
<1>1. pc = [th \in Thread |-> IF th = App THEN "threads" ELSE "none"] /\ engine = "open"
  BY DEF Init
<1>2. pc[App] = "threads" /\ Present = {}
  BY <1>1, Constants DEF Present
<1> QED
  BY <1>1, <1>2 DEF FreeInv, NoSurplus, At

\* A thread that works only takes from the queues, or there is nothing freed yet.
LEMMA WorkFree ==
  ASSUME IInv, IInv', FreeInv, NEW th \in Thread, Push(th) \/ Runs(th) \/ (th \in Worker /\ Works(th))
  PROVE  FreeInv'
<1> USE Constants
<1>1. TypeOK /\ TypeOK' /\ BackOK
  BY DEF IInv
<1>2. UNCHANGED <<nt, i, goal, engine>>
  BY DEF Runs, Works, Push, Inc, Scan, Pop, PopEmpty, ScanFails, Ran, Start, Check, Sleep, Dec,
         Awake, TryLock, Watched, Release, Exit, size, call
<1>3. \A u \in Thread \ {th} : pc'[u] = pc[u]
  BY <1>1 DEF Runs, Works, Push, Inc, Scan, Pop, PopEmpty, ScanFails, Ran, Start, Check, Sleep, Dec,
         Awake, TryLock, Watched, Release, Exit, Leave, Goto, TypeOK, scan
<1>4. /\ pc[th] \notin {"none", "gone", "threads", "spin", "grow", "wake", "join", "drain"}
      /\ ~Push(th) => pc[th] # "idle"
      /\ Push(th) /\ pc[th] = "idle" => engine = "open"
  BY DEF Runs, Works, Push, Inc, Scan, Pop, PopEmpty, ScanFails, Ran, Start, Check, Sleep, Dec,
         Awake, TryLock, Watched, Release, Exit, At, PushesFrom
<1>5. Present' \subseteq Present
  BY <1>3, <1>4 DEF Present
<1>6. ~Push(th) => \A l \in 0..Last : queue'[l] \subseteq queue[l]
  <2>1. CASE Pop(th)
    BY <1>1, <2>1 DEF Pop, TypeOK
  <2>2. CASE ~Pop(th) /\ ~Push(th)
    BY <2>2 DEF Runs, Works, Inc, Scan, PopEmpty, ScanFails, Ran, Start, Check, Sleep, Dec,
           Awake, TryLock, Watched, Release, Exit, jobs
  <2> QED
    BY <2>1, <2>2
<1>7. CASE th # App
  <2>1. pc'[App] = pc[App] /\ th \in Present
    BY <1>3, <1>4, <1>7 DEF Present, Thread
  <2>2. engine = "open" /\ ~At(App, "drain")
    BY <2>1 DEF FreeInv
  <2>3. Running' = Running
    BY <1>2, <2>1 DEF Running
  <2> QED
    BY <1>2, <1>5, <2>1, <2>2, <2>3 DEF FreeInv, NoSurplus, At
<1>8. CASE th = App
  <2>1. engine = "open" /\ Running
    BY <1>1, <1>4, <1>8 DEF FreeInv, Running, TypeOK
  <2>2. pc'[App] \in {"idle", "run", "inc", "scan", "pop"}
    <3>1. ~(th \in Worker /\ Works(th))
      BY <1>8
    <3>2. CASE Push(App)
      BY <1>1, <3>2 DEF Push, Goto, TypeOK
    <3>3. CASE Inc(App)
      BY <1>1, <3>3 DEF Inc, Goto, TypeOK, BackOK, PushesFrom, At
    <3>4. CASE Scan(App) \/ Pop(App) \/ PopEmpty(App) \/ ScanFails(App) \/ Ran(App)
      BY <1>1, <3>4 DEF Scan, Pop, PopEmpty, ScanFails, Ran, Leave, Goto, TypeOK, Returns, At
    <3> QED
      BY <1>8, <3>1, <3>2, <3>3, <3>4 DEF Runs
  <2> QED
    BY <1>2, <1>5, <2>1, <2>2 DEF FreeInv, NoSurplus, At
<1> QED
  BY <1>7, <1>8

\* Before Enginei_free: threads are started below the target, which only grows.
LEMMA GrowFree ==
  ASSUME IInv, IInv', FreeInv, ~Shrinks,
         DoWork \/ SetNumWorkers \/ Creating \/ Resizing
  PROVE  FreeInv'
<1> USE Constants
<1>1. TypeOK /\ TypeOK' /\ engine' = engine
  BY DEF IInv, Creating, Resizing, DoWork, SetNumWorkers, StartThread, ThreadsStarted, SpinEnds,
         Double, SetTarget, call
<1>2. pc[App] \in {"idle", "threads", "spin", "grow"} /\ (pc[App] = "idle" => engine = "open")
  BY DEF Creating, Resizing, DoWork, SetNumWorkers, StartThread, ThreadsStarted, SpinEnds, Double,
         SetTarget, At
<1>3. engine = "open" /\ Running
  BY <1>2, <1>1 DEF FreeInv, Running, TypeOK
<1>4. CASE StartThread
  <2>1. /\ pc[App] = "threads" /\ i < goal /\ pc' = [pc EXCEPT ![i] = "start"]
        /\ UNCHANGED <<nt, goal>>
    BY <1>4 DEF StartThread, At, size
  <2>2. goal = nt
    BY <1>3, <2>1 DEF IInv, Staff, At
  <2>3. i \in Worker /\ i # App
    BY <1>1, <2>1 DEF TypeOK, Worker
  <2>4. Present' \subseteq Present \cup {i} /\ pc'[App] = "threads"
    BY <1>1, <2>1, <2>3 DEF Present, TypeOK
  <2>5. NoSurplus'
    BY <1>3, <2>1, <2>2, <2>4 DEF FreeInv, NoSurplus
  <2> QED
    BY <1>1, <1>3, <2>4, <2>5 DEF FreeInv, At
<1>5. CASE ~StartThread
  <2>1. /\ \A w \in Worker : pc'[w] = pc[w]
        /\ pc'[App] \notin {"wake", "join", "drain"}
    BY <1>1, <1>5 DEF Creating, Resizing, DoWork, SetNumWorkers, ThreadsStarted, SpinEnds, Double,
           SetTarget, Goto, TypeOK, At
  <2>2. Present' = Present
    BY <2>1 DEF Present
  <2>3. nt <= nt'
    BY <1>1, <1>5 DEF Creating, Resizing, DoWork, SetNumWorkers, ThreadsStarted, SpinEnds, Double,
           SetTarget, Shrinks, TypeOK, size
  <2>4. NoSurplus'
    <3>1. nt \in Int /\ nt' \in Int
      BY <1>1 DEF TypeOK
    <3>2. \A w \in Present : w \in Int /\ w < nt
      BY <1>3, <2>2 DEF FreeInv, NoSurplus, Present, Worker
    <3>3. \A w \in Present : w < nt'
      BY <2>3, <3>1, <3>2
    <3> QED
      BY <2>2, <3>3 DEF NoSurplus
  <2> QED
    BY <1>1, <1>3, <2>1, <2>4 DEF FreeInv, At
<1> QED
  BY <1>4, <1>5

LEMMA DownFree ==
  ASSUME IInv, IInv', FreeInv, Free \/ Freeing
  PROVE  FreeInv'
<1> USE Constants
<1>1. TypeOK /\ TypeOK'
  BY DEF IInv
<1>2. /\ \A w \in Worker : pc'[w] = pc[w]
      /\ pc[App] \in {"idle", "wake", "join", "drain"}
      /\ pc'[App] \in {"idle", "wake", "join", "drain"}
  BY <1>1 DEF Free, Freeing, Wake, Join, DrainTask, DrainEvent, DrainLevel, Freed, Goto, At, TypeOK
<1>3. Present' = Present
  BY <1>2 DEF Present
<1>4. CASE Free
  <2>1. /\ pc[App] = "idle" /\ engine \in {"open", "failed"} /\ engine' = engine
        /\ goal' = nt /\ pc'[App] = "wake"
    BY <1>1, <1>4 DEF Free, Goto, At, TypeOK
  <2>2. engine = "open" => NoSurplus
    BY <2>1 DEF FreeInv, Running
  <2> QED
    BY <1>1, <1>3, <2>1, <2>2 DEF FreeInv, NoSurplus, Running, At
<1>5. CASE Wake
  <2>1. /\ pc[App] = "wake" /\ UNCHANGED <<engine, goal>>
        /\ \/ pc' = pc
           \/ i' = 0 /\ pc'[App] = "join"
    BY <1>1, <1>5 DEF Wake, Goto, At, TypeOK
  <2>2. \A w \in Present : 0 <= w /\ w < goal
    BY <2>1 DEF FreeInv, At, Present, Worker
  <2> QED
    BY <1>1, <1>3, <2>1, <2>2 DEF FreeInv, Running, At
<1>6. CASE Join
  <2>1. /\ pc[App] = "join" /\ UNCHANGED <<engine, goal>>
        /\ \/ i < goal /\ pc[i] = "gone" /\ i' = i + 1 /\ pc' = pc
           \/ ~(i < goal) /\ i' = 0 /\ pc'[App] = "drain"
    BY <1>1, <1>6 DEF Join, Goto, At, TypeOK
  <2>2. \A w \in Present : i <= w /\ w < goal /\ w \in Int /\ pc[w] # "gone"
    BY <2>1 DEF FreeInv, At, Present, Worker
  <2>3. i \in Nat /\ goal \in Int
    BY <1>1 DEF TypeOK
  <2>4. CASE i < goal /\ pc[i] = "gone" /\ i' = i + 1 /\ pc' = pc
    <3>1. \A w \in Present : i + 1 <= w
      BY <2>2, <2>3, <2>4
    <3> QED
      BY <1>1, <1>3, <2>1, <2>2, <2>4, <3>1 DEF FreeInv, Running, At
  <2>5. CASE ~(i < goal) /\ i' = 0 /\ pc'[App] = "drain"
    <3>1. Present = {}
      BY <2>2, <2>3, <2>5
    <3> QED
      BY <1>1, <1>3, <2>1, <2>5, <3>1 DEF FreeInv, Running, At
  <2> QED
    BY <2>1, <2>4, <2>5
<1>7. CASE DrainTask
  <2>1. pc[App] = "drain" /\ pc'[App] = "idle" /\ engine' = "failed"
    BY <1>1, <1>7 DEF DrainTask, Goto, At, TypeOK
  <2> QED
    BY <1>3, <2>1 DEF FreeInv, Running, At
<1>8. CASE DrainEvent
  <2>1. /\ pc[App] = "drain" /\ pc' = pc /\ UNCHANGED <<engine, i>>
    BY <1>8 DEF DrainEvent, At, call
  <2>2. \A l \in 0..Last : l < i => queue'[l] = queue[l]
    <3>1. PICK j \in queue[i] : queue' = [queue EXCEPT ![i] = @ \ {j}]
      BY <1>8 DEF DrainEvent
    <3> QED
      BY <1>1, <3>1 DEF TypeOK
  <2> QED
    BY <1>3, <2>1, <2>2 DEF FreeInv, Running, At
<1>9. CASE DrainLevel
  <2>1. /\ pc[App] = "drain" /\ pc' = pc /\ UNCHANGED <<engine, queue>>
        /\ i' = i + 1 /\ queue[i] = {}
    BY <1>9 DEF DrainLevel, At, jobs
  <2>2. \A l \in 0..Last : l < i + 1 => l < i \/ l = i
    BY <1>1 DEF TypeOK
  <2> QED
    BY <1>3, <2>1, <2>2 DEF FreeInv, Running, At
<1>10. CASE Freed
  <2>1. /\ pc[App] = "drain" /\ i > Last /\ engine' = "freed" /\ pc'[App] = "idle"
        /\ queue' = queue
    BY <1>1, <1>10 DEF Freed, Goto, At, TypeOK, jobs
  <2>2. \A l \in 0..Last : l < i
    BY <1>1, <2>1 DEF TypeOK
  <2> QED
    BY <1>3, <2>1, <2>2 DEF FreeInv, Running, At
<1> QED
  BY <1>4, <1>5, <1>6, <1>7, <1>8, <1>9, <1>10 DEF Freeing

LEMMA StepFree == IInv /\ IInv' /\ FreeInv /\ [Next]_vars /\ [~Shrinks]_vars => FreeInv'
<1> SUFFICES ASSUME IInv, IInv', FreeInv, [Next]_vars, [~Shrinks]_vars PROVE FreeInv'
  OBVIOUS
<1>1. CASE UNCHANGED vars
  <2>1. UNCHANGED <<nt, queue, pc, i, goal, engine>>
    BY <1>1 DEF vars, size, jobs, call
  <2> QED
    BY <2>1 DEF FreeInv, Running, NoSurplus, Present, At
<1>2. CASE Next /\ ~Shrinks
  <2>1. ASSUME NEW th \in Thread, Push(th) \/ Runs(th)
        PROVE  FreeInv'
    BY <2>1, WorkFree
  <2>2. ASSUME NEW w \in Worker, Works(w)
        PROVE  FreeInv'
    BY <2>2, WorkFree, Constants
  <2> QED
    BY <1>2, <2>1, <2>2, GrowFree, DownFree DEF Next
<1> QED
  BY <1>1, <1>2

\* Engine_free stops, wakes and joins the workers before it drains the queues
\* (twnative_engine_int.c): once it has returned, no worker uses the engine and no
\* job is left in a queue, for any number of workers, also if some of them have not
\* begun to run when it is called.  The engine must not have been made smaller: a
\* surplus worker is not among those Engine_free joins.
THEOREM NothingLeftBehind == Spec /\ [][~Shrinks]_vars => []FreedForGood
<1>1. Spec /\ [][~Shrinks]_vars => []FreeInv
  BY Invariance, InitFree, StepFree, PTL DEF Spec
<1>2. FreeInv => FreedForGood
  BY DEF FreeInv, FreedForGood, Present
<1> QED
  BY <1>1, <1>2, PTL

=============================================================================
