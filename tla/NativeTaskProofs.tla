---------------------------- MODULE NativeTaskProofs ----------------------------
(***************************************************************************)
(* What TLAPS proves of NativeTask for every set of tasks, threads and     *)
(* calls.  IInv (module NativeTaskInv) is inductive; type correctness, the *)
(* order of releases and the refinement of TaskGraph follow.  The second   *)
(* half is about the run of a task and its wake-ups.                       *)
(***************************************************************************)
EXTENDS NativeTaskInv, FiniteSetTheorems, TLAPS

-----------------------------------------------------------------------------
(* Replacing the top of a stack. *)

LEMMA PopFacts ==
  ASSUME NEW S, NEW s \in Seq(S), s # <<>>
  PROVE  /\ Len(s) \in Nat \ {0}
         /\ Head(s) = s[1] /\ Head(s) \in S
         /\ Tail(s) \in Seq(S)
         /\ Len(Tail(s)) = Len(s) - 1
         /\ \A k \in 1..(Len(s) - 1) : Tail(s)[k] = s[k + 1]
  OBVIOUS

LEMMA PushFacts ==
  ASSUME NEW S, NEW s \in Seq(S), NEW f \in S
  PROVE  /\ <<f>> \o s \in Seq(S)
         /\ <<f>> \o s # <<>>
         /\ Len(<<f>> \o s) = Len(s) + 1
         /\ Head(<<f>> \o s) = f
         /\ (<<f>> \o s)[1] = f
         /\ \A k \in 2..(Len(s) + 1) : (<<f>> \o s)[k] = s[k - 1]
  OBVIOUS

LEMMA Push2Facts ==
  ASSUME NEW S, NEW s \in Seq(S), NEW g \in S, NEW f \in S
  PROVE  /\ <<g, f>> \o s \in Seq(S)
         /\ <<g, f>> \o s # <<>>
         /\ Len(<<g, f>> \o s) = Len(s) + 2
         /\ Head(<<g, f>> \o s) = g
         /\ (<<g, f>> \o s)[1] = g
         /\ (<<g, f>> \o s)[2] = f
         /\ \A k \in 3..(Len(s) + 2) : (<<g, f>> \o s)[k] = s[k - 2]
  OBVIOUS

LEMMA SeqMono ==
  ASSUME NEW S, NEW U, S \subseteq U
  PROVE  Seq(S) \subseteq Seq(U)
  OBVIOUS

LEMMA FcnIsSeq ==
  ASSUME NEW S, NEW n \in Nat, NEW s \in [1..n -> S]
  PROVE  s \in Seq(S) /\ Len(s) = n
  OBVIOUS

\* The shape of the stacks after Goto, Call and Return.
LEMMA GotoShape ==
  ASSUME NEW S, stack \in [Thread -> Seq(S)], NEW th \in Thread, stack[th] # <<>>,
         NEW f \in S, Goto(th, f)
  PROVE  /\ stack' \in [Thread -> Seq(S)]
         /\ \A th2 \in Thread : th2 # th => stack'[th2] = stack[th2]
         /\ stack'[th] # <<>>
         /\ Len(stack'[th]) = Len(stack[th])
         /\ Head(stack'[th]) = f
         /\ stack'[th][1] = f
         /\ \A k \in 2..Len(stack[th]) : stack'[th][k] = stack[th][k]
<1> DEFINE s == stack[th]
<1>1. s \in Seq(S) /\ s # <<>>
  OBVIOUS
<1>2. stack' = [stack EXCEPT ![th] = <<f>> \o Tail(s)]
  BY DEF Goto
<1>3. stack'[th] = <<f>> \o Tail(s)
  BY <1>2
<1> HIDE DEF s
<1>4. Tail(s) \in Seq(S) /\ Len(Tail(s)) = Len(s) - 1 /\ Len(s) \in Nat \ {0}
      /\ \A k \in 1..(Len(s) - 1) : Tail(s)[k] = s[k + 1]
  BY <1>1, PopFacts
<1>5. /\ stack'[th] \in Seq(S) /\ stack'[th] # <<>>
      /\ Len(stack'[th]) = Len(s)
      /\ Head(stack'[th]) = f /\ stack'[th][1] = f
      /\ \A k \in 2..Len(s) : stack'[th][k] = Tail(s)[k - 1]
  BY <1>3, <1>4, PushFacts
<1>6. \A k \in 2..Len(s) : stack'[th][k] = s[k]
  BY <1>4, <1>5
<1>7. stack' \in [Thread -> Seq(S)]
  BY <1>2, <1>3, <1>5
<1> QED
  BY <1>2, <1>5, <1>6, <1>7 DEF s

LEMMA CallShape ==
  ASSUME NEW S, stack \in [Thread -> Seq(S)], NEW th \in Thread, stack[th] # <<>>,
         NEW g \in S, NEW f \in S, Call(th, g, f)
  PROVE  /\ stack' \in [Thread -> Seq(S)]
         /\ \A th2 \in Thread : th2 # th => stack'[th2] = stack[th2]
         /\ stack'[th] # <<>>
         /\ Len(stack'[th]) = Len(stack[th]) + 1
         /\ Head(stack'[th]) = g
         /\ stack'[th][1] = g
         /\ stack'[th][2] = f
         /\ \A k \in 3..(Len(stack[th]) + 1) : stack'[th][k] = stack[th][k - 1]
<1> DEFINE s == stack[th]
<1>1. s \in Seq(S) /\ s # <<>>
  OBVIOUS
<1>2. stack' = [stack EXCEPT ![th] = <<g, f>> \o Tail(s)]
  BY DEF Call
<1>3. stack'[th] = <<g, f>> \o Tail(s)
  BY <1>2
<1> HIDE DEF s
<1>4. Tail(s) \in Seq(S) /\ Len(Tail(s)) = Len(s) - 1 /\ Len(s) \in Nat \ {0}
      /\ \A k \in 1..(Len(s) - 1) : Tail(s)[k] = s[k + 1]
  BY <1>1, PopFacts
<1>5. /\ stack'[th] \in Seq(S) /\ stack'[th] # <<>>
      /\ Len(stack'[th]) = Len(s) + 1
      /\ Head(stack'[th]) = g /\ stack'[th][1] = g /\ stack'[th][2] = f
      /\ \A k \in 3..(Len(s) + 1) : stack'[th][k] = Tail(s)[k - 2]
  BY <1>3, <1>4, Push2Facts
<1>6. \A k \in 3..(Len(s) + 1) : stack'[th][k] = s[k - 1]
  BY <1>4, <1>5
<1>7. stack' \in [Thread -> Seq(S)]
  BY <1>2, <1>3, <1>5
<1> QED
  BY <1>2, <1>5, <1>6, <1>7 DEF s

LEMMA ReturnShape ==
  ASSUME NEW S, stack \in [Thread -> Seq(S)], NEW th \in Thread, stack[th] # <<>>,
         Return(th)
  PROVE  /\ stack' \in [Thread -> Seq(S)]
         /\ \A th2 \in Thread : th2 # th => stack'[th2] = stack[th2]
         /\ Len(stack'[th]) = Len(stack[th]) - 1
         /\ Len(stack[th]) \in Nat \ {0}
         /\ \A k \in 1..(Len(stack[th]) - 1) : stack'[th][k] = stack[th][k + 1]
         /\ stack'[th] # <<>> =>
              /\ Len(stack[th]) > 1
              /\ Head(stack'[th]) = stack[th][2]
<1> DEFINE s == stack[th]
<1>1. s \in Seq(S) /\ s # <<>>
  OBVIOUS
<1>2. stack' = [stack EXCEPT ![th] = Tail(s)]
  BY DEF Return
<1>3. stack'[th] = Tail(s)
  BY <1>2
<1> HIDE DEF s
<1>4. Tail(s) \in Seq(S) /\ Len(Tail(s)) = Len(s) - 1 /\ Len(s) \in Nat \ {0}
      /\ \A k \in 1..(Len(s) - 1) : Tail(s)[k] = s[k + 1]
  BY <1>1, PopFacts
<1>5. Tail(s) # <<>> => Len(s) > 1 /\ Head(Tail(s)) = s[2]
  BY <1>4
<1>6. stack' \in [Thread -> Seq(S)]
  BY <1>2, <1>3, <1>4
<1> QED
  BY <1>2, <1>3, <1>4, <1>5, <1>6 DEF s

-----------------------------------------------------------------------------
(* What every step of a thread th does for the frames and the locks of the  *)
(* others: statuses grow, what a commit has counted is settled.             *)

Grow(th) ==
    /\ \A t \in Task : status'[t] >= status[t]
                       /\ (status[t] = COMPLETED => status'[t] = COMPLETED)
    /\ \A t \in Task : Counted(t) => ndep'[t] = ndep[t] /\ parents'[t] = parents[t]
    /\ \A t \in Task : ndep'[t] # -1 =>
                         Counted(t) \/ (At(th, "commit_init") /\ t = Top(th).t)
    /\ \A t \in Task : Len(childs'[t]) >= Len(childs[t])

Alone(th) ==
    /\ \A t \in Task : readers'[t] \ {th} = readers[t] \ {th}
    /\ \A th2 \in Thread : th2 # th => success'[th2] = success[th2]

GraphType ==
    /\ status \in [Task -> Status]
    /\ parents \in [Task -> Seq(Dep)]
    /\ childs \in [Task -> Seq(Dep)]
    /\ ndep \in [Task -> Nat \cup {-1}]

LEMMA StatusType == Status \subseteq Nat
  BY DEF Status, INVAL, IDLE, DEPHOLD, READY, QUEUE, RUNNING, FINAL, COMPLETED,
         ABORTED, FAILED

LEMMA ReleaseStable ==
  ASSUME GraphType, GraphType', NEW th \in Thread, Grow(th),
         NEW t \in Task, Counted(t), MayRelease(t)
  PROVE  ndep'[t] # -1 /\ MayRelease(t)'
<1>1. parents'[t] = parents[t] /\ ndep'[t] = ndep[t]
  BY DEF Grow
<1>2. Needs(t)' = Needs(t) /\ Needs(t) \subseteq Task
  BY <1>1 DEF Needs, GraphType, Dep
<1>3. \A p \in Task : status[p] = COMPLETED => status'[p] = COMPLETED
  BY DEF Grow
<1> QED
  BY <1>1, <1>2, <1>3 DEF MayRelease, Counted

LEMMA FrameStable ==
  ASSUME GraphType, GraphType', DepsOK, NEW th \in Thread, Grow(th)
  PROVE  GoodFrame \subseteq GoodFrame'
<1> SUFFICES ASSUME NEW f \in Frame, FrameOK(f)
             PROVE  f \in GoodFrame'
  BY DEF GoodFrame
<1>0. /\ f.t \in Task /\ f.new \in Status /\ f.i \in Nat
      /\ status \in [Task -> Status] /\ status' \in [Task -> Status]
      /\ parents[f.t] \in Seq(Dep)
      /\ childs[f.t] \in Seq(Dep) /\ childs'[f.t] \in Seq(Dep)
  BY DEF Frame, GraphType
<1>1. /\ f.t \in Task /\ f.new \in Nat /\ f.i \in Nat
      /\ status[f.t] \in Nat /\ status'[f.t] \in Nat
      /\ Len(childs[f.t]) \in Nat /\ Len(childs'[f.t]) \in Nat
      /\ Len(childs'[f.t]) >= Len(childs[f.t])
      /\ status'[f.t] >= status[f.t]
      /\ status[f.t] = COMPLETED => status'[f.t] = COMPLETED
  <2>1. f.t \in Task /\ f.i \in Nat
        /\ f.new \in Nat /\ status[f.t] \in Nat /\ status'[f.t] \in Nat
    BY <1>0, StatusType
  <2>2. Len(childs[f.t]) \in Nat /\ Len(childs'[f.t]) \in Nat
    BY <1>0
  <2>3. /\ Len(childs'[f.t]) >= Len(childs[f.t])
        /\ status'[f.t] >= status[f.t]
        /\ status[f.t] = COMPLETED => status'[f.t] = COMPLETED
    BY <2>1 DEF Grow
  <2> QED
    BY <2>1, <2>2, <2>3
<1>2. Counted(f.t) => /\ parents'[f.t] = parents[f.t] /\ ndep'[f.t] = ndep[f.t]
                      /\ ndep[f.t] = Len(parents[f.t])
                      /\ \A i \in 1..ndep[f.t] : parents[f.t][i][2] \in Task
  <2>1. Counted(f.t) => /\ parents'[f.t] = parents[f.t] /\ ndep'[f.t] = ndep[f.t]
                        /\ ndep[f.t] = Len(parents[f.t])
    BY <1>1 DEF Grow, DepsOK
  <2>2. \A i \in 1..Len(parents[f.t]) : parents[f.t][i] \in Task \X Task
    BY <1>0 DEF Dep
  <2> QED
    BY <2>1, <2>2
<1>3. f.pc \in Updating =>
        /\ <<f.old, f.new>> \in Edge(f.t)
        /\ f.i > 0
        /\ f.new = READY => Counted(f.t)' /\ MayRelease(f.t)'
  BY <1>1, ReleaseStable DEF FrameOK, Counted
<1>4. f.pc \in Updating \ {"cas"} =>
        /\ status'[f.t] >= f.new
        /\ f.new = COMPLETED => status'[f.t] = COMPLETED
  BY <1>1 DEF FrameOK
<1>5. f.pc = "change" => f.i \in 1..Len(childs'[f.t])
  BY <1>1 DEF FrameOK
<1>6. f.pc = "commit_init" => Begun(f.t)'
  BY <1>1 DEF FrameOK, Begun, DEPHOLD
<1>7. f.pc \in Wiring => Counted(f.t)' /\ f.i \in 1..ndep'[f.t]
  BY <1>2 DEF FrameOK, Counted
<1>8. f.pc \in {"load_dep", "check"} /\ f.new = COMPLETED
        => status'[parents'[f.t][f.i][2]] = COMPLETED
  <2> SUFFICES ASSUME f.pc \in {"load_dep", "check"}, f.new = COMPLETED
               PROVE  status'[parents'[f.t][f.i][2]] = COMPLETED
    OBVIOUS
  <2>1. f.pc \in Wiring
    BY DEF Wiring
  <2>2. Counted(f.t) /\ f.i \in 1..ndep[f.t]
    BY <2>1 DEF FrameOK
  <2>3. parents[f.t][f.i][2] \in Task /\ parents'[f.t] = parents[f.t]
    BY <1>2, <2>2
  <2>4. status[parents[f.t][f.i][2]] = COMPLETED
    BY DEF FrameOK
  <2> QED
    BY <2>3, <2>4 DEF Grow
<1> QED
  BY <1>3, <1>4, <1>5, <1>6, <1>7, <1>8 DEF GoodFrame, FrameOK

-----------------------------------------------------------------------------
(* What a step that changes the stack of th has to establish. *)

TopOK(th, f) ==
    /\ f.pc = "commit" /\ success'[th] => status'[f.t] >= DEPHOLD
    /\ f.pc \in Locking => th \in readers'[f.t]
    /\ f.pc = "add_push" => ndep'[f.t] = -1 /\ status'[f.t] < DEPHOLD
    /\ f.pc = "commit_init" => readers[f.t] = {}

LEMMA StackKeeps ==
  ASSUME StackOK, NEW th \in Thread, Grow(th), Alone(th),
         GraphType, GraphType',
         stack' \in [Thread -> Seq(GoodFrame')],
         \A th2 \in Thread : th2 # th => stack'[th2] = stack[th2],
         stack'[th] # <<>> => TopOK(th, Head(stack'[th])),
         \A k \in 2..Len(stack'[th]) :
            /\ stack'[th][k].pc \in Calling
            /\ stack'[th][k].pc = "commit" =>
                 /\ stack'[th][k - 1].pc \in Updating
                 /\ stack'[th][k - 1].t = stack'[th][k].t
                 /\ stack'[th][k - 1].new = DEPHOLD
  PROVE  StackOK'
<1>1. FramesOK'
  BY DEF FramesOK
<1>2. CallersOK'
  BY DEF StackOK, CallersOK
<1>3. LockOK'
  <2> SUFFICES ASSUME NEW th2 \in Thread, stack'[th2] # <<>>,
                      Head(stack'[th2]).pc \in Locking
               PROVE  th2 \in readers'[Head(stack'[th2]).t]
    BY DEF LockOK, Top
  <2>1. CASE th2 = th
    BY <2>1 DEF TopOK
  <2>2. CASE th2 # th
    <3>1. Head(stack'[th2]) \in GoodFrame'
      BY PopFacts
    <3>2. Head(stack'[th2]).t \in Task
      BY <3>1 DEF GoodFrame, Frame
    <3>3. stack'[th2] = stack[th2]
      BY <2>2
    <3>4. th2 \in readers[Head(stack[th2]).t]
      BY <3>3 DEF StackOK, LockOK, Top
    <3> QED
      BY <2>2, <3>2, <3>3, <3>4 DEF Alone
  <2> QED
    BY <2>1, <2>2
<1>4. PushOK'
  <2> SUFFICES ASSUME NEW th1 \in Thread, NEW th2 \in Thread,
                      stack'[th1] # <<>>, Head(stack'[th1]).pc = "add_push"
               PROVE  /\ ndep'[Head(stack'[th1]).t] = -1
                      /\ stack'[th2] # <<>> /\ Head(stack'[th2]).pc = "commit_init"
                         => Head(stack'[th2]).t # Head(stack'[th1]).t
    BY DEF PushOK, Top, Counted
  <2> DEFINE f1 == Head(stack'[th1])
             f2 == Head(stack'[th2])
  <2>1. f1 \in GoodFrame' /\ (stack'[th2] # <<>> => f2 \in GoodFrame')
    BY PopFacts
  <2>2. f1.t \in Task /\ (stack'[th2] # <<>> => f2.t \in Task)
    BY <2>1 DEF GoodFrame, Frame
  <2>3. stack'[th2] # <<>> /\ f2.pc = "commit_init" => status'[f2.t] >= DEPHOLD
    BY <2>1 DEF GoodFrame, FrameOK, Begun
  <2>4. CASE th1 = th
    <3>1. ndep'[f1.t] = -1 /\ ~ (status'[f1.t] >= DEPHOLD)
      <4>1. status'[f1.t] \in Nat
        BY <2>2, StatusType DEF GraphType
      <4> QED
        BY <2>4, <4>1 DEF TopOK, DEPHOLD
    <3> QED
      BY <2>3, <3>1
  <2>5. CASE th1 # th
    <3>1. /\ f1 = Top(th1) /\ stack[th1] # <<>>
          /\ ndep[f1.t] = -1
          /\ th1 \in readers[f1.t]
      BY <2>5 DEF StackOK, PushOK, LockOK, Top, Counted, Locking
    <3>2. stack[th] # <<>> /\ Top(th).pc = "commit_init" => Top(th).t # f1.t
      BY <3>1 DEF StackOK, PushOK
    <3>3. ndep'[f1.t] = -1
      BY <2>2, <3>1, <3>2 DEF Grow, At, Counted
    <3>4. CASE th2 = th
      BY <3>1, <3>3, <3>4 DEF TopOK
    <3>5. CASE th2 # th
      BY <2>5, <3>1, <3>3, <3>5 DEF StackOK, PushOK, Top
    <3> QED
      BY <3>4, <3>5
  <2> QED
    BY <2>4, <2>5
<1>5. CommitCallOK'
  <2>1. \A th2 \in Thread :
          stack'[th2] # <<>> /\ Head(stack'[th2]).pc = "commit" /\ success'[th2]
          => status'[Head(stack'[th2]).t] >= DEPHOLD
    <3> SUFFICES ASSUME NEW th2 \in Thread, stack'[th2] # <<>>,
                        Head(stack'[th2]).pc = "commit", success'[th2]
                 PROVE  status'[Head(stack'[th2]).t] >= DEPHOLD
      OBVIOUS
    <3>1. CASE th2 = th
      BY <3>1 DEF TopOK
    <3>2. CASE th2 # th
      <4> DEFINE f2 == Head(stack'[th2])
      <4>1. f2 = Top(th2) /\ stack[th2] # <<>> /\ success[th2]
        BY <3>2 DEF Top, Alone
      <4>2. status[f2.t] >= DEPHOLD
        BY <4>1 DEF StackOK, CommitCallOK, Begun
      <4>3. f2 \in GoodFrame'
        BY PopFacts
      <4>4. f2.t \in Task
        BY <4>3 DEF GoodFrame, Frame
      <4>5. status[f2.t] \in Nat /\ status'[f2.t] \in Nat
        BY <4>4, StatusType DEF GraphType
      <4> QED
        BY <4>2, <4>4, <4>5 DEF Grow, DEPHOLD
    <3> QED
      BY <3>1, <3>2
  <2>2. \A th2 \in Thread : \A k \in 2..Len(stack'[th2]) :
          stack'[th2][k].pc = "commit" =>
            /\ stack'[th2][k - 1].pc \in Updating
            /\ stack'[th2][k - 1].t = stack'[th2][k].t
            /\ stack'[th2][k - 1].new = DEPHOLD
    BY DEF StackOK, CommitCallOK
  <2> QED
    BY <2>1, <2>2 DEF CommitCallOK, Top, Begun
<1> QED
  BY <1>1, <1>2, <1>3, <1>4, <1>5 DEF StackOK

\* A frame f that takes the place of the top of th's stack, or goes above it:
\* what Task_commit is waiting for does not change.
Follows(th, f) ==
    Top(th).pc \in Updating /\ Top(th).new = DEPHOLD =>
        f.pc \in Updating /\ f.t = Top(th).t /\ f.new = DEPHOLD

LEMMA OldFrames ==
  ASSUME StackOK, GraphType, GraphType', DepsOK, NEW th \in Thread, Grow(th)
  PROVE  stack \in [Thread -> Seq(GoodFrame')]
  BY FrameStable, SeqMono DEF StackOK, FramesOK

LEMMA GotoKeeps ==
  ASSUME StackOK, GraphType, GraphType', DepsOK, NEW th \in Thread, Grow(th),
         Alone(th), stack[th] # <<>>,
         NEW f \in GoodFrame', Goto(th, f), Follows(th, f), TopOK(th, f)
  PROVE  StackOK'
<1>1. stack \in [Thread -> Seq(GoodFrame')]
  BY OldFrames
<1>2. /\ stack' \in [Thread -> Seq(GoodFrame')]
      /\ \A th2 \in Thread : th2 # th => stack'[th2] = stack[th2]
      /\ stack'[th] # <<>>
      /\ Len(stack'[th]) = Len(stack[th])
      /\ Head(stack'[th]) = f
      /\ stack'[th][1] = f
      /\ \A k \in 2..Len(stack[th]) : stack'[th][k] = stack[th][k]
  BY <1>1, GotoShape
<1>3. Len(stack[th]) \in Nat /\ Top(th) = stack[th][1]
  BY <1>1, PopFacts DEF Top
<1>4. ASSUME NEW k \in 2..Len(stack'[th])
      PROVE  /\ stack'[th][k].pc \in Calling
             /\ stack'[th][k].pc = "commit" =>
                  /\ stack'[th][k - 1].pc \in Updating
                  /\ stack'[th][k - 1].t = stack'[th][k].t
                  /\ stack'[th][k - 1].new = DEPHOLD
  <2>1. stack'[th][k] = stack[th][k] /\ stack[th][k].pc \in Calling
    BY <1>2 DEF StackOK, CallersOK
  <2>2. stack[th][k].pc = "commit" =>
          /\ stack[th][k - 1].pc \in Updating
          /\ stack[th][k - 1].t = stack[th][k].t
          /\ stack[th][k - 1].new = DEPHOLD
    BY <1>2 DEF StackOK, CommitCallOK
  <2>3. CASE k = 2
    BY <1>2, <1>3, <2>1, <2>2, <2>3 DEF Follows
  <2>4. CASE k # 2
    <3>1. k - 1 \in 2..Len(stack[th])
      BY <1>2, <1>3, <2>4
    <3> QED
      BY <1>2, <2>1, <2>2, <3>1
  <2> QED
    BY <2>3, <2>4
<1> QED
  BY <1>2, <1>4, StackKeeps

LEMMA CallKeeps ==
  ASSUME StackOK, GraphType, GraphType', DepsOK, NEW th \in Thread, Grow(th),
         Alone(th), stack[th] # <<>>,
         NEW g \in GoodFrame', NEW f \in GoodFrame', Call(th, g, f),
         f.pc \in Calling \ {"commit"}, Follows(th, f), TopOK(th, g)
  PROVE  StackOK'
<1>1. stack \in [Thread -> Seq(GoodFrame')]
  BY OldFrames
<1>2. /\ stack' \in [Thread -> Seq(GoodFrame')]
      /\ \A th2 \in Thread : th2 # th => stack'[th2] = stack[th2]
      /\ stack'[th] # <<>>
      /\ Len(stack'[th]) = Len(stack[th]) + 1
      /\ Head(stack'[th]) = g
      /\ stack'[th][1] = g
      /\ stack'[th][2] = f
      /\ \A k \in 3..(Len(stack[th]) + 1) : stack'[th][k] = stack[th][k - 1]
  BY <1>1, CallShape
<1>3. Len(stack[th]) \in Nat /\ Top(th) = stack[th][1]
  BY <1>1, PopFacts DEF Top
<1>4. ASSUME NEW k \in 2..Len(stack'[th])
      PROVE  /\ stack'[th][k].pc \in Calling
             /\ stack'[th][k].pc = "commit" =>
                  /\ stack'[th][k - 1].pc \in Updating
                  /\ stack'[th][k - 1].t = stack'[th][k].t
                  /\ stack'[th][k - 1].new = DEPHOLD
  <2>1. CASE k = 2
    BY <1>2, <2>1 DEF Calling
  <2>2. CASE k # 2
    <3> DEFINE j == k - 1
    <3>1. j \in 2..Len(stack[th]) /\ stack'[th][k] = stack[th][j]
      BY <1>2, <1>3, <2>2
    <3>2. /\ stack[th][j].pc \in Calling
          /\ stack[th][j].pc = "commit" =>
               /\ stack[th][j - 1].pc \in Updating
               /\ stack[th][j - 1].t = stack[th][j].t
               /\ stack[th][j - 1].new = DEPHOLD
      BY <3>1 DEF StackOK, CallersOK, CommitCallOK
    <3>3. CASE k = 3
      BY <1>2, <1>3, <3>1, <3>2, <3>3 DEF Follows
    <3>4. CASE k # 3
      <4>0. k - 1 \in 3..(Len(stack[th]) + 1)
        BY <1>2, <1>3, <2>2, <3>4
      <4>1. stack'[th][k - 1] = stack[th][j - 1]
        BY <1>2, <4>0
      <4> QED
        BY <3>1, <3>2, <4>1
    <3> QED
      BY <3>3, <3>4
  <2> QED
    BY <2>1, <2>2
<1> QED
  BY <1>2, <1>4, StackKeeps

\* A caller goes on after the callee: only Task_commit needs something from it.
LEMMA ReturnKeeps ==
  ASSUME StackOK, GraphType, GraphType', DepsOK, NEW th \in Thread, Grow(th),
         Alone(th), stack[th] # <<>>, Return(th),
         Top(th).pc \in Updating /\ Top(th).new = DEPHOLD
            => (success'[th] => status'[Top(th).t] >= DEPHOLD)
  PROVE  StackOK'
<1>1. stack \in [Thread -> Seq(GoodFrame')]
  BY OldFrames
<1>2. /\ stack' \in [Thread -> Seq(GoodFrame')]
      /\ \A th2 \in Thread : th2 # th => stack'[th2] = stack[th2]
      /\ Len(stack'[th]) = Len(stack[th]) - 1
      /\ Len(stack[th]) \in Nat \ {0}
      /\ \A k \in 1..(Len(stack[th]) - 1) : stack'[th][k] = stack[th][k + 1]
      /\ stack'[th] # <<>> =>
           /\ Len(stack[th]) > 1
           /\ Head(stack'[th]) = stack[th][2]
  BY <1>1, ReturnShape
<1>3. Top(th) = stack[th][1]
  BY <1>1, PopFacts DEF Top
<1>4. stack'[th] # <<>> => TopOK(th, Head(stack'[th]))
  <2> SUFFICES ASSUME stack'[th] # <<>> PROVE TopOK(th, stack[th][2])
    BY <1>2
  <2>1. 2 \in 2..Len(stack[th])
    BY <1>2
  <2>2. /\ stack[th][2].pc \in Calling
        /\ stack[th][2].pc = "commit" =>
             /\ stack[th][2 - 1].pc \in Updating
             /\ stack[th][2 - 1].t = stack[th][2].t
             /\ stack[th][2 - 1].new = DEPHOLD
    BY <2>1 DEF StackOK, CallersOK, CommitCallOK
  <2> QED
    BY <1>3, <2>2 DEF TopOK, Calling, Locking
<1>5. ASSUME NEW k \in 2..Len(stack'[th])
      PROVE  /\ stack'[th][k].pc \in Calling
             /\ stack'[th][k].pc = "commit" =>
                  /\ stack'[th][k - 1].pc \in Updating
                  /\ stack'[th][k - 1].t = stack'[th][k].t
                  /\ stack'[th][k - 1].new = DEPHOLD
  <2>1. k + 1 \in 2..Len(stack[th])
    BY <1>2
  <2>2. /\ stack[th][k + 1].pc \in Calling
        /\ stack[th][k + 1].pc = "commit" =>
             /\ stack[th][(k + 1) - 1].pc \in Updating
             /\ stack[th][(k + 1) - 1].t = stack[th][k + 1].t
             /\ stack[th][(k + 1) - 1].new = DEPHOLD
    BY <2>1 DEF StackOK, CallersOK, CommitCallOK
  <2>3. stack'[th][k] = stack[th][k + 1] /\ stack'[th][k - 1] = stack[th][k]
    <3>1. k \in 1..(Len(stack[th]) - 1) /\ k - 1 \in 1..(Len(stack[th]) - 1)
      BY <1>2
    <3>2. (k - 1) + 1 = k
      OBVIOUS
    <3>3. stack'[th][k - 1] = stack[th][(k - 1) + 1]
      BY <1>2, <3>1
    <3> QED
      BY <1>2, <3>1, <3>2, <3>3
  <2>4. (k + 1) - 1 = k
    OBVIOUS
  <2> QED
    BY <2>2, <2>3, <2>4
<1> QED
  BY <1>2, <1>4, <1>5, StackKeeps

-----------------------------------------------------------------------------
(* Type correctness, in the three parts a step treats apart. *)

RestType ==
    /\ ep \in [Task -> BOOLEAN]
    /\ counter \in [Task -> Int]
    /\ finalized \in [Task -> BOOLEAN]
    /\ hasJob \in [Task -> BOOLEAN]
    /\ jobData \in [Task -> BOOLEAN]
    /\ depStatus \in [Dep -> Status]
    /\ depChild \in [Dep -> BOOLEAN]
    /\ depParent \in [Dep -> BOOLEAN]
    /\ readers \in [Task -> SUBSET Thread]
    /\ tasks \in Seq(Task)
    /\ listReaders \in SUBSET Thread
    /\ queue \in [Level -> Seq(Task)]
    /\ njob \in Nat
    /\ success \in [Thread -> BOOLEAN]
    /\ script \in [App -> Seq(ApiCall)]
    /\ fault \in {"none", "null_engine", "null_job", "stale_counter"}
    /\ runs \in [Task -> Nat]

LEMMA TypeParts ==
    TypeOK <=> GraphType /\ RestType /\ stack \in [Thread -> Seq(Frame)]
  BY DEF TypeOK, GraphType, RestType

LEMMA FramesType ==
  ASSUME StackOK PROVE stack \in [Thread -> Seq(Frame)]
<1>1. GoodFrame \subseteq Frame
  BY DEF GoodFrame
<1> QED
  BY <1>1, SeqMono DEF StackOK, FramesOK

LEMMA InvParts ==
    IInv <=> GraphType /\ RestType /\ StackOK /\ DepsOK /\ ReleasedOK
  BY TypeParts, FramesType DEF IInv

LEMMA TopFacts ==
  ASSUME IInv, NEW th \in Thread, stack[th] # <<>>
  PROVE  /\ Top(th) \in Frame /\ Top(th) \in GoodFrame /\ FrameOK(Top(th))
         /\ Top(th).t \in Task /\ Top(th).p \in Task
         /\ Top(th).old \in Status /\ Top(th).new \in Status
         /\ Top(th).i \in Nat /\ Top(th).n \in Nat
<1>1. stack[th] \in Seq(GoodFrame)
  BY DEF IInv, StackOK, FramesOK
<1>2. Top(th) \in GoodFrame
  BY <1>1, PopFacts DEF Top
<1> QED
  BY <1>2 DEF GoodFrame, Frame

-----------------------------------------------------------------------------
(* Steps that leave statuses, dependencies and locks alone. *)

Idle(th) ==
    /\ UNCHANGED <<status, parents, childs, ndep, readers>>
    /\ \A th2 \in Thread : th2 # th => success'[th2] = success[th2]

\* The labels TopOK asks something of.
Guarded == Locking \cup {"commit", "commit_init"}

Quiet(th) == UNCHANGED <<status, parents, childs, ndep>> /\ Alone(th)

LEMMA QuietGraph ==
  ASSUME IInv, NEW th \in Thread, Quiet(th)
  PROVE  /\ Grow(th) /\ Alone(th)
         /\ GraphType /\ GraphType' /\ DepsOK' /\ ReleasedOK'
         /\ StackOK /\ DepsOK
         /\ GoodFrame \subseteq GoodFrame'
<1>1. GraphType /\ RestType /\ StackOK /\ DepsOK /\ ReleasedOK
  BY InvParts
<1>2. GraphType'
  BY <1>1 DEF Quiet, GraphType
<1>3. Grow(th) /\ Alone(th)
  <2>1. \A t \in Task : status[t] \in Nat /\ Len(childs[t]) \in Nat
    <3> TAKE t \in Task
    <3>1. status[t] \in Status /\ childs[t] \in Seq(Dep)
      BY <1>1 DEF GraphType
    <3>2. Len(childs[t]) \in Nat
      BY <3>1
    <3> QED
      BY <3>1, <3>2, StatusType
  <2> QED
    BY <2>1 DEF Quiet, Grow, Counted
<1>4. DepsOK'
  BY <1>1 DEF Quiet, DepsOK, Counted, Begun, Needs
<1>5. ReleasedOK'
  <2> SUFFICES ASSUME NEW t \in Task, status'[t] \in Released
               PROVE  Counted(t)' /\ MayRelease(t)'
    BY DEF ReleasedOK
  <2>1. Counted(t) /\ MayRelease(t)
    BY <1>1 DEF Quiet, ReleasedOK
  <2> QED
    BY <1>1, <1>2, <1>3, <2>1, ReleaseStable DEF Counted
<1> QED
  BY <1>1, <1>2, <1>3, <1>4, <1>5, FrameStable

LEMMA IdleGraph ==
  ASSUME IInv, NEW th \in Thread, Idle(th)
  PROVE  /\ Grow(th) /\ Alone(th)
         /\ GraphType /\ GraphType' /\ DepsOK' /\ ReleasedOK'
         /\ StackOK /\ DepsOK
         /\ GoodFrame \subseteq GoodFrame'
<1>1. Quiet(th)
  BY DEF Idle, Quiet, Alone
<1> QED
  BY <1>1, QuietGraph

LEMMA InvMade ==
  ASSUME GraphType', RestType', StackOK', DepsOK', ReleasedOK'
  PROVE  IInv'
<1>1. stack' \in [Thread -> Seq(Frame)]
  <2>1. GoodFrame' \subseteq Frame
    BY DEF GoodFrame
  <2> QED
    BY <2>1, SeqMono DEF StackOK, FramesOK
<1> QED
  BY <1>1 DEF IInv, TypeOK, GraphType, RestType

LEMMA IdleInv ==
  ASSUME IInv, NEW th \in Thread, Idle(th), RestType', StackOK'
  PROVE  IInv'
  BY IdleGraph, InvMade

LEMMA GotoIdle ==
  ASSUME IInv, NEW th \in Thread, Idle(th), RestType', stack[th] # <<>>,
         NEW f \in GoodFrame, Goto(th, f), Follows(th, f), f.pc \notin Guarded
  PROVE  IInv'
<1>1. TopOK(th, f)
  BY DEF TopOK, Guarded, Locking
<1>2. StackOK'
  BY <1>1, IdleGraph, GotoKeeps
<1> QED
  BY <1>2, IdleInv

LEMMA CallIdle ==
  ASSUME IInv, NEW th \in Thread, Idle(th), RestType', stack[th] # <<>>,
         NEW g \in GoodFrame, NEW f \in GoodFrame, Call(th, g, f),
         f.pc \in Calling \ {"commit"}, Follows(th, f), g.pc \notin Guarded
  PROVE  IInv'
<1>1. TopOK(th, g)
  BY DEF TopOK, Guarded, Locking
<1>2. StackOK'
  BY <1>1, IdleGraph, CallKeeps
<1> QED
  BY <1>2, IdleInv

\* A thread that runs nothing starts with the frame f, or with g above f.
LEMMA StartIdle ==
  ASSUME IInv, NEW th \in Thread, Idle(th), RestType', stack[th] = <<>>,
         NEW f \in GoodFrame, stack' = [stack EXCEPT ![th] = <<f>>],
         f.pc \notin Guarded
  PROVE  IInv'
<1>1. stack \in [Thread -> Seq(GoodFrame')] /\ f \in GoodFrame'
  BY IdleGraph, OldFrames
<1>2. /\ stack' \in [Thread -> Seq(GoodFrame')]
      /\ \A th2 \in Thread : th2 # th => stack'[th2] = stack[th2]
      /\ stack'[th] = <<f>> /\ Head(stack'[th]) = f /\ Len(stack'[th]) = 1
  BY <1>1
<1>3. TopOK(th, f)
  BY DEF TopOK, Guarded, Locking
<1>4. StackOK'
  <2>1. 2..Len(stack'[th]) = {}
    BY <1>2
  <2> QED
    BY <1>2, <1>3, <2>1, IdleGraph, StackKeeps
<1> QED
  BY <1>4, IdleInv

LEMMA StartCommit ==
  ASSUME IInv, NEW th \in Thread, Idle(th), RestType', stack[th] = <<>>,
         NEW g \in GoodFrame, NEW f \in GoodFrame,
         stack' = [stack EXCEPT ![th] = <<g, f>>],
         g.pc = "cas", f.pc = "commit", g.t = f.t, g.new = DEPHOLD
  PROVE  IInv'
<1>1. stack \in [Thread -> Seq(GoodFrame')] /\ f \in GoodFrame' /\ g \in GoodFrame'
  BY IdleGraph, OldFrames
<1>2. /\ stack' \in [Thread -> Seq(GoodFrame')]
      /\ \A th2 \in Thread : th2 # th => stack'[th2] = stack[th2]
      /\ stack'[th] = <<g, f>> /\ Head(stack'[th]) = g /\ Len(stack'[th]) = 2
      /\ stack'[th][1] = g /\ stack'[th][2] = f
  BY <1>1
<1>3. TopOK(th, g)
  BY DEF TopOK, Locking
<1>4. StackOK'
  <2>1. ASSUME NEW k \in 2..Len(stack'[th])
        PROVE  /\ stack'[th][k].pc \in Calling
               /\ stack'[th][k].pc = "commit" =>
                    /\ stack'[th][k - 1].pc \in Updating
                    /\ stack'[th][k - 1].t = stack'[th][k].t
                    /\ stack'[th][k - 1].new = DEPHOLD
    <3>1. k = 2
      BY <1>2
    <3> QED
      BY <1>2, <3>1 DEF Calling, Updating
  <2> QED
    BY <1>2, <1>3, <2>1, IdleGraph, StackKeeps
<1> QED
  BY <1>4, IdleInv

\* A step that leaves every stack alone, or stutters.
LEMMA StackSame ==
  ASSUME IInv, NEW th \in Thread, Idle(th), RestType', stack' = stack,
         success'[th] = success[th]
  PROVE  IInv'
<1>1. /\ GraphType /\ StackOK
      /\ \A th2 \in Thread : success'[th2] = success[th2]
  BY InvParts DEF Idle
<1>2. LockOK' /\ PushOK' /\ CallersOK' /\ CommitCallOK'
  BY <1>1 DEF StackOK, LockOK, PushOK, CallersOK, CommitCallOK, Top, Counted, Begun,
              Idle
<1>3. FramesOK'
  BY IdleGraph, OldFrames DEF FramesOK
<1>4. StackOK'
  BY <1>2, <1>3 DEF StackOK
<1> QED
  BY <1>4, IdleInv

LEMMA ReturnIdle ==
  ASSUME IInv, NEW th \in Thread, Idle(th), RestType', stack[th] # <<>>,
         Return(th),
         Top(th).pc \in Updating /\ Top(th).new = DEPHOLD
            => (success'[th] => status[Top(th).t] >= DEPHOLD)
  PROVE  IInv'
<1>1. StackOK'
  BY IdleGraph, ReturnKeeps DEF Idle
<1> QED
  BY <1>1, IdleInv

-----------------------------------------------------------------------------
(* The frames the actions make. *)

\* The labels FrameOK asks something of.
Bound == Updating \cup Wiring \cup {"commit_init"}

LEMMA UpdateGood ==
  ASSUME NEW t \in Task, NEW o \in Status, NEW n \in Status,
         <<o, n>> \in Edge(t), n = READY => Counted(t) /\ MayRelease(t)
  PROVE  /\ Update(t, o, n) \in GoodFrame
         /\ Update(t, o, n).pc = "cas"
         /\ Update(t, o, n).t = t
         /\ Update(t, o, n).new = n
  BY DEF Update, GoodFrame, FrameOK, Frame, Label, Updating, Wiring

LEMMA EnterGood ==
  ASSUME NEW pc \in Label \ Bound, NEW t \in Task, NEW p \in Task
  PROVE  Enter(pc, t, p) \in GoodFrame /\ Enter(pc, t, p).pc = pc
  BY DEF Enter, GoodFrame, FrameOK, Frame, Bound, Updating, Wiring, Status, INVAL

LEMMA PcGood ==
  ASSUME NEW f \in Frame, NEW pc \in Label \ Bound
  PROVE  [f EXCEPT !.pc = pc] \in GoodFrame /\ [f EXCEPT !.pc = pc].pc = pc
  BY DEF GoodFrame, FrameOK, Frame, Bound, Updating, Wiring

Moved(f, pc, i) == [f EXCEPT !.pc = pc, !.i = i]

LEMMA PcIGood ==
  ASSUME NEW f \in Frame, NEW pc \in Label \ Bound, NEW i \in Nat
  PROVE  Moved(f, pc, i) \in GoodFrame /\ Moved(f, pc, i).pc = pc
  BY DEF GoodFrame, FrameOK, Frame, Bound, Updating, Wiring, Moved

\* Taski_update_status goes on: the frame keeps its task and its transition.
LEMMA UpdatingGood ==
  ASSUME NEW f \in GoodFrame, f.pc \in Updating \ {"cas"},
         NEW pc \in Updating \ {"cas"}, NEW i \in Nat \ {0},
         pc = "change" => i \in 1..Len(childs[f.t])
  PROVE  /\ Moved(f, pc, i) \in GoodFrame
         /\ Moved(f, pc, i).pc = pc
         /\ Moved(f, pc, i).t = f.t
         /\ Moved(f, pc, i).new = f.new
<1> DEFINE g == Moved(f, pc, i)
<1>1. f \in Frame /\ FrameOK(f)
  BY DEF GoodFrame
<1>2. /\ g \in Frame /\ g.pc = pc /\ g.i = i
      /\ g.t = f.t /\ g.new = f.new /\ g.old = f.old
  BY <1>1 DEF Frame, Updating, Label, Moved
<1>3. FrameOK(g)
  BY <1>1, <1>2 DEF FrameOK, Updating, Wiring
<1> QED
  BY <1>2, <1>3 DEF GoodFrame

-----------------------------------------------------------------------------
(* Taski_update_status, without its compare-and-swap. *)

LEMMA CasFailsStep ==
  ASSUME IInv, NEW th \in Thread, CasFails(th)
  PROVE  IInv'
<1>1. stack[th] # <<>> /\ Return(th) /\ success' = [success EXCEPT ![th] = FALSE]
  BY DEF CasFails, At
<1>2. Idle(th)
  BY <1>1 DEF CasFails, task, job, dep, lock, Idle
<1>3. RestType'
  BY <1>1, InvParts DEF CasFails, task, job, dep, lock, RestType
<1>4. success'[th] = FALSE
  BY <1>1, InvParts DEF RestType
<1> QED
  BY <1>1, <1>2, <1>3, <1>4, ReturnIdle

LEMMA UpdatingFacts ==
  ASSUME IInv, NEW th \in Thread, stack[th] # <<>>,
         Top(th).pc \in Updating \ {"cas"}
  PROVE  /\ Top(th) \in GoodFrame /\ Top(th) \in Frame /\ Top(th).t \in Task
         /\ Top(th).i \in Nat \ {0} /\ Top(th).new \in Status
         /\ Top(th).new = COMPLETED => status[Top(th).t] = COMPLETED
         /\ status[Top(th).t] >= Top(th).new
         /\ Top(th).new = READY => Counted(Top(th).t) /\ MayRelease(Top(th).t)
         /\ <<Top(th).old, Top(th).new>> \in Edge(Top(th).t)
         /\ Top(th).pc = "change" => Top(th).i \in 1..Len(childs[Top(th).t])
<1> DEFINE f == Top(th)
<1>1. f \in GoodFrame /\ f \in Frame /\ FrameOK(f) /\ f.t \in Task /\ f.i \in Nat
      /\ f.new \in Status
  BY TopFacts
<1> HIDE DEF f
<1>2. f.pc \in Updating \ {"cas"}
  BY DEF f
<1>3. /\ f.i > 0
      /\ f.new = COMPLETED => status[f.t] = COMPLETED
      /\ status[f.t] >= f.new
      /\ f.new = READY => Counted(f.t) /\ MayRelease(f.t)
      /\ <<f.old, f.new>> \in Edge(f.t)
      /\ f.pc = "change" => f.i \in 1..Len(childs[f.t])
  BY <1>1, <1>2 DEF FrameOK
<1>4. f.i \in Nat \ {0}
  BY <1>1, <1>3
<1> QED
  BY <1>1, <1>3, <1>4 DEF f

\* One of its steps that makes no call.
LEMMA UpdatingGoto ==
  ASSUME IInv, NEW th \in Thread, stack[th] # <<>>, Idle(th), RestType',
         Top(th).pc \in Updating \ {"cas"},
         NEW pc \in Updating \ {"cas"}, NEW i \in Nat \ {0},
         pc = "change" => i \in 1..Len(childs[Top(th).t]),
         Goto(th, Moved(Top(th), pc, i))
  PROVE  IInv'
<1> DEFINE f == Top(th)
           g == Moved(f, pc, i)
<1>1. /\ f \in GoodFrame /\ f.pc \in Updating \ {"cas"}
      /\ pc = "change" => i \in 1..Len(childs[f.t])
  BY TopFacts
<1>2. g \in GoodFrame /\ g.pc = pc /\ g.t = f.t /\ g.new = f.new
  <2> HIDE DEF f
  <2> QED
    BY <1>1, UpdatingGood
<1>3. Goto(th, g)
  OBVIOUS
<1> HIDE DEF g, f
<1>4. Follows(th, g)
  BY <1>2 DEF Follows, f
<1>5. g.pc \notin Guarded
  BY <1>2 DEF Guarded, Locking, Updating
<1> QED
  BY <1>2, <1>3, <1>4, <1>5, GotoIdle

LEMMA NotifyStep ==
  ASSUME IInv, NEW th \in Thread, Notify(th)
  PROVE  IInv'
<1> DEFINE f == Top(th)
           d == childs[f.t][f.i]
<1>1. stack[th] # <<>> /\ f.pc = "notify" /\ f.i <= Len(childs[f.t])
  BY DEF Notify, At
<1>2. f \in Frame /\ f.t \in Task /\ f.i \in Nat \ {0} /\ f.new \in Status
  BY <1>1, UpdatingFacts DEF Updating
<1>3. Idle(th)
  BY DEF Notify, task, job, lock, Idle
<1>4. childs[f.t] \in Seq(Dep)
  BY <1>2, InvParts DEF GraphType
<1>5. depStatus' \in [Dep -> Status]
  BY <1>2, InvParts DEF Notify, RestType
<1>6. RestType'
  BY <1>5, InvParts DEF Notify, task, job, lock, RestType
<1>7. CASE Step(th, "change")
  <2>1. Goto(th, Moved(f, "change", f.i))
    BY <1>2, <1>7 DEF Step, Frame, Moved
  <2>2. f.i \in 1..Len(childs[f.t])
    BY <1>1, <1>2, <1>4
  <2>3. f.pc \in Updating \ {"cas"} /\ "change" \in Updating \ {"cas"}
    BY <1>1 DEF Updating
  <2> QED
    BY <1>1, <1>2, <1>3, <1>6, <2>1, <2>2, <2>3, UpdatingGoto
<1>8. CASE StepTo(th, "notify", f.i + 1)
  <2>1. Goto(th, Moved(f, "notify", f.i + 1))
    BY <1>8 DEF StepTo, Moved
  <2>2. f.i + 1 \in Nat \ {0}
    BY <1>2
  <2>3. f.pc \in Updating \ {"cas"} /\ "notify" \in Updating \ {"cas"}
    BY <1>1 DEF Updating
  <2> QED
    BY <1>1, <1>3, <1>6, <2>1, <2>2, <2>3, UpdatingGoto
<1> QED
  BY <1>7, <1>8 DEF Notify

LEMMA NotifyEndsStep ==
  ASSUME IInv, NEW th \in Thread, NotifyEnds(th)
  PROVE  IInv'
<1> DEFINE f == Top(th)
<1>1. stack[th] # <<>> /\ f.pc = "notify"
  BY DEF NotifyEnds, At
<1>2. f \in Frame /\ f.i \in Nat \ {0}
  BY <1>1, UpdatingFacts DEF Updating
<1>3. Idle(th)
  BY DEF NotifyEnds, task, job, lock, Idle
<1>4. RestType'
  BY InvParts DEF NotifyEnds, task, job, dep, lock, RestType
<1>5. Goto(th, Moved(f, "act", f.i))
  BY <1>2 DEF NotifyEnds, Step, Frame, Moved
<1>6. f.pc \in Updating \ {"cas"} /\ "act" \in Updating \ {"cas"}
  BY <1>1 DEF Updating
<1> QED
  BY <1>1, <1>2, <1>3, <1>4, <1>5, <1>6, UpdatingGoto

LEMMA ChangeStep ==
  ASSUME IInv, NEW th \in Thread, Change(th)
  PROVE  IInv'
<1> DEFINE f == Top(th)
           d == childs[f.t][f.i]
           c == d[1]
           after == Verdict(c, f.new)
           next  == Moved(f, "notify", f.i + 1)
<1>1. stack[th] # <<>> /\ f.pc = "change"
  BY DEF Change, At
<1>2. /\ f \in GoodFrame /\ f \in Frame
      /\ f.t \in Task /\ f.i \in Nat \ {0} /\ f.new \in Status
      /\ f.i \in 1..Len(childs[f.t])
      /\ f.new = COMPLETED => status[f.t] = COMPLETED
  BY <1>1, UpdatingFacts DEF Updating
<1>3. d \in Dep /\ c \in Task /\ Counted(c) /\ f.t \in Needs(c)
  <2>1. childs[f.t] \in Seq(Dep)
    BY <1>2, InvParts DEF GraphType
  <2>2. d \in Dep
    BY <1>2, <2>1
  <2> QED
    BY <1>2, <2>2, InvParts DEF DepsOK, Dep
<1>4. Idle(th)
  BY DEF Change, job, dep, lock, Idle
<1>5. RestType'
  <2>1. counter' \in [Task -> Int]
    <3>1. counter \in [Task -> Int]
      BY InvParts DEF RestType
    <3>2. counter' = [counter EXCEPT ![c] = IF f.new = COMPLETED THEN @ - 1 ELSE @]
      BY DEF Change, StatusChange
    <3> HIDE DEF c, d, f
    <3> QED
      BY <1>3, <3>1, <3>2
  <2>2. fault' \in {"none", "null_engine", "null_job", "stale_counter"}
    BY InvParts DEF Change, StatusChange, RestType
  <2> QED
    BY <2>1, <2>2, InvParts DEF Change, job, dep, lock, RestType
<1>6. f.pc \in Updating \ {"cas"} /\ "notify" \in Updating \ {"cas"}
      /\ f.i + 1 \in Nat \ {0} /\ "notify" # "change"
  BY <1>1, <1>2 DEF Updating
<1>7. CASE Goto(th, next)
  BY <1>1, <1>4, <1>5, <1>6, <1>7, UpdatingGoto
<1>8. CASE Call(th, Update(c, DEPHOLD, after), next) /\ after # DEPHOLD
  <2>1. next \in GoodFrame /\ next.pc = "notify" /\ next.t = f.t /\ next.new = f.new
    <3> HIDE DEF f
    <3> QED
      BY <1>2, <1>6, UpdatingGood
  <2>2. after \in {READY, ABORTED} /\ (after = READY => f.new = COMPLETED)
    BY <1>8 DEF Verdict, READY, ABORTED, COMPLETED, FAILED
  <2>3. after = READY => Counted(c) /\ MayRelease(c)
    BY <1>2, <1>3, <2>2 DEF MayRelease
  <2>4. <<DEPHOLD, after>> \in Edge(c) /\ DEPHOLD \in Status /\ after \in Status
    BY <2>2 DEF Edge, Status
  <2> HIDE DEF after, next, c, f
  <2>5. /\ Update(c, DEPHOLD, after) \in GoodFrame
        /\ Update(c, DEPHOLD, after).pc = "cas"
    BY <1>3, <2>3, <2>4, UpdateGood DEF c
  <2>6. next.pc \in Calling \ {"commit"} /\ Follows(th, next)
        /\ Update(c, DEPHOLD, after).pc \notin Guarded
    BY <2>1, <2>5 DEF Calling, Follows, f, Updating, Guarded, Locking
  <2> QED
    BY <1>1, <1>4, <1>5, <1>8, <2>1, <2>5, <2>6, CallIdle
<1> QED
  BY <1>7, <1>8 DEF Change, Moved

LEMMA ActReadyStep ==
  ASSUME IInv, NEW th \in Thread, ActReady(th)
  PROVE  IInv'
<1> DEFINE f == Top(th)
<1>1. stack[th] # <<>> /\ f.pc = "act" /\ f.new = READY
  BY DEF ActReady, At
<1>2. f \in Frame /\ f.t \in Task /\ Counted(f.t) /\ MayRelease(f.t)
  BY <1>1, UpdatingFacts DEF Updating
<1>3. Idle(th)
  BY DEF ActReady, task, job, dep, lock, Idle
<1>4. RestType'
  BY InvParts DEF ActReady, task, job, dep, lock, RestType
<1>5. CASE f.t \in Handled
  <2> DEFINE g == Update(f.t, READY, QUEUE)
             h == [f EXCEPT !.pc = "queue_job"]
  <2>1. /\ <<READY, QUEUE>> \in Edge(f.t) /\ READY \in Status /\ QUEUE \in Status
        /\ QUEUE # READY
    BY <1>5 DEF Edge, Status, QUEUE, READY
  <2>2. g \in GoodFrame /\ g.pc = "cas"
    BY <1>2, <2>1, UpdateGood
  <2>3. h \in GoodFrame /\ h.pc = "queue_job"
    BY <1>2, PcGood DEF Label, Bound, Updating, Wiring
  <2>4. Call(th, g, h)
    BY <1>5 DEF ActReady
  <2> HIDE DEF g, h
  <2>5. h.pc \in Calling \ {"commit"} /\ g.pc \notin Guarded
    BY <2>2, <2>3 DEF Calling, Guarded, Locking
  <2>6. Follows(th, h)
    BY <1>1 DEF Follows, READY, DEPHOLD
  <2> QED
    BY <1>1, <1>3, <1>4, <2>2, <2>3, <2>4, <2>5, <2>6, CallIdle
<1>6. CASE f.t \notin Handled
  <2> DEFINE g == Update(f.t, READY, FINAL)
  <2>1. /\ <<READY, FINAL>> \in Edge(f.t) /\ READY \in Status /\ FINAL \in Status
        /\ FINAL # READY
    BY <1>6 DEF Edge, Status, FINAL, READY
  <2>2. g \in GoodFrame /\ g.pc = "cas"
    BY <1>2, <2>1, UpdateGood
  <2>3. Goto(th, g)
    BY <1>6 DEF ActReady
  <2> HIDE DEF g
  <2>4. Follows(th, g) /\ g.pc \notin Guarded
    BY <1>1, <2>2 DEF Follows, READY, DEPHOLD, Guarded, Locking
  <2> QED
    BY <1>1, <1>3, <1>4, <2>2, <2>3, <2>4, GotoIdle
<1> QED
  BY <1>5, <1>6

LEMMA ActFinalStep ==
  ASSUME IInv, NEW th \in Thread, ActFinal(th)
  PROVE  IInv'
<1> DEFINE f == Top(th)
           g == Update(f.t, FINAL, COMPLETED)
<1>1. stack[th] # <<>> /\ f.pc = "act" /\ f.new = FINAL
  BY DEF ActFinal, At
<1>2. f \in Frame /\ f.t \in Task
  BY <1>1, TopFacts
<1>3. Idle(th)
  BY DEF ActFinal, job, dep, lock, Idle
<1>4. RestType'
  <2>1. ep' \in [Task -> BOOLEAN] /\ finalized' \in [Task -> BOOLEAN]
    BY <1>2, InvParts DEF ActFinal, RestType, HasHandler
  <2> QED
    BY <2>1, InvParts DEF ActFinal, job, dep, lock, RestType
<1>5. /\ <<FINAL, COMPLETED>> \in Edge(f.t) /\ FINAL \in Status /\ COMPLETED \in Status
      /\ COMPLETED # READY
  BY DEF Edge, Status, COMPLETED, READY
<1>6. g \in GoodFrame /\ g.pc = "cas"
  BY <1>2, <1>5, UpdateGood
<1>7. Goto(th, g)
  BY DEF ActFinal
<1> HIDE DEF g
<1>8. Follows(th, g) /\ g.pc \notin Guarded
  BY <1>1, <1>6 DEF Follows, FINAL, DEPHOLD, Guarded, Locking
<1> QED
  BY <1>1, <1>3, <1>4, <1>6, <1>7, <1>8, GotoIdle

LEMMA ActOtherStep ==
  ASSUME IInv, NEW th \in Thread, ActOther(th)
  PROVE  IInv'
<1>1. stack[th] # <<>> /\ Top(th).pc = "act" /\ Return(th)
  BY DEF ActOther, At
<1>2. status[Top(th).t] >= Top(th).new
  BY <1>1, UpdatingFacts DEF Updating
<1>3. Idle(th)
  BY DEF ActOther, task, job, dep, lock, Idle
<1>4. RestType'
  BY InvParts DEF ActOther, task, job, dep, lock, RestType
<1> QED
  BY <1>1, <1>2, <1>3, <1>4, ReturnIdle

-----------------------------------------------------------------------------
(* Taski_queue. *)

\* A step outside Taski_update_status to a label FrameOK asks nothing of.
LEMMA PlainGoto ==
  ASSUME IInv, NEW th \in Thread, stack[th] # <<>>, Idle(th), RestType',
         Top(th).pc \notin Updating,
         NEW f \in GoodFrame, f.pc \notin Guarded, Goto(th, f)
  PROVE  IInv'
<1>1. Follows(th, f)
  BY DEF Follows
<1> QED
  BY <1>1, GotoIdle

LEMMA PlainStep ==
  ASSUME IInv, NEW th \in Thread, stack[th] # <<>>, Idle(th), RestType',
         Top(th).pc \notin Updating,
         NEW pc \in Label \ (Bound \cup Guarded), Step(th, pc)
  PROVE  IInv'
<1> DEFINE f == [Top(th) EXCEPT !.pc = pc]
<1>1. f \in GoodFrame /\ f.pc = pc
  BY TopFacts, PcGood
<1>2. Goto(th, f)
  BY DEF Step
<1> HIDE DEF f
<1> QED
  BY <1>1, <1>2, PlainGoto

LEMMA PlainStepTo ==
  ASSUME IInv, NEW th \in Thread, stack[th] # <<>>, Idle(th), RestType',
         Top(th).pc \notin Updating,
         NEW pc \in Label \ (Bound \cup Guarded), NEW i \in Nat, StepTo(th, pc, i)
  PROVE  IInv'
<1> DEFINE f == Moved(Top(th), pc, i)
<1>1. f \in GoodFrame /\ f.pc = pc
  BY TopFacts, PcIGood
<1>2. Goto(th, f)
  BY DEF StepTo, Moved
<1> HIDE DEF f
<1> QED
  BY <1>1, <1>2, PlainGoto

LEMMA PlainReturn ==
  ASSUME IInv, NEW th \in Thread, stack[th] # <<>>, Idle(th), RestType',
         Top(th).pc \notin Updating, Return(th)
  PROVE  IInv'
  BY ReturnIdle

LEMMA QueueStep ==
  ASSUME IInv, NEW th \in Thread, Queue(th)
  PROVE  IInv'
<1>1. CASE QueueJob(th)
  <2>1. stack[th] # <<>> /\ Top(th).pc = "queue_job" /\ Step(th, "queue_push")
    BY <1>1 DEF QueueJob, At
  <2>2. Idle(th)
    BY <1>1 DEF QueueJob, task, dep, lock, Idle
  <2>3. RestType'
    <3>1. hasJob' \in [Task -> BOOLEAN] /\ jobData' \in [Task -> BOOLEAN]
      BY <1>1, InvParts DEF QueueJob, RestType
    <3> QED
      BY <1>1, <3>1, InvParts DEF QueueJob, task, dep, lock, RestType
  <2>4. /\ "queue_push" \in Label \ (Bound \cup Guarded)
        /\ Top(th).pc \notin Updating
    BY <2>1 DEF Label, Bound, Guarded, Updating, Wiring, Locking
  <2> QED
    BY <2>1, <2>2, <2>3, <2>4, PlainStep
<1>2. CASE QueuePush(th)
  <2>1. stack[th] # <<>> /\ Top(th).pc = "queue_push" /\ Step(th, "queue_inc")
    BY <1>2 DEF QueuePush, At
  <2>2. Idle(th)
    BY <1>2 DEF QueuePush, task, dep, lock, Idle
  <2>3. RestType'
    <3>1. queue' \in [Level -> Seq(Task)]
      <4>1. Top(th).t \in Task /\ queue \in [Level -> Seq(Task)]
        BY <2>1, TopFacts, InvParts DEF RestType
      <4>2. Append(queue[Priority[Top(th).t]], Top(th).t) \in Seq(Task)
        BY <4>1, ConstantsAssumption
      <4> QED
        BY <1>2, <4>1, <4>2 DEF QueuePush
    <3> QED
      BY <1>2, <3>1, InvParts DEF QueuePush, task, dep, lock, RestType
  <2>4. /\ "queue_inc" \in Label \ (Bound \cup Guarded)
        /\ Top(th).pc \notin Updating
    BY <2>1 DEF Label, Bound, Guarded, Updating, Wiring, Locking
  <2> QED
    BY <2>1, <2>2, <2>3, <2>4, PlainStep
<1>3. CASE QueueInc(th)
  <2>1. stack[th] # <<>> /\ Top(th).pc = "queue_inc" /\ Return(th)
    BY <1>3 DEF QueueInc, At
  <2>2. Idle(th)
    BY <1>3 DEF QueueInc, task, dep, lock, Idle
  <2>3. RestType'
    BY <1>3, InvParts DEF QueueInc, task, dep, lock, RestType
  <2>4. Top(th).pc \notin Updating
    BY <2>1 DEF Updating
  <2> QED
    BY <2>1, <2>2, <2>3, <2>4, PlainReturn
<1>4. CASE QueueFault(th)
  <2>1. Idle(th) /\ stack' = stack /\ success' = success
    BY <1>4 DEF QueueFault, task, dep, lock, local, Idle
  <2>2. RestType'
    BY <1>4, InvParts DEF QueueFault, task, job, dep, lock, local, RestType
  <2> QED
    BY <2>1, <2>2, StackSame
<1> QED
  BY <1>1, <1>2, <1>3, <1>4 DEF Queue

-----------------------------------------------------------------------------
(* The scheduler. *)

LEMMA SchedulerGood ==
  ASSUME NEW t \in Task
  PROVE  Scheduler(t) \in GoodFrame /\ Scheduler(t).pc = "pop"
  BY DEF Scheduler, Enter, GoodFrame, FrameOK, Frame, Label, Updating, Wiring, Status

LEMMA SemDecStep ==
  ASSUME IInv, NEW th \in Thread, SemDec(th)
  PROVE  IInv'
<1>1. AnyTask \in Task
  BY ConstantsAssumption DEF AnyTask
<1>2. Idle(th)
  BY DEF SemDec, task, dep, lock, Idle
<1>3. RestType'
  BY InvParts DEF SemDec, task, dep, lock, RestType
<1>4. Scheduler(AnyTask) \in GoodFrame /\ Scheduler(AnyTask).pc \notin Guarded
  BY <1>1, SchedulerGood DEF Guarded, Locking
<1>5. stack[th] = <<>> /\ stack' = [stack EXCEPT ![th] = << Scheduler(AnyTask) >>]
  BY DEF SemDec
<1> QED
  BY <1>2, <1>3, <1>4, <1>5, StartIdle

LEMMA PopStep ==
  ASSUME IInv, NEW th \in Thread, Pop(th)
  PROVE  IInv'
<1> DEFINE f == Top(th)
           t == Head(queue[f.i])
<1>1. stack[th] # <<>> /\ f.pc = "pop" /\ f.i < NumLevels /\ queue[f.i] # <<>>
  BY DEF Pop, At
<1>2. f \in Frame /\ f.i \in Level
  BY <1>1, TopFacts, ConstantsAssumption DEF Level
<1>3. queue \in [Level -> Seq(Task)]
  BY InvParts DEF RestType
<1>4. t \in Task /\ Tail(queue[f.i]) \in Seq(Task)
  BY <1>1, <1>2, <1>3
<1>5. Idle(th)
  BY DEF Pop, task, dep, lock, Idle
<1>6. RestType'
  <2>1. queue' \in [Level -> Seq(Task)]
    BY <1>2, <1>3, <1>4 DEF Pop
  <2>2. hasJob' \in [Task -> BOOLEAN]
    BY InvParts DEF Pop, RestType
  <2>3. fault' \in {"none", "null_engine", "null_job", "stale_counter"}
    BY InvParts DEF Pop, RestType
  <2> QED
    BY <2>1, <2>2, <2>3, InvParts DEF Pop, task, dep, lock, RestType
<1>7. CASE jobData[t]
  <2> DEFINE g == Update(t, QUEUE, RUNNING)
             h == [f EXCEPT !.pc = "ran", !.t = t]
  <2>1. /\ <<QUEUE, RUNNING>> \in Edge(t) /\ QUEUE \in Status /\ RUNNING \in Status
        /\ RUNNING # READY
    BY DEF Edge, Status, RUNNING, READY
  <2>2. g \in GoodFrame /\ g.pc = "cas"
    BY <1>4, <2>1, UpdateGood
  <2>3. h \in GoodFrame /\ h.pc = "ran"
    <3> HIDE DEF f, t
    <3>1. h \in Frame /\ h.pc = "ran"
      BY <1>2, <1>4 DEF Frame, Label
    <3> QED
      BY <3>1 DEF GoodFrame, FrameOK, Updating, Wiring
  <2>4. Call(th, g, h)
    BY <1>7 DEF Pop
  <2> HIDE DEF g, h
  <2>5. h.pc \in Calling \ {"commit"} /\ g.pc \notin Guarded /\ Follows(th, h)
    BY <1>1, <2>2, <2>3 DEF Calling, Guarded, Locking, Follows, Updating
  <2> QED
    BY <1>1, <1>5, <1>6, <2>2, <2>3, <2>4, <2>5, CallIdle
<1>8. CASE ~jobData[t]
  BY <1>5, <1>6, <1>8, StackSame DEF Pop
<1> QED
  BY <1>7, <1>8

LEMMA PopEmptyStep ==
  ASSUME IInv, NEW th \in Thread, PopEmpty(th)
  PROVE  IInv'
<1>1. stack[th] # <<>> /\ Top(th).pc = "pop" /\ Top(th).pc \notin Updating
  BY DEF PopEmpty, At, Updating
<1>2. Idle(th)
  BY DEF PopEmpty, task, dep, lock, Idle
<1>3. RestType'
  BY InvParts DEF PopEmpty, task, job, dep, lock, RestType
<1>4. /\ "pop" \in Label \ (Bound \cup Guarded)
      /\ Top(th).i + 1 \in Nat
  BY <1>1, TopFacts DEF Label, Bound, Guarded, Updating, Wiring, Locking
<1>5. CASE StepTo(th, "pop", Top(th).i + 1)
  BY <1>1, <1>2, <1>3, <1>4, <1>5, PlainStepTo
<1>6. CASE Return(th)
  BY <1>1, <1>2, <1>3, <1>6, PlainReturn
<1> QED
  BY <1>5, <1>6 DEF PopEmpty

LEMMA RanStep ==
  ASSUME IInv, NEW th \in Thread, Ran(th)
  PROVE  IInv'
<1>1. stack[th] # <<>> /\ Top(th).pc = "ran" /\ Top(th).pc \notin Updating
  BY DEF Ran, At, Updating
<1>2. Idle(th)
  BY DEF Ran, task, dep, lock, Idle
<1>3. RestType'
  <2>1. runs' \in [Task -> Nat]
    <3>1. runs \in [Task -> Nat]
      BY InvParts DEF RestType
    <3>2. runs' = runs \/ runs' = [runs EXCEPT ![Top(th).t] = @ + 1]
      BY DEF Ran
    <3> QED
      BY <3>1, <3>2
  <2> QED
    BY <2>1, InvParts DEF Ran, task, job, dep, lock, RestType
<1>4. {"handler", "pop"} \subseteq Label \ (Bound \cup Guarded)
  BY DEF Label, Bound, Guarded, Updating, Wiring, Locking
<1>5. Step(th, "handler") \/ Step(th, "pop")
  BY DEF Ran
<1> QED
  BY <1>1, <1>2, <1>3, <1>4, <1>5, PlainStep

LEMMA HandlerReturnsStep ==
  ASSUME IInv, NEW th \in Thread, HandlerReturns(th)
  PROVE  IInv'
<1>1. stack[th] # <<>> /\ Top(th).pc = "handler" /\ Top(th).pc \notin Updating
  BY DEF HandlerReturns, At, Updating
<1>2. Idle(th)
  BY DEF HandlerReturns, task, dep, lock, Idle
<1>3. RestType'
  BY InvParts DEF HandlerReturns, task, job, dep, lock, RestType
<1>4. PICK to \in {FINAL, FAILED} : Goto(th, Update(Top(th).t, RUNNING, to))
  BY DEF HandlerReturns
<1>5. /\ <<RUNNING, to>> \in Edge(Top(th).t) /\ RUNNING \in Status /\ to \in Status
      /\ to # READY
  BY DEF Edge, Status, FINAL, FAILED, READY
<1>6. /\ Update(Top(th).t, RUNNING, to) \in GoodFrame
      /\ Update(Top(th).t, RUNNING, to).pc = "cas"
  BY <1>1, <1>5, TopFacts, UpdateGood
<1> QED
  BY <1>1, <1>2, <1>3, <1>4, <1>6, PlainGoto DEF Guarded, Locking

-----------------------------------------------------------------------------
(* Task_commit, where it changes nothing but the handler's data. *)

LEMMA CommitRefusedStep ==
  ASSUME IInv, NEW th \in Thread, CommitRefused(th)
  PROVE  IInv'
<1>1. stack[th] # <<>> /\ Return(th) /\ Top(th).pc \notin Updating
  BY DEF CommitRefused, At, Updating
<1>2. Idle(th)
  BY DEF CommitRefused, task, dep, lock, Idle
<1>3. RestType'
  BY InvParts DEF CommitRefused, task, job, dep, lock, RestType
<1> QED
  BY <1>1, <1>2, <1>3, PlainReturn

\* Nobody holds the lock any more, so nobody adds a dependency any more.
LEMMA CommitSyncStep ==
  ASSUME IInv, NEW th \in Thread, CommitSync(th)
  PROVE  IInv'
<1> DEFINE f == Top(th)
           g == [f EXCEPT !.pc = "commit_init"]
<1>1. stack[th] # <<>> /\ f.pc = "commit" /\ success[th] /\ readers[f.t] = {}
  BY DEF CommitSync, At
<1>2. Idle(th)
  BY DEF CommitSync, task, dep, lock, Idle
<1>3. RestType'
  BY InvParts DEF CommitSync, task, job, dep, lock, RestType
<1>4. f \in Frame
  BY <1>1, TopFacts
<1>5. Begun(f.t)
  BY <1>1, InvParts DEF StackOK, CommitCallOK
<1>6. g \in GoodFrame /\ g.pc = "commit_init" /\ g.t = f.t
  BY <1>4, <1>5 DEF GoodFrame, FrameOK, Frame, Label, Updating, Wiring
<1>7. Goto(th, g)
  BY DEF CommitSync, Step
<1>8. Follows(th, g) /\ TopOK(th, g)
  BY <1>1, <1>6 DEF Follows, Updating, TopOK, Locking
<1> HIDE DEF g
<1>9. StackOK'
  BY <1>1, <1>2, <1>6, <1>7, <1>8, IdleGraph, GotoKeeps
<1> QED
  BY <1>2, <1>3, <1>9, IdleInv

\* What a round of the loops of Task_commit works on.
LEMMA WiringFacts ==
  ASSUME IInv, NEW th \in Thread, stack[th] # <<>>, Top(th).pc \in Wiring
  PROVE  LET f == Top(th) IN
         /\ f \in Frame /\ f.t \in Task /\ Counted(f.t)
         /\ ndep[f.t] \in Nat
         /\ f.i \in 1..ndep[f.t] /\ f.i \in Nat \ {0}
         /\ parents[f.t][f.i] \in Dep
         /\ parents[f.t][f.i][1] = f.t
         /\ parents[f.t][f.i][2] \in Task /\ parents[f.t][f.i][2] \in Needs(f.t)
         /\ f.pc \notin Updating
<1> DEFINE f == Top(th)
<1>1. f \in Frame /\ f.t \in Task /\ Counted(f.t) /\ f.i \in 1..ndep[f.t] /\ f.i \in Nat
  BY TopFacts DEF FrameOK
<1>2. ndep[f.t] = Len(parents[f.t])
  BY <1>1, InvParts DEF DepsOK
<1>3. parents[f.t] \in Seq(Dep) /\ ndep[f.t] \in Nat
  BY <1>1, InvParts DEF GraphType, Counted
<1> HIDE DEF f
<1>4. f.i \in 1..Len(parents[f.t]) /\ f.i \in DOMAIN parents[f.t] /\ f.i \in Nat \ {0}
  BY <1>1, <1>2, <1>3
<1>5. parents[f.t][f.i] \in Dep /\ parents[f.t][f.i][1] = f.t
  BY <1>1, <1>3, <1>4, InvParts DEF DepsOK
<1>6. parents[f.t][f.i][2] \in Task /\ parents[f.t][f.i][2] \in Needs(f.t)
  BY <1>4, <1>5 DEF Needs, Dep
<1>7. f.pc \notin Updating
  BY DEF f, Wiring, Updating
<1> QED
  BY <1>1, <1>3, <1>4, <1>5, <1>6, <1>7 DEF f

\* The labels of the loops.
LEMMA WiringGood ==
  ASSUME NEW f \in Frame, Counted(f.t), NEW pc \in {"wire", "load_parent"},
         NEW i \in 1..ndep[f.t], i \in Nat
  PROVE  Moved(f, pc, i) \in GoodFrame /\ Moved(f, pc, i).pc = pc
  BY DEF Moved, GoodFrame, FrameOK, Frame, Label, Updating, Wiring

LEMMA NextDepKeeps ==
  ASSUME IInv, NEW th \in Thread, stack[th] # <<>>, Idle(th), RestType',
         Top(th).pc \in Wiring, NextDep(th)
  PROVE  IInv'
<1> DEFINE f == Top(th)
<1>1. /\ f \in Frame /\ Counted(f.t) /\ ndep[f.t] \in Nat
      /\ f.i \in Nat \ {0} /\ f.pc \notin Updating
  BY WiringFacts
<1>2. CASE f.i < ndep[f.t]
  <2> DEFINE g == Moved(f, "load_parent", f.i + 1)
  <2>1. f.i + 1 \in 1..ndep[f.t] /\ f.i + 1 \in Nat
    BY <1>1, <1>2
  <2>2. Goto(th, g)
    BY <1>2 DEF NextDep, StepTo, Moved
  <2>3. g \in GoodFrame /\ g.pc = "load_parent"
    <3> HIDE DEF f
    <3> QED
      BY <1>1, <2>1, WiringGood
  <2> HIDE DEF g
  <2> QED
    BY <1>1, <2>2, <2>3, PlainGoto DEF Guarded, Locking
<1>3. CASE ~ (f.i < ndep[f.t])
  BY <1>1, <1>3, PlainReturn DEF NextDep
<1> QED
  BY <1>2, <1>3

LEMMA LoadParentStep ==
  ASSUME IInv, NEW th \in Thread, LoadParent(th)
  PROVE  IInv'
<1>0. stack[th] # <<>> /\ Top(th).pc = "load_parent" /\ Top(th).pc \in Wiring
  BY DEF LoadParent, At, Wiring
<1>f. PICK f \in Frame : f = Top(th)
  BY <1>0, TopFacts
<1>d. PICK d \in Dep : d = parents[f.t][f.i]
  BY <1>0, <1>f, WiringFacts
<1>1. stack[th] # <<>> /\ f.pc = "load_parent" /\ f.pc \in Wiring
  BY <1>0, <1>f
<1>2. Idle(th)
  BY DEF LoadParent, task, dep, lock, Idle
<1>3. RestType'
  BY InvParts DEF LoadParent, task, job, dep, lock, RestType
<1>4. /\ f \in Frame /\ Counted(f.t) /\ f.i \in 1..ndep[f.t] /\ d[2] \in Task
      /\ f.pc \notin Updating
  BY <1>1, <1>f, <1>d, WiringFacts
<1>5. CASE depParent[d]
  <2>1. PICK new \in Status : new = status[d[2]]
    BY <1>4, InvParts DEF GraphType
  <2> DEFINE g == [f EXCEPT !.pc = "load_dep", !.new = new]
  <2>2. g \in Frame /\ g.pc = "load_dep" /\ g.t = f.t /\ g.i = f.i /\ g.new = new
    BY DEF Frame, Label
  <2>3. Goto(th, g)
    BY <1>5, <1>f, <1>d, <2>1 DEF LoadParent
  <2> HIDE DEF g
  <2>4. g \in GoodFrame
    BY <1>4, <1>d, <2>1, <2>2 DEF GoodFrame, FrameOK, Updating, Wiring
  <2> QED
    BY <1>1, <1>2, <1>3, <1>4, <1>f, <2>2, <2>3, <2>4, PlainGoto DEF Guarded, Locking
<1>6. CASE ~depParent[d]
  BY <1>1, <1>2, <1>3, <1>6, <1>f, <1>d, NextDepKeeps DEF LoadParent
<1> QED
  BY <1>5, <1>6

LEMMA LoadDepStep ==
  ASSUME IInv, NEW th \in Thread, LoadDep(th)
  PROVE  IInv'
<1>0. stack[th] # <<>> /\ Top(th).pc = "load_dep" /\ Top(th).pc \in Wiring
  BY DEF LoadDep, At, Wiring
<1>f. PICK f \in Frame : f = Top(th)
  BY <1>0, TopFacts
<1>d. PICK d \in Dep : d = parents[f.t][f.i]
  BY <1>0, <1>f, WiringFacts
<1>1. stack[th] # <<>> /\ f.pc = "load_dep" /\ f.pc \in Wiring
  BY <1>0, <1>f
<1>2. Idle(th)
  BY DEF LoadDep, task, dep, lock, Idle
<1>3. RestType'
  BY InvParts DEF LoadDep, task, job, dep, lock, RestType
<1>4. FrameOK(f) /\ Counted(f.t) /\ f.i \in 1..ndep[f.t] /\ f.pc \notin Updating
  BY <1>1, <1>f, WiringFacts, TopFacts
<1>5. PICK old \in Status : old = depStatus[d]
  BY InvParts DEF RestType
<1> DEFINE g == [f EXCEPT !.pc = "check", !.old = old]
<1>6. g \in Frame /\ g.pc = "check" /\ g.t = f.t /\ g.i = f.i /\ g.new = f.new
  BY DEF Frame, Label
<1>7. f.new = COMPLETED => status[d[2]] = COMPLETED
  BY <1>1, <1>4, <1>d DEF FrameOK
<1>8. Goto(th, g)
  BY <1>5, <1>f, <1>d DEF LoadDep
<1> HIDE DEF g
<1>9. g \in GoodFrame
  BY <1>4, <1>6, <1>7, <1>d DEF GoodFrame, FrameOK, Updating, Wiring
<1> QED
  BY <1>1, <1>2, <1>3, <1>4, <1>6, <1>8, <1>9, <1>f, PlainGoto DEF Guarded, Locking

LEMMA CheckStep ==
  ASSUME IInv, NEW th \in Thread, Check(th)
  PROVE  IInv'
<1> DEFINE f == Top(th)
           d == parents[f.t][f.i]
           after == Verdict(f.t, f.new)
           g == Update(f.t, DEPHOLD, after)
<1>1. stack[th] # <<>> /\ f.pc = "check" /\ f.pc \in Wiring
  BY DEF Check, At, Wiring
<1>2. Idle(th)
  BY DEF Check, job, lock, Idle
<1>3. /\ f \in Frame /\ f.t \in Task /\ FrameOK(f) /\ Counted(f.t) /\ f.i \in 1..ndep[f.t]
      /\ d \in Dep /\ d[1] = f.t /\ d[2] \in Needs(f.t) /\ f.pc \notin Updating
      /\ f.new \in Status
  BY <1>1, WiringFacts, TopFacts
<1>4. RestType'
  <2>1. counter \in [Task -> Int]
        /\ depStatus \in [Dep -> Status]
        /\ fault \in {"none", "null_engine", "null_job", "stale_counter"}
    BY InvParts DEF RestType
  <2>2. /\ counter' = counter \/
             counter' = [counter EXCEPT ![d[1]] = IF f.new = COMPLETED THEN @ - 1 ELSE @]
        /\ depStatus' = depStatus \/ depStatus' = [depStatus EXCEPT ![d] = f.new]
        /\ fault' = fault \/ fault' = "stale_counter"
    BY DEF Check, StatusChange, NoStatusChange
  <2> HIDE DEF d, f
  <2>3. /\ counter' \in [Task -> Int]
        /\ depStatus' \in [Dep -> Status]
        /\ fault' \in {"none", "null_engine", "null_job", "stale_counter"}
    BY <1>3, <2>1, <2>2
  <2> QED
    BY <2>3, InvParts DEF Check, job, lock, RestType
<1>5. CASE NextDep(th)
  BY <1>1, <1>2, <1>4, <1>5, NextDepKeeps
<1>6. CASE Goto(th, g) /\ after # DEPHOLD
  <2>1. after \in {READY, ABORTED} /\ (after = READY => f.new = COMPLETED)
    BY <1>6 DEF Verdict, READY, ABORTED, COMPLETED, FAILED
  <2>2. f.new = COMPLETED => status[d[2]] = COMPLETED
    BY <1>1, <1>3 DEF FrameOK
  <2>3. after = READY => Counted(f.t) /\ MayRelease(f.t)
    BY <1>3, <2>1, <2>2 DEF MayRelease
  <2>4. <<DEPHOLD, after>> \in Edge(f.t) /\ DEPHOLD \in Status /\ after \in Status
    BY <2>1 DEF Edge, Status
  <2>5. g \in GoodFrame /\ g.pc = "cas"
    <3> HIDE DEF f, after
    <3> QED
      BY <1>3, <2>3, <2>4, UpdateGood
  <2> HIDE DEF g
  <2> QED
    BY <1>1, <1>2, <1>3, <1>4, <1>6, <2>5, PlainGoto DEF Guarded, Locking
<1> QED
  BY <1>5, <1>6 DEF Check

-----------------------------------------------------------------------------
(* Task_retract, Task_wait, the barrier's scan and Task_free. *)

LEMMA RetractStep ==
  ASSUME IInv, NEW th \in Thread, Retract(th)
  PROVE  IInv'
<1> DEFINE f == Top(th)
           g == Update(f.t, status[f.t], ABORTED)
           h == [f EXCEPT !.pc = "retracted"]
<1>1. stack[th] # <<>> /\ f.pc = "retract" /\ f.pc \notin Updating
  BY DEF Retract, At, Updating
<1>2. Idle(th)
  BY DEF Retract, task, dep, lock, Idle
<1>3. RestType'
  BY InvParts DEF Retract, task, job, dep, lock, RestType
<1>4. f \in Frame /\ f.t \in Task
  BY <1>1, TopFacts
<1>5. CASE status[f.t] \in {DEPHOLD, READY}
  <2>1. /\ <<status[f.t], ABORTED>> \in Edge(f.t) /\ status[f.t] \in Status
        /\ ABORTED \in Status /\ ABORTED # READY
    BY <1>5 DEF Edge, Status, ABORTED, READY
  <2>2. g \in GoodFrame /\ g.pc = "cas"
    BY <1>4, <2>1, UpdateGood
  <2>3. h \in GoodFrame /\ h.pc = "retracted"
    BY <1>4, PcGood DEF Label, Bound, Updating, Wiring
  <2>4. Call(th, g, h)
    BY <1>5 DEF Retract
  <2> HIDE DEF g, h
  <2>5. h.pc \in Calling \ {"commit"} /\ g.pc \notin Guarded /\ Follows(th, h)
    BY <1>1, <2>2, <2>3 DEF Calling, Guarded, Locking, Follows
  <2> QED
    BY <1>1, <1>2, <1>3, <2>2, <2>3, <2>4, <2>5, CallIdle
<1>6. CASE status[f.t] \notin {DEPHOLD, READY}
  BY <1>1, <1>2, <1>3, <1>6, PlainReturn DEF Retract
<1> QED
  BY <1>5, <1>6

LEMMA RetractedStep ==
  ASSUME IInv, NEW th \in Thread, Retracted(th)
  PROVE  IInv'
<1>1. stack[th] # <<>> /\ Top(th).pc = "retracted" /\ Top(th).pc \notin Updating
  BY DEF Retracted, At, Updating
<1>2. Idle(th)
  BY DEF Retracted, job, dep, lock, Idle
<1>3. RestType'
  <2>1. ep' \in [Task -> BOOLEAN]
    BY InvParts DEF Retracted, RestType
  <2> QED
    BY <2>1, InvParts DEF Retracted, job, dep, lock, RestType
<1>4. "retract" \in Label \ (Bound \cup Guarded)
  BY DEF Label, Bound, Guarded, Updating, Wiring, Locking
<1>5. CASE Return(th)
  BY <1>1, <1>2, <1>3, <1>5, PlainReturn
<1>6. CASE Step(th, "retract")
  BY <1>1, <1>2, <1>3, <1>4, <1>6, PlainStep
<1> QED
  BY <1>5, <1>6 DEF Retracted

LEMMA WaitsStep ==
  ASSUME IInv, NEW th \in Thread, Waits(th)
  PROVE  IInv'
<1>1. /\ stack[th] # <<>>
      /\ Top(th).pc \in {"wait", "wait_stat", "wait_sched", "wait_loop", "wait_done"}
      /\ Top(th).pc \notin Updating
  BY DEF Waits, Wait, WaitStat, WaitSched, WaitLoop, WaitDone, At, Updating
<1>2. Idle(th)
  BY DEF Waits, Wait, WaitStat, WaitSched, WaitLoop, WaitDone, task, dep, lock,
         Idle
<1>3. RestType'
  <2>1. fault' \in {"none", "null_engine", "null_job", "stale_counter"}
    BY InvParts DEF Waits, Wait, WaitStat, WaitSched, WaitLoop, WaitDone, RestType
  <2> QED
    BY <2>1, InvParts DEF Waits, Wait, WaitStat, WaitSched, WaitLoop, WaitDone, task,
                          job, dep, lock, RestType
<1>4. {"wait_stat", "wait_sched", "wait_done"} \subseteq Label \ (Bound \cup Guarded)
  BY DEF Label, Bound, Guarded, Updating, Wiring, Locking
<1>5. CASE Wait(th)
  <2>1. PICK i \in {0, 1} : StepTo(th, "wait_stat", i)
    BY <1>5 DEF Wait
  <2> QED
    BY <1>1, <1>2, <1>3, <1>4, <2>1, PlainStepTo
<1>6. CASE WaitStat(th)
  BY <1>1, <1>2, <1>3, <1>4, <1>6, PlainStep DEF WaitStat
<1>7. CASE WaitSched(th)
  <2> DEFINE g == Scheduler(Top(th).t)
             h == [Top(th) EXCEPT !.pc = "wait_loop"]
  <2>1. CASE Call(th, g, h)
    <3>1. g \in GoodFrame /\ g.pc = "pop"
      BY <1>1, TopFacts, SchedulerGood
    <3>2. h \in GoodFrame /\ h.pc = "wait_loop"
      BY <1>1, TopFacts, PcGood DEF Label, Bound, Updating, Wiring
    <3> HIDE DEF g, h
    <3>3. h.pc \in Calling \ {"commit"} /\ g.pc \notin Guarded /\ Follows(th, h)
      BY <1>1, <3>1, <3>2 DEF Calling, Guarded, Locking, Follows
    <3> QED
      BY <1>1, <1>2, <1>3, <2>1, <3>1, <3>2, <3>3, CallIdle
  <2>2. CASE stack' = stack
    BY <1>2, <1>3, <1>7, <2>2, StackSame DEF WaitSched
  <2> QED
    BY <1>7, <2>1, <2>2 DEF WaitSched
<1>8. CASE WaitLoop(th)
  BY <1>1, <1>2, <1>3, <1>4, <1>8, PlainStep DEF WaitLoop
<1>9. CASE WaitDone(th)
  BY <1>1, <1>2, <1>3, <1>9, PlainReturn DEF WaitDone
<1> QED
  BY <1>5, <1>6, <1>7, <1>8, <1>9 DEF Waits

LEMMA BarLockStep ==
  ASSUME IInv, NEW th \in Thread, BarLock(th)
  PROVE  IInv'
<1> DEFINE g == [Top(th) EXCEPT !.pc = "bar_loop", !.n = Len(tasks)]
<1>1. stack[th] # <<>> /\ Top(th).pc \notin Updating
  BY DEF BarLock, At, Updating
<1>2. Idle(th)
  BY DEF BarLock, task, dep, Idle
<1>3. RestType'
  <2>1. listReaders' \in SUBSET Thread
    BY InvParts DEF BarLock, RestType
  <2> QED
    BY <2>1, InvParts DEF BarLock, task, job, dep, RestType
<1>4. Len(tasks) \in Nat
  BY InvParts DEF RestType
<1>5. g \in GoodFrame /\ g.pc = "bar_loop"
  <2>1. PICK f \in Frame : f = Top(th)
    BY <1>1, TopFacts
  <2>2. PICK n \in Nat : n = Len(tasks)
    BY <1>4
  <2>3. LET h == [f EXCEPT !.pc = "bar_loop", !.n = n]
        IN  h \in Frame /\ FrameOK(h) /\ h.pc = "bar_loop"
    BY DEF FrameOK, Frame, Label, Updating, Wiring
  <2> QED
    BY <2>1, <2>2, <2>3 DEF GoodFrame
<1>6. Goto(th, g)
  BY DEF BarLock
<1> HIDE DEF g
<1> QED
  BY <1>1, <1>2, <1>3, <1>5, <1>6, PlainGoto DEF Guarded, Locking

LEMMA BarLoopStep ==
  ASSUME IInv, NEW th \in Thread, BarLoop(th)
  PROVE  IInv'
<1> DEFINE f == Top(th)
           pp == tasks[f.i]
           g == Enter("add_lock", f.t, pp)
           next == [f EXCEPT !.i = f.i + 1]
<1>1. stack[th] # <<>> /\ f.pc = "bar_loop" /\ f.pc \notin Updating
  BY DEF BarLoop, At, Updating
<1>2. Idle(th)
  BY DEF BarLoop, task, dep, Idle
<1>3. RestType'
  <2>1. listReaders' \in SUBSET Thread
    BY InvParts DEF BarLoop, RestType
  <2> QED
    BY <2>1, InvParts DEF BarLoop, task, job, dep, RestType
<1>4. next \in GoodFrame /\ next.pc = "bar_loop" /\ f.t \in Task
  <2>1. f \in Frame /\ f.t \in Task /\ f.i \in Nat
    BY <1>1, TopFacts
  <2> HIDE DEF f
  <2>2. next \in Frame /\ next.pc = "bar_loop"
    BY <1>1, <2>1 DEF Frame
  <2> QED
    BY <2>1, <2>2 DEF GoodFrame, FrameOK, Updating, Wiring
<1>5. CASE Call(th, g, next) /\ pp \in Selects[f.t]
  <2>1. pp \in Task
    BY <1>4, <1>5, ConstantsAssumption
  <2>2. g \in GoodFrame /\ g.pc = "add_lock"
    BY <1>4, <2>1, EnterGood DEF Label, Bound, Updating, Wiring
  <2> HIDE DEF g, next
  <2>3. next.pc \in Calling \ {"commit"} /\ g.pc \notin Guarded /\ Follows(th, next)
    BY <1>1, <1>4, <2>2 DEF Calling, Guarded, Locking, Follows
  <2> QED
    BY <1>1, <1>2, <1>3, <1>4, <1>5, <2>2, <2>3, CallIdle
<1>6. CASE Goto(th, next)
  <2> HIDE DEF next
  <2> QED
    BY <1>1, <1>2, <1>3, <1>4, <1>6, PlainGoto DEF Guarded, Locking
<1>7. CASE Return(th)
  BY <1>1, <1>2, <1>3, <1>7, PlainReturn
<1> QED
  BY <1>5, <1>6, <1>7 DEF BarLoop

LEMMA FreeEraseStep ==
  ASSUME IInv, NEW th \in Thread, FreeErase(th)
  PROVE  IInv'
<1>1. stack[th] # <<>> /\ Top(th).pc \notin Updating /\ Step(th, "free_task")
  BY DEF FreeErase, At, Updating
<1>2. Idle(th)
  BY DEF FreeErase, task, dep, Idle
<1>3. RestType'
  <2>1. tasks' \in Seq(Task)
    <3> DEFINE x == Top(th).t
               at == {i \in DOMAIN tasks : tasks[i] = x}
               k  == CHOOSE i \in at : \A j \in at : j <= i
               s  == [tasks EXCEPT ![k] = tasks[Len(tasks)]]
    <3>1. tasks \in Seq(Task)
      BY InvParts DEF RestType
    <3>2. CASE at = {}
      BY <3>1, <3>2 DEF FreeErase, SwapErase
    <3>3. CASE at # {}
      <4>1. Len(tasks) \in Nat \ {0} /\ Len(tasks) \in DOMAIN tasks
        BY <3>1, <3>3
      <4>2. s \in Seq(Task) /\ Len(s) = Len(tasks)
        <5> HIDE DEF k
        <5>1. tasks[Len(tasks)] \in Task /\ tasks \in [1..Len(tasks) -> Task]
          BY <3>1, <4>1
        <5>2. s \in [1..Len(tasks) -> Task]
          BY <5>1
        <5> QED
          BY <4>1, <5>2, FcnIsSeq
      <4>3. SubSeq(s, 1, Len(s) - 1) \in Seq(Task)
        BY <4>1, <4>2
      <4>4. tasks' = SubSeq(s, 1, Len(tasks) - 1)
        BY <3>3 DEF FreeErase, SwapErase
      <4> QED
        BY <4>2, <4>3, <4>4
    <3> QED
      BY <3>2, <3>3
  <2> QED
    BY <2>1, InvParts DEF FreeErase, task, job, dep, RestType
<1>4. "free_task" \in Label \ (Bound \cup Guarded)
  BY DEF Label, Bound, Guarded, Updating, Wiring, Locking
<1> QED
  BY <1>1, <1>2, <1>3, <1>4, PlainStep

LEMMA FreeTaskStep ==
  ASSUME IInv, NEW th \in Thread, FreeTask(th)
  PROVE  IInv'
<1>1. stack[th] # <<>> /\ Top(th).pc \notin Updating /\ Return(th)
  BY DEF FreeTask, At, Updating
<1>2. Idle(th)
  BY DEF FreeTask, task, lock, Idle
<1>3. RestType'
  <2>1. /\ jobData' \in [Task -> BOOLEAN]
        /\ depParent' \in [Dep -> BOOLEAN] /\ depChild' \in [Dep -> BOOLEAN]
    BY InvParts DEF FreeTask, RestType
  <2> QED
    BY <2>1, InvParts DEF FreeTask, task, lock, RestType
<1> QED
  BY <1>1, <1>2, <1>3, PlainReturn

LEMMA NextCallStep ==
  ASSUME IInv, NEW th \in Thread, NextCall(th)
  PROVE  IInv'
<1> DEFINE c == Head(script[th])
<1>1. th \in App /\ stack[th] = <<>> /\ script[th] # <<>>
      /\ stack' = [stack EXCEPT ![th] = Frames(c)]
  BY DEF NextCall
<1>2. script[th] \in Seq(ApiCall) /\ c \in ApiCall /\ Tail(script[th]) \in Seq(ApiCall)
  BY <1>1, InvParts DEF RestType
<1>3. Idle(th)
  BY DEF NextCall, task, dep, lock, Idle
<1>4. RestType'
  <2>1. script' \in [App -> Seq(ApiCall)]
    BY <1>1, <1>2, InvParts DEF NextCall, RestType
  <2> QED
    BY <2>1, InvParts DEF NextCall, task, job, dep, lock, RestType
<1>5. c.t \in Task /\ c.p \in Task /\ c.op \in Op
  BY <1>2 DEF ApiCall
<1> HIDE DEF c
<1>6. CASE c.op = "commit"
  <2> DEFINE g == Update(c.t, IDLE, DEPHOLD)
             f == Enter("commit", c.t, c.t)
  <2>1. /\ <<IDLE, DEPHOLD>> \in Edge(c.t) /\ IDLE \in Status /\ DEPHOLD \in Status
        /\ DEPHOLD # READY
    BY DEF Edge, Status, DEPHOLD, READY
  <2>2. g \in GoodFrame /\ g.pc = "cas" /\ g.t = c.t /\ g.new = DEPHOLD
    BY <1>5, <2>1, UpdateGood
  <2>3. f \in GoodFrame /\ f.pc = "commit" /\ f.t = c.t
    <3>1. "commit" \in Label \ Bound
      BY DEF Label, Bound, Updating, Wiring
    <3>2. f.t = c.t
      BY DEF Enter
    <3> QED
      BY <1>5, <3>1, <3>2, EnterGood
  <2>4. stack' = [stack EXCEPT ![th] = <<g, f>>]
    BY <1>1, <1>6 DEF Frames
  <2> HIDE DEF g, f
  <2> QED
    BY <1>1, <1>3, <1>4, <2>2, <2>3, <2>4, StartCommit
<1>7. CASE c.op # "commit"
  <2>1. PICK f \in GoodFrame : f.pc \notin Guarded /\ Frames(c) = <<f>>
    <3>1. CASE c.op = "create_barrier"
      <4>1. [Enter("create", c.t, c.t) EXCEPT !.n = 1] \in GoodFrame
        BY <1>5 DEF Enter, GoodFrame, FrameOK, Frame, Label, Updating, Wiring, Status,
                    INVAL
      <4> QED
        BY <3>1, <4>1 DEF Frames, Enter, Guarded, Locking
    <3>2. CASE c.op = "wait_timed"
      <4>1. [Enter("wait", c.t, c.t) EXCEPT !.n = 1] \in GoodFrame
        BY <1>5 DEF Enter, GoodFrame, FrameOK, Frame, Label, Updating, Wiring, Status,
                    INVAL
      <4> QED
        BY <3>2, <4>1 DEF Frames, Enter, Guarded, Locking
    <3>3. CASE c.op \in {"add_dep", "rm_dep", "free"}
      <4>1. ASSUME NEW pc \in {"add_lock", "rm_lock", "free_erase"}, NEW p \in Task
            PROVE  Enter(pc, c.t, p) \in GoodFrame /\ Enter(pc, c.t, p).pc \notin Guarded
        BY <1>5, EnterGood DEF Label, Bound, Updating, Wiring, Guarded, Locking
      <4> QED
        BY <1>5, <3>3, <4>1 DEF Frames
    <3>4. CASE c.op \in {"create", "retract", "wait"}
      <4>1. ASSUME NEW pc \in {"create", "retract", "wait"}
            PROVE  /\ Enter(pc, c.t, c.t) \in GoodFrame
                   /\ Enter(pc, c.t, c.t).pc \notin Guarded
        BY <1>5, EnterGood DEF Label, Bound, Updating, Wiring, Guarded, Locking
      <4> QED
        BY <3>4, <4>1 DEF Frames
    <3> QED
      BY <1>5, <1>7, <3>1, <3>2, <3>3, <3>4 DEF Op
  <2> QED
    BY <1>1, <1>3, <1>4, <2>1, StartIdle
<1> QED
  BY <1>6, <1>7

-----------------------------------------------------------------------------
(* Task_add_dep and Task_rm_dep: the lock of the child. *)

LEMMA ReadLockStep ==
  ASSUME IInv, NEW th \in Thread, ReadLock(th)
  PROVE  IInv'
<1> DEFINE f == Top(th)
<1>1. stack[th] # <<>> /\ f.pc \in {"add_lock", "rm_lock"} /\ f.pc \notin Updating
  BY DEF ReadLock, At, Updating
<1>2. f \in Frame /\ f.t \in Task
  BY <1>1, TopFacts
<1>3. /\ readers \in [Task -> SUBSET Thread]
      /\ readers' = [readers EXCEPT ![f.t] = @ \cup {th}]
  BY InvParts DEF RestType, ReadLock
<1>4. /\ readers' \in [Task -> SUBSET Thread]
      /\ \A t \in Task : readers'[t] \ {th} = readers[t] \ {th}
      /\ th \in readers'[f.t]
  <2> HIDE DEF f
  <2> QED
    BY <1>2, <1>3
<1>5. Quiet(th)
  BY <1>4 DEF ReadLock, task, Quiet, Alone
<1>6. RestType'
  BY <1>4, InvParts DEF ReadLock, task, job, dep, RestType
<1>7. PICK pc \in {"add_check", "rm_check"} : Step(th, pc)
  BY DEF ReadLock
<1> DEFINE g == [f EXCEPT !.pc = pc]
<1>8. g \in GoodFrame /\ g.pc = pc /\ g.t = f.t
  BY <1>2 DEF GoodFrame, FrameOK, Frame, Label, Updating, Wiring
<1>9. Goto(th, g)
  BY <1>7 DEF Step
<1>10. Follows(th, g) /\ TopOK(th, g)
  BY <1>1, <1>4, <1>8 DEF Follows, TopOK
<1> HIDE DEF g
<1>11. StackOK'
  BY <1>1, <1>5, <1>8, <1>9, <1>10, QuietGraph, GotoKeeps
<1> QED
  BY <1>5, <1>6, <1>11, QuietGraph, InvMade

\* Unlocking the child and leaving.
LEMMA UnlockKeeps ==
  ASSUME IInv, NEW th \in Thread, stack[th] # <<>>, Unlock(th)
  PROVE  /\ readers' \in [Task -> SUBSET Thread]
         /\ \A t \in Task : readers'[t] \ {th} = readers[t] \ {th}
<1> DEFINE t0 == Top(th).t
<1>1. /\ readers \in [Task -> SUBSET Thread] /\ t0 \in Task
      /\ readers' = [readers EXCEPT ![t0] = @ \ {th}]
  BY InvParts, TopFacts DEF RestType, Unlock
<1> HIDE DEF t0
<1> QED
  BY <1>1

LEMMA IdleCheckStep ==
  ASSUME IInv, NEW th \in Thread, IdleCheck(th)
  PROVE  IInv'
<1> DEFINE f == Top(th)
<1>1. /\ stack[th] # <<>> /\ f.pc \in {"add_check", "rm_check"}
      /\ f.pc \notin Updating /\ f.pc \in Locking
  BY DEF IdleCheck, At, Updating, Locking
<1>2. f \in Frame /\ f.t \in Task
  BY <1>1, TopFacts
<1>3. CASE status[f.t] = IDLE
  <2>1. Idle(th)
    BY <1>3 DEF IdleCheck, task, dep, Idle
  <2>2. RestType'
    BY <1>3, InvParts DEF IdleCheck, task, job, dep, RestType
  <2>3. PICK pc \in {"add_push", "rm_detach"} : Step(th, pc)
    BY <1>3 DEF IdleCheck
  <2> DEFINE g == [f EXCEPT !.pc = pc]
  <2>4. g \in GoodFrame /\ g.pc = pc /\ g.t = f.t
    BY <1>2 DEF GoodFrame, FrameOK, Frame, Label, Updating, Wiring
  <2>5. Goto(th, g)
    BY <2>3 DEF Step
  <2>6. th \in readers'[f.t]
    BY <1>1, <2>1, InvParts DEF StackOK, LockOK, Idle
  <2>7. ~Begun(f.t) /\ ~Counted(f.t)
    BY <1>2, <1>3, InvParts DEF DepsOK, Begun, IDLE, DEPHOLD
  <2>8. ndep'[f.t] = -1 /\ status'[f.t] < DEPHOLD
    BY <1>3, <2>1, <2>7 DEF Idle, Counted, IDLE, DEPHOLD
  <2>9. Follows(th, g) /\ TopOK(th, g)
    BY <1>1, <2>4, <2>6, <2>8 DEF Follows, TopOK
  <2> HIDE DEF g
  <2>10. StackOK'
    BY <1>1, <2>1, <2>4, <2>5, <2>9, IdleGraph, GotoKeeps
  <2> QED
    BY <2>1, <2>2, <2>10, IdleInv
<1>4. CASE status[f.t] # IDLE
  <2>1. Unlock(th) /\ Return(th)
    BY <1>4 DEF IdleCheck
  <2>2. Quiet(th)
    BY <1>1, <2>1, UnlockKeeps DEF IdleCheck, task, Quiet, Alone
  <2>3. RestType'
    BY <1>1, <2>1, UnlockKeeps, InvParts DEF IdleCheck, task, job, dep, RestType
  <2>4. StackOK'
    BY <1>1, <2>1, <2>2, QuietGraph, ReturnKeeps
  <2> QED
    BY <2>2, <2>3, <2>4, QuietGraph, InvMade
<1> QED
  BY <1>3, <1>4

LEMMA RmDetachStep ==
  ASSUME IInv, NEW th \in Thread, RmDetach(th)
  PROVE  IInv'
<1>1. /\ stack[th] # <<>> /\ Top(th).pc \notin Updating /\ Unlock(th) /\ Return(th)
  BY DEF RmDetach, At, Updating
<1>2. Quiet(th)
  BY <1>1, UnlockKeeps DEF RmDetach, task, Quiet, Alone
<1>3. RestType'
  <2>1. depChild' \in [Dep -> BOOLEAN]
    BY InvParts DEF RmDetach, RestType
  <2> QED
    BY <1>1, <2>1, UnlockKeeps, InvParts DEF RmDetach, task, job, RestType
<1>4. StackOK'
  BY <1>1, <1>2, QuietGraph, ReturnKeeps
<1> QED
  BY <1>2, <1>3, <1>4, QuietGraph, InvMade

-----------------------------------------------------------------------------
(* The steps that change a status. *)

\* The status of t goes up.
LEMMA SetStatus ==
  ASSUME IInv, NEW th \in Thread, NEW t \in Task, NEW new \in Status,
         status' = [status EXCEPT ![t] = new],
         new > status[t], status[t] # COMPLETED,
         new \in Released => Counted(t) /\ MayRelease(t),
         UNCHANGED <<parents, childs, ndep, readers, success>>
  PROVE  Grow(th) /\ Alone(th) /\ GraphType' /\ DepsOK' /\ ReleasedOK'
<1>1. GraphType /\ DepsOK /\ ReleasedOK
  BY InvParts
<1>2. GraphType'
  BY <1>1 DEF GraphType
<1>3. \A x \in Task : /\ status[x] \in Nat /\ status'[x] \in Nat
                      /\ Len(childs[x]) \in Nat
                      /\ x # t => status'[x] = status[x]
  <2> TAKE x \in Task
  <2>1. status[x] \in Status /\ status'[x] \in Status /\ childs[x] \in Seq(Dep)
    BY <1>1, <1>2 DEF GraphType
  <2>2. Len(childs[x]) \in Nat
    BY <2>1
  <2>3. x # t => status'[x] = status[x]
    BY <1>1 DEF GraphType
  <2> QED
    BY <2>1, <2>2, <2>3, StatusType
<1>4. status'[t] = new
  BY <1>1 DEF GraphType
<1>5. Grow(th) /\ Alone(th)
  BY <1>3, <1>4 DEF Grow, Alone, Counted
<1>6. DepsOK'
  <2>1. \A x \in Task : Begun(x) => Begun(x)'
    BY <1>3, <1>5 DEF Grow, Begun, DEPHOLD
  <2> QED
    BY <1>1, <2>1 DEF DepsOK, Counted, Needs
<1>7. ReleasedOK'
  <2> SUFFICES ASSUME NEW x \in Task, status'[x] \in Released
               PROVE  Counted(x)' /\ MayRelease(x)'
    BY DEF ReleasedOK
  <2>1. Counted(x) /\ MayRelease(x)
    BY <1>1, <1>3, <1>4 DEF ReleasedOK
  <2> QED
    BY <1>1, <1>2, <1>5, <2>1, ReleaseStable DEF Counted
<1> QED
  BY <1>2, <1>5, <1>6, <1>7

LEMMA EdgeFacts ==
  ASSUME NEW t \in Task, NEW o \in Status, NEW n \in Status, <<o, n>> \in Edge(t)
  PROVE  /\ n > o /\ o # COMPLETED
         /\ n \in Released => n = READY \/ o \in Released
  BY DEF Edge, Released, INVAL, IDLE, DEPHOLD, READY, QUEUE, RUNNING, FINAL, COMPLETED,
         ABORTED, FAILED

LEMMA CasStep ==
  ASSUME IInv, NEW th \in Thread, Cas(th)
  PROVE  IInv'
<1>0. stack[th] # <<>> /\ Top(th).pc = "cas"
  BY DEF Cas, At
<1>a. PICK f \in Frame : f = Top(th)
  BY <1>0, TopFacts
<1> DEFINE g == [f EXCEPT !.pc = "notify"]
<1>1. stack[th] # <<>> /\ f.pc = "cas"
  BY <1>0, <1>a
<1>2. /\ f \in Frame /\ FrameOK(f)
      /\ f.t \in Task /\ f.old \in Status /\ f.new \in Status /\ f.i \in Nat
  BY <1>1, <1>a, TopFacts
<1>3. /\ <<f.old, f.new>> \in Edge(f.t) /\ f.i > 0
      /\ f.new = READY => Counted(f.t) /\ MayRelease(f.t)
  BY <1>1, <1>2 DEF FrameOK, Updating
<1>4. /\ status[f.t] = f.old
      /\ status' = [status EXCEPT ![f.t] = f.new]
      /\ UNCHANGED <<parents, childs, ndep, readers, success>>
      /\ Goto(th, g)
  BY <1>a DEF Cas, lock, Step
<1>5. GraphType /\ StackOK /\ DepsOK /\ ReleasedOK
  BY InvParts
<1>6. f.new \in Released => Counted(f.t) /\ MayRelease(f.t)
  BY <1>2, <1>3, <1>4, <1>5, EdgeFacts DEF ReleasedOK
<1>7. Grow(th) /\ Alone(th) /\ GraphType' /\ DepsOK' /\ ReleasedOK'
  <2>1. f.new > f.old /\ f.old # COMPLETED
    BY <1>2, <1>3, EdgeFacts
  <2> HIDE DEF g
  <2> QED
    BY <1>2, <1>4, <1>6, <2>1, SetStatus
<1>8. RestType'
  BY InvParts DEF Cas, job, dep, lock, RestType
<1>9. g \in GoodFrame' /\ g.pc = "notify" /\ g.t = f.t /\ g.new = f.new
  <2>1. /\ g \in Frame /\ g.pc = "notify" /\ g.t = f.t /\ g.new = f.new
        /\ g.old = f.old /\ g.i = f.i
    BY <1>2 DEF Frame, Label
  <2>2. status'[f.t] = f.new
    BY <1>2, <1>4, <1>5 DEF GraphType
  <2>3. f.new = READY => Counted(f.t)' /\ MayRelease(f.t)'
    BY <1>2, <1>3, <1>5, <1>7, ReleaseStable DEF Counted
  <2>4. status'[f.t] >= f.new
    <3>1. f.new \in Nat
      BY <1>2, StatusType
    <3> QED
      BY <2>2, <3>1
  <2> HIDE DEF g
  <2>5. FrameOK(g)'
    BY <1>3, <2>1, <2>2, <2>3, <2>4 DEF FrameOK, Updating, Wiring
  <2> QED
    BY <2>1, <2>5 DEF GoodFrame
<1>10. Follows(th, g) /\ TopOK(th, g)
  BY <1>9, <1>a DEF Follows, TopOK, Updating, Locking
<1> HIDE DEF g
<1>11. StackOK'
  BY <1>1, <1>4, <1>5, <1>7, <1>9, <1>10, GotoKeeps
<1> QED
  BY <1>7, <1>8, <1>11, InvMade

LEMMA CreateStep ==
  ASSUME IInv, NEW th \in Thread, Create(th)
  PROVE  IInv'
<1> DEFINE f == Top(th)
           g == [f EXCEPT !.pc = "bar_lock"]
<1>1. stack[th] # <<>> /\ f.pc = "create" /\ f.pc \notin Updating
  BY DEF Create, At, Updating
<1>2. f \in Frame /\ f.t \in Task
  BY <1>1, TopFacts
<1>3. /\ status[f.t] = INVAL
      /\ status' = [status EXCEPT ![f.t] = IDLE]
      /\ UNCHANGED <<parents, childs, ndep, readers, success>>
  BY DEF Create
<1>4. GraphType /\ StackOK /\ DepsOK
  BY InvParts
<1>5. Grow(th) /\ Alone(th) /\ GraphType' /\ DepsOK' /\ ReleasedOK'
  <2>1. IDLE \in Status /\ IDLE > INVAL /\ INVAL # COMPLETED /\ IDLE \notin Released
    BY DEF Status, Released, INVAL, IDLE, READY, QUEUE, RUNNING, FINAL, COMPLETED, FAILED
  <2> HIDE DEF f
  <2> QED
    BY <1>2, <1>3, <2>1, SetStatus
<1>6. RestType'
  <2>1. tasks' \in Seq(Task)
    <3>1. tasks \in Seq(Task)
      BY InvParts DEF RestType
    <3> QED
      BY <1>2, <3>1 DEF Create
  <2> QED
    BY <2>1, InvParts DEF Create, job, dep, RestType
<1>7. CASE Step(th, "bar_lock")
  <2>1. g \in GoodFrame' /\ g.pc = "bar_lock"
    BY <1>2 DEF GoodFrame, FrameOK, Frame, Label, Updating, Wiring
  <2>2. Goto(th, g)
    BY <1>7 DEF Step
  <2>3. Follows(th, g) /\ TopOK(th, g)
    BY <1>1, <2>1 DEF Follows, TopOK, Locking
  <2> HIDE DEF g
  <2>4. StackOK'
    BY <1>1, <1>4, <1>5, <2>1, <2>2, <2>3, GotoKeeps
  <2> QED
    BY <1>5, <1>6, <2>4, InvMade
<1>8. CASE Return(th)
  <2>1. StackOK'
    BY <1>1, <1>4, <1>5, <1>8, ReturnKeeps
  <2> QED
    BY <1>5, <1>6, <2>1, InvMade
<1> QED
  BY <1>7, <1>8 DEF Create

-----------------------------------------------------------------------------
(* The steps that change the dependencies. *)

\* A record is added for a task that nobody commits yet.
LEMMA AddPushStep ==
  ASSUME IInv, NEW th \in Thread, AddPush(th)
  PROVE  IInv'
<1>1. /\ stack[th] # <<>> /\ Top(th).pc = "add_push" /\ Top(th).pc \notin Updating
      /\ Unlock(th) /\ Return(th)
  BY DEF AddPush, At, Updating
<1>2. PICK f \in Frame : f = Top(th)
  BY <1>1, TopFacts
<1> DEFINE d == <<f.t, f.p>>
<1>3. f.t \in Task /\ f.p \in Task /\ d \in Dep
  BY DEF Frame, Dep
<1>4. GraphType /\ StackOK /\ DepsOK /\ ReleasedOK
  BY InvParts
<1>5. /\ parents' = [parents EXCEPT ![f.t] = Append(@, d)]
      /\ UNCHANGED <<status, childs, ndep, success>>
  BY <1>2 DEF AddPush
<1>6. ~Counted(f.t)
  BY <1>1, <1>2, <1>4 DEF StackOK, PushOK
<1>7. parents[f.t] \in Seq(Dep) /\ parents'[f.t] = Append(parents[f.t], d)
      /\ \A t \in Task : t # f.t => parents'[t] = parents[t]
  BY <1>3, <1>4, <1>5 DEF GraphType
<1> HIDE DEF d
<1>8. /\ parents'[f.t] \in Seq(Dep)
      /\ Len(parents'[f.t]) = Len(parents[f.t]) + 1
      /\ \A i \in 1..Len(parents[f.t]) : parents'[f.t][i] = parents[f.t][i]
      /\ parents'[f.t][Len(parents[f.t]) + 1] = d
      /\ Len(parents[f.t]) \in Nat
  BY <1>3, <1>7
<1>9. GraphType'
  BY <1>4, <1>5, <1>8 DEF GraphType
<1>10. Alone(th)
  BY <1>1, <1>5, UnlockKeeps DEF Alone
<1>11. Grow(th)
  <2>1. \A t \in Task : status[t] \in Nat /\ Len(childs[t]) \in Nat
    <3> TAKE t \in Task
    <3>1. status[t] \in Status /\ childs[t] \in Seq(Dep)
      BY <1>4 DEF GraphType
    <3>2. Len(childs[t]) \in Nat
      BY <3>1
    <3> QED
      BY <3>1, <3>2, StatusType
  <2> QED
    BY <1>5, <1>6, <1>7, <2>1 DEF Grow, Counted
<1>12. DepsOK'
  <2>1. ASSUME NEW c \in Task, NEW i \in 1..Len(parents'[c])
        PROVE  parents'[c][i][1] = c
    <3>1. CASE c # f.t
      BY <1>4, <1>7, <3>1 DEF DepsOK
    <3>2. CASE c = f.t
      <4>1. CASE i \in 1..Len(parents[f.t])
        BY <1>4, <1>8, <3>2, <4>1 DEF DepsOK
      <4>2. CASE i = Len(parents[f.t]) + 1
        BY <1>8, <3>2, <4>2 DEF d
      <4> QED
        BY <1>8, <3>2, <4>1, <4>2
    <3> QED
      BY <3>1, <3>2
  <2>2. ASSUME NEW p \in Task, NEW i \in 1..Len(childs'[p])
        PROVE  /\ childs'[p][i][2] = p
               /\ ndep'[childs'[p][i][1]] # -1
               /\ p \in Needs(childs[p][i][1])'
    <3>1. /\ childs[p][i][2] = p /\ Counted(childs[p][i][1])
          /\ p \in Needs(childs[p][i][1])
      BY <1>4, <1>5 DEF DepsOK
    <3>2. PICK c \in Task : c = childs[p][i][1]
      <4>1. childs[p] \in Seq(Task \X Task)
        BY <1>4 DEF GraphType, Dep
      <4> QED
        BY <1>5, <4>1
    <3>3. c # f.t
      BY <1>6, <3>1, <3>2
    <3>4. Needs(c)' = Needs(c)
      BY <1>7, <3>3 DEF Needs
    <3>5. Needs(childs[p][i][1])' = Needs(c)'
      BY <1>5, <3>2
    <3> QED
      BY <1>5, <3>1, <3>2, <3>4, <3>5 DEF Counted
  <2>3. ASSUME NEW t \in Task, ndep'[t] # -1
        PROVE  ndep'[t] = Len(parents'[t]) /\ status'[t] >= DEPHOLD
    BY <1>4, <1>5, <1>6, <1>7, <2>3 DEF DepsOK, Counted, Begun
  <2> QED
    BY <1>5, <2>1, <2>2, <2>3 DEF DepsOK, Counted, Begun
<1>13. ReleasedOK'
  <2> SUFFICES ASSUME NEW t \in Task, status'[t] \in Released
               PROVE  Counted(t)' /\ MayRelease(t)'
    BY DEF ReleasedOK
  <2>1. Counted(t) /\ MayRelease(t)
    BY <1>4, <1>5 DEF ReleasedOK
  <2> QED
    BY <1>4, <1>9, <1>11, <2>1, ReleaseStable DEF Counted
<1>14. RestType'
  <2>1. /\ depStatus' \in [Dep -> Status]
        /\ depChild' \in [Dep -> BOOLEAN] /\ depParent' \in [Dep -> BOOLEAN]
    <3>1. INVAL \in Status
      BY DEF Status
    <3>2. /\ depStatus' = [depStatus EXCEPT ![d] = INVAL]
          /\ depChild' = [depChild EXCEPT ![d] = TRUE]
          /\ depParent' = [depParent EXCEPT ![d] = TRUE]
      BY <1>2 DEF AddPush, d
    <3> QED
      BY <3>1, <3>2, InvParts DEF RestType
  <2> QED
    BY <1>1, <2>1, UnlockKeeps, InvParts DEF AddPush, job, RestType
<1>15. StackOK'
  BY <1>1, <1>4, <1>9, <1>10, <1>11, ReturnKeeps
<1> QED
  BY <1>9, <1>12, <1>13, <1>14, <1>15, InvMade

\* The parent is told of a dependency the commit has counted.
LEMMA WireStep ==
  ASSUME IInv, NEW th \in Thread, Wire(th)
  PROVE  IInv'
<1>1. stack[th] # <<>> /\ Top(th).pc = "wire" /\ Top(th).pc \in Wiring
  BY DEF Wire, At, Wiring
<1>2. PICK f \in Frame : f = Top(th)
  BY <1>1, TopFacts
<1>3. PICK d \in Dep : d = parents[f.t][f.i]
  BY <1>1, <1>2, WiringFacts
<1>4. /\ f.t \in Task /\ Counted(f.t) /\ ndep[f.t] \in Nat
      /\ f.i \in 1..ndep[f.t] /\ f.i \in Nat \ {0}
      /\ d[1] = f.t /\ d[2] \in Task /\ d[2] \in Needs(f.t) /\ f.pc \notin Updating
  BY <1>1, <1>2, <1>3, WiringFacts
<1>5. GraphType /\ StackOK /\ DepsOK /\ ReleasedOK
  BY InvParts
<1>6. /\ childs' = childs \/ childs' = [childs EXCEPT ![d[2]] = Append(@, d)]
      /\ UNCHANGED <<status, parents, ndep, success, readers>>
  <2>1. childs' = IF depParent[d] THEN [childs EXCEPT ![d[2]] = Append(@, d)] ELSE childs
    BY <1>2, <1>3 DEF Wire
  <2>2. UNCHANGED <<status, parents, ndep, success, readers>>
    BY DEF Wire, lock
  <2> QED
    BY <2>1, <2>2
<1>7. ASSUME NEW p \in Task
      PROVE  /\ childs'[p] \in Seq(Dep)
             /\ Len(childs'[p]) >= Len(childs[p])
             /\ \A i \in 1..Len(childs'[p]) :
                  \/ i \in 1..Len(childs[p]) /\ childs'[p][i] = childs[p][i]
                  \/ p = d[2] /\ childs'[p][i] = d
  <2>1. childs[p] \in Seq(Dep) /\ Len(childs[p]) \in Nat
    BY <1>5 DEF GraphType
  <2>2. childs'[p] = childs[p] \/ (p = d[2] /\ childs'[p] = Append(childs[p], d))
    BY <1>5, <1>6 DEF GraphType
  <2>3. CASE childs'[p] = childs[p]
    BY <2>1, <2>3
  <2>4. CASE p = d[2] /\ childs'[p] = Append(childs[p], d)
    BY <2>1, <2>4
  <2> QED
    BY <2>2, <2>3, <2>4
<1>8. GraphType'
  <2>1. DOMAIN childs' = Task /\ childs' = [p \in Task |-> childs'[p]]
    BY <1>5, <1>6 DEF GraphType
  <2>2. childs' \in [Task -> Seq(Dep)]
    BY <1>7, <2>1
  <2> QED
    BY <1>5, <1>6, <2>2 DEF GraphType
<1>9. Alone(th)
  BY <1>6 DEF Alone
<1>10. Grow(th)
  <2>1. \A t \in Task : status[t] \in Nat
    BY <1>5, StatusType DEF GraphType
  <2> QED
    BY <1>6, <1>7, <2>1 DEF Grow, Counted
<1>11. DepsOK'
  <2>1. ASSUME NEW p \in Task, NEW i \in 1..Len(childs'[p])
        PROVE  /\ childs'[p][i][2] = p
               /\ ndep'[childs'[p][i][1]] # -1
               /\ \E k \in DOMAIN parents'[childs'[p][i][1]] :
                     parents'[childs'[p][i][1]][k][2] = p
    <3>1. CASE i \in 1..Len(childs[p]) /\ childs'[p][i] = childs[p][i]
      BY <1>5, <1>6, <3>1 DEF DepsOK, Counted, Needs
    <3>2. CASE p = d[2] /\ childs'[p][i] = d
      BY <1>4, <1>6, <3>2 DEF Counted, Needs
    <3> QED
      BY <1>7, <3>1, <3>2
  <2>2. \A c \in Task : \A i \in 1..Len(parents'[c]) : parents'[c][i][1] = c
    BY <1>5, <1>6 DEF DepsOK
  <2>3. \A t \in Task : ndep'[t] # -1
          => ndep'[t] = Len(parents'[t]) /\ status'[t] >= DEPHOLD
    BY <1>5, <1>6 DEF DepsOK, Counted, Begun
  <2> QED
    BY <2>1, <2>2, <2>3 DEF DepsOK, Counted, Begun, Needs
<1>12. ReleasedOK'
  <2> SUFFICES ASSUME NEW t \in Task, status'[t] \in Released
               PROVE  Counted(t)' /\ MayRelease(t)'
    BY DEF ReleasedOK
  <2>1. Counted(t) /\ MayRelease(t)
    BY <1>5, <1>6 DEF ReleasedOK
  <2> QED
    BY <1>5, <1>8, <1>10, <2>1, ReleaseStable DEF Counted
<1>13. RestType'
  BY InvParts DEF Wire, job, dep, lock, RestType
<1>14. PICK pc \in {"wire", "load_parent"}, i \in 1..ndep[f.t] :
          i \in Nat /\ Goto(th, Moved(f, pc, i))
  <2>1. CASE f.i < ndep[f.t]
    <3>1. f.i + 1 \in 1..ndep[f.t] /\ f.i + 1 \in Nat
      BY <1>4, <2>1
    <3>2. Goto(th, Moved(f, "wire", f.i + 1))
      BY <1>2, <2>1 DEF Wire, StepTo, Moved
    <3> QED
      BY <3>1, <3>2
  <2>2. CASE ~ (f.i < ndep[f.t])
    <3>1. 1 \in 1..ndep[f.t]
      BY <1>4
    <3>2. Goto(th, Moved(f, "load_parent", 1))
      BY <1>2, <2>2 DEF Wire, StepTo, Moved
    <3> QED
      BY <3>1, <3>2
  <2> QED
    BY <2>1, <2>2
<1>15. Moved(f, pc, i) \in GoodFrame /\ Moved(f, pc, i).pc = pc
  BY <1>4, <1>14, WiringGood
<1>16. Moved(f, pc, i) \in GoodFrame'
  BY <1>5, <1>8, <1>10, <1>15, FrameStable
<1>17. Follows(th, Moved(f, pc, i)) /\ TopOK(th, Moved(f, pc, i))
  BY <1>2, <1>4, <1>15 DEF Follows, TopOK, Locking
<1>18. StackOK'
  BY <1>1, <1>5, <1>8, <1>9, <1>10, <1>14, <1>16, <1>17, GotoKeeps
<1> QED
  BY <1>8, <1>11, <1>12, <1>13, <1>18, InvMade

\* The dependencies are counted: from now on they are settled.
LEMMA CommitInitStep ==
  ASSUME IInv, NEW th \in Thread, CommitInit(th)
  PROVE  IInv'
<1>1. stack[th] # <<>> /\ Top(th).pc = "commit_init"
  BY DEF CommitInit, At
<1>2. PICK f \in Frame : f = Top(th)
  BY <1>1, TopFacts
<1>3. PICK n \in Nat : n = Len(parents[f.t])
  BY <1>1, <1>2, InvParts DEF GraphType, Frame
<1>4. f.t \in Task /\ f.pc \notin Updating
  BY <1>1, <1>2 DEF Frame, Updating
<1>5. Begun(f.t)
  BY <1>1, <1>2, TopFacts DEF FrameOK
<1>6. GraphType /\ StackOK /\ DepsOK /\ ReleasedOK
  BY InvParts
<1>7. /\ ndep' = [ndep EXCEPT ![f.t] = n]
      /\ UNCHANGED <<status, parents, childs, success, readers>>
  BY <1>2, <1>3 DEF CommitInit, lock
<1>8. /\ ndep'[f.t] = n /\ n # -1
      /\ \A t \in Task : t # f.t => ndep'[t] = ndep[t]
  BY <1>3, <1>4, <1>6, <1>7 DEF GraphType
<1>9. GraphType'
  BY <1>3, <1>6, <1>7 DEF GraphType
<1>10. Counted(f.t) => ndep[f.t] = n
  BY <1>3, <1>4, <1>6 DEF DepsOK
<1>11. Alone(th)
  BY <1>7 DEF Alone
<1>12. Grow(th)
  <2>1. \A t \in Task : status[t] \in Nat /\ Len(childs[t]) \in Nat
    <3> TAKE t \in Task
    <3>1. status[t] \in Status /\ childs[t] \in Seq(Dep)
      BY <1>6 DEF GraphType
    <3>2. Len(childs[t]) \in Nat
      BY <3>1
    <3> QED
      BY <3>1, <3>2, StatusType
  <2>2. At(th, "commit_init") /\ f.t = Top(th).t
    BY <1>1, <1>2 DEF At
  <2> QED
    BY <1>7, <1>8, <1>10, <2>1, <2>2 DEF Grow, Counted
<1>13. DepsOK'
  <2>1. \A t \in Task : Counted(t) => ndep'[t] # -1
    BY <1>8 DEF Counted
  <2>2. ASSUME NEW p \in Task, NEW i \in 1..Len(childs[p])
        PROVE  /\ childs[p][i][2] = p
               /\ ndep'[childs[p][i][1]] # -1
               /\ p \in Needs(childs[p][i][1])
    <3>1. childs[p][i][1] \in Task
      <4>1. childs[p] \in Seq(Task \X Task)
        BY <1>6 DEF GraphType, Dep
      <4> QED
        BY <4>1
    <3> QED
      BY <1>6, <2>1, <3>1 DEF DepsOK
  <2>3. ASSUME NEW t \in Task, ndep'[t] # -1
        PROVE  ndep'[t] = Len(parents[t]) /\ Begun(t)
    BY <1>3, <1>5, <1>6, <1>8, <2>3 DEF DepsOK, Counted
  <2>4. \A c \in Task : \A i \in 1..Len(parents[c]) : parents[c][i][1] = c
    BY <1>6 DEF DepsOK
  <2> QED
    BY <1>7, <2>2, <2>3, <2>4 DEF DepsOK, Counted, Needs, Begun
<1>14. ReleasedOK'
  <2> SUFFICES ASSUME NEW t \in Task, status'[t] \in Released
               PROVE  Counted(t)' /\ MayRelease(t)'
    BY DEF ReleasedOK
  <2>1. Counted(t) /\ MayRelease(t)
    BY <1>6, <1>7 DEF ReleasedOK
  <2> QED
    BY <1>6, <1>9, <1>12, <2>1, ReleaseStable DEF Counted
<1>15. RestType'
  <2>1. counter \in [Task -> Int] /\ ep \in [Task -> BOOLEAN]
    BY InvParts DEF RestType
  <2>2. /\ counter' = [counter EXCEPT ![f.t] = IF HasHandler(f.t) THEN n ELSE @]
        /\ ep' = [ep EXCEPT ![f.t] = f.t \in Handled]
    BY <1>2, <1>3 DEF CommitInit
  <2>3. counter' \in [Task -> Int] /\ ep' \in [Task -> BOOLEAN]
    BY <1>3, <1>4, <2>1, <2>2
  <2> QED
    BY <2>3, InvParts DEF CommitInit, job, dep, lock, RestType
<1>16. CASE n > 0
  <2> DEFINE g == Moved(f, "wire", 1)
  <2>1. g \in GoodFrame' /\ g.pc = "wire"
    <3>1. /\ g \in Frame /\ g.pc = "wire" /\ g.t = f.t /\ g.i = 1
      BY DEF Frame, Label, Moved
    <3>2. ndep'[g.t] # -1 /\ 1 \in 1..ndep'[g.t]
      BY <1>3, <1>8, <1>16, <3>1
    <3> HIDE DEF g
    <3>3. FrameOK(g)'
      BY <3>1, <3>2 DEF FrameOK, Updating, Wiring, Counted
    <3> QED
      BY <3>1, <3>3 DEF GoodFrame
  <2>2. Goto(th, g)
    BY <1>2, <1>3, <1>16 DEF CommitInit, StepTo, Moved
  <2> HIDE DEF g
  <2>3. Follows(th, g) /\ TopOK(th, g)
    BY <1>2, <1>4, <2>1 DEF Follows, TopOK, Locking
  <2>4. StackOK'
    BY <1>1, <1>6, <1>9, <1>11, <1>12, <2>1, <2>2, <2>3, GotoKeeps
  <2> QED
    BY <1>9, <1>13, <1>14, <1>15, <2>4, InvMade
<1>17. CASE ~ (n > 0)
  <2> DEFINE g == Update(f.t, DEPHOLD, READY)
  <2>1. g \in GoodFrame' /\ g.pc = "cas"
    <3>1. /\ <<DEPHOLD, READY>> \in Edge(f.t) /\ DEPHOLD \in Status /\ READY \in Status
          /\ READY # COMPLETED
      BY DEF Edge, Status, READY, COMPLETED
    <3>2. /\ g \in Frame /\ g.pc = "cas" /\ g.t = f.t /\ g.i = 1
          /\ g.old = DEPHOLD /\ g.new = READY
      BY <1>4, <3>1 DEF Frame, Label, Update
    <3>3. parents'[g.t] = <<>>
      <4>1. parents[f.t] \in Seq(Dep) /\ Len(parents[f.t]) = 0
        BY <1>3, <1>4, <1>6, <1>17 DEF GraphType
      <4> QED
        BY <1>7, <3>2, <4>1
    <3> HIDE DEF g
    <3>4. Counted(g.t)' /\ MayRelease(g.t)'
      <4>1. Needs(g.t)' = {}
        BY <3>3 DEF Needs
      <4> QED
        BY <1>8, <3>2, <4>1 DEF Counted, MayRelease
    <3>5. FrameOK(g)'
      BY <3>1, <3>2, <3>4 DEF FrameOK, Updating, Wiring
    <3> QED
      BY <3>2, <3>5 DEF GoodFrame
  <2>2. Goto(th, g)
    BY <1>2, <1>3, <1>17 DEF CommitInit
  <2> HIDE DEF g
  <2>3. Follows(th, g) /\ TopOK(th, g)
    BY <1>2, <1>4, <2>1 DEF Follows, TopOK, Locking
  <2>4. StackOK'
    BY <1>1, <1>6, <1>9, <1>11, <1>12, <2>1, <2>2, <2>3, GotoKeeps
  <2> QED
    BY <1>9, <1>13, <1>14, <1>15, <2>4, InvMade
<1> QED
  BY <1>16, <1>17

-----------------------------------------------------------------------------
(* IInv is inductive. *)

LEMMA InitInv == Init => IInv
<1> SUFFICES ASSUME Init PROVE IInv
  OBVIOUS
<1>1. GraphType
  BY DEF Init, GraphType, Status
<1>2. RestType
  BY ConstantsAssumption DEF Init, RestType, Status, Level, Dep
<1>3. StackOK
  <2>1. FramesOK
    BY DEF Init, FramesOK
  <2>2. CallersOK /\ LockOK /\ PushOK /\ CommitCallOK
    BY DEF Init, CallersOK, LockOK, PushOK, CommitCallOK
  <2> QED
    BY <2>1, <2>2 DEF StackOK
<1>4. DepsOK
  BY DEF Init, DepsOK, Counted
<1>5. ReleasedOK
  BY DEF Init, ReleasedOK, Released, INVAL, READY, QUEUE, RUNNING, FINAL, COMPLETED,
         FAILED
<1> QED
  BY <1>1, <1>2, <1>3, <1>4, <1>5, InvParts

LEMMA RunStep ==
  ASSUME IInv, NEW th \in Thread, Run(th)
  PROVE  IInv'
<1>1. CASE UpdateStatus(th)
  BY <1>1, CasStep, CasFailsStep, NotifyStep, ChangeStep, NotifyEndsStep, ActReadyStep,
     ActFinalStep, ActOtherStep DEF UpdateStatus
<1>2. CASE Queue(th)
  BY <1>2, QueueStep
<1>3. CASE Schedule(th)
  BY <1>3, SemDecStep, PopStep, PopEmptyStep, RanStep, HandlerReturnsStep DEF Schedule
<1>4. CASE Commit(th)
  BY <1>4, CommitRefusedStep, CommitSyncStep, CommitInitStep, WireStep, LoadParentStep,
     LoadDepStep, CheckStep DEF Commit
<1>5. CASE Retract(th) \/ Retracted(th) \/ Waits(th)
  BY <1>5, RetractStep, RetractedStep, WaitsStep
<1>6. CASE Depend(th)
  BY <1>6, ReadLockStep, IdleCheckStep, AddPushStep, RmDetachStep DEF Depend
<1>7. CASE Create(th) \/ BarLock(th) \/ BarLoop(th)
  BY <1>7, CreateStep, BarLockStep, BarLoopStep
<1>8. CASE FreeErase(th) \/ FreeTask(th) \/ NextCall(th)
  BY <1>8, FreeEraseStep, FreeTaskStep, NextCallStep
<1> QED
  BY <1>1, <1>2, <1>3, <1>4, <1>5, <1>6, <1>7, <1>8 DEF Run

LEMMA Stutters ==
  ASSUME IInv, UNCHANGED vars
  PROVE  IInv'
<1>1. /\ UNCHANGED <<status, parents, childs, ndep, readers, stack, success>>
      /\ UNCHANGED <<ep, counter, finalized, job, dep, lock, script, fault, runs>>
  BY DEF vars, task, lock, local
<1>2. GraphType /\ RestType /\ StackOK /\ DepsOK /\ ReleasedOK
  BY InvParts
<1>3. GraphType' /\ DepsOK' /\ ReleasedOK'
  <2>1. GraphType'
    BY <1>1, <1>2 DEF GraphType
  <2>2. DepsOK'
    BY <1>1, <1>2 DEF DepsOK, Counted, Begun, Needs
  <2>3. ReleasedOK'
    <3>1. \A t \in Task : Needs(t)' = Needs(t)
      BY <1>1 DEF Needs
    <3> QED
      BY <1>1, <1>2, <3>1 DEF ReleasedOK, Counted, MayRelease
  <2> QED
    BY <2>1, <2>2, <2>3
<1>4. RestType'
  BY <1>1, <1>2 DEF job, dep, lock, RestType
<1>5. StackOK'
  <2>1. GoodFrame' = GoodFrame
    BY <1>1 DEF GoodFrame, FrameOK, Counted, MayRelease, Begun, Needs
  <2> QED
    BY <1>1, <1>2, <2>1 DEF StackOK, FramesOK, CallersOK, LockOK, PushOK, CommitCallOK,
                            Top, Counted, Begun
<1> QED
  BY <1>3, <1>4, <1>5, InvMade

LEMMA NextInv == IInv /\ [Next]_vars => IInv'
<1> SUFFICES ASSUME IInv, [Next]_vars PROVE IInv'
  OBVIOUS
<1>1. CASE UNCHANGED vars
  BY <1>1, Stutters
<1>2. CASE \E th \in Thread : Run(th)
  BY <1>2, RunStep
<1> QED
  BY <1>1, <1>2 DEF Next

\* The inductive invariant holds in every reachable state.
THEOREM Invariance == Spec => []IInv
  BY InitInv, NextInv, PTL DEF Spec

-----------------------------------------------------------------------------
(* What follows. *)

\* Every variable keeps its type.
THEOREM TypeCorrect == Spec => []TypeOK
<1>1. IInv => TypeOK
  BY DEF IInv
<1> QED
  BY <1>1, Invariance, PTL

\* The dependencies of a task are settled once its commit has counted them
\* (Task_commit against Task_add_dep).
THEOREM DependenciesSettled == Spec => []NoLateDependency
<1>1. IInv => NoLateDependency
  BY DEF IInv, DepsOK, NoLateDependency, Counted
<1> QED
  BY <1>1, Invariance, PTL

\* Nothing releases a task whose dependencies are uncounted or all pending
\* (Task_commit, Taski_notify_parent_status and the dependency handler).
THEOREM NoEarlyRelease == Spec => []ReleasedByOne
<1>1. IInv => ReleasedByOne
  BY DEF IInv, ReleasedOK, ReleasedByOne, MayRelease, Counted
<1> QED
  BY <1>1, Invariance, PTL

\* The steps that touch a status are the compare-and-swap of
\* Taski_update_status and the store of Task_create.
LEMMA StatusMoves ==
  ASSUME IInv, [Next]_vars
  PROVE  \/ status' = status /\ parents' = parents
         \/ status' = status /\ \E th \in Thread : AddPush(th)
         \/ \E t \in Task, o \in Status, n \in Status :
              /\ status[t] = o /\ status' = [status EXCEPT ![t] = n]
              /\ \/ <<o, n>> \in Edge(t)
                      /\ (n = READY => Counted(t) /\ MayRelease(t))
                      /\ parents' = parents
                 \/ o = INVAL /\ n = IDLE /\ parents' = parents
<1>1. CASE UNCHANGED vars
  BY <1>1 DEF vars, task
<1>2. ASSUME NEW th \in Thread, Cas(th)
      PROVE  \E t \in Task, o \in Status, n \in Status :
              /\ status[t] = o /\ status' = [status EXCEPT ![t] = n]
              /\ <<o, n>> \in Edge(t)
              /\ n = READY => Counted(t) /\ MayRelease(t)
              /\ parents' = parents
  <2>1. stack[th] # <<>> /\ Top(th).pc = "cas"
    BY <1>2 DEF Cas, At
  <2>2. PICK f \in Frame : f = Top(th) /\ FrameOK(f)
    BY <2>1, TopFacts
  <2>3. f.t \in Task /\ f.old \in Status /\ f.new \in Status
    BY DEF Frame
  <2>4. <<f.old, f.new>> \in Edge(f.t)
        /\ (f.new = READY => Counted(f.t) /\ MayRelease(f.t))
    BY <2>1, <2>2 DEF FrameOK, Updating
  <2> QED
    BY <1>2, <2>2, <2>3, <2>4 DEF Cas
<1>3. ASSUME NEW th \in Thread, Create(th)
      PROVE  \E t \in Task : /\ status[t] = INVAL /\ parents' = parents
                             /\ status' = [status EXCEPT ![t] = IDLE]
  <2>1. Top(th).t \in Task
    BY <1>3, TopFacts DEF Create, At
  <2> QED
    BY <1>3, <2>1 DEF Create
<1>4. INVAL \in Status /\ IDLE \in Status
  BY DEF Status
<1>5. ASSUME NEW th \in Thread, AddPush(th)
      PROVE  status' = status
  BY <1>5 DEF AddPush
<1>6. ASSUME NEW th \in Thread, Run(th), ~Cas(th), ~Create(th), ~AddPush(th)
      PROVE  status' = status /\ parents' = parents
  <2>1. CASE UpdateStatus(th)
    BY <1>6, <2>1 DEF UpdateStatus, CasFails, Notify, Change, NotifyEnds, ActReady,
                      ActFinal, ActOther, task
  <2>2. CASE Queue(th)
    BY <2>2 DEF Queue, QueueJob, QueuePush, QueueInc, QueueFault, task
  <2>3. CASE Schedule(th)
    BY <2>3 DEF Schedule, SemDec, Pop, PopEmpty, Ran, HandlerReturns, task
  <2>4. CASE Commit(th)
    <3>1. CASE CommitRefused(th) \/ CommitSync(th) \/ LoadParent(th) \/ LoadDep(th)
      BY <3>1 DEF CommitRefused, CommitSync, LoadParent, LoadDep, task
    <3>2. CASE CommitInit(th)
      BY <3>2 DEF CommitInit
    <3>3. CASE Wire(th)
      BY <3>3 DEF Wire
    <3>4. CASE Check(th)
      BY <3>4 DEF Check
    <3> QED
      BY <2>4, <3>1, <3>2, <3>3, <3>4 DEF Commit
  <2>5. CASE Retract(th) \/ Retracted(th)
    BY <2>5 DEF Retract, Retracted, task
  <2>6. CASE Waits(th)
    BY <2>6 DEF Waits, Wait, WaitStat, WaitSched, WaitLoop, WaitDone, task
  <2>7. CASE Depend(th)
    BY <1>6, <2>7 DEF Depend, ReadLock, IdleCheck, RmDetach, task
  <2>8. CASE BarLock(th) \/ BarLoop(th) \/ FreeErase(th) \/ FreeTask(th) \/ NextCall(th)
    BY <2>8 DEF BarLock, BarLoop, FreeErase, FreeTask, NextCall, task
  <2> QED
    BY <1>6, <2>1, <2>2, <2>3, <2>4, <2>5, <2>6, <2>7, <2>8 DEF Run
<1> QED
  BY <1>1, <1>2, <1>3, <1>4, <1>5, <1>6 DEF Next

\* No thread ever takes the status of a task back (tw_task.h:23).
THEOREM NoStatusDecreases == Spec => StatusIncreases
<1>1. IInv /\ [Next]_vars => [\A t \in Task : status'[t] >= status[t]]_status
  <2> SUFFICES ASSUME IInv, [Next]_vars, status' # status
               PROVE  \A t \in Task : status'[t] >= status[t]
    OBVIOUS
  <2>1. status \in [Task -> Status]
    BY InvParts DEF GraphType
  <2>2. PICK t \in Task, o \in Status, n \in Status :
              /\ status[t] = o /\ status' = [status EXCEPT ![t] = n]
              /\ <<o, n>> \in Edge(t) \/ (o = INVAL /\ n = IDLE)
    BY StatusMoves
  <2>3. n > o
    <3>1. CASE <<o, n>> \in Edge(t)
      BY <3>1, EdgeFacts
    <3>2. CASE o = INVAL /\ n = IDLE
      BY <3>2 DEF INVAL, IDLE
    <3> QED
      BY <2>2, <3>1, <3>2
  <2>4. \A x \in Task : status[x] \in Nat
    BY <2>1, StatusType
  <2>5. o \in Nat /\ n \in Nat /\ status'[t] = n
    BY <2>1, <2>2, StatusType
  <2>6. \A x \in Task : x # t => status'[x] = status[x]
    BY <2>1, <2>2
  <2> QED
    BY <2>2, <2>3, <2>4, <2>5, <2>6
<1> QED
  BY <1>1, Invariance, PTL DEF Spec, StatusIncreases

-----------------------------------------------------------------------------
(* The driver implements the task graph as long as no task has two parents:  *)
(* one completed parent is then all of them.                                 *)

LEMMA GraphInit == Init => Graph!Init
  BY DEF Init, Graph!Init, Needs, INVAL, Graph!INVAL

LEMMA AllComplete ==
  ASSUME NEW t \in Task, OneParent, MayRelease(t), parents[t] \in Seq(Dep)
  PROVE  \A p \in Needs(t) : status[p] = COMPLETED
<1>1. Len(parents[t]) \in Nat /\ Len(parents[t]) <= 1 /\ DOMAIN parents[t] = 1..Len(parents[t])
  BY DEF OneParent
<1>2. \A i, j \in DOMAIN parents[t] : i = j
  BY <1>1
<1>3. \A p, q \in Needs(t) : p = q
  BY <1>2 DEF Needs
<1> QED
  BY <1>3 DEF MayRelease

LEMMA GraphNext ==
  ASSUME IInv, OneParent, [Next]_vars
  PROVE  [Graph!Next]_Graph!vars
<1> DEFINE needs == [t \in Task |-> Needs(t)]
<1>1. status \in [Task -> Status] /\ parents \in [Task -> Seq(Dep)]
  BY InvParts DEF GraphType
<1>2. parents' = parents => needs' = needs
  BY DEF Needs
<1>3. CASE status' = status /\ parents' = parents
  BY <1>2, <1>3 DEF Graph!vars
<1>4. ASSUME NEW th \in Thread, AddPush(th), status' = status
      PROVE  \E c, p \in Task : Graph!Depend(c, p)
  <2>1. stack[th] # <<>> /\ Top(th).pc = "add_push"
    BY <1>4 DEF AddPush, At
  <2>2. PICK f \in Frame : f = Top(th)
    BY <2>1, TopFacts
  <2>3. f.t \in Task /\ f.p \in Task
    BY DEF Frame
  <2>4. status[f.t] \notin Released
    BY <2>1, <2>2, <2>3, InvParts DEF StackOK, PushOK, ReleasedOK
  <2>5. parents' = [parents EXCEPT ![f.t] = Append(@, <<f.t, f.p>>)]
    BY <1>4, <2>2 DEF AddPush
  <2>6. Needs(f.t)' = Needs(f.t) \cup {f.p}
    <3> DEFINE s == parents[f.t]
               d == <<f.t, f.p>>
    <3>1. s \in Seq(Dep) /\ d \in Dep /\ d[2] = f.p
      BY <1>1, <2>3 DEF Dep
    <3>2. parents'[f.t] = Append(s, d)
      BY <1>1, <2>3, <2>5
    <3> HIDE DEF s, d
    <3>3. /\ Len(s) \in Nat /\ DOMAIN s = 1..Len(s)
          /\ DOMAIN Append(s, d) = 1..(Len(s) + 1)
          /\ \A i \in 1..Len(s) : Append(s, d)[i] = s[i]
          /\ Append(s, d)[Len(s) + 1] = d
      BY <3>1
    <3>4. {Append(s, d)[i][2] : i \in DOMAIN Append(s, d)}
            = {s[i][2] : i \in DOMAIN s} \cup {f.p}
      <4>1. DOMAIN Append(s, d) = DOMAIN s \cup {Len(s) + 1}
        BY <3>3
      <4> QED
        BY <3>1, <3>3, <4>1
    <3> QED
      BY <3>2, <3>4 DEF Needs, s
  <2>7. \A t \in Task : t # f.t => Needs(t)' = Needs(t)
    BY <1>1, <2>5 DEF Needs
  <2>8. needs' = [needs EXCEPT ![f.t] = @ \cup {f.p}]
    BY <2>3, <2>6, <2>7
  <2> QED
    <3>1. Graph!Released = Released
      BY DEF Graph!Released, Released, Graph!READY, Graph!QUEUE, Graph!RUNNING,
             Graph!FINAL, Graph!COMPLETED, Graph!FAILED,
             READY, QUEUE, RUNNING, FINAL, COMPLETED, FAILED
    <3>2. Graph!Depend(f.t, f.p)
      BY <1>4, <2>4, <2>8, <3>1 DEF Graph!Depend
    <3> QED
      BY <2>3, <3>2
<1>5. ASSUME NEW t \in Task, NEW o \in Status, NEW n \in Status,
             status[t] = o, status' = [status EXCEPT ![t] = n], parents' = parents,
             \/ <<o, n>> \in Edge(t) /\ (n = READY => MayRelease(t))
             \/ o = INVAL /\ n = IDLE
      PROVE  Graph!Next
  <2>1. needs' = needs
    BY <1>2, <1>5
  <2>2. n = READY => \A p \in needs[t] : status[p] = COMPLETED
    <3> SUFFICES ASSUME n = READY PROVE \A p \in Needs(t) : status[p] = COMPLETED
      OBVIOUS
    <3>1. MayRelease(t)
      BY <1>5 DEF READY, IDLE
    <3> QED
      BY <1>1, <3>1, AllComplete
  <2>3. Graph!Move(t, o, n)
    BY <1>5, <2>1 DEF Graph!Move
  <2> HIDE DEF needs
  <2> USE DEF Graph!INVAL, Graph!IDLE, Graph!DEPHOLD, Graph!READY, Graph!QUEUE,
              Graph!RUNNING, Graph!FINAL, Graph!COMPLETED, Graph!ABORTED, Graph!FAILED,
              INVAL, IDLE, DEPHOLD, READY, QUEUE, RUNNING, FINAL, COMPLETED, ABORTED,
              FAILED
  <2>4. CASE o = INVAL /\ n = IDLE
    BY <2>3, <2>4 DEF Graph!Next, Graph!Create
  <2>5. CASE o = IDLE /\ n = DEPHOLD
    BY <2>3, <2>5 DEF Graph!Next, Graph!Commit
  <2>6. CASE o = DEPHOLD /\ n = READY
    BY <2>2, <2>3, <2>6 DEF Graph!Next, Graph!Release, needs
  <2>7. CASE o = READY /\ n = QUEUE /\ t \in Handled
    BY <2>3, <2>7 DEF Graph!Next, Graph!Enqueue
  <2>8. CASE o = QUEUE /\ n = RUNNING
    BY <2>3, <2>8 DEF Graph!Next, Graph!Start
  <2>9. CASE o = RUNNING /\ n = FINAL
    BY <2>3, <2>9 DEF Graph!Next, Graph!Finish
  <2>10. CASE o = READY /\ n = FINAL /\ t \notin Handled
    BY <2>3, <2>10 DEF Graph!Next, Graph!Finish
  <2>11. CASE o = RUNNING /\ n = FAILED
    BY <2>3, <2>11 DEF Graph!Next, Graph!Fail
  <2>12. CASE o = FINAL /\ n = COMPLETED
    BY <2>3, <2>12 DEF Graph!Next, Graph!Complete
  <2>13. CASE n = ABORTED /\ o \in {DEPHOLD, READY}
    BY <2>3, <2>13 DEF Graph!Next, Graph!Abort
  <2> QED
    BY <1>5, <2>4, <2>5, <2>6, <2>7, <2>8, <2>9, <2>10, <2>11, <2>12, <2>13 DEF Edge
<1>6. CASE \E th \in Thread : AddPush(th) /\ status' = status
  BY <1>4, <1>6 DEF Graph!Next
<1> QED
  BY <1>3, <1>5, <1>6, StatusMoves

\* The threads, locks, notifications and queues of the native driver implement
\* the task graph (module TaskGraph).
THEOREM GraphImplemented == Spec /\ []OneParent => ImplementsTaskGraph
<1>1. IInv /\ OneParent /\ [Next]_vars => [Graph!Next]_Graph!vars
  BY GraphNext
<1> QED
  BY <1>1, GraphInit, Invariance, PTL DEF Spec, ImplementsTaskGraph, Graph!Spec

-----------------------------------------------------------------------------
(* What a client may conclude: the order of the abstract graph, for every set *)
(* of tasks, and of the driver.                                               *)

GraphInv == Graph!TypeOK /\ Graph!Ordered

LEMMA GraphStatuses ==
    /\ \A s \in Graph!Released :
         s # Graph!INVAL /\ s # Graph!IDLE /\ s # Graph!DEPHOLD /\ s # Graph!ABORTED
    /\ Graph!COMPLETED # Graph!READY /\ Graph!COMPLETED # Graph!QUEUE
    /\ Graph!COMPLETED # Graph!RUNNING /\ Graph!COMPLETED # Graph!FINAL
    /\ Graph!COMPLETED # Graph!INVAL /\ Graph!COMPLETED # Graph!IDLE
    /\ Graph!COMPLETED # Graph!DEPHOLD
    /\ {Graph!INVAL, Graph!IDLE, Graph!DEPHOLD, Graph!ABORTED} \cup Graph!Released = Graph!Status
    /\ {Graph!READY, Graph!QUEUE, Graph!RUNNING, Graph!FINAL, Graph!FAILED, Graph!COMPLETED}
         \subseteq Graph!Released
  BY DEF Graph!Released, Graph!Status, Graph!INVAL, Graph!IDLE, Graph!DEPHOLD, Graph!READY,
         Graph!QUEUE, Graph!RUNNING, Graph!FINAL, Graph!COMPLETED, Graph!ABORTED, Graph!FAILED

\* A task that is not COMPLETED moves on; to be released afterwards it was
\* released before, or all it needs has completed.
LEMMA GraphMove ==
  ASSUME GraphInv, NEW t \in Task, NEW from \in Graph!Status, NEW to \in Graph!Status,
         Graph!Move(t, from, to), from # Graph!COMPLETED,
         to \in Graph!Released => \/ from \in Graph!Released
                                  \/ \A p \in Needs(t) : status[p] = Graph!COMPLETED
  PROVE  GraphInv'
<1> DEFINE needs == [u \in Task |-> Needs(u)]
<1>1. needs' = needs /\ needs \in [Task -> SUBSET Task] /\ status \in [Task -> Graph!Status]
      /\ status[t] = from /\ status' = [status EXCEPT ![t] = to]
  BY DEF GraphInv, Graph!TypeOK, Graph!Move
<1>2. \A u \in Task : status[u] \in Graph!Released => \A p \in needs[u] : status[p] = Graph!COMPLETED
  BY DEF GraphInv, Graph!Ordered
<1>3. to \in Graph!Released => from \in Graph!Released
                               \/ \A p \in needs[t] : status[p] = Graph!COMPLETED
  OBVIOUS
<1> HIDE DEF needs
<1>4. ASSUME NEW c \in Task, status'[c] \in Graph!Released, NEW p \in needs[c]
      PROVE  status'[p] = Graph!COMPLETED
  <2>1. status[p] = Graph!COMPLETED
    BY <1>1, <1>2, <1>3, <1>4
  <2> QED
    BY <1>1, <1>4, <2>1
<1>5. Graph!TypeOK'
  BY <1>1 DEF Graph!TypeOK, needs
<1>6. Graph!Ordered'
  BY <1>1, <1>4 DEF Graph!Ordered, needs
<1> QED
  BY <1>5, <1>6 DEF GraphInv

LEMMA GraphDepend ==
  ASSUME GraphInv, NEW c \in Task, NEW p \in Task, Graph!Depend(c, p)
  PROVE  GraphInv'
<1> DEFINE needs == [u \in Task |-> Needs(u)]
<1>1. needs \in [Task -> SUBSET Task] /\ status \in [Task -> Graph!Status]
      /\ status[c] \notin Graph!Released /\ needs' = [needs EXCEPT ![c] = @ \cup {p}]
      /\ status' = status
  BY DEF GraphInv, Graph!TypeOK, Graph!Depend
<1>2. \A u \in Task : status[u] \in Graph!Released => \A q \in needs[u] : status[q] = Graph!COMPLETED
  BY DEF GraphInv, Graph!Ordered
<1> HIDE DEF needs
<1>3. needs' \in [Task -> SUBSET Task]
  BY <1>1
<1>4. \A u \in Task : status'[u] \in Graph!Released => \A q \in needs'[u] : status'[q] = Graph!COMPLETED
  BY <1>1, <1>2
<1>5. Graph!TypeOK'
  BY <1>1, <1>3 DEF Graph!TypeOK, needs
<1>6. Graph!Ordered'
  BY <1>4 DEF Graph!Ordered, needs
<1> QED
  BY <1>5, <1>6 DEF GraphInv

LEMMA GraphKeeps ==
  ASSUME GraphInv, [Graph!Next]_Graph!vars
  PROVE  GraphInv'
<1> DEFINE needs == [u \in Task |-> Needs(u)]
<1>1. CASE UNCHANGED Graph!vars
  <2>1. status' = status /\ needs' = needs
    BY <1>1 DEF Graph!vars
  <2>2. needs \in [Task -> SUBSET Task] /\ status \in [Task -> Graph!Status]
        /\ \A u \in Task : status[u] \in Graph!Released => \A q \in needs[u] : status[q] = Graph!COMPLETED
    BY DEF GraphInv, Graph!TypeOK, Graph!Ordered
  <2>3. Graph!TypeOK' /\ Graph!Ordered'
    <3> HIDE DEF needs
    <3>1. needs' \in [Task -> SUBSET Task] /\ status' \in [Task -> Graph!Status]
          /\ \A u \in Task : status'[u] \in Graph!Released => \A q \in needs'[u] : status'[q] = Graph!COMPLETED
      BY <2>1, <2>2
    <3> QED
      BY <3>1 DEF Graph!TypeOK, Graph!Ordered, needs
  <2> QED
    BY <2>3 DEF GraphInv
<1>2. ASSUME NEW t \in Task, Graph!Release(t)
      PROVE  GraphInv'
  <2>1. Graph!DEPHOLD \in Graph!Status /\ Graph!READY \in Graph!Status
    BY GraphStatuses
  <2>2. \A p \in Needs(t) : status[p] = Graph!COMPLETED
    BY <1>2 DEF Graph!Release
  <2> QED
    BY <1>2, <2>1, <2>2, GraphMove, GraphStatuses DEF Graph!Release
<1>3. ASSUME NEW t \in Task, Graph!Create(t) \/ Graph!Commit(t) \/ Graph!Abort(t)
      PROVE  GraphInv'
  BY <1>3, GraphMove, GraphStatuses DEF Graph!Create, Graph!Commit, Graph!Abort
<1>4. ASSUME NEW t \in Task,
             Graph!Enqueue(t) \/ Graph!Start(t) \/ Graph!Finish(t) \/ Graph!Fail(t) \/ Graph!Complete(t)
      PROVE  GraphInv'
  BY <1>4, GraphMove, GraphStatuses
     DEF Graph!Enqueue, Graph!Start, Graph!Finish, Graph!Fail, Graph!Complete
<1> QED
  BY <1>1, <1>2, <1>3, <1>4, GraphDepend DEF Graph!Next

\* In the abstract task graph no task is released before everything it depends on
\* has completed, whatever is added to the graph meanwhile (TW_Task_add_dep,
\* TW_Task_commit).
LEMMA ReleaseInOrder == Graph!Spec => []Graph!Ordered
<1>1. Graph!Init => GraphInv
  BY GraphStatuses DEF Graph!Init, GraphInv, Graph!TypeOK, Graph!Ordered
<1>2. GraphInv /\ [Graph!Next]_Graph!vars => GraphInv'
  BY GraphKeeps
<1>3. GraphInv => Graph!Ordered
  BY DEF GraphInv
<1> QED
  BY <1>1, <1>2, <1>3, PTL DEF Graph!Spec

\* So does the native driver, with its threads, locks and notifications, as long as
\* no task has two parents.
THEOREM DriverReleasesInOrder == Spec /\ []OneParent => []Graph!Ordered
  BY GraphImplemented, ReleaseInOrder, PTL DEF ImplementsTaskGraph

-----------------------------------------------------------------------------
(***************************************************************************)
(* A task of the native driver runs at most once, no job is left in a      *)
(* queue and no wake-up is lost, for every set of tasks, threads and calls.*)
(*                                                                         *)
(* From its release to its completion a task's run is in one hand: a frame *)
(* of one thread (HandsOK), or its job in a queue.  Whoever has it knows   *)
(* the status (KnowsOK), so the compare-and-swaps that lead to RUNNING are *)
(* made in order (RunsOK).  A commit is in one hand too (CommitsOK), and   *)
(* every job has a token of the semaphore, or a thread that is about to    *)
(* give one or has still to look at its queue (TokensOK).                  *)
(*                                                                         *)
(* The last part shows that no wake-up is lost: what a waiting task has    *)
(* heard of, counted or not, and what it still counts on never add up to   *)
(* more than its dependencies (WakeInv).                                   *)
(***************************************************************************)

Active == Updating \ {"cas"}

\* The frame has the run of its task in hand.
InHand(f) ==
    \/ f.pc \in {"queue_job", "queue_push", "ran", "handler"}
    \/ f.pc \in Updating /\ f.new \in {FINAL, FAILED, COMPLETED}
    \/ f.pc \in Active /\ f.new = READY

\* The frame belongs to a commit that was not refused.
Committing(f) ==
    \/ f.pc \in Active /\ f.new = DEPHOLD
    \/ f.pc \in Wiring \cup {"commit_init"}

Hands(t)   == {f \in Frame : f.t = t /\ InHand(f)}
Commits(t) == {f \in Frame : f.t = t /\ Committing(f)}

None(F) == \A th \in Thread : \A k \in 1..Len(stack[th]) : stack[th][k] \notin F

One(F) ==
    \A th1, th2 \in Thread : \A k1 \in 1..Len(stack[th1]), k2 \in 1..Len(stack[th2]) :
        stack[th1][k1] \in F /\ stack[th2][k2] \in F => th1 = th2 /\ k1 = k2

\* A task that has a job in a queue has one, and nobody else has it in hand.
JobOnce(t) ==
    /\ \A l1, l2 \in Level : \A k1 \in 1..Len(queue[l1]), k2 \in 1..Len(queue[l2]) :
         queue[l1][k1] = t /\ queue[l2][k2] = t => l1 = l2 /\ k1 = k2
    /\ \A l \in Level : \A k \in 1..Len(queue[l]) : queue[l][k] = t => None(Hands(t))

HandsOK == \A t \in Task : One(Hands(t)) /\ JobOnce(t)

\* The first status change of a commit of t has succeeded and has just returned.
Accepted(th, t) ==
    stack[th] # <<>> /\ Top(th).pc = "commit" /\ Top(th).t = t /\ success[th]

CommitsOK == \A t \in Task :
    /\ One(Commits(t))
    /\ \A th1, th2 \in Thread : Accepted(th1, t) /\ Accepted(th2, t) => th1 = th2
    /\ \A th \in Thread : Accepted(th, t) => None(Commits(t)) /\ ~Counted(t)
    /\ \A th \in Thread : \A k \in 1..Len(stack[th]) :
         stack[th][k] \in Commits(t) /\ stack[th][k].pc \notin Wiring => ~Counted(t)
    /\ Begun(t) => \/ Counted(t) \/ status[t] = ABORTED
                   \/ \E th \in Thread : Accepted(th, t)
                   \/ ~None(Commits(t))

\* The status changes somebody waits for, and who does.
Awaited == {DEPHOLD, QUEUE, RUNNING}
Caller(n) == CASE n = DEPHOLD -> "commit" [] n = QUEUE -> "queue_job" [] OTHER -> "ran"

NestOK == \A th \in Thread : \A k \in 1..Len(stack[th]) :
    /\ stack[th][k].pc \in Updating /\ stack[th][k].new \in Awaited =>
         /\ k + 1 \in 1..Len(stack[th])
         /\ stack[th][k + 1].t = stack[th][k].t
         /\ stack[th][k + 1].pc = Caller(stack[th][k].new)
    /\ k # 1 /\ stack[th][k].pc \in {"queue_job", "ran"} =>
         /\ stack[th][k - 1].pc \in Updating /\ stack[th][k - 1].t = stack[th][k].t
         /\ stack[th][k - 1].new \in {QUEUE, RUNNING}
         /\ stack[th][k].pc = Caller(stack[th][k - 1].new)

\* The statuses a frame leaves possible for its task.
Knows(f) ==
    CASE f.pc \in Active ->
             {f.new} \cup (IF f.new \in {DEPHOLD, READY} THEN {ABORTED} ELSE {})
      [] f.pc = "cas" /\ f.old = READY /\ f.new \in {QUEUE, FINAL} -> {READY, ABORTED}
      [] f.pc = "cas" /\ f.old = QUEUE   -> {QUEUE, ABORTED}
      [] f.pc = "cas" /\ f.old = RUNNING -> {RUNNING}
      [] f.pc = "cas" /\ f.old = FINAL   -> {FINAL}
      [] f.pc = "queue_push" -> {QUEUE, ABORTED}
      [] f.pc = "handler"    -> {RUNNING}
      [] OTHER -> Status

Sees(f) ==
    /\ status[f.t] \in Knows(f)
    /\ InHand(f) => status[f.t] >= READY
    /\ f.pc \in Active /\ f.new = RUNNING => runs[f.t] = 0

SeesOK == \A th \in Thread : \A k \in 1..Len(stack[th]) : Sees(stack[th][k])

\* What a call finds when the update it has made returns.
TopSees(th) ==
    stack[th] # <<>> =>
        /\ Top(th).pc = "queue_job" => status[Top(th).t] \in {QUEUE, ABORTED}
        /\ Top(th).pc = "ran" /\ success[th]
             => status[Top(th).t] = RUNNING /\ runs[Top(th).t] = 0

JobsSee == \A l \in Level : \A k \in 1..Len(queue[l]) : status[queue[l][k]] \in {QUEUE, ABORTED}

KnowsOK == SeesOK /\ (\A th \in Thread : TopSees(th)) /\ JobsSee

RunsOK == \A t \in Task :
    runs[t] <= 1 /\ (status[t] \notin {RUNNING, FINAL, COMPLETED, FAILED} => runs[t] = 0)

RunInv == HandsOK /\ CommitsOK /\ NestOK /\ KnowsOK /\ RunsOK

-----------------------------------------------------------------------------
\* What a step of thread th does to its stack: n frames take the place of the top.

Shape(th, n) ==
    /\ \A th2 \in Thread : th2 # th => stack'[th2] = stack[th2]
    /\ n \in 0..2 /\ n \in 0..Len(stack'[th])
    /\ \A k \in (n + 1)..Len(stack'[th]) :
         k - n + 1 \in 2..Len(stack[th]) /\ stack'[th][k] = stack[th][k - n + 1]
    /\ \A k \in 2..Len(stack[th]) :
         k + n - 1 \in (n + 1)..Len(stack'[th]) /\ stack'[th][k + n - 1] = stack[th][k]

StackType == stack \in [Thread -> Seq(Frame)] /\ stack' \in [Thread -> Seq(Frame)]

LEMMA GotoIs ==
  ASSUME stack \in [Thread -> Seq(Frame)], NEW th \in Thread, stack[th] # <<>>,
         NEW f \in Frame, Goto(th, f)
  PROVE  /\ Shape(th, 1) /\ StackType /\ stack'[th][1] = f
         /\ stack'[th] # <<>> /\ Head(stack'[th]) = f /\ Len(stack'[th]) >= 1
<1>1. /\ stack' \in [Thread -> Seq(Frame)]
      /\ \A th2 \in Thread : th2 # th => stack'[th2] = stack[th2]
      /\ stack'[th] # <<>> /\ Len(stack'[th]) = Len(stack[th])
      /\ Head(stack'[th]) = f /\ stack'[th][1] = f
      /\ \A k \in 2..Len(stack[th]) : stack'[th][k] = stack[th][k]
  BY GotoShape
<1>2. Len(stack[th]) \in Nat \ {0}
  BY PopFacts
<1>3. \A k \in 2..Len(stack[th]) : k + 1 - 1 = k /\ k - 1 + 1 = k
  OBVIOUS
<1> QED
  BY <1>1, <1>2, <1>3 DEF Shape, StackType

LEMMA CallIs ==
  ASSUME stack \in [Thread -> Seq(Frame)], NEW th \in Thread, stack[th] # <<>>,
         NEW g \in Frame, NEW f \in Frame, Call(th, g, f)
  PROVE  /\ Shape(th, 2) /\ StackType /\ stack'[th][1] = g /\ stack'[th][2] = f
         /\ stack'[th] # <<>> /\ Head(stack'[th]) = g /\ Len(stack'[th]) >= 2
<1>1. /\ stack' \in [Thread -> Seq(Frame)]
      /\ \A th2 \in Thread : th2 # th => stack'[th2] = stack[th2]
      /\ stack'[th] # <<>> /\ Len(stack'[th]) = Len(stack[th]) + 1
      /\ Head(stack'[th]) = g /\ stack'[th][1] = g /\ stack'[th][2] = f
      /\ \A k \in 3..(Len(stack[th]) + 1) : stack'[th][k] = stack[th][k - 1]
  BY CallShape
<1>2. Len(stack[th]) \in Nat \ {0}
  BY PopFacts
<1>3. ASSUME NEW k \in 2..Len(stack[th])
      PROVE  stack'[th][k + 1] = stack[th][k]
  <2>1. k + 1 \in 3..(Len(stack[th]) + 1) /\ (k + 1) - 1 = k
    BY <1>2
  <2> QED
    BY <1>1, <2>1
<1>4. \A k \in Int : k + 2 - 1 = k + 1 /\ k - 2 + 1 = k - 1
  OBVIOUS
<1> QED
  BY <1>1, <1>2, <1>3, <1>4 DEF Shape, StackType

LEMMA ReturnIs ==
  ASSUME stack \in [Thread -> Seq(Frame)], NEW th \in Thread, stack[th] # <<>>, Return(th)
  PROVE  /\ Shape(th, 0) /\ StackType
         /\ stack'[th] # <<>> => 2 \in 1..Len(stack[th]) /\ Head(stack'[th]) = stack[th][2]
<1>1. /\ stack' \in [Thread -> Seq(Frame)]
      /\ \A th2 \in Thread : th2 # th => stack'[th2] = stack[th2]
      /\ Len(stack'[th]) = Len(stack[th]) - 1 /\ Len(stack[th]) \in Nat \ {0}
      /\ \A k \in 1..(Len(stack[th]) - 1) : stack'[th][k] = stack[th][k + 1]
      /\ stack'[th] # <<>> => Len(stack[th]) > 1 /\ Head(stack'[th]) = stack[th][2]
  BY ReturnShape
<1>2. ASSUME NEW k \in 2..Len(stack[th])
      PROVE  stack'[th][k - 1] = stack[th][k]
  <2>1. k - 1 \in 1..(Len(stack[th]) - 1) /\ (k - 1) + 1 = k
    BY <1>1
  <2> QED
    BY <1>1, <2>1
<1>3. \A k \in Int : k + 0 - 1 = k - 1 /\ k - 0 + 1 = k + 1
  OBVIOUS
<1> QED
  BY <1>1, <1>2, <1>3 DEF Shape, StackType

LEMMA StartIs ==
  ASSUME stack \in [Thread -> Seq(Frame)], NEW th \in Thread, stack[th] = <<>>,
         NEW s \in Seq(Frame), s # <<>>, Len(s) \in 1..2,
         stack' = [stack EXCEPT ![th] = s]
  PROVE  /\ Shape(th, Len(s)) /\ StackType /\ stack'[th] = s
         /\ stack'[th] # <<>> /\ Head(stack'[th]) = s[1]
<1>1. Len(stack[th]) = 0 /\ stack'[th] = s
  OBVIOUS
<1>3. Head(s) = s[1]
  BY PopFacts
<1>2. stack' \in [Thread -> Seq(Frame)]
  OBVIOUS
<1> QED
  BY <1>1, <1>2, <1>3 DEF Shape, StackType

\* Where the frames of the new stacks come from.
LEMMA Origin ==
  ASSUME StackType, NEW th \in Thread, NEW n, Shape(th, n),
         NEW u \in Thread, NEW k \in 1..Len(stack'[u])
  PROVE  \/ u = th /\ k \in 1..n
         \/ u # th /\ stack'[u] = stack[u]
         \/ /\ u = th /\ k \in (n + 1)..Len(stack'[th])
            /\ k - n + 1 \in 2..Len(stack[th]) /\ stack'[th][k] = stack[th][k - n + 1]
<1>1. n \in Nat /\ Len(stack'[th]) \in Nat
  BY DEF StackType, Shape
<1>2. u = th /\ k \notin 1..n => k \in (n + 1)..Len(stack'[th])
  BY <1>1
<1> QED
  BY <1>2 DEF Shape

LEMMA FirstFrame ==
  ASSUME StackType, NEW th \in Thread, stack[th] # <<>>
  PROVE  Top(th) = stack[th][1] /\ 1 \in 1..Len(stack[th]) /\ Top(th) \in Frame
<1>1. stack[th] \in Seq(Frame)
  BY DEF StackType
<1>2. /\ Head(stack[th]) = stack[th][1] /\ Head(stack[th]) \in Frame
      /\ Len(stack[th]) \in Nat \ {0}
  BY <1>1, PopFacts
<1> QED
  BY <1>2 DEF Top

LEMMA Persists ==
  ASSUME StackType, NEW th \in Thread, NEW n, Shape(th, n),
         NEW u \in Thread, NEW k \in 1..Len(stack[u]), u # th \/ k # 1
  PROVE  \E k2 \in 1..Len(stack'[u]) : stack'[u][k2] = stack[u][k]
<1>1. CASE u # th
  BY <1>1 DEF Shape
<1>2. CASE u = th
  <2>1. n \in Nat /\ Len(stack[th]) \in Nat /\ Len(stack'[th]) \in Nat
    BY DEF StackType, Shape
  <2>2. k \in 2..Len(stack[th])
    BY <1>2, <2>1
  <2>3. k + n - 1 \in (n + 1)..Len(stack'[th]) /\ stack'[th][k + n - 1] = stack[th][k]
    BY <2>2 DEF Shape
  <2>4. k + n - 1 \in 1..Len(stack'[th])
    BY <2>1, <2>3
  <2> QED
    BY <1>2, <2>3, <2>4
<1> QED
  BY <1>1, <1>2

-----------------------------------------------------------------------------
\* At most one frame of a set, and none.

LEMMA NoneKeeps ==
  ASSUME StackType, NEW th \in Thread, NEW n, Shape(th, n), NEW F, None(F),
         \A k \in 1..n : stack'[th][k] \notin F
  PROVE  None(F)'
<1> SUFFICES ASSUME NEW u \in Thread, NEW k \in 1..Len(stack'[u])
             PROVE  stack'[u][k] \notin F
  BY DEF None
<1>1. CASE u # th
  BY <1>1 DEF None, Shape
<1>2. CASE u = th /\ k \notin 1..n
  <2>1. n \in Nat /\ Len(stack[th]) \in Nat /\ Len(stack'[th]) \in Nat
    BY DEF StackType, Shape
  <2>2. k \in (n + 1)..Len(stack'[th])
    BY <1>2, <2>1
  <2>3. k - n + 1 \in 1..Len(stack[th]) /\ stack'[th][k] = stack[th][k - n + 1]
    BY <2>1, <2>2 DEF Shape
  <2> QED
    BY <1>2, <2>3 DEF None
<1> QED
  BY <1>1, <1>2

LEMMA OneKeeps ==
  ASSUME StackType, NEW th \in Thread, NEW n, Shape(th, n), NEW F, One(F),
         \A k \in 1..n : stack'[th][k] \in F =>
            (stack[th] # <<>> /\ Top(th) \in F) \/ None(F),
         n = 2 => stack'[th][1] \notin F \/ stack'[th][2] \notin F
  PROVE  One(F)'
<1> SUFFICES ASSUME NEW u1 \in Thread, NEW u2 \in Thread,
                    NEW k1 \in 1..Len(stack'[u1]), NEW k2 \in 1..Len(stack'[u2]),
                    stack'[u1][k1] \in F, stack'[u2][k2] \in F
             PROVE  u1 = u2 /\ k1 = k2
  BY DEF One
<1>1. /\ n \in 0..2
      /\ Len(stack[th]) \in Nat /\ Len(stack'[th]) \in Nat
      /\ stack[th] # <<>> => Top(th) = stack[th][1] /\ 1 \in 1..Len(stack[th])
  <2>1. stack[th] \in Seq(Frame)
    BY DEF StackType
  <2>2. stack[th] # <<>> => Head(stack[th]) = stack[th][1] /\ Len(stack[th]) \in Nat \ {0}
    BY <2>1, PopFacts
  <2> QED
    BY <2>1, <2>2 DEF StackType, Shape, Top
<1> DEFINE Old(u, k) == IF u = th THEN IF k <= n THEN 1 ELSE k - n + 1 ELSE k
           New(u, k) == u = th /\ k <= n
<1>2. ASSUME NEW u \in Thread, NEW k \in 1..Len(stack'[u]), stack'[u][k] \in F
      PROVE  \/ Old(u, k) \in 1..Len(stack[u]) /\ stack[u][Old(u, k)] \in F
             \/ New(u, k) /\ None(F)
  <2>1. CASE u # th
    <3>1. Old(u, k) = k /\ stack'[u] = stack[u]
      BY <2>1 DEF Shape
    <3> QED
      BY <1>2, <3>1
  <2>2. CASE u = th /\ k > n
    <3>1. k \in (n + 1)..Len(stack'[th])
      BY <1>1, <2>2
    <3>2. k - n + 1 \in 2..Len(stack[th]) /\ stack'[th][k] = stack[th][k - n + 1]
      BY <3>1 DEF Shape
    <3>3. Old(u, k) = k - n + 1
      BY <1>1, <2>2
    <3> HIDE DEF Old
    <3> QED
      BY <1>1, <1>2, <2>2, <3>2, <3>3
  <2>3. CASE u = th /\ k <= n
    <3>1. k \in 1..n /\ Old(u, k) = 1
      BY <1>1, <2>3
    <3> QED
      BY <1>1, <1>2, <2>3, <3>1
  <2> QED
    BY <1>1, <2>1, <2>2, <2>3
<1>3. CASE None(F)
  <2>1. New(u1, k1) /\ New(u2, k2)
    <3> HIDE DEF Old, New
    <3> QED
      BY <1>2, <1>3 DEF None
  <2>2. k1 \in 1..2 /\ k2 \in 1..2 /\ (k1 = 2 \/ k2 = 2 => n = 2)
    BY <1>1, <2>1
  <2> QED
    BY <2>1, <2>2
<1>4. CASE ~None(F)
  <2>1. /\ Old(u1, k1) \in 1..Len(stack[u1]) /\ stack[u1][Old(u1, k1)] \in F
        /\ Old(u2, k2) \in 1..Len(stack[u2]) /\ stack[u2][Old(u2, k2)] \in F
    <3> HIDE DEF Old, New
    <3> QED
      BY <1>2, <1>4
  <2>2. u1 = u2 /\ Old(u1, k1) = Old(u2, k2)
    <3> HIDE DEF Old, New
    <3> QED
      BY <2>1 DEF One
  <2>3. CASE u1 # th
    BY <2>2, <2>3
  <2>4. CASE u1 = th
    <3>1. k1 # k2 => n = 2 /\ {k1, k2} = {1, 2}
      BY <1>1, <2>2, <2>4
    <3> QED
      BY <2>2, <2>4, <3>1
  <2> QED
    BY <2>3, <2>4
<1> QED
  BY <1>3, <1>4

\* The one frame of a set was on top and has gone.
LEMMA NoneLeft ==
  ASSUME StackType, NEW th \in Thread, NEW n, Shape(th, n), NEW F, One(F),
         stack[th] # <<>>, Top(th) \in F,
         \A k \in 1..n : stack'[th][k] \notin F
  PROVE  None(F)'
<1> SUFFICES ASSUME NEW u \in Thread, NEW k \in 1..Len(stack'[u]), stack'[u][k] \in F
             PROVE  FALSE
  BY DEF None
<1>1. Top(th) = stack[th][1] /\ 1 \in 1..Len(stack[th])
  BY FirstFrame
<1>2. CASE u # th /\ stack'[u] = stack[u]
  BY <1>1, <1>2 DEF One
<1>3. CASE /\ u = th /\ k - n + 1 \in 2..Len(stack[th])
           /\ stack'[th][k] = stack[th][k - n + 1]
  <2> DEFINE j == k - n + 1
  <2>1. j \in 1..Len(stack[th]) /\ j # 1 /\ stack[th][j] \in F
    BY <1>3 DEF StackType
  <2> HIDE DEF j
  <2> QED
    BY <1>1, <2>1 DEF One
<1> QED
  BY <1>2, <1>3, Origin

LEMMA HandsKeeps ==
  ASSUME StackType, NEW th \in Thread, NEW n, Shape(th, n), HandsOK, queue' = queue,
         \A k \in 1..n : InHand(stack'[th][k]) =>
            stack[th] # <<>> /\ InHand(Top(th)) /\ Top(th).t = stack'[th][k].t,
         n = 2 => ~InHand(stack'[th][1]) \/ ~InHand(stack'[th][2])
  PROVE  HandsOK'
<1> SUFFICES ASSUME NEW t \in Task PROVE One(Hands(t))' /\ JobOnce(t)'
  BY DEF HandsOK
<1>1. One(Hands(t)) /\ JobOnce(t)
  BY DEF HandsOK
<1>2. \A k \in 1..n : stack'[th][k] \in Hands(t) => stack[th] # <<>> /\ Top(th) \in Hands(t)
  BY FirstFrame DEF Hands
<1>3. One(Hands(t))'
  <2>1. n = 2 => stack'[th][1] \notin Hands(t) \/ stack'[th][2] \notin Hands(t)
    BY DEF Hands
  <2> QED
    BY <1>1, <1>2, <2>1, OneKeeps
<1>4. None(Hands(t)) => None(Hands(t))'
  <2> SUFFICES ASSUME None(Hands(t)) PROVE None(Hands(t))'
    OBVIOUS
  <2>1. stack[th] # <<>> => Top(th) \notin Hands(t)
    BY FirstFrame DEF None
  <2> QED
    BY <1>2, <2>1, NoneKeeps
<1>5. JobOnce(t)'
  BY <1>1, <1>4 DEF JobOnce
<1> QED
  BY <1>3, <1>5

\* Who has the commit of t in hand: a frame of it, or the call that has just been
\* told that it may go on.
Nobody(t) == None(Commits(t)) /\ \A th \in Thread : ~Accepted(th, t)
Held(th, t) == Accepted(th, t) \/ (stack[th] # <<>> /\ Top(th) \in Commits(t))

LEMMA CommitsKeeps ==
  ASSUME StackType, NEW th \in Thread, NEW n, Shape(th, n), CommitsOK,
         \A u \in Thread : u # th => success'[u] = success[u],
         NEW t \in Task,
         \A k \in 1..n : stack'[th][k] \in Commits(t) => Held(th, t) \/ Nobody(t),
         Accepted(th, t)' => Held(th, t) /\ ~Counted(t)'
                             /\ \A k \in 1..n : stack'[th][k] \notin Commits(t),
         n = 2 => stack'[th][1] \notin Commits(t) \/ stack'[th][2] \notin Commits(t),
         \A k \in 1..n : stack'[th][k] \in Commits(t) /\ stack'[th][k].pc \notin Wiring
                         => ~Counted(t)',
         Held(th, t) => \/ Accepted(th, t)'
                        \/ \E k \in 1..n : stack'[th][k] \in Commits(t)
                        \/ Counted(t)' \/ status'[t] = ABORTED,
         Counted(t) => Counted(t)',
         Counted(t)' => Counted(t) \/ Held(th, t),
         status[t] = ABORTED => status'[t] = ABORTED,
         Begun(t)' => Begun(t) \/ \E k \in 1..n : stack'[th][k] \in Commits(t)
  PROVE  /\ One(Commits(t))'
         /\ \A th1, th2 \in Thread : Accepted(th1, t)' /\ Accepted(th2, t)' => th1 = th2
         /\ \A u \in Thread : Accepted(u, t)' => None(Commits(t))' /\ ~Counted(t)'
         /\ \A u \in Thread : \A k \in 1..Len(stack'[u]) :
              stack'[u][k] \in Commits(t) /\ stack'[u][k].pc \notin Wiring => ~Counted(t)'
         /\ Begun(t)' => \/ Counted(t)' \/ status'[t] = ABORTED
                         \/ \E u \in Thread : Accepted(u, t)'
                         \/ ~None(Commits(t))'
<1> DEFINE F == Commits(t)
<1>1. /\ One(F)
      /\ \A th1, th2 \in Thread : Accepted(th1, t) /\ Accepted(th2, t) => th1 = th2
      /\ \A u \in Thread : Accepted(u, t) => None(F) /\ ~Counted(t)
      /\ \A u \in Thread : \A k \in 1..Len(stack[u]) :
           stack[u][k] \in F /\ stack[u][k].pc \notin Wiring => ~Counted(t)
      /\ Begun(t) => \/ Counted(t) \/ status[t] = ABORTED
                     \/ \E u \in Thread : Accepted(u, t)
                     \/ ~None(F)
  BY DEF CommitsOK
<1>2. \A u \in Thread : u # th => (Accepted(u, t)' <=> Accepted(u, t))
  BY DEF Shape, Accepted, Top
<1>3. stack[th] # <<>> => Top(th) = stack[th][1] /\ 1 \in 1..Len(stack[th])
  BY FirstFrame
<1>4. \A u \in Thread : Accepted(u, t) /\ Held(th, t) => u = th /\ None(F)
  BY <1>1, <1>3 DEF Held, None
<1> HIDE DEF F
<1>5. One(F)'
  <2>1. \A k \in 1..n : stack'[th][k] \in F => (stack[th] # <<>> /\ Top(th) \in F) \/ None(F)
    BY <1>1 DEF F, Held, Nobody
  <2> QED
    BY <1>1, <2>1, OneKeeps DEF F
<1>6. ASSUME NEW u \in Thread, Accepted(u, t)'
      PROVE  None(F)' /\ ~Counted(t)' /\ (u # th => Accepted(u, t) /\ ~Held(th, t))
  <2>1. CASE u = th
    <3>1. \A k \in 1..n : stack'[th][k] \notin F
      BY <1>6, <2>1 DEF F
    <3>2. CASE Accepted(th, t)
      BY <1>1, <1>6, <2>1, <3>1, <3>2, NoneKeeps
    <3>3. CASE stack[th] # <<>> /\ Top(th) \in F
      BY <1>1, <1>6, <2>1, <3>1, <3>3, NoneLeft
    <3> QED
      BY <1>6, <2>1, <3>2, <3>3 DEF Held, F
  <2>2. CASE u # th
    <3>1. Accepted(u, t) /\ None(F) /\ ~Counted(t) /\ ~Held(th, t)
      BY <1>1, <1>2, <1>4, <1>6, <2>2
    <3>2. \A k \in 1..n : stack'[th][k] \notin F
      BY <3>1 DEF F, Nobody
    <3> QED
      BY <3>1, <3>2, NoneKeeps
  <2> QED
    BY <2>1, <2>2
<1>7. \A th1, th2 \in Thread : Accepted(th1, t)' /\ Accepted(th2, t)' => th1 = th2
  BY <1>1, <1>6
<1>8. ASSUME NEW u \in Thread, NEW k \in 1..Len(stack'[u]), stack'[u][k] \in F,
             stack'[u][k].pc \notin Wiring
      PROVE  ~Counted(t)'
  <2>1. CASE u = th /\ k \in 1..n
    BY <1>8, <2>1 DEF F
  <2>2. ASSUME NEW j \in 1..Len(stack[u]), stack[u][j] = stack'[u][k], u # th \/ j # 1
        PROVE  ~Counted(t)'
    <3>1. stack[u][j] \in F /\ ~Counted(t)
      BY <1>1, <1>8, <2>2
    <3>2. ~Held(th, t)
      BY <1>1, <1>3, <2>2, <3>1 DEF Held, F, None, One
    <3> QED
      BY <3>1, <3>2
  <2>3. CASE u # th /\ stack'[u] = stack[u]
    BY <2>2, <2>3
  <2>4. CASE /\ u = th /\ k - n + 1 \in 2..Len(stack[th])
             /\ stack'[th][k] = stack[th][k - n + 1]
    <3>1. k - n + 1 \in 1..Len(stack[th]) /\ k - n + 1 # 1
      BY <2>4 DEF StackType
    <3> QED
      BY <2>2, <2>4, <3>1
  <2> QED
    BY <2>1, <2>3, <2>4, Origin
<1>9. ASSUME Begun(t)'
      PROVE  \/ Counted(t)' \/ status'[t] = ABORTED
             \/ \E u \in Thread : Accepted(u, t)'
             \/ ~None(F)'
  <2>1. \A k \in 1..n : k \in 1..Len(stack'[th])
    BY DEF Shape, StackType
  <2>2. CASE \E k \in 1..n : stack'[th][k] \in F
    BY <2>1, <2>2 DEF None
  <2>3. CASE Held(th, t)
    BY <2>2, <2>3 DEF F
  <2>4. ASSUME NEW u \in Thread, Accepted(u, t), ~Held(th, t)
        PROVE  Accepted(u, t)'
    BY <1>2, <2>4 DEF Held
  <2>5. CASE ~None(F) /\ ~Held(th, t)
    <3>0. PICK u \in Thread : \E k \in 1..Len(stack[u]) : stack[u][k] \in F
      BY <2>5 DEF None
    <3>1. PICK k \in 1..Len(stack[u]) : stack[u][k] \in F
      BY <3>0
    <3>2. u # th \/ k # 1
      <4>1. u = th => stack[th] # <<>>
        BY DEF StackType
      <4> QED
        BY <1>3, <2>5, <3>1, <4>1 DEF Held, F
    <3>3. \E k2 \in 1..Len(stack'[u]) : stack'[u][k2] = stack[u][k]
      BY <3>2, Persists
    <3> QED
      BY <3>1, <3>3 DEF None
  <2> QED
    BY <1>1, <1>9, <2>2, <2>3, <2>4, <2>5 DEF F
<1> QED
  BY <1>5, <1>6, <1>7, <1>8, <1>9 DEF F

LEMMA NestKeeps ==
  ASSUME StackType, NEW th \in Thread, NEW n, Shape(th, n), NestOK,
         n # 0 /\ stack[th] # <<>> /\ Top(th).pc \in Updating
           /\ Top(th).new \in {QUEUE, RUNNING}
         => /\ stack'[th][n].pc \in Updating
            /\ stack'[th][n].t = Top(th).t /\ stack'[th][n].new = Top(th).new,
         n # 0 /\ stack'[th][n].pc \in Updating /\ stack'[th][n].new \in Awaited
         => /\ stack[th] # <<>> /\ Top(th).pc \in Updating
            /\ stack'[th][n].t = Top(th).t /\ stack'[th][n].new = Top(th).new,
         n = 2 /\ stack'[th][1].pc \in Updating /\ stack'[th][1].new \in Awaited
         => /\ stack'[th][2].t = stack'[th][1].t
            /\ stack'[th][2].pc = Caller(stack'[th][1].new),
         n = 2 /\ stack'[th][2].pc \in {"queue_job", "ran"}
         => /\ stack'[th][1].pc \in Updating /\ stack'[th][1].t = stack'[th][2].t
            /\ stack'[th][1].new \in {QUEUE, RUNNING}
            /\ stack'[th][2].pc = Caller(stack'[th][1].new)
  PROVE  NestOK'
<1>1. /\ n \in 0..2 /\ Len(stack[th]) \in Nat /\ Len(stack'[th]) \in Nat
      /\ n \in 0..Len(stack'[th])
  BY DEF StackType, Shape
<1>2. stack[th] # <<>> => Top(th) = stack[th][1] /\ 1 \in 1..Len(stack[th])
  BY FirstFrame
<1>3. stack[th] = <<>> => Len(stack[th]) = 0
  BY DEF StackType
<1>4. ASSUME NEW u \in Thread, NEW k \in 1..Len(stack'[u]),
             stack'[u][k].pc \in Updating, stack'[u][k].new \in Awaited
      PROVE  /\ k + 1 \in 1..Len(stack'[u])
             /\ stack'[u][k + 1].t = stack'[u][k].t
             /\ stack'[u][k + 1].pc = Caller(stack'[u][k].new)
  <2>1. CASE u # th /\ stack'[u] = stack[u]
    BY <1>4, <2>1 DEF NestOK
  <2>2. CASE /\ u = th /\ k \in (n + 1)..Len(stack'[th])
             /\ k - n + 1 \in 2..Len(stack[th]) /\ stack'[th][k] = stack[th][k - n + 1]
    <3> DEFINE j == k - n + 1
    <3>1. /\ j \in 1..Len(stack[th]) /\ j \in 2..Len(stack[th])
          /\ stack'[th][k] = stack[th][j] /\ (j + 1) + n - 1 = k + 1
      BY <1>1, <2>2
    <3> HIDE DEF j
    <3>2. /\ j + 1 \in 1..Len(stack[th])
          /\ stack[th][j + 1].t = stack'[u][k].t
          /\ stack[th][j + 1].pc = Caller(stack'[u][k].new)
      BY <1>4, <2>2, <3>1 DEF NestOK
    <3>3. j + 1 \in 2..Len(stack[th])
      BY <3>1, <3>2
    <3>4. k + 1 \in (n + 1)..Len(stack'[th]) /\ stack'[th][k + 1] = stack[th][j + 1]
      BY <3>1, <3>3 DEF Shape
    <3>5. k + 1 \in 1..Len(stack'[th])
      BY <1>1, <3>4
    <3> QED
      BY <2>2, <3>2, <3>4, <3>5
  <2>3. CASE u = th /\ k \in 1..n /\ k = n
    <3>1. /\ stack[th] # <<>> /\ Top(th).pc \in Updating
          /\ stack'[th][k].t = Top(th).t /\ stack'[th][k].new = Top(th).new
      BY <1>1, <1>4, <2>3
    <3>2. /\ 2 \in 1..Len(stack[th]) /\ stack[th][2].t = stack'[th][k].t
          /\ stack[th][2].pc = Caller(stack'[th][k].new)
      BY <1>2, <1>4, <2>3, <3>1 DEF NestOK
    <3>3. 2 \in 2..Len(stack[th])
      BY <1>1, <3>2
    <3>4. 2 + n - 1 \in (n + 1)..Len(stack'[th]) /\ stack'[th][2 + n - 1] = stack[th][2]
      BY <3>3 DEF Shape
    <3>5. 2 + n - 1 = k + 1 /\ k + 1 \in 1..Len(stack'[th])
      BY <1>1, <2>3, <3>4
    <3> QED
      BY <2>3, <3>2, <3>4, <3>5
  <2>4. CASE u = th /\ k \in 1..n /\ k # n
    <3>1. n = 2 /\ k = 1 /\ k + 1 = 2 /\ 2 \in 1..Len(stack'[th])
      BY <1>1, <2>4
    <3> QED
      BY <1>4, <2>4, <3>1
  <2> QED
    BY <2>1, <2>2, <2>3, <2>4, Origin
<1>5. ASSUME NEW u \in Thread, NEW k \in 1..Len(stack'[u]), k # 1,
             stack'[u][k].pc \in {"queue_job", "ran"}
      PROVE  /\ stack'[u][k - 1].pc \in Updating /\ stack'[u][k - 1].t = stack'[u][k].t
             /\ stack'[u][k - 1].new \in {QUEUE, RUNNING}
             /\ stack'[u][k].pc = Caller(stack'[u][k - 1].new)
  <2>1. CASE u # th /\ stack'[u] = stack[u]
    BY <1>5, <2>1 DEF NestOK
  <2>2. CASE /\ u = th /\ k \in (n + 1)..Len(stack'[th])
             /\ k - n + 1 \in 2..Len(stack[th]) /\ stack'[th][k] = stack[th][k - n + 1]
    <3> DEFINE j == k - n + 1
    <3>1. /\ j \in 1..Len(stack[th]) /\ j # 1 /\ stack'[th][k] = stack[th][j]
          /\ j - 1 \in 1..Len(stack[th]) /\ (j - 1) + n - 1 = k - 1
          /\ j = 2 => k - 1 = n
          /\ j # 2 => j - 1 \in 2..Len(stack[th])
      BY <1>1, <2>2
    <3> HIDE DEF j
    <3>2. /\ stack[th][j - 1].pc \in Updating /\ stack[th][j - 1].t = stack'[u][k].t
          /\ stack[th][j - 1].new \in {QUEUE, RUNNING}
          /\ stack'[u][k].pc = Caller(stack[th][j - 1].new)
      <4>1. stack[th][j].pc \in {"queue_job", "ran"} /\ stack'[u][k] = stack[th][j]
        BY <1>5, <2>2, <3>1
      <4> QED
        BY <3>1, <4>1 DEF NestOK
    <3>3. CASE j = 2
      <4>1. stack[th] # <<>> /\ Top(th) = stack[th][j - 1] /\ k - 1 = n /\ n # 0
        BY <1>1, <1>2, <1>3, <1>5, <3>1, <3>3
      <4> QED
        BY <2>2, <3>2, <4>1
    <3>4. CASE j # 2
      <4>1. stack'[th][k - 1] = stack[th][j - 1]
        BY <3>1, <3>4 DEF Shape
      <4> QED
        BY <2>2, <3>2, <4>1
    <3> QED
      BY <3>3, <3>4
  <2>3. CASE u = th /\ k \in 1..n
    <3>1. n = 2 /\ k = 2 /\ k - 1 = 1
      BY <1>1, <1>5, <2>3
    <3> QED
      BY <1>5, <2>3, <3>1
  <2> QED
    BY <2>1, <2>2, <2>3, Origin
<1> QED
  BY <1>4, <1>5 DEF NestOK

LEMMA SeesStep ==
  ASSUME StackType, NEW th \in Thread, NEW n, Shape(th, n),
         \A u \in Thread : \A k \in 1..Len(stack[u]) : \A f \in Frame :
            f = stack[u][k] /\ (u # th \/ k # 1) => Sees(f)',
         \A k \in 1..n : \A f \in Frame : f = stack'[th][k] => Sees(f)'
  PROVE  SeesOK'
<1> SUFFICES ASSUME NEW u \in Thread, NEW k \in 1..Len(stack'[u])
             PROVE  Sees(stack[u][k])'
  BY DEF SeesOK
<1>1. PICK f \in Frame : f = stack'[u][k]
  BY DEF StackType
<1>2. Sees(f)'
  <2>1. CASE u = th /\ k \in 1..n
    BY <1>1, <2>1
  <2>2. CASE u # th /\ stack'[u] = stack[u]
    BY <1>1, <2>2
  <2>3. CASE /\ u = th /\ k - n + 1 \in 2..Len(stack[th])
             /\ stack'[th][k] = stack[th][k - n + 1]
    <3>1. k - n + 1 \in 1..Len(stack[th]) /\ k - n + 1 # 1
      BY <2>3 DEF StackType
    <3> QED
      BY <1>1, <2>3, <3>1
  <2> QED
    BY <2>1, <2>2, <2>3, Origin
<1> QED
  BY <1>1, <1>2 DEF Sees, Knows

LEMMA SeesKeeps ==
  ASSUME StackType, NEW th \in Thread, NEW n, Shape(th, n), SeesOK,
         status' = status, runs' = runs,
         \A k \in 1..n : \A f \in Frame : f = stack'[th][k] => Sees(f)'
  PROVE  SeesOK'
<1>1. \A f \in Frame : Sees(f) => Sees(f)'
  BY DEF Sees, Knows
<1>2. ASSUME NEW u \in Thread, NEW k \in 1..Len(stack[u]), NEW f \in Frame, f = stack[u][k]
      PROVE  Sees(f)'
  <2>1. Sees(f)
    BY <1>2 DEF SeesOK
  <2> QED
    BY <1>1, <2>1
<1> QED
  BY <1>2, SeesStep

\* The other threads go on to see what they saw.
LEMMA OthersSee ==
  ASSUME StackType, NEW th \in Thread, NEW n, Shape(th, n),
         \A u \in Thread : TopSees(u), TopSees(th)',
         status' = status,
         \A u \in Thread : u # th => success'[u] = success[u],
         \A u \in Thread : \A f \in Frame :
            u # th /\ stack[u] # <<>> /\ f = Top(u) /\ f.pc = "ran" => runs'[f.t] = runs[f.t]
  PROVE  \A u \in Thread : TopSees(u)'
<1> SUFFICES ASSUME NEW u \in Thread, u # th PROVE TopSees(u)'
  OBVIOUS
<1>1. stack'[u] = stack[u] /\ TopSees(u)
  BY DEF Shape
<1>2. stack[u] # <<>> => Top(u) \in Frame
  BY FirstFrame
<1> QED
  BY <1>1, <1>2 DEF TopSees, Top

-----------------------------------------------------------------------------
(* The steps that neither take anything in hand nor lose it. *)

Plain(g) ==
    /\ ~InHand(g) /\ ~Committing(g) /\ Knows(g) = Status
    /\ ~(g.pc \in Updating /\ g.new \in Awaited)
    /\ g.pc \notin {"queue_job", "ran", "commit"}

\* The call goes on where it was.
GoesOn(f, g) ==
    /\ g.t = f.t
    /\ \/ f.pc \in Active /\ g.pc \in Active /\ g.new = f.new
       \/ f.pc \in Wiring /\ g.pc \in Wiring

LEMMA Labels ==
  /\ Updating = {"cas", "notify", "change", "act"}
  /\ Active = {"notify", "change", "act"}
  /\ Wiring = {"wire", "load_parent", "load_dep", "check"}
  BY DEF Updating, Active, Wiring

LEMMA GoesOnKeeps ==
  ASSUME NEW f \in Frame, NEW g \in Frame, GoesOn(f, g)
  PROVE  /\ InHand(g) <=> InHand(f)
         /\ Committing(g) <=> Committing(f)
         /\ g.pc \in Wiring <=> f.pc \in Wiring
         /\ g.pc \in Updating <=> f.pc \in Updating
         /\ g.pc \in Updating => g.new = f.new
         /\ Sees(f) => Sees(g)
         /\ g.pc \notin {"queue_job", "ran", "commit"}
<1>1. CASE f.pc \in Active /\ g.pc \in Active /\ g.new = f.new
  BY <1>1, Labels DEF GoesOn, InHand, Committing, Sees, Knows
<1>2. CASE f.pc \in Wiring /\ g.pc \in Wiring
  <2>1. status[f.t] \in Status => Sees(g)
    BY <1>2, Labels DEF GoesOn, InHand, Sees, Knows
  <2>2. Knows(f) = Status
    BY <1>2, Labels DEF Knows
  <2> QED
    BY <1>2, <2>1, <2>2, Labels DEF GoesOn, InHand, Committing, Sees
<1> QED
  BY <1>1, <1>2 DEF GoesOn

LEMMA QuietStep ==
  ASSUME IInv, RunInv, StackType, NEW th \in Thread, NEW n, Shape(th, n),
         status' = status, ndep' = ndep, queue' = queue, runs' = runs,
         \A u \in Thread : u # th => success'[u] = success[u],
         stack[th] # <<>> /\ Top(th).pc = "commit" => ~success[th],
         \A k \in 1..n : \/ Plain(stack'[th][k])
                         \/ k = n /\ stack[th] # <<>> /\ GoesOn(Top(th), stack'[th][k]),
         stack[th] # <<>> /\ (Top(th).pc \in Updating \/ Committing(Top(th)))
           => \/ n # 0 /\ GoesOn(Top(th), stack'[th][n])
              \/ Top(th).pc \in Wiring
  PROVE  RunInv'
<1>1. HandsOK /\ CommitsOK /\ NestOK /\ SeesOK /\ JobsSee /\ RunsOK
      /\ \A u \in Thread : TopSees(u)
  BY DEF RunInv, KnowsOK
<1>2. n \in 0..2 /\ n \in 0..Len(stack'[th]) /\ Len(stack'[th]) \in Nat
      /\ \A k \in 1..n : k \in 1..Len(stack'[th]) /\ stack'[th][k] \in Frame
  BY DEF Shape, StackType
<1>3. stack[th] # <<>> =>
        Top(th) = stack[th][1] /\ 1 \in 1..Len(stack[th]) /\ Top(th) \in Frame
  BY FirstFrame
<1>4. stack[th] # <<>> => Sees(Top(th))
  BY <1>1, <1>3 DEF SeesOK
<1>5. ASSUME NEW k \in 1..n, ~Plain(stack'[th][k])
      PROVE  /\ k = n /\ stack[th] # <<>> /\ stack'[th][k].t = Top(th).t
             /\ InHand(stack'[th][k]) <=> InHand(Top(th))
             /\ Committing(stack'[th][k]) <=> Committing(Top(th))
             /\ stack'[th][k].pc \in Wiring <=> Top(th).pc \in Wiring
             /\ stack'[th][k].pc \in Updating <=> Top(th).pc \in Updating
             /\ stack'[th][k].pc \in Updating => stack'[th][k].new = Top(th).new
             /\ Sees(stack'[th][k])
             /\ stack'[th][k].pc \notin {"queue_job", "ran", "commit"}
  BY <1>2, <1>3, <1>4, <1>5, GoesOnKeeps DEF GoesOn
<1>6. HandsOK'
  <2>1. ASSUME NEW k \in 1..n, InHand(stack'[th][k])
        PROVE  k = n /\ stack[th] # <<>> /\ InHand(Top(th)) /\ Top(th).t = stack'[th][k].t
    BY <1>5, <2>1 DEF Plain
  <2>2. n = 2 => ~InHand(stack'[th][1])
    BY <2>1
  <2> QED
    BY <1>1, <2>1, <2>2, HandsKeeps
<1>7. stack'[th] # <<>> => Head(stack'[th]).pc \notin {"queue_job", "ran", "commit"}
  <2> SUFFICES ASSUME stack'[th] # <<>>
               PROVE  Head(stack'[th]).pc \notin {"queue_job", "ran", "commit"}
    OBVIOUS
  <2>1. Head(stack'[th]) = stack'[th][1] /\ 1 \in 1..Len(stack'[th])
    <3>1. stack'[th] \in Seq(Frame)
      BY DEF StackType
    <3> QED
      BY <3>1, PopFacts
  <2>2. CASE n # 0
    <3>1. 1 \in 1..n
      BY <1>2, <2>2
    <3> QED
      BY <1>5, <2>1, <3>1 DEF Plain
  <2>3. CASE n = 0
    <3>1. 2 \in 2..Len(stack[th]) /\ stack'[th][1] = stack[th][2]
      BY <2>1, <2>3 DEF Shape
    <3>2. stack[th] # <<>> /\ 2 \in 1..Len(stack[th]) /\ 2 # 1 /\ 2 - 1 = 1
      BY <3>1 DEF StackType
    <3>3. Top(th).pc \notin Updating
      BY <2>3, <3>2, Labels
    <3>4. stack[th][2].pc \notin {"queue_job", "ran"}
      BY <1>1, <1>3, <3>2, <3>3 DEF NestOK
    <3>5. stack[th][2].pc # "commit"
      BY <1>3, <3>1, <3>2, <3>3, InvParts DEF StackOK, CommitCallOK
    <3> QED
      BY <2>1, <3>1, <3>4, <3>5
  <2> QED
    BY <2>2, <2>3
<1>8. CommitsOK'
  <2>1. \A t \in Task : ~Accepted(th, t) /\ ~Accepted(th, t)'
    BY <1>7 DEF Accepted, Top
  <2>2. ASSUME NEW t \in Task, NEW k \in 1..n, stack'[th][k] \in Commits(t)
        PROVE  /\ k = n /\ Held(th, t)
               /\ stack'[th][k].pc \notin Wiring => ~Counted(t)
    <3>1. /\ k = n /\ stack[th] # <<>> /\ Top(th) \in Commits(t)
          /\ stack'[th][k].pc \in Wiring <=> Top(th).pc \in Wiring
      BY <1>3, <1>5, <2>2 DEF Plain, Commits
    <3> QED
      BY <1>1, <1>3, <3>1 DEF Held, CommitsOK
  <2>3. ASSUME NEW t \in Task, Held(th, t)
        PROVE  (\E k \in 1..n : stack'[th][k] \in Commits(t)) \/ Counted(t)
    <3>1. stack[th] # <<>> /\ Top(th) \in Commits(t) /\ Committing(Top(th)) /\ Top(th).t = t
      BY <2>1, <2>3 DEF Held, Commits
    <3>2. CASE n # 0 /\ GoesOn(Top(th), stack'[th][n])
      <4>1. n \in 1..n
        BY <1>2, <3>2
      <4>2. stack'[th][n] \in Commits(t)
        BY <1>2, <1>3, <3>1, <3>2, <4>1, GoesOnKeeps DEF Commits, GoesOn
      <4> QED
        BY <4>1, <4>2
    <3>3. CASE Top(th).pc \in Wiring
      BY <3>1, <3>3, TopFacts DEF FrameOK
    <3> QED
      BY <3>1, <3>2, <3>3
  <2>4. \A t \in Task : (Counted(t)' <=> Counted(t)) /\ (Begun(t)' <=> Begun(t))
    BY DEF Counted, Begun
  <2>5. ASSUME NEW t \in Task
        PROVE  n = 2 => stack'[th][1] \notin Commits(t) \/ stack'[th][2] \notin Commits(t)
    BY <2>2
  <2> QED
    BY <1>1, <2>1, <2>2, <2>3, <2>4, <2>5, CommitsKeeps DEF CommitsOK
<1>9. NestOK'
  <2>1. n # 0 => n \in 1..n
    BY <1>2
  <2>2. n # 0 /\ stack[th] # <<>> /\ Top(th).pc \in Updating
         => /\ stack'[th][n].pc \in Updating
            /\ stack'[th][n].t = Top(th).t /\ stack'[th][n].new = Top(th).new
    BY <1>2, <1>3, <2>1, Labels, GoesOnKeeps DEF GoesOn
  <2>3. n # 0 /\ stack'[th][n].pc \in Updating /\ stack'[th][n].new \in Awaited
         => /\ stack[th] # <<>> /\ Top(th).pc \in Updating
            /\ stack'[th][n].t = Top(th).t /\ stack'[th][n].new = Top(th).new
    BY <1>5, <2>1 DEF Plain
  <2>4. n = 2 => ~(stack'[th][1].pc \in Updating /\ stack'[th][1].new \in Awaited)
                 /\ stack'[th][2].pc \notin {"queue_job", "ran"}
    BY <1>5 DEF Plain
  <2> QED
    BY <1>1, <2>2, <2>3, <2>4, NestKeeps
<1>10. SeesOK'
  <2>1. ASSUME NEW k \in 1..n, NEW f \in Frame, f = stack'[th][k]
        PROVE  Sees(f)'
    <3>1. Sees(f)
      <4>1. CASE ~Plain(f)
        BY <1>5, <2>1, <4>1
      <4>2. CASE Plain(f)
        <5>1. status[f.t] \in Status
          BY InvParts DEF GraphType, Frame
        <5> QED
          BY <4>2, <5>1, Labels DEF Plain, Sees, Awaited
      <4> QED
        BY <4>1, <4>2
    <3> QED
      BY <3>1 DEF Sees, Knows
  <2> QED
    BY <1>1, <2>1, SeesKeeps
<1>11. \A u \in Thread : TopSees(u)'
  <2>1. TopSees(th)'
    BY <1>7 DEF TopSees, Top
  <2> QED
    BY <1>1, <2>1, OthersSee
<1>12. JobsSee' /\ RunsOK'
  BY <1>1 DEF JobsSee, RunsOK
<1> QED
  BY <1>6, <1>8, <1>9, <1>10, <1>11, <1>12 DEF RunInv, KnowsOK

Still(th) ==
    /\ status' = status /\ ndep' = ndep /\ queue' = queue /\ runs' = runs
    /\ \A u \in Thread : u # th => success'[u] = success[u]
    /\ At(th, "commit") => ~success[th]

LEMMA QuietGoto ==
  ASSUME IInv, RunInv, NEW th \in Thread, stack[th] # <<>>, Still(th),
         NEW f \in Frame, Goto(th, f), Plain(f) \/ GoesOn(Top(th), f),
         \/ Top(th).pc \notin Updating /\ ~Committing(Top(th))
         \/ GoesOn(Top(th), f)
         \/ Top(th).pc \in Wiring
  PROVE  RunInv'
<1>1. Shape(th, 1) /\ StackType /\ stack'[th][1] = f
  BY GotoIs, InvParts, FramesType
<1>2. \A k \in 1..1 : k = 1
  OBVIOUS
<1> QED
  BY <1>1, <1>2, QuietStep DEF Still, At

LEMMA QuietCall ==
  ASSUME IInv, RunInv, NEW th \in Thread, stack[th] # <<>>, Still(th),
         NEW g \in Frame, NEW f \in Frame, Call(th, g, f),
         Plain(g), Plain(f) \/ GoesOn(Top(th), f),
         \/ Top(th).pc \notin Updating /\ ~Committing(Top(th))
         \/ GoesOn(Top(th), f)
  PROVE  RunInv'
<1>1. Shape(th, 2) /\ StackType /\ stack'[th][1] = g /\ stack'[th][2] = f
  BY CallIs, InvParts, FramesType
<1>2. \A k \in 1..2 : k = 1 \/ k = 2
  OBVIOUS
<1> QED
  BY <1>1, <1>2, QuietStep DEF Still, At

LEMMA QuietReturn ==
  ASSUME IInv, RunInv, NEW th \in Thread, stack[th] # <<>>, Still(th), Return(th),
         \/ Top(th).pc \notin Updating /\ ~Committing(Top(th))
         \/ Top(th).pc \in Wiring
  PROVE  RunInv'
<1>1. Shape(th, 0) /\ StackType
  BY ReturnIs, InvParts, FramesType
<1>2. 1..0 = {}
  OBVIOUS
<1> QED
  BY <1>1, <1>2, QuietStep DEF Still, At

LEMMA QuietStart ==
  ASSUME IInv, RunInv, NEW th \in Thread, stack[th] = <<>>, Still(th),
         NEW f \in Frame, stack' = [stack EXCEPT ![th] = <<f>>], Plain(f)
  PROVE  RunInv'
<1> DEFINE s == <<f>>
<1>1. s \in Seq(Frame) /\ Len(s) = 1 /\ s # <<>> /\ s[1] = f
  OBVIOUS
<1>2. Shape(th, 1) /\ StackType /\ stack'[th][1] = f
  <2>1. stack \in [Thread -> Seq(Frame)] /\ stack' = [stack EXCEPT ![th] = s]
    BY InvParts, FramesType
  <2> HIDE DEF s
  <2>2. Len(s) \in 1..2
    BY <1>1
  <2> QED
    <3>1. Shape(th, Len(s)) /\ StackType /\ stack'[th] = s
      BY <1>1, <2>1, <2>2, StartIs
    <3> QED
      BY <1>1, <3>1
<1>3. \A k \in 1..1 : k = 1
  OBVIOUS
<1> QED
  BY <1>2, <1>3, QuietStep DEF Still, At

LEMMA RunStutter ==
  ASSUME RunInv, status' = status, ndep' = ndep, queue' = queue, runs' = runs,
         stack' = stack, success' = success
  PROVE  RunInv'
<1>1. HandsOK'
  BY DEF RunInv, HandsOK, JobOnce, One, None
<1>2. CommitsOK'
  BY DEF RunInv, CommitsOK, Accepted, One, None, Counted, Begun, Top
<1>3. NestOK'
  BY DEF RunInv, NestOK
<1>4. KnowsOK'
  <2>1. SeesOK'
    <3> SUFFICES ASSUME NEW u \in Thread, NEW k \in 1..Len(stack'[u])
                 PROVE  Sees(stack[u][k])'
      BY DEF SeesOK
    <3>1. Sees(stack[u][k])
      BY DEF RunInv, KnowsOK, SeesOK
    <3> QED
      BY <3>1 DEF Sees, Knows
  <2>2. (\A th \in Thread : TopSees(th)') /\ JobsSee'
    BY DEF RunInv, KnowsOK, TopSees, JobsSee, Top
  <2> QED
    BY <2>1, <2>2 DEF KnowsOK
<1>5. RunsOK'
  BY DEF RunInv, RunsOK
<1> QED
  BY <1>1, <1>2, <1>3, <1>4, <1>5 DEF RunInv

\* The labels of frames that have nothing to do with a run or a commit.
Easy == Label \ (Updating \cup Wiring
                 \cup {"queue_job", "queue_push", "ran", "handler", "commit", "commit_init"})

LEMMA EasyPlain ==
  ASSUME NEW f \in Frame, f.pc \in Easy
  PROVE  Plain(f) /\ f.pc \notin Updating /\ ~Committing(f)
  BY Labels DEF Easy, Plain, InHand, Committing, Knows

LEMMA EasyLabels ==
  {"queue_inc", "pop", "retract", "retracted", "wait", "wait_stat", "wait_sched",
   "wait_loop", "wait_done", "add_lock", "add_check", "add_push", "rm_lock", "rm_check",
   "rm_detach", "create", "bar_lock", "bar_loop", "free_erase", "free_task"} = Easy
  BY DEF Easy, Label, Updating, Wiring

LEMMA PcFrame ==
  ASSUME NEW f \in Frame, NEW pc \in Label, NEW i \in Nat
  PROVE  /\ [f EXCEPT !.pc = pc] \in Frame /\ [f EXCEPT !.pc = pc].pc = pc
         /\ [f EXCEPT !.pc = pc].t = f.t /\ [f EXCEPT !.pc = pc].new = f.new
         /\ [f EXCEPT !.pc = pc].old = f.old
         /\ Moved(f, pc, i) \in Frame /\ Moved(f, pc, i).pc = pc
         /\ Moved(f, pc, i).t = f.t /\ Moved(f, pc, i).new = f.new
         /\ Moved(f, pc, i).old = f.old /\ Moved(f, pc, i).i = i
  BY DEF Frame, Moved

LEMMA Entered ==
  ASSUME NEW pc \in Label, NEW t \in Task, NEW p \in Task
  PROVE  /\ Enter(pc, t, p) \in Frame /\ Enter(pc, t, p).pc = pc /\ Enter(pc, t, p).t = t
         /\ Scheduler(t) \in Frame /\ Scheduler(t).pc = "pop" /\ Scheduler(t).t = t
  BY DEF Enter, Scheduler, Frame, Label, Status

LEMMA Updates ==
  ASSUME NEW t \in Task, NEW o \in Status, NEW n \in Status
  PROVE  /\ Update(t, o, n) \in Frame /\ Update(t, o, n).pc = "cas" /\ Update(t, o, n).t = t
         /\ Update(t, o, n).old = o /\ Update(t, o, n).new = n
  BY DEF Update, Frame, Label

LEMMA UpdatePlain ==
  ASSUME NEW f \in Frame, f.pc = "cas", f.old \in {DEPHOLD, READY}, f.new \in {READY, ABORTED}
  PROVE  Plain(f)
  BY Labels DEF Plain, InHand, Committing, Knows, Awaited, INVAL, IDLE, DEPHOLD, READY, QUEUE,
         RUNNING, FINAL, COMPLETED, ABORTED, FAILED

\* Calls without part in a run or a commit.
LEMMA EasyStep ==
  ASSUME IInv, RunInv, NEW th \in Thread, stack[th] # <<>>, Top(th).pc \in Easy, Still(th),
         \/ Return(th)
         \/ \E pc \in Easy : Step(th, pc)
         \/ \E pc \in Easy, i \in Nat : StepTo(th, pc, i)
         \/ \E f \in Frame : Goto(th, f) /\ f.pc \in Easy
         \/ \E g, f \in Frame : Call(th, g, f) /\ Plain(g) /\ f.pc \in Easy
  PROVE  RunInv'
<1>1. Top(th) \in Frame
  BY TopFacts
<1>2. Top(th).pc \notin Updating /\ ~Committing(Top(th))
  BY <1>1, EasyPlain
<1>3. Easy \subseteq Label
  BY DEF Easy
<1>4. ASSUME NEW f \in Frame, Goto(th, f), f.pc \in Easy
      PROVE  RunInv'
  BY <1>2, <1>4, EasyPlain, QuietGoto
<1>5. CASE Return(th)
  BY <1>2, <1>5, QuietReturn
<1>6. ASSUME NEW pc \in Easy, Step(th, pc)
      PROVE  RunInv'
  <2> DEFINE g == [Top(th) EXCEPT !.pc = pc]
  <2>0. pc \in Label /\ 0 \in Nat
    BY <1>3
  <2>1. g \in Frame /\ g.pc = pc /\ Goto(th, g)
    BY <1>1, <1>6, <2>0, PcFrame DEF Step
  <2> HIDE DEF g
  <2> QED
    BY <1>4, <2>1
<1>7. ASSUME NEW pc \in Easy, NEW i \in Nat, StepTo(th, pc, i)
      PROVE  RunInv'
  <2> DEFINE g == Moved(Top(th), pc, i)
  <2>0. pc \in Label
    BY <1>3
  <2>1. g \in Frame /\ g.pc = pc /\ Goto(th, g)
    BY <1>1, <1>7, <2>0, PcFrame DEF StepTo, Moved
  <2> HIDE DEF g
  <2> QED
    BY <1>4, <2>1
<1>8. ASSUME NEW g \in Frame, NEW f \in Frame, Call(th, g, f), Plain(g), f.pc \in Easy
      PROVE  RunInv'
  BY <1>2, <1>8, EasyPlain, QuietCall
<1> QED
  BY <1>4, <1>5, <1>6, <1>7, <1>8

LEMMA WaitsRun ==
  ASSUME IInv, RunInv, NEW th \in Thread, Waits(th)
  PROVE  RunInv'
<1>1. /\ stack[th] # <<>> /\ Top(th).pc \in Easy
      /\ Top(th).pc \in {"wait", "wait_stat", "wait_sched", "wait_loop", "wait_done"}
  BY EasyLabels DEF Waits, Wait, WaitStat, WaitSched, WaitLoop, WaitDone, At
<1>2. Still(th) /\ UNCHANGED <<status, ndep, queue, runs, success>>
  BY <1>1 DEF Waits, Wait, WaitStat, WaitSched, WaitLoop, WaitDone, task, job, Still, At
<1>3. {"wait_stat", "wait_sched", "wait_done", "wait_loop", "pop"} \subseteq Easy
  BY EasyLabels
<1>4. CASE Wait(th)
  <2>1. PICK i \in {0, 1} : StepTo(th, "wait_stat", i)
    BY <1>4 DEF Wait
  <2> QED
    BY <1>1, <1>2, <1>3, <2>1, EasyStep
<1>5. CASE WaitStat(th) \/ WaitLoop(th)
  <2>1. \E pc \in Easy : Step(th, pc)
    BY <1>3, <1>5 DEF WaitStat, WaitLoop
  <2> QED
    BY <1>1, <1>2, <2>1, EasyStep
<1>6. CASE WaitSched(th)
  <2> DEFINE g == Scheduler(Top(th).t)
             h == [Top(th) EXCEPT !.pc = "wait_loop"]
  <2>1. CASE Call(th, g, h)
    <3>1. Top(th) \in Frame /\ Top(th).t \in Task /\ "wait_loop" \in Label /\ 0 \in Nat
      BY <1>1, <1>3, TopFacts DEF Easy
    <3>2. g \in Frame /\ g.pc = "pop"
      BY <3>1, Entered
    <3>3. h \in Frame /\ h.pc = "wait_loop"
      BY <3>1, PcFrame
    <3> HIDE DEF g, h
    <3>4. Plain(g)
      BY <1>3, <3>2, EasyPlain
    <3> QED
      BY <1>1, <1>2, <1>3, <2>1, <3>2, <3>3, <3>4, EasyStep
  <2>2. CASE stack' = stack
    BY <1>2, <2>2, RunStutter
  <2> QED
    BY <1>6, <2>1, <2>2 DEF WaitSched
<1>7. CASE WaitDone(th)
  BY <1>1, <1>2, <1>7, EasyStep DEF WaitDone
<1> QED
  BY <1>4, <1>5, <1>6, <1>7 DEF Waits

LEMMA DependRun ==
  ASSUME IInv, RunInv, NEW th \in Thread, Depend(th)
  PROVE  RunInv'
<1>1. /\ stack[th] # <<>> /\ Top(th).pc \in Easy /\ Top(th).pc # "commit"
  BY EasyLabels DEF Depend, ReadLock, IdleCheck, AddPush, RmDetach, At
<1>2. Still(th)
  BY <1>1 DEF Depend, ReadLock, IdleCheck, AddPush, RmDetach, task, job, Still, At
<1>3. {"add_check", "rm_check", "add_push", "rm_detach"} \subseteq Easy
  BY EasyLabels
<1>4. Return(th) \/ \E pc \in Easy : Step(th, pc)
  BY <1>3 DEF Depend, ReadLock, IdleCheck, AddPush, RmDetach
<1> QED
  BY <1>1, <1>2, <1>4, EasyStep

LEMMA BarrierRun ==
  ASSUME IInv, RunInv, NEW th \in Thread, BarLock(th) \/ BarLoop(th)
  PROVE  RunInv'
<1>1. /\ stack[th] # <<>> /\ Top(th).pc \in Easy /\ Top(th).pc # "commit"
  BY EasyLabels DEF BarLock, BarLoop, At
<1>2. Still(th)
  BY <1>1 DEF BarLock, BarLoop, task, job, Still, At
<1>3. {"bar_loop", "add_lock"} \subseteq Easy
  BY EasyLabels
<1>4. /\ Top(th) \in Frame /\ Top(th).t \in Task /\ Top(th).i \in Nat
      /\ Len(tasks) \in Nat /\ "add_lock" \in Label /\ "bar_loop" \in Label
  BY <1>1, <1>3, TopFacts, InvParts DEF RestType, Easy
<1>5. CASE BarLock(th)
  <2> DEFINE g == [Top(th) EXCEPT !.pc = "bar_loop", !.n = Len(tasks)]
  <2>1. g \in Frame /\ g.pc = "bar_loop"
    BY <1>4 DEF Frame
  <2>2. Goto(th, g)
    BY <1>5 DEF BarLock
  <2> HIDE DEF g
  <2> QED
    BY <1>1, <1>2, <1>3, <2>1, <2>2, EasyStep
<1>6. CASE BarLoop(th)
  <2> DEFINE f == Top(th)
             pp == tasks[f.i]
             g == Enter("add_lock", f.t, pp)
             next == [f EXCEPT !.i = f.i + 1]
  <2>1. next \in Frame /\ next.pc = "bar_loop"
    <3>1. f.pc = "bar_loop"
      BY <1>6 DEF BarLoop, At
    <3> QED
      BY <1>4, <3>1 DEF Frame
  <2>2. CASE Call(th, g, next) /\ pp \in Selects[f.t]
    <3>1. pp \in Task
      BY <1>4, <2>2, ConstantsAssumption
    <3>2. g \in Frame /\ g.pc = "add_lock"
      BY <1>4, <3>1, Entered
    <3> HIDE DEF g, next, f, pp
    <3>3. Plain(g)
      BY <1>3, <3>2, EasyPlain
    <3> QED
      BY <1>1, <1>2, <1>3, <2>1, <2>2, <3>2, <3>3, EasyStep
  <2>3. CASE Goto(th, next)
    <3> HIDE DEF next
    <3> QED
      BY <1>1, <1>2, <1>3, <2>1, <2>3, EasyStep
  <2>4. CASE Return(th)
    BY <1>1, <1>2, <2>4, EasyStep
  <2> QED
    BY <1>6, <2>2, <2>3, <2>4 DEF BarLoop
<1> QED
  BY <1>5, <1>6

LEMMA FreeRun ==
  ASSUME IInv, RunInv, NEW th \in Thread, FreeErase(th) \/ FreeTask(th)
  PROVE  RunInv'
<1>1. /\ stack[th] # <<>> /\ Top(th).pc \in Easy /\ Top(th).pc # "commit"
  BY EasyLabels DEF FreeErase, FreeTask, At
<1>2. Still(th)
  BY <1>1 DEF FreeErase, FreeTask, task, job, Still, At
<1>3. Return(th) \/ \E pc \in Easy : Step(th, pc)
  BY EasyLabels DEF FreeErase, FreeTask
<1> QED
  BY <1>1, <1>2, <1>3, EasyStep

LEMMA RetractRun ==
  ASSUME IInv, RunInv, NEW th \in Thread, Retract(th) \/ Retracted(th)
  PROVE  RunInv'
<1>1. /\ stack[th] # <<>> /\ Top(th).pc \in Easy /\ Top(th).pc # "commit"
  BY EasyLabels DEF Retract, Retracted, At
<1>2. Still(th)
  BY <1>1 DEF Retract, Retracted, task, job, Still, At
<1>3. Top(th) \in Frame /\ Top(th).t \in Task /\ "retracted" \in Label /\ "retracted" \in Easy
      /\ "retract" \in Easy /\ 0 \in Nat
  BY <1>1, TopFacts, EasyLabels DEF Label
<1>4. ASSUME status[Top(th).t] \in {DEPHOLD, READY},
             Call(th, Update(Top(th).t, status[Top(th).t], ABORTED),
                      [Top(th) EXCEPT !.pc = "retracted"])
      PROVE  RunInv'
  <2> DEFINE g == Update(Top(th).t, status[Top(th).t], ABORTED)
             h == [Top(th) EXCEPT !.pc = "retracted"]
  <2>1. /\ status[Top(th).t] \in Status /\ ABORTED \in Status
    BY <1>4 DEF Status
  <2>2. g \in Frame /\ g.pc = "cas" /\ g.old \in {DEPHOLD, READY} /\ g.new = ABORTED
    BY <1>3, <1>4, <2>1, Updates
  <2>3. h \in Frame /\ h.pc = "retracted"
    BY <1>3, PcFrame
  <2>4. Call(th, g, h)
    BY <1>4
  <2> HIDE DEF g, h
  <2>5. Plain(g)
    BY <2>2, UpdatePlain
  <2> QED
    BY <1>1, <1>2, <1>3, <2>2, <2>3, <2>4, <2>5, EasyStep
<1>5. CASE Return(th) \/ Step(th, "retract")
  BY <1>1, <1>2, <1>3, <1>5, EasyStep
<1> QED
  BY <1>4, <1>5 DEF Retract, Retracted

LEMMA QueueIncRun ==
  ASSUME IInv, RunInv, NEW th \in Thread, QueueInc(th) \/ QueueFault(th)
  PROVE  RunInv'
<1>1. CASE QueueInc(th)
  <2>1. stack[th] # <<>> /\ Top(th).pc \in Easy /\ Top(th).pc # "commit"
    BY <1>1, EasyLabels DEF QueueInc, At
  <2>2. Still(th)
    BY <1>1, <2>1 DEF QueueInc, task, Still, At
  <2> QED
    BY <1>1, <2>1, <2>2, EasyStep DEF QueueInc
<1>2. CASE QueueFault(th)
  BY <1>2, RunStutter DEF QueueFault, task, job, local
<1> QED
  BY <1>1, <1>2

LEMMA PopEmptyRun ==
  ASSUME IInv, RunInv, NEW th \in Thread, PopEmpty(th)
  PROVE  RunInv'
<1>1. stack[th] # <<>> /\ Top(th).pc \in Easy /\ Top(th).pc # "commit"
  BY EasyLabels DEF PopEmpty, At
<1>2. Still(th)
  BY <1>1 DEF PopEmpty, task, job, Still, At
<1>3. Top(th).i \in Nat /\ "pop" \in Easy
  BY <1>1, TopFacts, EasyLabels
<1>4. Top(th).i + 1 \in Nat
  BY <1>3
<1>5. Return(th) \/ \E pc \in Easy, i \in Nat : StepTo(th, pc, i)
  BY <1>3, <1>4 DEF PopEmpty
<1> QED
  BY <1>1, <1>2, <1>5, EasyStep

LEMMA SemDecRun ==
  ASSUME IInv, RunInv, NEW th \in Thread, SemDec(th)
  PROVE  RunInv'
<1> DEFINE f == Scheduler(AnyTask)
<1>1. stack[th] = <<>> /\ stack' = [stack EXCEPT ![th] = <<f>>]
  BY DEF SemDec
<1>2. Still(th)
  BY <1>1 DEF SemDec, task, Still, At
<1>3. f \in Frame /\ f.pc = "pop"
  <2>1. AnyTask \in Task
    BY ConstantsAssumption DEF AnyTask
  <2>2. "pop" \in Label
    BY DEF Label
  <2> QED
    BY <2>1, <2>2, Entered
<1> HIDE DEF f
<1>4. Plain(f)
  BY <1>3, EasyPlain, EasyLabels
<1> QED
  BY <1>1, <1>2, <1>3, <1>4, QuietStart

\* Taski_update_status and Task_commit go on.
LEMMA MovedRun ==
  ASSUME IInv, RunInv, NEW th \in Thread, stack[th] # <<>>, Still(th),
         NEW pc, NEW i \in Nat, Goto(th, Moved(Top(th), pc, i)),
         \/ Top(th).pc \in Active /\ pc \in Active
         \/ Top(th).pc \in Wiring /\ pc \in Wiring
  PROVE  RunInv'
<1> DEFINE g == Moved(Top(th), pc, i)
<1>1. Top(th) \in Frame /\ pc \in Label
  BY TopFacts, Labels DEF Label
<1>2. g \in Frame /\ g.pc = pc /\ g.t = Top(th).t /\ g.new = Top(th).new
  BY <1>1, PcFrame
<1>3. GoesOn(Top(th), g)
  BY <1>2 DEF GoesOn
<1> HIDE DEF g
<1>4. Goto(th, g)
  BY DEF g
<1> QED
  BY <1>2, <1>3, <1>4, QuietGoto

LEMMA NotifyRun ==
  ASSUME IInv, RunInv, NEW th \in Thread, Notify(th) \/ NotifyEnds(th)
  PROVE  RunInv'
<1>1. stack[th] # <<>> /\ Top(th).pc = "notify" /\ Top(th).pc \in Active
  BY Labels DEF Notify, NotifyEnds, At
<1>2. Still(th)
  BY <1>1 DEF Notify, NotifyEnds, task, job, Still, At
<1>3. Top(th).i \in Nat /\ Top(th).i + 1 \in Nat /\ Top(th) \in Frame
  BY <1>1, TopFacts
<1>4. \A pc \in {"change", "act"} :
        Step(th, pc) => Goto(th, Moved(Top(th), pc, Top(th).i)) /\ pc \in Active
  <2>1. \A pc : [Top(th) EXCEPT !.pc = pc] = Moved(Top(th), pc, Top(th).i)
    BY <1>3 DEF Moved, Frame
  <2> QED
    BY <2>1, Labels DEF Step
<1>5. StepTo(th, "notify", Top(th).i + 1)
        => Goto(th, Moved(Top(th), "notify", Top(th).i + 1)) /\ "notify" \in Active
  BY Labels DEF StepTo, Moved
<1> QED
  BY <1>1, <1>2, <1>3, <1>4, <1>5, MovedRun DEF Notify, NotifyEnds

LEMMA ChangeRun ==
  ASSUME IInv, RunInv, NEW th \in Thread, Change(th)
  PROVE  RunInv'
<1> DEFINE f == Top(th)
           d == childs[f.t][f.i]
           after == Verdict(d[1], f.new)
           next == Moved(f, "notify", f.i + 1)
<1>1. stack[th] # <<>> /\ f.pc = "change" /\ f.pc \in Active
  BY Labels DEF Change, At
<1>2. Still(th)
  BY <1>1 DEF Change, task, job, Still, At
<1>3. /\ f \in Frame /\ f.t \in Task /\ f.i + 1 \in Nat /\ f.i \in 1..Len(childs[f.t])
      /\ "notify" \in Label
  <2>1. f \in Frame /\ f.t \in Task /\ f.i \in Nat /\ FrameOK(f)
    BY <1>1, TopFacts
  <2> QED
    BY <1>1, <2>1 DEF FrameOK, Label
<1>4. CASE Goto(th, next)
  BY <1>1, <1>2, <1>3, <1>4, MovedRun, Labels
<1>5. CASE Call(th, Update(d[1], DEPHOLD, after), next) /\ after # DEPHOLD
  <2>1. d[1] \in Task
    <3>1. childs[f.t] \in Seq(Dep)
      BY <1>3, InvParts DEF GraphType
    <3> QED
      BY <1>3, <3>1 DEF Dep
  <2>2. after \in {READY, ABORTED} /\ after \in Status /\ DEPHOLD \in Status
    BY <1>5 DEF Verdict, Status
  <2>3. next \in Frame /\ next.pc = "notify" /\ next.t = f.t /\ next.new = f.new
    BY <1>3, PcFrame, Zenon
  <2>4. GoesOn(f, next)
    BY <1>1, <2>3, Labels DEF GoesOn
  <2> HIDE DEF after, next, d
  <2> DEFINE g == Update(d[1], DEPHOLD, after)
  <2>5. g \in Frame /\ Plain(g)
    <3>1. g \in Frame /\ g.pc = "cas" /\ g.old = DEPHOLD /\ g.new = after
      BY <2>1, <2>2, Updates
    <3> HIDE DEF g
    <3> QED
      BY <2>2, <3>1, UpdatePlain
  <2> QED
    BY <1>1, <1>2, <1>5, <2>3, <2>4, <2>5, QuietCall
<1> QED
  BY <1>4, <1>5 DEF Change, Moved

LEMMA NextDepRun ==
  ASSUME IInv, RunInv, NEW th \in Thread, stack[th] # <<>>, Still(th),
         Top(th).pc \in Wiring, NextDep(th)
  PROVE  RunInv'
<1>1. Top(th).i + 1 \in Nat
  BY WiringFacts
<1>2. StepTo(th, "load_parent", Top(th).i + 1)
        => Goto(th, Moved(Top(th), "load_parent", Top(th).i + 1))
  BY DEF StepTo, Moved
<1> QED
  BY <1>1, <1>2, MovedRun, QuietReturn, Labels DEF NextDep

LEMMA WireRun ==
  ASSUME IInv, RunInv, NEW th \in Thread, Wire(th)
  PROVE  RunInv'
<1>1. stack[th] # <<>> /\ Top(th).pc = "wire" /\ Top(th).pc \in Wiring
  BY Labels DEF Wire, At
<1>2. Still(th)
  BY <1>1 DEF Wire, job, Still, At
<1>f. PICK f \in Frame : f = Top(th) /\ f.i \in Nat
  BY <1>1, TopFacts
<1>3. f.i + 1 \in Nat /\ 1 \in Nat
  BY <1>f
<1>4. PICK pc \in Wiring, i \in Nat : Goto(th, Moved(Top(th), pc, i))
  BY <1>3, <1>f, Labels, Zenon DEF Wire, StepTo, Moved
<1> QED
  BY <1>1, <1>2, <1>4, MovedRun

LEMMA LoadRun ==
  ASSUME IInv, RunInv, NEW th \in Thread, LoadParent(th) \/ LoadDep(th)
  PROVE  RunInv'
<1>1. stack[th] # <<>> /\ Top(th).pc \in Wiring /\ Top(th).pc \in {"load_parent", "load_dep"}
  BY Labels DEF LoadParent, LoadDep, At
<1>2. Still(th)
  BY <1>1 DEF LoadParent, LoadDep, task, job, Still, At
<1>3. /\ Top(th) \in Frame /\ parents[Top(th).t][Top(th).i] \in Dep
      /\ parents[Top(th).t][Top(th).i][2] \in Task
  BY <1>1, WiringFacts
<1>4. ASSUME NEW g \in Frame, g.pc \in Wiring, g.t = Top(th).t, Goto(th, g)
      PROVE  RunInv'
  <2>1. GoesOn(Top(th), g)
    BY <1>1, <1>4 DEF GoesOn
  <2> QED
    BY <1>1, <1>2, <1>4, <2>1, QuietGoto
<1>5. CASE LoadParent(th)
  <2>1. CASE NextDep(th)
    BY <1>1, <1>2, <2>1, NextDepRun
  <2>2. ASSUME ~NextDep(th)
        PROVE  RunInv'
    <3>1. PICK new \in Status : new = status[parents[Top(th).t][Top(th).i][2]]
      BY <1>3, InvParts DEF GraphType
    <3> DEFINE g == [Top(th) EXCEPT !.pc = "load_dep", !.new = new]
    <3>2. g \in Frame /\ g.pc = "load_dep" /\ g.t = Top(th).t
      BY <1>3 DEF Frame, Label
    <3>3. Goto(th, g)
      BY <1>5, <2>2, <3>1 DEF LoadParent
    <3> HIDE DEF g
    <3> QED
      BY <1>4, <3>2, <3>3, Labels
  <2> QED
    BY <2>1, <2>2
<1>6. CASE LoadDep(th)
  <2>1. PICK old \in Status : old = depStatus[parents[Top(th).t][Top(th).i]]
    BY <1>3, InvParts DEF RestType
  <2> DEFINE g == [Top(th) EXCEPT !.pc = "check", !.old = old]
  <2>2. g \in Frame /\ g.pc = "check" /\ g.t = Top(th).t
    BY <1>3 DEF Frame, Label
  <2>3. Goto(th, g)
    BY <1>6, <2>1 DEF LoadDep
  <2> HIDE DEF g
  <2> QED
    BY <1>4, <2>2, <2>3, Labels
<1> QED
  BY <1>5, <1>6

LEMMA CheckRun ==
  ASSUME IInv, RunInv, NEW th \in Thread, Check(th)
  PROVE  RunInv'
<1> DEFINE f == Top(th)
           after == Verdict(f.t, f.new)
<1>1. stack[th] # <<>> /\ f.pc = "check" /\ f.pc \in Wiring
  BY Labels DEF Check, At
<1>2. Still(th)
  BY <1>1 DEF Check, job, Still, At
<1>3. CASE NextDep(th)
  BY <1>1, <1>2, <1>3, NextDepRun
<1>4. CASE Goto(th, Update(f.t, DEPHOLD, after)) /\ after # DEPHOLD
  <2>1. f.t \in Task
    BY <1>1, TopFacts
  <2>2. after \in {READY, ABORTED} /\ after \in Status /\ DEPHOLD \in Status
    BY <1>4 DEF Verdict, Status
  <2> HIDE DEF after
  <2> DEFINE g == Update(f.t, DEPHOLD, after)
  <2>3. g \in Frame /\ Plain(g)
    <3>1. g \in Frame /\ g.pc = "cas" /\ g.old = DEPHOLD /\ g.new = after
      BY <2>1, <2>2, Updates
    <3> HIDE DEF g
    <3> QED
      BY <2>2, <3>1, UpdatePlain
  <2> QED
    BY <1>1, <1>2, <1>4, <2>3, QuietGoto
<1> QED
  BY <1>3, <1>4 DEF Check

LEMMA CommitRefusedRun ==
  ASSUME IInv, RunInv, NEW th \in Thread, CommitRefused(th)
  PROVE  RunInv'
<1>1. stack[th] # <<>> /\ Top(th).pc = "commit"
  BY DEF CommitRefused, At
<1>2. Still(th)
  BY DEF CommitRefused, task, job, Still
<1>3. Top(th).pc \notin Updating /\ ~Committing(Top(th))
  BY <1>1, Labels DEF Committing
<1> QED
  BY <1>1, <1>2, <1>3, QuietReturn DEF CommitRefused

-----------------------------------------------------------------------------
(* The steps that hand a run or a commit on. *)

\* A step that leaves the statuses, the queues and the counts of runs as they are.
LEMMA StackStep ==
  ASSUME IInv, RunInv, StackType, NEW th \in Thread, NEW n, Shape(th, n),
         status' = status, queue' = queue, runs' = runs,
         \A u \in Thread : u # th => success'[u] = success[u],
         HandsOK', CommitsOK', NestOK', TopSees(th)',
         \A k \in 1..n : Sees(stack'[th][k])
  PROVE  RunInv'
<1>1. SeesOK /\ JobsSee /\ RunsOK /\ \A u \in Thread : TopSees(u)
  BY DEF RunInv, KnowsOK
<1>2. SeesOK'
  <2>1. \A f \in Frame : Sees(f) => Sees(f)'
    BY DEF Sees, Knows
  <2> QED
    BY <1>1, <2>1, SeesKeeps
<1>3. \A u \in Thread : TopSees(u)'
  BY <1>1, OthersSee
<1>4. JobsSee' /\ RunsOK'
  BY <1>1 DEF JobsSee, RunsOK
<1> QED
  BY <1>2, <1>3, <1>4 DEF RunInv, KnowsOK

\* No commit goes from hand to hand.
LEMMA CommitsSame ==
  ASSUME StackType, NEW th \in Thread, NEW n, Shape(th, n), CommitsOK,
         ndep' = ndep,
         \A u \in Thread : u # th => success'[u] = success[u],
         \A k \in 1..n : ~Committing(stack'[th][k]),
         \A t \in Task : ~Held(th, t) /\ ~Accepted(th, t)',
         \A t \in Task : status[t] = ABORTED => status'[t] = ABORTED,
         \A t \in Task : Begun(t)' => Begun(t)
  PROVE  CommitsOK'
<1>1. \A t \in Task : \A k \in 1..n : stack'[th][k] \notin Commits(t)
  BY DEF Commits
<1>2. \A t \in Task : Counted(t)' <=> Counted(t)
  BY DEF Counted
<1>3. ASSUME NEW t \in Task
      PROVE  n = 2 => stack'[th][1] \notin Commits(t) \/ stack'[th][2] \notin Commits(t)
  <2>1. n = 2 => 1 \in 1..n
    OBVIOUS
  <2> QED
    BY <1>1, <2>1
<1> QED
  BY <1>1, <1>2, <1>3, CommitsKeeps DEF CommitsOK

LEMMA Callers ==
  /\ Caller(DEPHOLD) = "commit" /\ Caller(QUEUE) = "queue_job" /\ Caller(RUNNING) = "ran"
  /\ DEPHOLD \notin {QUEUE, RUNNING} /\ QUEUE # RUNNING
  BY DEF Caller, DEPHOLD, QUEUE, RUNNING

\* What a return uncovers.
LEMMA Uncovered ==
  ASSUME IInv, NestOK, NEW th \in Thread, stack[th] # <<>>
  PROVE  /\ 2 \in 1..Len(stack[th]) /\ stack[th][2].pc \in {"queue_job", "ran"} =>
              /\ Top(th).pc \in Updating /\ Top(th).t = stack[th][2].t
              /\ Top(th).new \in {QUEUE, RUNNING}
              /\ stack[th][2].pc = Caller(Top(th).new)
         /\ 2 \in 1..Len(stack[th]) /\ stack[th][2].pc = "commit" =>
              /\ Top(th).pc \in Updating /\ Top(th).t = stack[th][2].t
              /\ Top(th).new = DEPHOLD
         /\ Top(th).pc \in Updating /\ Top(th).new = DEPHOLD =>
              2 \in 1..Len(stack[th]) /\ stack[th][2].t = Top(th).t
              /\ stack[th][2].pc = "commit"
<1>1. stack[th] \in Seq(Frame) /\ Len(stack[th]) \in Nat
  BY InvParts, FramesType
<1>2. Top(th) = stack[th][1] /\ 1 \in 1..Len(stack[th])
  BY <1>1, PopFacts DEF Top
<1>3. 2 \in 1..Len(stack[th]) => 2 \in 2..Len(stack[th])
  BY <1>1
<1>4. CommitCallOK
  BY InvParts DEF StackOK
<1>5. 2 - 1 = 1 /\ 1 + 1 = 2 /\ 2 # 1
  OBVIOUS
<1>6. 2 \in 1..Len(stack[th]) /\ stack[th][2].pc \in {"queue_job", "ran"} =>
              /\ Top(th).pc \in Updating /\ Top(th).t = stack[th][2].t
              /\ Top(th).new \in {QUEUE, RUNNING}
              /\ stack[th][2].pc = Caller(Top(th).new)
  BY <1>2, <1>5 DEF NestOK
<1>7. 2 \in 1..Len(stack[th]) /\ stack[th][2].pc = "commit" =>
              /\ Top(th).pc \in Updating /\ Top(th).t = stack[th][2].t
              /\ Top(th).new = DEPHOLD
  BY <1>2, <1>3, <1>4, <1>5 DEF CommitCallOK
<1>8. Top(th).pc \in Updating /\ Top(th).new = DEPHOLD =>
              2 \in 1..Len(stack[th]) /\ stack[th][2].t = Top(th).t
              /\ stack[th][2].pc = "commit"
  <2> SUFFICES ASSUME stack[th][1].pc \in Updating, stack[th][1].new = DEPHOLD
               PROVE  /\ 2 \in 1..Len(stack[th]) /\ stack[th][2].t = stack[th][1].t
                      /\ stack[th][2].pc = "commit"
    BY <1>2
  <2>1. /\ 1 + 1 \in 1..Len(stack[th]) /\ stack[th][1 + 1].t = stack[th][1].t
        /\ stack[th][1 + 1].pc = Caller(DEPHOLD)
    BY <1>2 DEF NestOK, Awaited
  <2> QED
    BY <1>5, <2>1, Callers
<1> QED
  BY <1>6, <1>7, <1>8

\* A frame takes the place of the top, with what it had in hand.
LEMMA GotoRun ==
  ASSUME IInv, RunInv, NEW th \in Thread, stack[th] # <<>>,
         status' = status, ndep' = ndep, queue' = queue, runs' = runs,
         \A u \in Thread : u # th => success'[u] = success[u],
         NEW f \in Frame, Goto(th, f), Sees(f), ~Committing(f),
         InHand(f) => InHand(Top(th)) /\ Top(th).t = f.t,
         ~Committing(Top(th)), Top(th).pc # "commit",
         f.pc \notin {"queue_job", "ran", "commit"},
         Top(th).pc \in Updating => Top(th).new \notin {QUEUE, RUNNING},
         f.pc \in Updating => f.new \notin Awaited
  PROVE  RunInv'
<1>1. /\ Shape(th, 1) /\ StackType /\ stack'[th][1] = f
      /\ stack'[th] # <<>> /\ Head(stack'[th]) = f
  BY GotoIs, InvParts, FramesType
<1>2. \A k \in 1..1 : k = 1
  OBVIOUS
<1>3. HandsOK /\ CommitsOK /\ NestOK
  BY DEF RunInv
<1>4. HandsOK'
  BY <1>1, <1>2, <1>3, HandsKeeps
<1>5. CommitsOK'
  <2>1. \A t \in Task : ~Held(th, t)
    BY DEF Held, Accepted, Commits
  <2>2. \A t \in Task : ~Accepted(th, t)'
    BY <1>1 DEF Accepted, Top
  <2>3. \A t \in Task : Begun(t)' <=> Begun(t)
    BY DEF Begun
  <2> QED
    BY <1>1, <1>2, <1>3, <2>1, <2>2, <2>3, CommitsSame
<1>6. NestOK'
  BY <1>1, <1>2, <1>3, NestKeeps
<1>7. TopSees(th)'
  BY <1>1 DEF TopSees, Top
<1> QED
  BY <1>1, <1>2, <1>4, <1>5, <1>6, <1>7, StackStep

LEMMA TopKnown ==
  ASSUME IInv, RunInv, NEW th \in Thread, stack[th] # <<>>
  PROVE  Sees(Top(th)) /\ TopSees(th) /\ status[Top(th).t] \in Status
<1>1. stack[th] \in Seq(Frame)
  BY InvParts, FramesType
<1>2. Top(th) = stack[th][1] /\ 1 \in 1..Len(stack[th])
  BY <1>1, PopFacts DEF Top
<1>3. Top(th).t \in Task
  BY TopFacts
<1> QED
  BY <1>2, <1>3, InvParts DEF RunInv, KnowsOK, SeesOK, GraphType

LEMMA CasFailsRun ==
  ASSUME IInv, RunInv, NEW th \in Thread, CasFails(th)
  PROVE  RunInv'
<1>1. /\ stack[th] # <<>> /\ Top(th).pc = "cas" /\ status[Top(th).t] # Top(th).old
      /\ success' = [success EXCEPT ![th] = FALSE] /\ Return(th)
      /\ status' = status /\ ndep' = ndep /\ queue' = queue /\ runs' = runs
  BY DEF CasFails, At, task, job
<1>2. /\ Shape(th, 0) /\ StackType
      /\ stack'[th] # <<>> => 2 \in 1..Len(stack[th]) /\ Head(stack'[th]) = stack[th][2]
  BY <1>1, ReturnIs, InvParts, FramesType
<1>3. HandsOK /\ CommitsOK /\ NestOK /\ success'[th] = FALSE /\ 1..0 = {}
      /\ \A u \in Thread : u # th => success'[u] = success[u]
  <2>1. success'[th] = FALSE
    BY <1>1, InvParts DEF RestType
  <2> QED
    BY <1>1, <2>1 DEF RunInv
<1>4. HandsOK'
  BY <1>1, <1>2, <1>3, HandsKeeps
<1>5. CommitsOK'
  <2>1. \A t \in Task : ~Held(th, t)
    BY <1>1, Labels DEF Held, Accepted, Commits, Committing
  <2>2. \A t \in Task : ~Accepted(th, t)'
    BY <1>3 DEF Accepted
  <2>3. \A t \in Task : Begun(t)' <=> Begun(t)
    BY <1>1 DEF Begun
  <2> QED
    BY <1>1, <1>2, <1>3, <2>1, <2>2, <2>3, CommitsSame
<1>6. NestOK'
  BY <1>2, <1>3, NestKeeps
<1>7. TopSees(th)'
  <2> SUFFICES ASSUME stack'[th] # <<>>, stack[th][2].pc = "queue_job"
               PROVE  status[stack[th][2].t] \in {QUEUE, ABORTED}
    BY <1>1, <1>2, <1>3 DEF TopSees, Top
  <2>1. Top(th).t = stack[th][2].t /\ Top(th).new = QUEUE
    BY <1>1, <1>2, <1>3, Uncovered DEF Caller, DEPHOLD, QUEUE, RUNNING
  <2>2. Top(th).old = READY
    <3>1. <<Top(th).old, Top(th).new>> \in Edge(Top(th).t)
      BY <1>1, TopFacts DEF FrameOK, Updating
    <3> QED
      BY <2>1, <3>1 DEF Edge, INVAL, IDLE, DEPHOLD, READY, QUEUE, RUNNING, FINAL, COMPLETED,
                        ABORTED, FAILED
  <2>3. status[Top(th).t] \in {READY, ABORTED}
    BY <1>1, <2>1, <2>2, TopKnown, Labels DEF Sees, Knows
  <2> QED
    BY <1>1, <2>1, <2>2, <2>3
<1> QED
  BY <1>1, <1>2, <1>3, <1>4, <1>5, <1>6, <1>7, StackStep

LEMMA ActOtherRun ==
  ASSUME IInv, RunInv, NEW th \in Thread, ActOther(th)
  PROVE  RunInv'
<1>1. /\ stack[th] # <<>> /\ Top(th).pc = "act" /\ Top(th).new \notin {READY, FINAL}
      /\ success' = [success EXCEPT ![th] = TRUE] /\ Return(th)
      /\ status' = status /\ ndep' = ndep /\ queue' = queue /\ runs' = runs
  BY DEF ActOther, At, task, job
<1>2. /\ Shape(th, 0) /\ StackType
      /\ stack'[th] # <<>> => 2 \in 1..Len(stack[th]) /\ Head(stack'[th]) = stack[th][2]
  BY <1>1, ReturnIs, InvParts, FramesType
<1>3. HandsOK /\ CommitsOK /\ NestOK /\ success'[th] = TRUE /\ 1..0 = {}
      /\ \A u \in Thread : u # th => success'[u] = success[u]
  <2>1. success'[th] = TRUE
    BY <1>1, InvParts DEF RestType
  <2> QED
    BY <1>1, <2>1 DEF RunInv
<1>4. HandsOK'
  BY <1>1, <1>2, <1>3, HandsKeeps
<1>5. CommitsOK'
  <2>1. Top(th).pc \in Active /\ Top(th).pc \in Updating /\ Top(th).pc \notin Wiring
        /\ Top(th).pc # "commit" /\ Top(th) \in Frame
        /\ Top(th) = stack[th][1] /\ 1 \in 1..Len(stack[th])
    BY <1>1, <1>2, Labels, FirstFrame
  <2>2. \A t \in Task : Held(th, t) => Top(th) \in Commits(t) /\ Top(th).new = DEPHOLD
    BY <1>1, <2>1, Labels DEF Held, Accepted, Commits, Committing
  <2>3. ASSUME NEW t \in Task, Accepted(th, t)'
        PROVE  Held(th, t) /\ ~Counted(t)
    <3>1. /\ stack'[th] # <<>> /\ stack[th][2].pc = "commit" /\ stack[th][2].t = t
          /\ 2 \in 1..Len(stack[th])
      BY <1>2, <2>3 DEF Accepted, Top
    <3>2. Top(th).t = t /\ Top(th).new = DEPHOLD
      BY <1>1, <1>3, <3>1, Uncovered
    <3>3. Top(th) \in Commits(t)
      BY <2>1, <3>2 DEF Commits, Committing
    <3> QED
      BY <1>1, <1>3, <2>1, <3>3 DEF Held, CommitsOK
  <2>4. ASSUME NEW t \in Task, Held(th, t)
        PROVE  Accepted(th, t)'
    <3>1. Top(th).t = t /\ Top(th).new = DEPHOLD
      BY <2>2, <2>4 DEF Commits
    <3>2. /\ 2 \in 1..Len(stack[th]) /\ stack[th][2].pc = "commit" /\ stack[th][2].t = t
      BY <1>1, <1>3, <2>1, <3>1, Uncovered
    <3>3. stack'[th] # <<>> /\ Head(stack'[th]) = stack[th][2]
      <4>1. 2 \in 2..Len(stack[th])
        BY <1>2, <3>2 DEF StackType
      <4>2. 2 + 0 - 1 \in (0 + 1)..Len(stack'[th])
        BY <1>2, <4>1 DEF Shape
      <4>3. stack'[th] # <<>>
        BY <1>2, <4>2 DEF StackType
      <4> QED
        BY <1>2, <4>3
    <3> QED
      BY <1>3, <3>2, <3>3 DEF Accepted, Top
  <2>5. \A t \in Task : (Begun(t)' <=> Begun(t)) /\ (Counted(t)' <=> Counted(t))
    BY <1>1 DEF Begun, Counted
  <2>6. ASSUME NEW t \in Task
        PROVE  /\ One(Commits(t))'
               /\ \A th1, th2 \in Thread : Accepted(th1, t)' /\ Accepted(th2, t)' => th1 = th2
               /\ \A u \in Thread : Accepted(u, t)' => None(Commits(t))' /\ ~Counted(t)'
               /\ \A u \in Thread : \A k \in 1..Len(stack'[u]) :
                    stack'[u][k] \in Commits(t) /\ stack'[u][k].pc \notin Wiring => ~Counted(t)'
               /\ Begun(t)' => \/ Counted(t)' \/ status'[t] = ABORTED
                               \/ \E u \in Thread : Accepted(u, t)'
                               \/ ~None(Commits(t))'
    <3>1. \A k \in 1..0 : FALSE
      BY <1>3
    <3>2. /\ Accepted(th, t)' => Held(th, t) /\ ~Counted(t)'
          /\ Held(th, t) => Accepted(th, t)'
      BY <2>3, <2>4, <2>5
    <3>3. /\ Counted(t)' <=> Counted(t)
          /\ Begun(t)' <=> Begun(t)
          /\ status[t] = ABORTED => status'[t] = ABORTED
      BY <1>1, <2>5
    <3>4. ~(0 = 2)
      OBVIOUS
    <3> QED
      BY <1>2, <1>3, <3>1, <3>2, <3>3, <3>4, CommitsKeeps
  <2> QED
    BY <2>6 DEF CommitsOK
<1>6. NestOK'
  BY <1>2, <1>3, NestKeeps
<1>7. TopSees(th)'
  <2> SUFFICES ASSUME stack'[th] # <<>>, stack[th][2].pc \in {"queue_job", "ran"}
               PROVE  /\ stack[th][2].pc = "queue_job" => status[stack[th][2].t] = QUEUE
                      /\ stack[th][2].pc = "ran" => /\ status[stack[th][2].t] = RUNNING
                                                    /\ runs[stack[th][2].t] = 0
    BY <1>1, <1>2 DEF TopSees, Top
  <2>1. /\ Top(th).t = stack[th][2].t /\ Top(th).new \in {QUEUE, RUNNING}
        /\ stack[th][2].pc = Caller(Top(th).new)
    BY <1>1, <1>2, <1>3, Uncovered
  <2>2. Top(th).new \notin {DEPHOLD, READY}
    BY <1>1, <2>1, Callers
  <2>3. /\ status[Top(th).t] = Top(th).new
        /\ Top(th).new = RUNNING => runs[Top(th).t] = 0
    BY <1>1, <2>2, TopKnown, Labels DEF Sees, Knows
  <2> QED
    BY <2>1, <2>3, Callers
<1> QED
  BY <1>1, <1>2, <1>3, <1>4, <1>5, <1>6, <1>7, StackStep

\* The frame that follows the top tells what Sees asks of it.
LEMMA UpdateSees ==
  ASSUME NEW f \in Frame, f.pc = "cas", f.new \notin {QUEUE, RUNNING},
         f.old = READY => status[f.t] \in {READY, ABORTED},
         f.old # READY => f.old \in {RUNNING, FINAL} /\ status[f.t] = f.old
  PROVE  Sees(f)
  BY Labels DEF Sees, Knows, InHand, INVAL, IDLE, DEPHOLD, READY, QUEUE, RUNNING, FINAL,
                COMPLETED, ABORTED, FAILED, Frame, Status

LEMMA ActReadyRun ==
  ASSUME IInv, RunInv, NEW th \in Thread, ActReady(th)
  PROVE  RunInv'
<1> DEFINE f == Top(th)
           g == Update(f.t, READY, QUEUE)
           h == [f EXCEPT !.pc = "queue_job"]
           e == Update(f.t, READY, FINAL)
<1>1. /\ stack[th] # <<>> /\ f.pc = "act" /\ f.new = READY
      /\ success' = success
      /\ status' = status /\ ndep' = ndep /\ queue' = queue /\ runs' = runs
  BY DEF ActReady, At, task, job
<1>2. f \in Frame /\ f.t \in Task /\ READY \in Status /\ QUEUE \in Status /\ FINAL \in Status
      /\ "queue_job" \in Label /\ 0 \in Nat
  BY <1>1, TopFacts DEF Status, Label
<1>3. InHand(f) /\ ~Committing(f) /\ status[f.t] \in {READY, ABORTED} /\ f.pc \in Updating
      /\ status[f.t] \in Status
  <2>1. Sees(f) /\ status[f.t] \in Status
    BY <1>1, TopKnown
  <2>2. READY # DEPHOLD
    BY DEF READY, DEPHOLD
  <2> QED
    BY <1>1, <2>1, <2>2, Labels DEF Sees, Knows, InHand, Committing
<1>4. CASE Goto(th, e)
  <2>1. e \in Frame /\ e.pc = "cas" /\ e.t = f.t /\ e.old = READY /\ e.new = FINAL
    BY <1>2, Updates
  <2> HIDE DEF e, f
  <2>2. FINAL \notin Awaited /\ READY \notin {QUEUE, RUNNING}
    BY DEF Awaited, FINAL, DEPHOLD, QUEUE, RUNNING, READY
  <2>3. Sees(e) /\ ~Committing(e)
    BY <1>3, <2>1, <2>2, UpdateSees, Labels DEF Committing, Awaited
  <2> QED
    BY <1>1, <1>2, <1>3, <1>4, <2>1, <2>2, <2>3, GotoRun, Labels DEF f
<1>5. CASE Call(th, g, h)
  <2>1. /\ g \in Frame /\ g.pc = "cas" /\ g.t = f.t /\ g.old = READY /\ g.new = QUEUE
        /\ h \in Frame /\ h.pc = "queue_job" /\ h.t = f.t
    BY <1>2, Updates, PcFrame
  <2> HIDE DEF g, h, f
  <2>2. /\ Shape(th, 2) /\ StackType /\ stack'[th][1] = g /\ stack'[th][2] = h
        /\ stack'[th] # <<>> /\ Head(stack'[th]) = g
    BY <1>1, <1>5, <2>1, CallIs, InvParts, FramesType
  <2>3. \A k \in 1..2 : k = 1 \/ k = 2
    OBVIOUS
  <2>4. HandsOK /\ CommitsOK /\ NestOK
    BY DEF RunInv
  <2>5. ~InHand(g) /\ ~Committing(g) /\ ~Committing(h) /\ Sees(g) /\ Sees(h)
    BY <1>3, <2>1, Labels DEF InHand, Committing, Sees, Knows, READY, QUEUE, RUNNING, FINAL,
         COMPLETED, ABORTED, FAILED
  <2>6. HandsOK'
    BY <1>1, <1>3, <2>1, <2>2, <2>3, <2>4, <2>5, HandsKeeps DEF f
  <2>7. CommitsOK'
    <3>1. \A t \in Task : ~Held(th, t)
      BY <1>1, <1>3 DEF Held, Accepted, Commits, f
    <3>2. \A t \in Task : ~Accepted(th, t)'
      BY <2>1, <2>2 DEF Accepted, Top
    <3>3. \A t \in Task : Begun(t)' <=> Begun(t)
      BY <1>1 DEF Begun
    <3> QED
      BY <1>1, <2>2, <2>3, <2>4, <2>5, <3>1, <3>2, <3>3, CommitsSame
  <2>8. NestOK'
    <3>1. READY \notin {QUEUE, RUNNING}
      BY DEF QUEUE, RUNNING, READY
    <3> QED
      BY <1>1, <2>1, <2>2, <2>4, <3>1, NestKeeps, Labels, Callers DEF f
  <2>9. TopSees(th)'
    BY <2>1, <2>2 DEF TopSees, Top
  <2> QED
    BY <1>1, <2>2, <2>3, <2>5, <2>6, <2>7, <2>8, <2>9, StackStep
<1> QED
  BY <1>4, <1>5 DEF ActReady

LEMMA ActFinalRun ==
  ASSUME IInv, RunInv, NEW th \in Thread, ActFinal(th)
  PROVE  RunInv'
<1> DEFINE f == Top(th)
           e == Update(f.t, FINAL, COMPLETED)
<1>1. /\ stack[th] # <<>> /\ f.pc = "act" /\ f.new = FINAL /\ Goto(th, e)
      /\ success' = success
      /\ status' = status /\ ndep' = ndep /\ queue' = queue /\ runs' = runs
  BY DEF ActFinal, At, job
<1>2. f \in Frame /\ f.t \in Task /\ FINAL \in Status /\ COMPLETED \in Status
  BY <1>1, TopFacts DEF Status
<1>3. FINAL \notin {DEPHOLD, READY, QUEUE, RUNNING} /\ COMPLETED \notin Awaited
  BY DEF Awaited, FINAL, COMPLETED, DEPHOLD, QUEUE, RUNNING, READY
<1>4. InHand(f) /\ ~Committing(f) /\ status[f.t] = FINAL
  <2>1. Sees(f)
    BY <1>1, TopKnown
  <2> QED
    BY <1>1, <1>3, <2>1, Labels DEF Sees, Knows, InHand, Committing
<1>5. e \in Frame /\ e.pc = "cas" /\ e.t = f.t /\ e.old = FINAL /\ e.new = COMPLETED
  BY <1>2, Updates
<1> HIDE DEF e, f
<1>6. Sees(e) /\ ~Committing(e)
  BY <1>3, <1>4, <1>5, UpdateSees, Labels DEF Committing, Awaited
<1> QED
  BY <1>1, <1>2, <1>3, <1>4, <1>5, <1>6, GotoRun, Labels DEF f

LEMMA QueueJobRun ==
  ASSUME IInv, RunInv, NEW th \in Thread, QueueJob(th)
  PROVE  RunInv'
<1> DEFINE f == Top(th)
           e == [f EXCEPT !.pc = "queue_push"]
<1>1. /\ stack[th] # <<>> /\ f.pc = "queue_job" /\ Goto(th, e)
      /\ success' = success
      /\ status' = status /\ ndep' = ndep /\ queue' = queue /\ runs' = runs
  BY DEF QueueJob, At, task, Step
<1>2. f \in Frame /\ "queue_push" \in Label /\ 0 \in Nat
  BY <1>1, TopFacts DEF Label
<1>3. InHand(f) /\ ~Committing(f) /\ status[f.t] \in {QUEUE, ABORTED} /\ f.pc \notin Updating
  BY <1>1, TopKnown, Labels DEF TopSees, InHand, Committing
<1>4. e \in Frame /\ e.pc = "queue_push" /\ e.t = f.t
  BY <1>2, PcFrame
<1> HIDE DEF e, f
<1>5. Sees(e) /\ ~Committing(e)
  BY <1>3, <1>4, Labels DEF Sees, Knows, InHand, Committing, QUEUE, ABORTED, READY
<1> QED
  BY <1>1, <1>2, <1>3, <1>4, <1>5, GotoRun, Labels DEF f

LEMMA HandlerReturnsRun ==
  ASSUME IInv, RunInv, NEW th \in Thread, HandlerReturns(th)
  PROVE  RunInv'
<1> DEFINE f == Top(th)
<1>1. /\ stack[th] # <<>> /\ f.pc = "handler"
      /\ success' = success
      /\ status' = status /\ ndep' = ndep /\ queue' = queue /\ runs' = runs
  BY DEF HandlerReturns, At, task, job
<1>2. PICK new \in {FINAL, FAILED} : Goto(th, Update(f.t, RUNNING, new))
  BY DEF HandlerReturns
<1>3. f \in Frame /\ f.t \in Task /\ RUNNING \in Status /\ new \in Status
  BY <1>1, TopFacts DEF Status
<1>4. InHand(f) /\ ~Committing(f) /\ status[f.t] = RUNNING /\ f.pc \notin Updating
  BY <1>1, TopKnown, Labels DEF Sees, Knows, InHand, Committing
<1> DEFINE e == Update(f.t, RUNNING, new)
<1>5. e \in Frame /\ e.pc = "cas" /\ e.t = f.t /\ e.old = RUNNING /\ e.new = new
  BY <1>3, Updates
<1>6. new \notin Awaited /\ RUNNING # READY
  BY DEF Awaited, FINAL, FAILED, DEPHOLD, QUEUE, RUNNING, READY
<1>7. Goto(th, e)
  BY <1>2
<1> HIDE DEF e, f
<1>8. Sees(e) /\ ~Committing(e)
  BY <1>4, <1>5, <1>6, UpdateSees, Labels DEF Committing, Awaited
<1> QED
  BY <1>1, <1>3, <1>4, <1>5, <1>6, <1>7, <1>8, GotoRun, Labels DEF f

-----------------------------------------------------------------------------
(* The jobs: from hand to queue and back. *)

JobAt(l, k, t) == l \in Level /\ k \in 1..Len(queue[l]) /\ queue[l][k] = t

LEMMA JobPushed ==
  ASSUME queue \in [Level -> Seq(Task)], NEW t \in Task, NEW p \in Level,
         queue' = [queue EXCEPT ![p] = Append(@, t)]
  PROVE  \A l, k, t2 : JobAt(l, k, t2)' <=>
            JobAt(l, k, t2) \/ (l = p /\ k = Len(queue[p]) + 1 /\ t2 = t)
<1> SUFFICES ASSUME NEW l \in Level, NEW k, NEW t2
             PROVE  JobAt(l, k, t2)' <=>
                    JobAt(l, k, t2) \/ (l = p /\ k = Len(queue[p]) + 1 /\ t2 = t)
  BY DEF JobAt
<1>1. CASE l # p
  BY <1>1 DEF JobAt
<1>2. CASE l = p
  <2> DEFINE s == queue[p]
  <2>1. s \in Seq(Task) /\ queue'[p] = Append(s, t)
    OBVIOUS
  <2> HIDE DEF s
  <2>2. /\ Len(s) \in Nat /\ Len(Append(s, t)) = Len(s) + 1
        /\ \A j \in 1..Len(s) : Append(s, t)[j] = s[j]
        /\ Append(s, t)[Len(s) + 1] = t
    BY <2>1
  <2>3. 1..(Len(s) + 1) = 1..Len(s) \cup {Len(s) + 1} /\ Len(s) + 1 \notin 1..Len(s)
    BY <2>2
  <2>4. k \in 1..Len(queue'[p]) /\ queue'[p][k] = t2 <=>
          (k \in 1..Len(s) /\ s[k] = t2) \/ (k = Len(s) + 1 /\ t2 = t)
    BY <2>1, <2>2, <2>3
  <2> QED
    BY <1>2, <2>4 DEF JobAt, s
<1> QED
  BY <1>1, <1>2

\* JobOnce in the terms of JobAt.
LEMMA JobOnceIs ==
  ASSUME NEW t \in Task
  PROVE  /\ JobOnce(t) => \A l, k : JobAt(l, k, t) => None(Hands(t))
         /\ JobOnce(t) => \A l1, l2, k1, k2 :
                 JobAt(l1, k1, t) /\ JobAt(l2, k2, t) => l1 = l2 /\ k1 = k2
         /\ /\ \A l1, l2, k1, k2 :
                 JobAt(l1, k1, t)' /\ JobAt(l2, k2, t)' => l1 = l2 /\ k1 = k2
            /\ \A l, k : JobAt(l, k, t)' => None(Hands(t))'
            => JobOnce(t)'
<1>1. JobOnce(t) => \A l, k : JobAt(l, k, t) => None(Hands(t))
  BY DEF JobOnce, JobAt
<1>2. ASSUME JobOnce(t), NEW l1, NEW l2, NEW k1, NEW k2, JobAt(l1, k1, t), JobAt(l2, k2, t)
      PROVE  l1 = l2 /\ k1 = k2
  BY <1>2 DEF JobOnce, JobAt
<1>3. ASSUME \A l1, l2, k1, k2 :
                 JobAt(l1, k1, t)' /\ JobAt(l2, k2, t)' => l1 = l2 /\ k1 = k2,
             \A l, k : JobAt(l, k, t)' => None(Hands(t))'
      PROVE  JobOnce(t)'
  <2>1. \A l1, l2 \in Level : \A j1 \in 1..Len(queue'[l1]), j2 \in 1..Len(queue'[l2]) :
           queue'[l1][j1] = t /\ queue'[l2][j2] = t => l1 = l2 /\ j1 = j2
    BY <1>3 DEF JobAt
  <2>2. \A l \in Level : \A j \in 1..Len(queue'[l]) : queue'[l][j] = t => None(Hands(t))'
    BY <1>3 DEF JobAt
  <2> QED
    BY <2>1, <2>2 DEF JobOnce
<1> QED
  BY <1>1, <1>2, <1>3

LEMMA JobPopped ==
  ASSUME queue \in [Level -> Seq(Task)], NEW p \in Level, queue[p] # <<>>,
         queue' = [queue EXCEPT ![p] = Tail(@)]
  PROVE  /\ JobAt(p, 1, Head(queue[p]))
         /\ \A l, k, t2 : JobAt(l, k, t2)' =>
               IF l = p THEN k + 1 # 1 /\ k \in Nat /\ JobAt(p, k + 1, t2)
                        ELSE JobAt(l, k, t2)
<1> DEFINE s == queue[p]
<1>1. s \in Seq(Task) /\ s # <<>> /\ queue'[p] = Tail(s)
  OBVIOUS
<1> HIDE DEF s
<1>2. /\ Len(s) \in Nat \ {0} /\ Head(s) = s[1] /\ Tail(s) \in Seq(Task)
      /\ Len(Tail(s)) = Len(s) - 1
      /\ \A k \in 1..(Len(s) - 1) : Tail(s)[k] = s[k + 1]
  BY <1>1, PopFacts
<1>3. JobAt(p, 1, Head(queue[p]))
  <2>1. 1 \in 1..Len(s)
    BY <1>2
  <2> QED
    BY <1>2, <2>1 DEF JobAt, s
<1>4. ASSUME NEW l, NEW k, NEW t2, JobAt(l, k, t2)'
      PROVE  IF l = p THEN k + 1 # 1 /\ k \in Nat /\ JobAt(p, k + 1, t2) ELSE JobAt(l, k, t2)
  <2>1. CASE l # p
    BY <1>4, <2>1 DEF JobAt
  <2>2. CASE l = p
    <3>1. k \in 1..Len(Tail(s)) /\ Tail(s)[k] = t2
      BY <1>1, <1>4, <2>2 DEF JobAt
    <3>2. k \in Nat /\ k + 1 # 1 /\ k + 1 \in 1..Len(s) /\ s[k + 1] = t2
      BY <1>2, <3>1
    <3> QED
      BY <2>2, <3>2 DEF JobAt, s
  <2> QED
    BY <2>1, <2>2
<1> QED
  BY <1>3, <1>4

LEMMA QueuePushRun ==
  ASSUME IInv, RunInv, NEW th \in Thread, QueuePush(th)
  PROVE  RunInv'
<1>1. /\ stack[th] # <<>> /\ Top(th).pc = "queue_push" /\ Step(th, "queue_inc")
      /\ queue' = [queue EXCEPT ![Priority[Top(th).t]] = Append(@, Top(th).t)]
      /\ success' = success /\ status' = status /\ ndep' = ndep /\ runs' = runs
  BY DEF QueuePush, At, task
<1>f. PICK f \in Frame : f = Top(th)
  BY <1>1, TopFacts
<1>2. f.t \in Task /\ Priority[f.t] \in Level
  BY ConstantsAssumption DEF Frame
<1> DEFINE g == [f EXCEPT !.pc = "queue_inc"]
<1>3. g \in Frame /\ g.pc = "queue_inc"
  BY DEF Frame, Label
<1>4. Goto(th, g)
  BY <1>1, <1>f DEF Step
<1> HIDE DEF g
<1>5. /\ Shape(th, 1) /\ StackType /\ stack'[th][1] = g
      /\ stack'[th] # <<>> /\ Head(stack'[th]) = g
  BY <1>1, <1>3, <1>4, GotoIs, InvParts, FramesType
<1>6. \A k \in 1..1 : k = 1
  OBVIOUS
<1>7. HandsOK /\ CommitsOK /\ NestOK /\ SeesOK /\ JobsSee /\ RunsOK
      /\ \A u \in Thread : TopSees(u)
  BY DEF RunInv, KnowsOK
<1>8. ~InHand(g) /\ ~Committing(g) /\ Knows(g) = Status
  BY <1>3, Labels DEF InHand, Committing, Knows
<1>9. f \in Hands(f.t) /\ f.pc \notin Updating /\ ~Committing(f) /\ status[f.t] \in {QUEUE, ABORTED}
  <2>1. Sees(f)
    BY <1>1, <1>f, TopKnown
  <2> QED
    BY <1>1, <1>2, <1>f, <2>1, Labels DEF Hands, InHand, Committing, Sees, Knows
<1>q. \A l, k, t2 : JobAt(l, k, t2)' <=>
            JobAt(l, k, t2) \/ (l = Priority[f.t] /\ k = Len(queue[Priority[f.t]]) + 1
                                /\ t2 = f.t)
  <2>1. queue' = [queue EXCEPT ![Priority[f.t]] = Append(@, f.t)]
    BY <1>1, <1>f
  <2>2. queue \in [Level -> Seq(Task)]
    BY InvParts DEF RestType
  <2> QED
    BY <1>2, <2>1, <2>2, JobPushed
<1>10. HandsOK'
  <2> SUFFICES ASSUME NEW t \in Task PROVE One(Hands(t))' /\ JobOnce(t)'
    BY DEF HandsOK
  <2>1. g \notin Hands(t) /\ One(Hands(t)) /\ JobOnce(t)
    BY <1>7, <1>8 DEF Hands, HandsOK
  <2>2. One(Hands(t))'
    BY <1>5, <1>6, <2>1, OneKeeps
  <2>3. \A l, k, t2 : JobAt(l, k, t2)' <=>
            JobAt(l, k, t2) \/ (l = Priority[f.t] /\ k = Len(queue[Priority[f.t]]) + 1
                                /\ t2 = f.t)
    BY <1>q
  <2>4. t = f.t => None(Hands(t))' /\ ~None(Hands(t))
    <3>1. t = f.t => None(Hands(t))'
      BY <1>1, <1>5, <1>6, <1>9, <1>f, <2>1, NoneLeft
    <3>2. t = f.t => ~None(Hands(t))
      BY <1>1, <1>5, <1>9, <1>f, FirstFrame DEF None
    <3> QED
      BY <3>1, <3>2
  <2>5. None(Hands(t)) => None(Hands(t))'
    BY <1>5, <1>6, <2>1, NoneKeeps
  <2>6. /\ JobOnce(t) => \A l, k : JobAt(l, k, t) => None(Hands(t))
        /\ JobOnce(t) => \A l1, l2, k1, k2 :
                JobAt(l1, k1, t) /\ JobAt(l2, k2, t) => l1 = l2 /\ k1 = k2
    BY JobOnceIs
  <2>7. JobOnce(t)'
    <3>1. \A l1, l2, k1, k2 : JobAt(l1, k1, t)' /\ JobAt(l2, k2, t)' => l1 = l2 /\ k1 = k2
      BY <2>1, <2>3, <2>4, <2>6
    <3>2. \A l, k : JobAt(l, k, t)' => None(Hands(t))'
      BY <2>1, <2>3, <2>4, <2>5, <2>6
    <3> QED
      BY <3>1, <3>2, JobOnceIs
  <2> QED
    BY <2>2, <2>7
<1>11. CommitsOK'
  <2>1. \A t \in Task : ~Held(th, t) /\ ~Accepted(th, t)'
    BY <1>1, <1>3, <1>5, <1>9, <1>f DEF Held, Accepted, Commits, Top
  <2>2. \A t \in Task : Begun(t)' <=> Begun(t)
    BY <1>1 DEF Begun
  <2> QED
    BY <1>1, <1>5, <1>6, <1>7, <1>8, <2>1, <2>2, CommitsSame
<1>12. NestOK'
  BY <1>3, <1>5, <1>7, <1>9, <1>f, NestKeeps, Labels
<1>13. SeesOK'
  <2>1. Sees(g)'
    <3>1. status[g.t] \in Status
      BY <1>3, InvParts DEF GraphType, Frame
    <3> QED
      BY <1>1, <1>3, <1>8, <3>1, Labels DEF Sees, InHand, Knows
  <2> QED
    BY <1>1, <1>5, <1>6, <1>7, <2>1, SeesKeeps
<1>14. \A u \in Thread : TopSees(u)'
  <2>1. TopSees(th)'
    BY <1>3, <1>5 DEF TopSees, Top
  <2> QED
    BY <1>1, <1>5, <1>7, <2>1, OthersSee
<1>15. JobsSee'
  <2> SUFFICES ASSUME NEW l, NEW k, NEW t2, JobAt(l, k, t2)'
               PROVE  status[t2] \in {QUEUE, ABORTED}
    BY <1>1 DEF JobsSee, JobAt
  <2>1. JobAt(l, k, t2) \/ t2 = f.t
    BY <1>q
  <2> QED
    BY <1>7, <1>9, <2>1 DEF JobsSee, JobAt
<1>16. RunsOK'
  BY <1>1, <1>7 DEF RunsOK
<1> QED
  BY <1>10, <1>11, <1>12, <1>13, <1>14, <1>15, <1>16 DEF RunInv, KnowsOK

\* What a pop leaves in the queues.
LEMMA FewerJobs ==
  ASSUME HandsOK, JobsSee, queue \in [Level -> Seq(Task)], NEW p \in Level, queue[p] # <<>>,
         queue' = [queue EXCEPT ![p] = Tail(@)], status' = status, NEW t, t = Head(queue[p])
  PROVE  /\ t \in Task /\ None(Hands(t)) /\ status[t] \in {QUEUE, ABORTED}
         /\ \A l, k : ~JobAt(l, k, t)'
         /\ \A t2, l, k : JobAt(l, k, t2)' => \E k2 : JobAt(l, k2, t2)
         /\ \A t2 \in Task : \A l1, l2, k1, k2 :
               JobAt(l1, k1, t2)' /\ JobAt(l2, k2, t2)' => l1 = l2 /\ k1 = k2
         /\ JobsSee'
<1>1. /\ JobAt(p, 1, t)
      /\ \A l, k, t2 : JobAt(l, k, t2)' =>
               IF l = p THEN k + 1 # 1 /\ k \in Nat /\ JobAt(p, k + 1, t2)
                        ELSE JobAt(l, k, t2)
  BY JobPopped
<1>2. t \in Task
  BY <1>1 DEF JobAt
<1>3. \A t2 \in Task : \A l1, l2, k1, k2 :
         JobAt(l1, k1, t2) /\ JobAt(l2, k2, t2) => l1 = l2 /\ k1 = k2
  BY DEF HandsOK, JobOnce, JobAt
<1>4. None(Hands(t)) /\ status[t] \in {QUEUE, ABORTED}
  BY <1>1, <1>2 DEF HandsOK, JobOnce, JobAt, JobsSee
<1>5. \A l, k : ~JobAt(l, k, t)'
  BY <1>1, <1>2, <1>3
<1>6. \A t2, l, k : JobAt(l, k, t2)' => \E k2 : JobAt(l, k2, t2)
  BY <1>1
<1>7. ASSUME NEW t2 \in Task, NEW l1, NEW l2, NEW k1, NEW k2,
             JobAt(l1, k1, t2)', JobAt(l2, k2, t2)'
      PROVE  l1 = l2 /\ k1 = k2
  <2>1. CASE l1 = p /\ l2 = p
    <3>1. k1 \in Nat /\ k2 \in Nat /\ k1 + 1 = k2 + 1
      BY <1>1, <1>3, <1>7, <2>1
    <3> QED
      BY <2>1, <3>1
  <2>2. CASE ~(l1 = p /\ l2 = p)
    BY <1>1, <1>3, <1>7, <2>2
  <2> QED
    BY <2>1, <2>2
<1>8. JobsSee'
  <2> SUFFICES ASSUME NEW l, NEW k, NEW t2, JobAt(l, k, t2)'
               PROVE  status[t2] \in {QUEUE, ABORTED}
    BY DEF JobsSee, JobAt
  <2> QED
    BY <1>6 DEF JobsSee, JobAt
<1> QED
  BY <1>2, <1>4, <1>5, <1>6, <1>7, <1>8

LEMMA PopRun ==
  ASSUME IInv, RunInv, NEW th \in Thread, Pop(th)
  PROVE  RunInv'
<1>1. /\ stack[th] # <<>> /\ Top(th).pc = "pop" /\ Top(th).i < NumLevels
      /\ queue[Top(th).i] # <<>>
      /\ queue' = [queue EXCEPT ![Top(th).i] = Tail(@)]
      /\ success' = success /\ status' = status /\ ndep' = ndep /\ runs' = runs
  BY DEF Pop, At, task
<1>f. PICK f \in Frame : f = Top(th)
  BY <1>1, TopFacts
<1>2. f.i \in Level /\ f.i \in Nat
  BY <1>1, <1>f, ConstantsAssumption DEF Frame, Level
<1>t. PICK t : t = Head(queue[f.i])
  OBVIOUS
<1>3. HandsOK /\ CommitsOK /\ NestOK /\ SeesOK /\ JobsSee /\ RunsOK
      /\ \A u \in Thread : TopSees(u)
  BY DEF RunInv, KnowsOK
<1>4. /\ t \in Task /\ None(Hands(t)) /\ status[t] \in {QUEUE, ABORTED}
      /\ \A l, k : ~JobAt(l, k, t)'
      /\ \A t2, l, k : JobAt(l, k, t2)' => \E k2 : JobAt(l, k2, t2)
      /\ \A t2 \in Task : \A l1, l2, k1, k2 :
            JobAt(l1, k1, t2)' /\ JobAt(l2, k2, t2)' => l1 = l2 /\ k1 = k2
      /\ JobsSee'
  <2>1. queue \in [Level -> Seq(Task)]
    BY InvParts DEF RestType
  <2>2. queue[f.i] # <<>> /\ queue' = [queue EXCEPT ![f.i] = Tail(@)]
    BY <1>1, <1>f
  <2> QED
    BY <1>1, <1>2, <1>3, <1>t, <2>1, <2>2, FewerJobs
<1>5. \A t2 \in Task :
           /\ JobOnce(t2) => \A l, k : JobAt(l, k, t2) => None(Hands(t2))
           /\ /\ \A l1, l2, k1, k2 :
                   JobAt(l1, k1, t2)' /\ JobAt(l2, k2, t2)' => l1 = l2 /\ k1 = k2
              /\ \A l, k : JobAt(l, k, t2)' => None(Hands(t2))'
              => JobOnce(t2)'
  BY JobOnceIs
<1>6. CASE stack' = stack
  <2>1. HandsOK'
    <3>1. \A t2 \in Task : One(Hands(t2))' /\ (None(Hands(t2)) => None(Hands(t2))')
      BY <1>3, <1>6 DEF HandsOK, One, None
    <3>2. \A t2 \in Task : JobOnce(t2)'
      BY <1>3, <1>4, <1>5, <3>1 DEF HandsOK
    <3> QED
      BY <3>1, <3>2 DEF HandsOK
  <2>2. CommitsOK'
    BY <1>1, <1>3, <1>6 DEF CommitsOK, Accepted, One, None, Counted, Begun, Top
  <2>3. NestOK'
    BY <1>3, <1>6 DEF NestOK
  <2>4. SeesOK'
    <3> SUFFICES ASSUME NEW u \in Thread, NEW k \in 1..Len(stack'[u])
                 PROVE  Sees(stack[u][k])'
      BY DEF SeesOK
    <3>1. Sees(stack[u][k])
      BY <1>3, <1>6 DEF SeesOK
    <3> QED
      BY <1>1, <1>6, <3>1 DEF Sees, Knows
  <2>5. \A u \in Thread : TopSees(u)'
    BY <1>1, <1>3, <1>6 DEF TopSees, Top
  <2>6. RunsOK'
    BY <1>1, <1>3 DEF RunsOK
  <2> QED
    BY <1>4, <2>1, <2>2, <2>3, <2>4, <2>5, <2>6 DEF RunInv, KnowsOK
<1>7. CASE stack' # stack
  <2> DEFINE g == Update(t, QUEUE, RUNNING)
             h == [f EXCEPT !.pc = "ran", !.t = t]
  <2>1. Call(th, g, h)
    BY <1>7, <1>f, <1>t DEF Pop
  <2>2. /\ g \in Frame /\ g.pc = "cas" /\ g.t = t /\ g.old = QUEUE /\ g.new = RUNNING
        /\ h \in Frame /\ h.pc = "ran" /\ h.t = t
    <3>1. QUEUE \in Status /\ RUNNING \in Status
      BY DEF Status
    <3>2. g \in Frame /\ g.pc = "cas" /\ g.t = t /\ g.old = QUEUE /\ g.new = RUNNING
      BY <1>4, <3>1, Updates
    <3>3. h \in Frame /\ h.pc = "ran" /\ h.t = t
      BY <1>4 DEF Frame, Label
    <3> QED
      BY <3>2, <3>3
  <2> HIDE DEF g, h
  <2>3. /\ Shape(th, 2) /\ StackType /\ stack'[th][1] = g /\ stack'[th][2] = h
        /\ stack'[th] # <<>> /\ Head(stack'[th]) = g
    BY <1>1, <2>1, <2>2, CallIs, InvParts, FramesType
  <2>4. \A k \in 1..2 : k = 1 \/ k = 2
    OBVIOUS
  <2>5. /\ ~InHand(g) /\ ~Committing(g) /\ ~Committing(h)
        /\ status[g.t] \in Knows(g) /\ Knows(h) = Status /\ InHand(h)
    BY <1>4, <2>2, Labels DEF InHand, Committing, Knows, READY, QUEUE, RUNNING, FINAL,
         COMPLETED, ABORTED, FAILED
  <2>6. f.pc = "pop" /\ f.pc \notin Updating /\ ~Committing(f)
    BY <1>1, <1>f, Labels DEF Committing
  <2>7. HandsOK'
    <3> SUFFICES ASSUME NEW t2 \in Task PROVE One(Hands(t2))' /\ JobOnce(t2)'
      BY DEF HandsOK
    <3>1. One(Hands(t2)) /\ JobOnce(t2)
      BY <1>3 DEF HandsOK
    <3>2. g \notin Hands(t2) /\ (h \in Hands(t2) => t2 = t)
      BY <2>2, <2>5 DEF Hands
    <3>3. One(Hands(t2))'
      BY <1>4, <2>3, <2>4, <3>1, <3>2, OneKeeps
    <3>4. t2 # t /\ None(Hands(t2)) => None(Hands(t2))'
      BY <2>3, <2>4, <3>2, NoneKeeps
    <3>5. JobOnce(t2)'
      BY <1>4, <1>5, <3>1, <3>4
    <3> QED
      BY <3>3, <3>5
  <2>8. CommitsOK'
    <3>1. \A t2 \in Task : ~Held(th, t2) /\ ~Accepted(th, t2)'
      BY <1>1, <1>f, <2>2, <2>3, <2>6 DEF Held, Accepted, Commits, Top
    <3>2. \A t2 \in Task : Begun(t2)' <=> Begun(t2)
      BY <1>1 DEF Begun
    <3> QED
      BY <1>1, <1>3, <2>3, <2>4, <2>5, <3>1, <3>2, CommitsSame
  <2>9. NestOK'
    BY <1>1, <1>3, <1>f, <2>2, <2>3, <2>6, NestKeeps, Labels, Callers
  <2>10. Sees(g) /\ Sees(h)
    <3>1. status[t] \in Status /\ status[t] >= READY
      BY <1>4 DEF Status, READY, QUEUE, ABORTED
    <3> QED
      BY <2>2, <2>5, <3>1, Labels DEF Sees
  <2>11. SeesOK'
    <3>1. \A e \in Frame : Sees(e) => Sees(e)'
      BY <1>1 DEF Sees, Knows
    <3> QED
      BY <1>1, <1>3, <2>3, <2>4, <2>10, <3>1, SeesKeeps
  <2>12. \A u \in Thread : TopSees(u)'
    <3>1. TopSees(th)'
      BY <2>2, <2>3 DEF TopSees, Top
    <3> QED
      BY <1>1, <1>3, <2>3, <3>1, OthersSee
  <2>13. RunsOK'
    BY <1>1, <1>3 DEF RunsOK
  <2> QED
    BY <1>4, <2>7, <2>8, <2>9, <2>11, <2>12, <2>13 DEF RunInv, KnowsOK
<1> QED
  BY <1>6, <1>7

\* Nobody else has the run that a frame has in hand.
LEMMA OneHand ==
  ASSUME RunInv, NEW th \in Thread, NEW h \in 1..Len(stack[th]), NEW t \in Task,
         stack[th][h] \in Hands(t)
  PROVE  /\ \A u \in Thread : \A k \in 1..Len(stack[u]) :
              stack[u][k] \in Hands(t) => u = th /\ k = h
         /\ \A l, k : ~JobAt(l, k, t)
<1>1. One(Hands(t)) /\ JobOnce(t)
  BY DEF RunInv, HandsOK
<1>2. ~None(Hands(t))
  BY DEF None
<1> QED
  BY <1>1, <1>2, JobOnceIs DEF One

LEMMA RanRun ==
  ASSUME IInv, RunInv, NEW th \in Thread, Ran(th)
  PROVE  RunInv'
<1>1. /\ stack[th] # <<>> /\ Top(th).pc = "ran"
      /\ success' = success /\ status' = status /\ ndep' = ndep /\ queue' = queue
  BY DEF Ran, At, task, job
<1>f. PICK f \in Frame : f = Top(th)
  BY <1>1, TopFacts
<1>2. f.t \in Task /\ f.pc = "ran"
  BY <1>1, <1>f DEF Frame
<1>3. HandsOK /\ CommitsOK /\ NestOK /\ SeesOK /\ JobsSee /\ RunsOK
      /\ \A u \in Thread : TopSees(u)
  BY DEF RunInv, KnowsOK
<1>4. InHand(f) /\ ~Committing(f) /\ f.pc \notin Updating
  BY <1>2, Labels DEF InHand, Committing
<1>5. CASE ~success[th]
  <2> DEFINE g == [f EXCEPT !.pc = "pop"]
  <2>1. g \in Frame /\ g.pc \in Easy
    BY EasyLabels DEF Frame, Label
  <2>2. Goto(th, g)
    BY <1>5, <1>f DEF Ran, Step
  <2> HIDE DEF g
  <2>3. Still(th)
    BY <1>1, <1>5 DEF Ran, Still, At
  <2> QED
    BY <1>1, <1>4, <1>f, <2>1, <2>2, <2>3, EasyPlain, QuietGoto
<1>6. CASE success[th]
  <2> DEFINE g == [f EXCEPT !.pc = "handler"]
  <2>1. g \in Frame /\ g.pc = "handler" /\ g.t = f.t
    BY DEF Frame, Label
  <2>2. Goto(th, g) /\ runs' = [runs EXCEPT ![f.t] = @ + 1]
    BY <1>6, <1>f DEF Ran, Step
  <2> HIDE DEF g
  <2>3. /\ Shape(th, 1) /\ StackType /\ stack'[th][1] = g
        /\ stack'[th] # <<>> /\ Head(stack'[th]) = g
    BY <1>1, <2>1, <2>2, GotoIs, InvParts, FramesType
  <2>4. \A k \in 1..1 : k = 1
    OBVIOUS
  <2>5. status[f.t] = RUNNING /\ runs[f.t] = 0
    BY <1>1, <1>3, <1>6, <1>f DEF TopSees
  <2>6. /\ runs'[f.t] = 1
        /\ \A t \in Task : t # f.t => runs'[t] = runs[t]
    <3>1. runs \in [Task -> Nat]
      BY InvParts DEF RestType
    <3> QED
      BY <1>2, <2>2, <2>5, <3>1
  <2>7. Top(th) = stack[th][1] /\ 1 \in 1..Len(stack[th])
    BY <1>1, <2>3, FirstFrame
  <2>8. \A u \in Thread : \A k \in 1..Len(stack[u]) :
           stack[u][k] \in Hands(f.t) => u = th /\ k = 1
    BY <1>2, <1>4, <1>f, <2>7, OneHand DEF Hands
  <2>9. HandsOK'
    BY <1>1, <1>3, <1>4, <1>f, <2>1, <2>3, <2>4, HandsKeeps
  <2>10. ~Committing(g) /\ InHand(g) /\ Knows(g) = {RUNNING}
    BY <2>1, Labels DEF InHand, Committing, Knows
  <2>11. CommitsOK'
    <3>1. \A t \in Task : ~Held(th, t) /\ ~Accepted(th, t)'
      BY <1>1, <1>4, <1>f, <2>1, <2>3 DEF Held, Accepted, Commits, Top
    <3>2. \A t \in Task : Begun(t)' <=> Begun(t)
      BY <1>1 DEF Begun
    <3> QED
      BY <1>1, <1>3, <2>3, <2>4, <2>10, <3>1, <3>2, CommitsSame
  <2>12. NestOK'
    BY <1>3, <1>4, <1>f, <2>1, <2>3, <2>4, NestKeeps, Labels
  <2>13. SeesOK'
    <3>1. Sees(g)'
      <4>1. RUNNING >= READY
        BY DEF RUNNING, READY
      <4> QED
        BY <1>1, <2>1, <2>5, <2>10, <4>1, Labels DEF Sees, Knows, InHand
    <3>2. ASSUME NEW u \in Thread, NEW k \in 1..Len(stack[u]), NEW e \in Frame,
                 e = stack[u][k]
          PROVE  Sees(e)'
      <4>1. Sees(e)
        BY <1>3, <3>2 DEF SeesOK
      <4>2. ~(e.pc \in Active /\ e.new = RUNNING /\ e.t = f.t)
        <5> SUFFICES ASSUME e.pc \in Active, e.new = RUNNING, e.t = f.t
                     PROVE  FALSE
          OBVIOUS
        <5>1. /\ k + 1 \in 1..Len(stack[u]) /\ stack[u][k + 1].t = f.t
              /\ stack[u][k + 1].pc = "ran"
          <6>1. stack[u][k].pc \in Updating /\ stack[u][k].new \in Awaited
            BY <3>2, Labels DEF Awaited
          <6> QED
            BY <1>3, <3>2, <6>1, Callers DEF NestOK
        <5>2. stack[u][k + 1] \in Frame
          BY <2>3, <5>1 DEF StackType
        <5>3. stack[u][k + 1] \in Hands(f.t)
          BY <5>1, <5>2 DEF Hands, InHand
        <5>4. k + 1 = 1 /\ k \in Nat \ {0}
          BY <2>8, <5>1, <5>3
        <5> QED
          BY <5>4
      <4>3. e.t \in Task
        BY DEF Frame
      <4> QED
        BY <1>1, <2>6, <4>1, <4>2, <4>3 DEF Sees, Knows
    <3> QED
      BY <2>3, <2>4, <3>1, <3>2, SeesStep
  <2>14. \A u \in Thread : TopSees(u)'
    <3>1. TopSees(th)'
      BY <2>1, <2>3 DEF TopSees, Top
    <3>2. ASSUME NEW u \in Thread, NEW e \in Frame,
                 u # th, stack[u] # <<>>, e = Top(u), e.pc = "ran"
          PROVE  runs'[e.t] = runs[e.t]
      <4>1. Top(u) = stack[u][1] /\ 1 \in 1..Len(stack[u])
        BY <2>3, <3>2, FirstFrame
      <4>2. e.t # f.t
        BY <2>8, <3>2, <4>1 DEF Hands, InHand
      <4> QED
        BY <2>6, <4>2 DEF Frame
    <3> QED
      BY <1>1, <1>3, <2>3, <3>1, <3>2, OthersSee
  <2>15. JobsSee'
    BY <1>1, <1>3 DEF JobsSee
  <2>16. RunsOK'
    BY <1>1, <1>3, <2>5, <2>6 DEF RunsOK
  <2> QED
    BY <2>9, <2>11, <2>12, <2>13, <2>14, <2>15, <2>16 DEF RunInv, KnowsOK
<1> QED
  BY <1>5, <1>6

-----------------------------------------------------------------------------
(* The compare-and-swap. *)

\* The frame tells the status of a task that is being run.
Knower(e) ==
    \/ e.pc \in {"queue_push", "handler"}
    \/ e.pc \in Updating /\ e.new \in {QUEUE, RUNNING, FINAL, FAILED, COMPLETED}
    \/ e.pc \in Active /\ e.new = READY

\* It has the run in hand, or the call has that waits for it.
LEMMA KnowerHand ==
  ASSUME IInv, RunInv, NEW u \in Thread, NEW k \in 1..Len(stack[u]), NEW e \in GoodFrame,
         e = stack[u][k], Knower(e)
  PROVE  \/ e \in Hands(e.t)
         \/ /\ e.pc \in Updating /\ e.new \in {QUEUE, RUNNING}
            /\ k + 1 \in 1..Len(stack[u]) /\ stack[u][k + 1] \in Hands(e.t)
<1>1. e \in Frame
  BY DEF GoodFrame
<1>2. CASE e.pc \in Updating /\ e.new \in {QUEUE, RUNNING}
  <2>1. /\ k + 1 \in 1..Len(stack[u]) /\ stack[u][k + 1].t = e.t
        /\ stack[u][k + 1].pc \in {"queue_job", "ran"}
    <3>1. stack[u][k].pc \in Updating /\ stack[u][k].new \in Awaited
      BY <1>2 DEF Awaited
    <3> QED
      BY <1>2, <3>1, Callers DEF RunInv, NestOK
  <2>2. stack[u][k + 1] \in Frame
    <3>1. stack[u] \in Seq(Frame)
      BY InvParts, FramesType
    <3> QED
      BY <2>1, <3>1
  <2> QED
    BY <1>2, <2>1, <2>2 DEF Hands, InHand
<1>3. CASE ~(e.pc \in Updating /\ e.new \in {QUEUE, RUNNING})
  <2>1. InHand(e)
    BY <1>3, Labels DEF Knower, InHand
  <2> QED
    BY <1>1, <2>1 DEF Hands
<1> QED
  BY <1>2, <1>3

\* While a thread runs a task no other frame tells the status of it.
LEMMA LoneKnower ==
  ASSUME IInv, RunInv, NEW th \in Thread, NEW f \in Frame, stack[th] # <<>>, f = Top(th),
         f.pc = "cas", f.new \in {QUEUE, RUNNING, FINAL, FAILED, COMPLETED}
  PROVE  /\ \A u \in Thread : \A k \in 1..Len(stack[u]) : \A e \in GoodFrame :
              e = stack[u][k] /\ (u # th \/ k # 1) /\ e.t = f.t => ~Knower(e)
         /\ \A u \in Thread :
              u # th /\ stack[u] # <<>> /\ Top(u).t = f.t => Top(u).pc \notin {"queue_job", "ran"}
         /\ \A l, k : ~JobAt(l, k, f.t)
<1>1. stack \in [Thread -> Seq(GoodFrame)] /\ stack \in [Thread -> Seq(Frame)]
  BY InvParts, FramesType DEF StackOK, FramesOK
<1>2. f = stack[th][1] /\ 1 \in 1..Len(stack[th])
  BY <1>1, PopFacts DEF Top
<1>3. f \in GoodFrame /\ f.t \in Task
  BY <1>1, <1>2 DEF Frame
<1>4. f.pc \in Updating /\ Knower(f)
  BY Labels DEF Knower
<1>5. PICK h \in 1..Len(stack[th]) :
        /\ stack[th][h] \in Hands(f.t)
        /\ h = 1 \/ (h = 2 /\ stack[th][h].pc \in {"queue_job", "ran"})
  <2>1. CASE f \in Hands(f.t)
    BY <1>2, <2>1
  <2>2. CASE /\ f.new \in {QUEUE, RUNNING}
             /\ 1 + 1 \in 1..Len(stack[th]) /\ stack[th][1 + 1] \in Hands(f.t)
    <3>1. stack[th][1].pc \in Updating /\ stack[th][1].new \in Awaited
      BY <1>2, <1>4, <2>2 DEF Awaited
    <3>2. stack[th][1 + 1].pc \in {"queue_job", "ran"}
      BY <1>2, <2>2, <3>1, Callers DEF RunInv, NestOK
    <3> QED
      BY <2>2, <3>2
  <2> QED
    BY <1>2, <1>3, <1>4, <2>1, <2>2, KnowerHand
<1>6. /\ \A u \in Thread : \A k \in 1..Len(stack[u]) :
            stack[u][k] \in Hands(f.t) => u = th /\ k = h
      /\ \A l, k : ~JobAt(l, k, f.t)
  BY <1>3, <1>5, OneHand
<1>7. ASSUME NEW u \in Thread, NEW k \in 1..Len(stack[u]), NEW e \in GoodFrame,
             e = stack[u][k], u # th \/ k # 1, e.t = f.t, Knower(e)
      PROVE  FALSE
  <2>1. CASE e \in Hands(f.t)
    <3>1. u = th /\ k = h /\ h = 2 /\ e.pc \in {"queue_job", "ran"}
      BY <1>5, <1>6, <1>7, <2>1
    <3> QED
      BY <1>7, <3>1, Labels DEF Knower
  <2>2. CASE k + 1 \in 1..Len(stack[u]) /\ stack[u][k + 1] \in Hands(f.t)
    <3>1. u = th /\ k + 1 = h /\ k \in Nat \ {0}
      BY <1>6, <2>2
    <3>2. k = 1
      BY <1>5, <3>1
    <3> QED
      BY <1>7, <3>1, <3>2
  <2> QED
    BY <1>7, <2>1, <2>2, KnowerHand
<1>8. ASSUME NEW u \in Thread, u # th, stack[u] # <<>>, Top(u).t = f.t,
             Top(u).pc \in {"queue_job", "ran"}
      PROVE  FALSE
  <2>1. Top(u) = stack[u][1] /\ 1 \in 1..Len(stack[u]) /\ Top(u) \in Frame
    BY <1>1, <1>8, PopFacts DEF Top
  <2>2. Top(u) \in Hands(f.t)
    BY <1>8, <2>1 DEF Hands, InHand
  <2> QED
    BY <1>6, <1>8, <2>1, <2>2
<1> QED
  BY <1>6, <1>7, <1>8

\* What the other frames, calls and jobs hold of the task is as true afterwards.
LEMMA CasOthers ==
  ASSUME IInv, RunInv, NEW th \in Thread, NEW f \in Frame, stack[th] # <<>>, f = Top(th),
         f.pc = "cas", status[f.t] = f.old
  PROVE  /\ \A u \in Thread : \A k \in 1..Len(stack[u]) : \A e \in GoodFrame :
              e = stack[u][k] /\ (u # th \/ k # 1) /\ e.t = f.t =>
                f.new \in Knows(e) /\ (InHand(e) => f.new >= READY)
         /\ \A u \in Thread :
              u # th /\ stack[u] # <<>> /\ Top(u).t = f.t =>
                Top(u).pc # "queue_job" /\ ~(Top(u).pc = "ran" /\ success[u])
         /\ \A l, k : ~JobAt(l, k, f.t)
<1>1. /\ f.t \in Task /\ f.old \in Status /\ f.new \in Status
      /\ <<f.old, f.new>> \in Edge(f.t)
      /\ f.new = READY => Counted(f.t)
  BY TopFacts DEF FrameOK, Updating, Frame
<1>2. SeesOK /\ JobsSee /\ CommitsOK /\ \A u \in Thread : TopSees(u)
  BY DEF RunInv, KnowsOK
<1>3. CASE f.new \in {QUEUE, RUNNING, FINAL, FAILED, COMPLETED}
  <2>1. f.old \in {READY, QUEUE, RUNNING, FINAL} /\ f.new >= READY
    BY <1>1, <1>3 DEF Edge, INVAL, IDLE, DEPHOLD, READY, QUEUE, RUNNING, FINAL, COMPLETED,
                      ABORTED, FAILED
  <2>2. ASSUME NEW u \in Thread, NEW k \in 1..Len(stack[u]), NEW e \in GoodFrame,
               e = stack[u][k], u # th \/ k # 1, e.t = f.t
        PROVE  f.new \in Knows(e)
    <3>1. ~Knower(e)
      BY <1>3, <2>2, LoneKnower
    <3>2. f.old \in Knows(e)
      BY <1>2, <2>2 DEF SeesOK, Sees
    <3>3. e.pc = "cas" => <<e.old, e.new>> \in Edge(e.t)
      BY DEF GoodFrame, FrameOK, Updating
    <3>4. e.new \in Status
      BY DEF GoodFrame, Frame
    <3>5. CASE e.pc \in Active
      <4>1. Knows(e) = {e.new} \/ Knows(e) = {e.new, ABORTED}
        BY <3>5, Labels DEF Knows
      <4>2. e.new \notin {READY, QUEUE, RUNNING, FINAL}
        BY <3>1, <3>5, Labels DEF Knower
      <4>3. ABORTED \notin {READY, QUEUE, RUNNING, FINAL}
        BY DEF READY, QUEUE, RUNNING, FINAL, ABORTED
      <4> QED
        BY <2>1, <3>2, <4>1, <4>2, <4>3
    <3>6. CASE e.pc = "cas"
      <4>1. Knows(e) = Status
        BY <3>1, <3>3, <3>6, Labels
           DEF Knows, Knower, Edge, INVAL, IDLE, DEPHOLD, READY, QUEUE, RUNNING,
               FINAL, COMPLETED, ABORTED, FAILED
      <4> QED
        BY <1>1, <4>1
    <3>7. CASE e.pc \notin Active /\ e.pc # "cas"
      <4>1. Knows(e) = Status
        BY <3>1, <3>7, Labels DEF Knows, Knower
      <4> QED
        BY <1>1, <4>1
    <3> QED
      BY <3>5, <3>6, <3>7
  <2> QED
    BY <1>3, <2>1, <2>2, LoneKnower
<1>4. CASE f.new \in {DEPHOLD, READY, ABORTED}
  <2>1. /\ f.old \in {IDLE, DEPHOLD, READY}
        /\ f.new = DEPHOLD => f.old = IDLE
        /\ f.new = READY => f.old = DEPHOLD
        /\ f.new = ABORTED => f.old \in {DEPHOLD, READY} /\ f.new >= READY
        /\ f.old >= READY => f.new = ABORTED
        /\ ABORTED \notin {IDLE, DEPHOLD, READY}
    BY <1>1, <1>4 DEF Edge, INVAL, IDLE, DEPHOLD, READY, QUEUE, RUNNING, FINAL, COMPLETED,
                      ABORTED, FAILED
  <2>2. ASSUME NEW u \in Thread, NEW k \in 1..Len(stack[u]), NEW e \in GoodFrame,
               e = stack[u][k], u # th \/ k # 1, e.t = f.t
        PROVE  f.new \in Knows(e) /\ (InHand(e) => f.new >= READY)
    <3>1. Sees(e)
      BY <1>2, <2>2 DEF SeesOK
    <3>2. f.old \in Knows(e) /\ (InHand(e) => f.old >= READY)
      BY <2>2, <3>1 DEF Sees
    <3>3. InHand(e) => f.new >= READY
      BY <2>1, <3>2
    <3>4. e.pc \in Updating => <<e.old, e.new>> \in Edge(e.t)
      BY DEF GoodFrame, FrameOK
    <3>5. e.pc \in Active /\ e.new = DEPHOLD => ~Counted(f.t)
      <4>1. e \in Frame
        BY DEF GoodFrame
      <4>2. e.pc \in Active /\ e.new = DEPHOLD => e \in Commits(f.t) /\ e.pc \notin Wiring
        BY <2>2, <4>1, Labels DEF Commits, Committing
      <4> QED
        BY <1>1, <1>2, <2>2, <4>2 DEF CommitsOK
    <3>6. e.pc \in Active => f.new \in Knows(e)
      <4> SUFFICES ASSUME e.pc \in Active PROVE f.new \in Knows(e)
        OBVIOUS
      <4>1. Knows(e) = {e.new} \cup (IF e.new \in {DEPHOLD, READY} THEN {ABORTED} ELSE {})
        BY Labels DEF Knows
      <4>2. e.new = f.old
        BY <2>1, <3>2, <4>1
      <4>3. e.new # IDLE
        BY <3>4, Labels DEF Edge, INVAL, IDLE, DEPHOLD, READY, QUEUE, RUNNING, FINAL,
                            COMPLETED, ABORTED, FAILED
      <4> QED
        BY <1>1, <1>4, <2>1, <3>5, <4>1, <4>2, <4>3
    <3>7. e.pc \notin Active => f.new \in Knows(e)
      <4> SUFFICES ASSUME e.pc \notin Active PROVE f.new \in Knows(e)
        OBVIOUS
      <4>1. Knows(e) = Status \/ Knows(e) = {READY, ABORTED}
        <5>1. \/ Knows(e) \in {Status, {READY, ABORTED}, {QUEUE, ABORTED}, {RUNNING}, {FINAL}}
          BY Labels DEF Knows
        <5>2. f.old \notin {QUEUE, ABORTED, RUNNING, FINAL}
          BY <2>1 DEF IDLE, DEPHOLD, READY, QUEUE, RUNNING, FINAL, ABORTED
        <5> QED
          BY <3>2, <5>1, <5>2
      <4>2. READY \in Status /\ READY \notin {IDLE, DEPHOLD}
        BY DEF Status, READY, IDLE, DEPHOLD
      <4> QED
        BY <1>1, <1>4, <2>1, <3>2, <4>1, <4>2
    <3> QED
      BY <3>3, <3>6, <3>7
  <2>3. f.old \notin {QUEUE, ABORTED, RUNNING}
    BY <2>1 DEF IDLE, DEPHOLD, READY, QUEUE, RUNNING, ABORTED
  <2>4. ASSUME NEW u \in Thread, u # th, stack[u] # <<>>, Top(u).t = f.t
        PROVE  Top(u).pc # "queue_job" /\ ~(Top(u).pc = "ran" /\ success[u])
    BY <1>2, <2>3, <2>4 DEF TopSees
  <2>5. \A l, k : ~JobAt(l, k, f.t)
    BY <1>2, <2>3 DEF JobsSee, JobAt
  <2> QED
    BY <2>2, <2>4, <2>5
<1> QED
  BY <1>1, <1>3, <1>4 DEF Edge

\* The commit that a successful compare-and-swap begins, or the one it leaves alone.
LEMMA CasCommits ==
  ASSUME IInv, RunInv, NEW th \in Thread, NEW f \in Frame, stack[th] # <<>>, f = Top(th),
         f.pc = "cas", status[f.t] = f.old, status' = [status EXCEPT ![f.t] = f.new],
         ndep' = ndep, success' = success, StackType, Shape(th, 1),
         NEW g \in Frame, stack'[th][1] = g, stack'[th] # <<>>, Head(stack'[th]) = g,
         g.pc = "notify", g.t = f.t, g.new = f.new
  PROVE  CommitsOK'
<1>1. /\ f.t \in Task /\ f.old \in Status /\ f.new \in Status
      /\ <<f.old, f.new>> \in Edge(f.t)
  BY TopFacts DEF FrameOK, Updating, Frame
<1>2. CommitsOK /\ \A k \in 1..1 : k = 1
  BY DEF RunInv
<1>3. \A t \in Task : ~Held(th, t) /\ ~Accepted(th, t)'
  BY Labels DEF Held, Accepted, Commits, Committing, Top
<1>4. \A t \in Task : status[t] = ABORTED => status'[t] = ABORTED
  <2>1. f.old # ABORTED
    BY <1>1 DEF Edge, IDLE, DEPHOLD, READY, QUEUE, RUNNING, FINAL, ABORTED
  <2> QED
    BY <1>1, <2>1, InvParts DEF GraphType
<1>5. \A t \in Task : t # f.t => status'[t] = status[t]
  BY <1>1, InvParts DEF GraphType
<1>6. CASE f.new # DEPHOLD
  <2>1. ~Committing(g)
    BY <1>6, Labels DEF Committing
  <2>2. \A t \in Task : Begun(t)' => Begun(t)
    <3>1. f.old >= DEPHOLD
      BY <1>1, <1>6 DEF Edge, IDLE, DEPHOLD, READY, QUEUE, RUNNING, FINAL
    <3> QED
      BY <1>5, <3>1 DEF Begun
  <2> QED
    BY <1>2, <1>3, <1>4, <2>1, <2>2, CommitsSame
<1>7. CASE f.new = DEPHOLD
  <2>1. ~Begun(f.t)
    <3>1. f.old = IDLE
      BY <1>1, <1>7 DEF Edge, IDLE, DEPHOLD, READY, QUEUE, RUNNING, FINAL, COMPLETED, ABORTED,
                        FAILED
    <3> QED
      BY <3>1 DEF Begun, IDLE, DEPHOLD
  <2>2. \A t \in Task : Counted(t) => Begun(t)
    BY InvParts DEF DepsOK
  <2>3. None(Commits(f.t))
    <3> SUFFICES ASSUME NEW u \in Thread, NEW k \in 1..Len(stack[u]),
                        stack[u][k] \in Commits(f.t)
                 PROVE  FALSE
      BY DEF None
    <3>1. stack[u][k] \in GoodFrame
      BY InvParts DEF StackOK, FramesOK
    <3>2. PICK e \in GoodFrame : e = stack[u][k]
      BY <3>1
    <3>3. e.t = f.t /\ Committing(e) /\ FrameOK(e)
      BY <3>2 DEF Commits, GoodFrame
    <3>4. CASE e.pc \in Active /\ e.new = DEPHOLD
      BY <2>1, <3>3, <3>4, Labels DEF FrameOK, Begun
    <3>5. CASE e.pc \in Wiring
      BY <1>1, <2>1, <2>2, <3>3, <3>5 DEF FrameOK
    <3>6. CASE e.pc = "commit_init"
      BY <2>1, <3>3, <3>6 DEF FrameOK
    <3> QED
      BY <3>3, <3>4, <3>5, <3>6 DEF Committing
  <2>4. \A u \in Thread : ~Accepted(u, f.t)
    BY <2>1, InvParts DEF Accepted, StackOK, CommitCallOK
  <2>5. Nobody(f.t) /\ ~Counted(f.t)
    BY <1>1, <2>1, <2>2, <2>3, <2>4 DEF Nobody
  <2>6. \A t \in Task : g \in Commits(t) <=> t = f.t
    BY <1>7, Labels DEF Commits, Committing
  <2>7. ASSUME NEW t \in Task
        PROVE  /\ One(Commits(t))'
               /\ \A th1, th2 \in Thread : Accepted(th1, t)' /\ Accepted(th2, t)' => th1 = th2
               /\ \A u \in Thread : Accepted(u, t)' => None(Commits(t))' /\ ~Counted(t)'
               /\ \A u \in Thread : \A k \in 1..Len(stack'[u]) :
                    stack'[u][k] \in Commits(t) /\ stack'[u][k].pc \notin Wiring => ~Counted(t)'
               /\ Begun(t)' => \/ Counted(t)' \/ status'[t] = ABORTED
                               \/ \E u \in Thread : Accepted(u, t)'
                               \/ ~None(Commits(t))'
    <3>1. Counted(t)' <=> Counted(t)
      BY DEF Counted
    <3>2. Begun(t)' => Begun(t) \/ \E k \in 1..1 : stack'[th][k] \in Commits(t)
      <4>1. CASE t = f.t
        BY <1>1, <2>6, <4>1
      <4>2. CASE t # f.t
        BY <1>5, <4>2 DEF Begun
      <4> QED
        BY <4>1, <4>2
    <3>3. \A k \in 1..1 : stack'[th][k] \in Commits(t) => Nobody(t) /\ ~Counted(t)'
      BY <1>2, <2>5, <2>6, <3>1
    <3> QED
      BY <1>2, <1>3, <1>4, <3>1, <3>2, <3>3, CommitsKeeps
  <2> QED
    BY <2>7 DEF CommitsOK
<1> QED
  BY <1>6, <1>7

LEMMA CasRun ==
  ASSUME IInv, RunInv, NEW th \in Thread, Cas(th)
  PROVE  RunInv'
<1>1. /\ stack[th] # <<>> /\ Top(th).pc = "cas"
      /\ success' = success /\ ndep' = ndep /\ queue' = queue /\ runs' = runs
  BY DEF Cas, At, job
<1>f. PICK f \in Frame : f = Top(th)
  BY <1>1, TopFacts
<1>2. /\ f.pc = "cas" /\ f.pc \in Updating
      /\ status[f.t] = f.old /\ status' = [status EXCEPT ![f.t] = f.new]
  BY <1>1, <1>f, Labels DEF Cas
<1> DEFINE g == [f EXCEPT !.pc = "notify"]
<1>3. g \in Frame /\ g.pc = "notify" /\ g.t = f.t /\ g.new = f.new /\ g.pc \in Active
  BY Labels DEF Frame, Label
<1>4. Goto(th, g)
  BY <1>f DEF Cas, Step
<1> HIDE DEF g
<1>5. /\ Shape(th, 1) /\ StackType /\ stack'[th][1] = g
      /\ stack'[th] # <<>> /\ Head(stack'[th]) = g
  BY <1>1, <1>3, <1>4, GotoIs, InvParts, FramesType
<1>6. \A k \in 1..1 : k = 1
  OBVIOUS
<1>7. HandsOK /\ CommitsOK /\ NestOK /\ SeesOK /\ JobsSee /\ RunsOK
      /\ \A u \in Thread : TopSees(u)
  BY DEF RunInv, KnowsOK
<1>8. /\ f.t \in Task /\ f.old \in Status /\ f.new \in Status
      /\ <<f.old, f.new>> \in Edge(f.t)
  BY <1>1, <1>2, <1>f, TopFacts DEF FrameOK, Frame
<1>9. /\ status'[f.t] = f.new
      /\ \A t \in Task : t # f.t => status'[t] = status[t]
  BY <1>2, <1>8, InvParts DEF GraphType
<1>o. /\ \A u \in Thread : \A k \in 1..Len(stack[u]) : \A e \in GoodFrame :
            e = stack[u][k] /\ (u # th \/ k # 1) /\ e.t = f.t =>
              f.new \in Knows(e) /\ (InHand(e) => f.new >= READY)
      /\ \A u \in Thread :
            u # th /\ stack[u] # <<>> /\ Top(u).t = f.t =>
              Top(u).pc # "queue_job" /\ ~(Top(u).pc = "ran" /\ success[u])
      /\ \A l, k : ~JobAt(l, k, f.t)
  BY <1>1, <1>2, <1>f, CasOthers
<1>10. HandsOK'
  <2>1. CASE f.new # READY
    <3>1. InHand(g) => InHand(f)
      BY <1>2, <1>3, <2>1, Labels DEF InHand
    <3> QED
      BY <1>1, <1>3, <1>5, <1>6, <1>7, <1>f, <3>1, HandsKeeps
  <2>2. CASE f.new = READY
    <3>1. f.old = DEPHOLD /\ ~(DEPHOLD >= READY)
      BY <1>8, <2>2 DEF Edge, IDLE, DEPHOLD, READY, QUEUE, RUNNING, FINAL, COMPLETED, ABORTED,
                        FAILED
    <3>2. None(Hands(f.t))
      BY <1>2, <1>7, <3>1 DEF None, SeesOK, Sees, Hands
    <3> SUFFICES ASSUME NEW t \in Task PROVE One(Hands(t))' /\ JobOnce(t)'
      BY DEF HandsOK
    <3>3. One(Hands(t)) /\ JobOnce(t)
      BY <1>7 DEF HandsOK
    <3>4. g \in Hands(t) => t = f.t
      BY <1>3 DEF Hands
    <3>5. One(Hands(t))'
      BY <1>5, <1>6, <3>2, <3>3, <3>4, OneKeeps
    <3>6. t # f.t /\ None(Hands(t)) => None(Hands(t))'
      BY <1>5, <1>6, <3>4, NoneKeeps
    <3>7. \A l, k : JobAt(l, k, t)' <=> JobAt(l, k, t)
      BY <1>1 DEF JobAt
    <3>8. JobOnce(t)'
      <4>1. \A l1, l2, k1, k2 : JobAt(l1, k1, t)' /\ JobAt(l2, k2, t)' => l1 = l2 /\ k1 = k2
        <5>1. \A l1, l2, k1, k2 : JobAt(l1, k1, t) /\ JobAt(l2, k2, t) => l1 = l2 /\ k1 = k2
          BY <3>3 DEF JobOnce, JobAt
        <5> QED
          BY <3>7, <5>1
      <4>2. \A l, k : JobAt(l, k, t)' => None(Hands(t))'
        BY <1>o, <3>3, <3>6, <3>7, JobOnceIs
      <4> QED
        BY <4>1, <4>2, JobOnceIs
    <3> QED
      BY <3>5, <3>8
  <2> QED
    BY <2>1, <2>2
<1>11. CommitsOK'
  BY <1>1, <1>2, <1>3, <1>5, <1>f, CasCommits
<1>12. NestOK'
  <2>1. g.pc \in Updating /\ Top(th).pc \in Updating /\ g.t = Top(th).t /\ g.new = Top(th).new
    BY <1>2, <1>3, <1>f, Labels
  <2> QED
    BY <1>1, <1>5, <1>7, <2>1, NestKeeps
<1>13. SeesOK'
  <2>1. Sees(g)'
    <3>1. f.new \in Knows(g)
      BY <1>3 DEF Knows
    <3>2. InHand(g) => f.new >= READY
      BY <1>3, Labels DEF InHand, READY, FINAL, FAILED, COMPLETED
    <3>3. f.new = RUNNING => runs[f.t] = 0
      <4>1. f.new = RUNNING => f.old \notin {RUNNING, FINAL, COMPLETED, FAILED}
        BY <1>8 DEF Edge, IDLE, DEPHOLD, READY, QUEUE, RUNNING, FINAL, COMPLETED, ABORTED,
                    FAILED
      <4> QED
        BY <1>2, <1>7, <1>8, <4>1 DEF RunsOK
    <3> QED
      BY <1>1, <1>3, <1>9, <3>1, <3>2, <3>3 DEF Sees, Knows, InHand
  <2>2. ASSUME NEW u \in Thread, NEW k \in 1..Len(stack[u]), NEW e \in Frame,
               e = stack[u][k], u # th \/ k # 1
        PROVE  Sees(e)'
    <3>1. Sees(e)
      BY <1>7, <2>2 DEF SeesOK
    <3>2. e \in GoodFrame /\ e.t \in Task
      BY <2>2, InvParts DEF StackOK, FramesOK, Frame
    <3>3. CASE e.t # f.t
      BY <1>1, <1>9, <3>1, <3>2, <3>3 DEF Sees, Knows, InHand
    <3>4. CASE e.t = f.t
      <4>1. f.new \in Knows(e) /\ (InHand(e) => f.new >= READY)
        BY <1>o, <2>2, <3>2, <3>4
      <4> QED
        BY <1>1, <1>9, <3>1, <3>4, <4>1 DEF Sees, Knows, InHand
    <3> QED
      BY <3>3, <3>4
  <2> QED
    BY <1>5, <1>6, <2>1, <2>2, SeesStep
<1>14. \A u \in Thread : TopSees(u)'
  <2>1. TopSees(th)'
    BY <1>3, <1>5 DEF TopSees, Top
  <2>2. ASSUME NEW u \in Thread, u # th
        PROVE  TopSees(u)'
    <3>1. stack'[u] = stack[u] /\ TopSees(u)
      BY <1>5, <1>7, <2>2 DEF Shape
    <3>2. stack[u] # <<>> => Top(u).t \in Task
      BY TopFacts
    <3>3. stack[u] # <<>> =>
            (status'[Top(u).t] = status[Top(u).t]
             \/ (Top(u).pc # "queue_job" /\ ~(Top(u).pc = "ran" /\ success[u])))
      BY <1>9, <1>o, <2>2, <3>2
    <3> QED
      BY <1>1, <3>1, <3>3 DEF TopSees, Top
  <2> QED
    BY <2>1, <2>2
<1>15. JobsSee'
  <2> SUFFICES ASSUME NEW l, NEW k, NEW t, JobAt(l, k, t)
               PROVE  status'[t] \in {QUEUE, ABORTED}
    BY <1>1 DEF JobsSee, JobAt
  <2>1. status[t] \in {QUEUE, ABORTED} /\ t # f.t
    BY <1>7, <1>o DEF JobsSee, JobAt
  <2>2. t \in Task
    <3>1. queue \in [Level -> Seq(Task)]
      BY InvParts DEF RestType
    <3> QED
      BY <3>1 DEF JobAt
  <2> QED
    BY <1>9, <2>1, <2>2
<1>16. RunsOK'
  <2>1. f.new \notin {RUNNING, FINAL, COMPLETED, FAILED} =>
          f.old \notin {RUNNING, FINAL, COMPLETED, FAILED}
    BY <1>8 DEF Edge, IDLE, DEPHOLD, READY, QUEUE, RUNNING, FINAL, COMPLETED, ABORTED, FAILED
  <2> QED
    BY <1>1, <1>2, <1>7, <1>8, <1>9, <2>1 DEF RunsOK
<1> QED
  BY <1>10, <1>11, <1>12, <1>13, <1>14, <1>15, <1>16 DEF RunInv, KnowsOK

-----------------------------------------------------------------------------
(* The commit goes from the refusable first step to the wiring of the parents. *)

LEMMA CommitSyncRun ==
  ASSUME IInv, RunInv, NEW th \in Thread, CommitSync(th)
  PROVE  RunInv'
<1>1. /\ stack[th] # <<>> /\ Top(th).pc = "commit" /\ success[th]
      /\ success' = success
      /\ status' = status /\ ndep' = ndep /\ queue' = queue /\ runs' = runs
  BY DEF CommitSync, At, task, job
<1>f. PICK f \in Frame : f = Top(th)
  BY <1>1, TopFacts
<1> DEFINE g == [f EXCEPT !.pc = "commit_init"]
<1>2. g \in Frame /\ g.pc = "commit_init" /\ g.t = f.t /\ f.t \in Task
  BY DEF Frame, Label
<1>3. Goto(th, g)
  BY <1>f DEF CommitSync, Step
<1> HIDE DEF g
<1>4. /\ Shape(th, 1) /\ StackType /\ stack'[th][1] = g
      /\ stack'[th] # <<>> /\ Head(stack'[th]) = g
  BY <1>1, <1>2, <1>3, GotoIs, InvParts, FramesType
<1>5. \A k \in 1..1 : k = 1
  OBVIOUS
<1>6. HandsOK /\ CommitsOK /\ NestOK
  BY DEF RunInv
<1>7. ~InHand(g) /\ Committing(g) /\ Knows(g) = Status
  BY <1>2, Labels DEF InHand, Committing, Knows
<1>8. HandsOK'
  BY <1>1, <1>4, <1>5, <1>6, <1>7, HandsKeeps
<1>9. CommitsOK'
  <2>1. Accepted(th, f.t) /\ ~Counted(f.t)
    BY <1>1, <1>2, <1>6, <1>f DEF Accepted, CommitsOK
  <2>2. \A t \in Task : Held(th, t) <=> t = f.t
    BY <1>1, <1>f, <2>1, Labels DEF Held, Accepted, Commits, Committing
  <2>3. \A t \in Task : g \in Commits(t) <=> t = f.t
    BY <1>2, <1>7 DEF Commits
  <2>4. \A t \in Task : ~Accepted(th, t)'
    BY <1>2, <1>4 DEF Accepted, Top
  <2>5. \A t \in Task : (Begun(t)' <=> Begun(t)) /\ (Counted(t)' <=> Counted(t))
    BY <1>1 DEF Begun, Counted
  <2>6. ASSUME NEW t \in Task
        PROVE  /\ One(Commits(t))'
               /\ \A th1, th2 \in Thread : Accepted(th1, t)' /\ Accepted(th2, t)' => th1 = th2
               /\ \A u \in Thread : Accepted(u, t)' => None(Commits(t))' /\ ~Counted(t)'
               /\ \A u \in Thread : \A k \in 1..Len(stack'[u]) :
                    stack'[u][k] \in Commits(t) /\ stack'[u][k].pc \notin Wiring => ~Counted(t)'
               /\ Begun(t)' => \/ Counted(t)' \/ status'[t] = ABORTED
                               \/ \E u \in Thread : Accepted(u, t)'
                               \/ ~None(Commits(t))'
    <3>1. \A k \in 1..1 : stack'[th][k] \in Commits(t) => Held(th, t) /\ ~Counted(t)'
      BY <1>4, <1>5, <2>1, <2>2, <2>3, <2>5
    <3>2. Held(th, t) => \E k \in 1..1 : stack'[th][k] \in Commits(t)
      BY <1>4, <2>2, <2>3
    <3>3. status[t] = ABORTED => status'[t] = ABORTED
      BY <1>1
    <3> QED
      BY <1>1, <1>4, <1>6, <2>4, <2>5, <3>1, <3>2, <3>3, CommitsKeeps
  <2> QED
    BY <2>6 DEF CommitsOK
<1>10. NestOK'
  BY <1>1, <1>2, <1>4, <1>5, <1>6, NestKeeps, Labels
<1>11. TopSees(th)'
  BY <1>2, <1>4 DEF TopSees, Top
<1>12. Sees(g)
  <2>1. status[g.t] \in Status
    BY <1>2, InvParts DEF GraphType
  <2> QED
    BY <1>2, <1>7, <2>1, Labels DEF Sees
<1> QED
  BY <1>1, <1>4, <1>5, <1>8, <1>9, <1>10, <1>11, <1>12, StackStep

LEMMA CommitInitRun ==
  ASSUME IInv, RunInv, NEW th \in Thread, CommitInit(th)
  PROVE  RunInv'
<1>1. /\ stack[th] # <<>> /\ Top(th).pc = "commit_init"
      /\ success' = success
      /\ status' = status /\ queue' = queue /\ runs' = runs
  BY DEF CommitInit, At, job
<1>f. PICK f \in Frame : f = Top(th)
  BY <1>1, TopFacts
<1>n. PICK n \in Nat : n = Len(parents[f.t])
  <2>1. parents[f.t] \in Seq(Dep)
    BY InvParts DEF GraphType, Frame
  <2> QED
    BY <2>1
<1>2. f.t \in Task /\ ndep' = [ndep EXCEPT ![f.t] = n]
  BY <1>f, <1>n DEF CommitInit, Frame
<1>3. /\ Counted(f.t)'
      /\ \A t \in Task : t # f.t => (Counted(t)' <=> Counted(t))
  BY <1>2, InvParts DEF GraphType, Counted
<1>4. PICK g \in Frame :
        /\ Goto(th, g) /\ g.t = f.t /\ ~InHand(g) /\ Knows(g) = Status
        /\ \/ g.pc = "wire"
           \/ ~Committing(g) /\ g.pc \notin {"queue_job", "ran", "commit"}
        /\ ~(g.pc \in Updating /\ g.new \in Awaited)
  <2>1. CASE n > 0
    <3> DEFINE g == Moved(f, "wire", 1)
    <3>1. g \in Frame /\ g.pc = "wire" /\ g.t = f.t
      BY DEF Frame, Label, Moved
    <3>2. Goto(th, g)
      BY <1>f, <1>n, <2>1 DEF CommitInit, StepTo, Moved
    <3> HIDE DEF g
    <3> QED
      BY <3>1, <3>2, Labels DEF InHand, Knows
  <2>2. CASE ~(n > 0)
    <3> DEFINE g == Update(f.t, DEPHOLD, READY)
    <3>1. DEPHOLD \in Status /\ READY \in Status
      BY DEF Status
    <3>2. g \in Frame /\ g.pc = "cas" /\ g.t = f.t /\ g.old = DEPHOLD /\ g.new = READY
      BY <1>2, <3>1, Updates
    <3>3. Goto(th, g)
      BY <1>f, <1>n, <2>2 DEF CommitInit
    <3> HIDE DEF g
    <3> QED
      BY <3>2, <3>3, UpdatePlain DEF Plain
  <2> QED
    BY <2>1, <2>2
<1>5. /\ Shape(th, 1) /\ StackType /\ stack'[th][1] = g
      /\ stack'[th] # <<>> /\ Head(stack'[th]) = g
  BY <1>1, <1>4, GotoIs, InvParts, FramesType
<1>6. \A k \in 1..1 : k = 1
  OBVIOUS
<1>7. HandsOK /\ CommitsOK /\ NestOK
  BY DEF RunInv
<1>8. HandsOK'
  BY <1>1, <1>4, <1>5, <1>6, <1>7, HandsKeeps
<1>9. g.pc \notin {"queue_job", "ran", "commit"}
  BY <1>4
<1>10. CommitsOK'
  <2>1. f \in Commits(f.t) /\ f.pc \notin Updating
    BY <1>1, <1>f, Labels DEF Commits, Committing
  <2>2. \A t \in Task : Held(th, t) <=> t = f.t
    BY <1>1, <1>f, <2>1 DEF Held, Accepted, Commits
  <2>3. \A t \in Task : g \in Commits(t) => t = f.t /\ g.pc \in Wiring
    BY <1>4, Labels DEF Commits
  <2>4. \A t \in Task : ~Accepted(th, t)'
    BY <1>5, <1>9 DEF Accepted, Top
  <2>5. \A t \in Task : (Begun(t)' <=> Begun(t)) /\ (Counted(t) => Counted(t)')
    BY <1>1, <1>3 DEF Begun
  <2>6. ASSUME NEW t \in Task
        PROVE  /\ One(Commits(t))'
               /\ \A th1, th2 \in Thread : Accepted(th1, t)' /\ Accepted(th2, t)' => th1 = th2
               /\ \A u \in Thread : Accepted(u, t)' => None(Commits(t))' /\ ~Counted(t)'
               /\ \A u \in Thread : \A k \in 1..Len(stack'[u]) :
                    stack'[u][k] \in Commits(t) /\ stack'[u][k].pc \notin Wiring => ~Counted(t)'
               /\ Begun(t)' => \/ Counted(t)' \/ status'[t] = ABORTED
                               \/ \E u \in Thread : Accepted(u, t)'
                               \/ ~None(Commits(t))'
    <3>1. \A k \in 1..1 : stack'[th][k] \in Commits(t) =>
                            Held(th, t) /\ stack'[th][k].pc \in Wiring
      BY <1>5, <1>6, <2>2, <2>3
    <3>2. (Held(th, t) => Counted(t)') /\ (Counted(t)' => Counted(t) \/ Held(th, t))
      BY <1>3, <2>2
    <3>3. status[t] = ABORTED => status'[t] = ABORTED
      BY <1>1
    <3> QED
      BY <1>1, <1>5, <1>7, <2>4, <2>5, <3>1, <3>2, <3>3, CommitsKeeps
  <2> QED
    BY <2>6 DEF CommitsOK
<1>11. NestOK'
  <2>1. Top(th).pc \notin Updating
    BY <1>1, Labels
  <2> QED
    BY <1>4, <1>5, <1>7, <2>1, NestKeeps
<1>12. TopSees(th)'
  BY <1>5, <1>9 DEF TopSees, Top
<1>13. Sees(g)
  <2>1. status[g.t] \in Status /\ ~(g.pc \in Active /\ g.new = RUNNING)
    BY <1>2, <1>4, InvParts, Labels DEF GraphType, Awaited
  <2> QED
    BY <1>4, <2>1 DEF Sees
<1> QED
  BY <1>1, <1>5, <1>6, <1>8, <1>10, <1>11, <1>12, <1>13, StackStep

-----------------------------------------------------------------------------
(* New tasks and new calls. *)

LEMMA CreateRun ==
  ASSUME IInv, RunInv, NEW th \in Thread, Create(th)
  PROVE  RunInv'
<1>1. /\ stack[th] # <<>> /\ Top(th).pc = "create"
      /\ success' = success /\ ndep' = ndep /\ queue' = queue /\ runs' = runs
  BY DEF Create, At, job
<1>f. PICK f \in Frame : f = Top(th)
  BY <1>1, TopFacts
<1>2. /\ f.t \in Task /\ f.pc = "create"
      /\ status[f.t] = INVAL /\ status' = [status EXCEPT ![f.t] = IDLE]
  BY <1>1, <1>f DEF Create, Frame
<1>3. /\ status'[f.t] = IDLE
      /\ \A t \in Task : t # f.t => status'[t] = status[t]
  BY <1>2, InvParts DEF GraphType
<1>4. HandsOK /\ CommitsOK /\ NestOK /\ SeesOK /\ JobsSee /\ RunsOK
      /\ \A u \in Thread : TopSees(u)
  BY DEF RunInv, KnowsOK
<1>5. INVAL \notin {READY, QUEUE, RUNNING, FINAL, COMPLETED, ABORTED, FAILED, DEPHOLD}
      /\ IDLE \notin {RUNNING, FINAL, COMPLETED, FAILED} /\ IDLE \in Status
      /\ ~(IDLE >= DEPHOLD) /\ ~(INVAL >= READY)
  BY DEF INVAL, IDLE, DEPHOLD, READY, QUEUE, RUNNING, FINAL, COMPLETED, ABORTED, FAILED, Status
<1>6. PICK n \in {0, 1} :
        /\ Shape(th, n) /\ StackType
        /\ \A k \in 1..n : stack'[th][k] \in Frame /\ stack'[th][k].pc = "bar_lock"
        /\ stack'[th] # <<>> =>
             Head(stack'[th]).pc \notin {"queue_job", "ran", "commit"}
  <2>1. CASE Step(th, "bar_lock")
    <3> DEFINE g == [f EXCEPT !.pc = "bar_lock"]
    <3>1. g \in Frame /\ g.pc = "bar_lock"
      BY DEF Frame, Label
    <3>2. Goto(th, g)
      BY <1>f, <2>1 DEF Step
    <3> HIDE DEF g
    <3>3. /\ Shape(th, 1) /\ StackType /\ stack'[th][1] = g
          /\ stack'[th] # <<>> /\ Head(stack'[th]) = g
      BY <1>1, <3>1, <3>2, GotoIs, InvParts, FramesType
    <3>4. \A k \in 1..1 : k = 1
      OBVIOUS
    <3> QED
      BY <3>1, <3>3, <3>4
  <2>2. CASE Return(th)
    <3>1. /\ Shape(th, 0) /\ StackType
          /\ stack'[th] # <<>> => 2 \in 1..Len(stack[th]) /\ Head(stack'[th]) = stack[th][2]
      BY <1>1, <2>2, ReturnIs, InvParts, FramesType
    <3>2. stack'[th] # <<>> => Head(stack'[th]).pc \notin {"queue_job", "ran", "commit"}
      BY <1>1, <1>4, <3>1, Uncovered, Labels
    <3>3. 1..0 = {}
      OBVIOUS
    <3> QED
      BY <3>1, <3>2, <3>3
  <2> QED
    BY <2>1, <2>2 DEF Create
<1>7. \A k \in 1..n : /\ ~InHand(stack'[th][k]) /\ ~Committing(stack'[th][k])
                      /\ Knows(stack'[th][k]) = Status
                      /\ stack'[th][k].pc \notin Updating
  BY <1>6, Labels DEF InHand, Committing, Knows
<1>8. f.pc \notin Updating /\ ~Committing(f)
  BY <1>2, Labels DEF Committing
<1>9. HandsOK'
  <2>1. n # 2
    OBVIOUS
  <2> QED
    BY <1>1, <1>4, <1>6, <1>7, <2>1, HandsKeeps
<1>10. CommitsOK'
  <2>1. \A t \in Task : ~Held(th, t) /\ ~Accepted(th, t)'
    BY <1>1, <1>6, <1>8, <1>f DEF Held, Accepted, Commits, Top
  <2>2. \A t \in Task : Begun(t)' => Begun(t)
    BY <1>2, <1>3, <1>5 DEF Begun
  <2>3. \A t \in Task : status[t] = ABORTED => status'[t] = ABORTED
    BY <1>2, <1>3, <1>5
  <2> QED
    BY <1>1, <1>4, <1>6, <1>7, <2>1, <2>2, <2>3, CommitsSame
<1>11. NestOK'
  <2>1. n # 0 => n \in 1..n
    OBVIOUS
  <2>2. n # 2
    OBVIOUS
  <2> QED
    BY <1>4, <1>6, <1>7, <1>8, <1>f, <2>1, <2>2, NestKeeps
<1>12. SeesOK'
  <2>1. ASSUME NEW u \in Thread, NEW k \in 1..Len(stack[u]), NEW e \in Frame,
               e = stack[u][k]
        PROVE  Sees(e)'
    <3>1. Sees(e)
      BY <1>4, <2>1 DEF SeesOK
    <3>2. e.pc \in Updating => <<e.old, e.new>> \in Edge(e.t)
      <4>1. e \in GoodFrame
        BY <2>1, InvParts DEF StackOK, FramesOK
      <4> QED
        BY <4>1 DEF GoodFrame, FrameOK
    <3>3. CASE e.t # f.t
      BY <1>1, <1>3, <3>1, <3>3 DEF Sees, Knows, InHand, Frame
    <3>4. CASE e.t = f.t
      <4>1. INVAL \in Knows(e) /\ ~InHand(e)
        BY <1>2, <1>5, <3>1, <3>4 DEF Sees
      <4>2. Knows(e) = Status
        <5>1. CASE e.pc \in Active
          <6>1. e.new # INVAL
            BY <1>2, <3>2, <3>4, <5>1, Labels
               DEF Edge, INVAL, IDLE, DEPHOLD, READY, QUEUE, RUNNING, FINAL, COMPLETED,
                   ABORTED, FAILED
          <6>2. Knows(e) \subseteq {e.new, ABORTED}
            BY <5>1, Labels DEF Knows
          <6> QED
            BY <1>5, <4>1, <6>1, <6>2
        <5>2. CASE e.pc \notin Active
          <6>1. Knows(e) \in {Status, {READY, ABORTED}, {QUEUE, ABORTED}, {RUNNING}, {FINAL}}
            BY <5>2, Labels DEF Knows
          <6> QED
            BY <1>5, <4>1, <6>1
        <5> QED
          BY <5>1, <5>2
      <4> QED
        BY <1>1, <1>3, <1>5, <3>1, <3>4, <4>1, <4>2 DEF Sees, Knows, InHand
    <3> QED
      BY <3>3, <3>4
  <2>2. ASSUME NEW k \in 1..n, NEW e \in Frame, e = stack'[th][k]
        PROVE  Sees(e)'
    <3>1. status'[e.t] \in Status
      BY <1>2, <1>3, <1>5, InvParts DEF GraphType, Frame
    <3> QED
      BY <1>1, <1>7, <2>2, <3>1, Labels DEF Sees, Knows, InHand
  <2> QED
    BY <1>6, <2>1, <2>2, SeesStep
<1>13. \A u \in Thread : TopSees(u)'
  <2>1. TopSees(th)'
    BY <1>6 DEF TopSees, Top
  <2>2. ASSUME NEW u \in Thread, u # th
        PROVE  TopSees(u)'
    <3>1. stack'[u] = stack[u] /\ TopSees(u)
      BY <1>4, <1>6, <2>2 DEF Shape
    <3>2. stack[u] # <<>> => Top(u).t \in Task
      BY TopFacts
    <3> QED
      BY <1>1, <1>2, <1>3, <1>5, <3>1, <3>2 DEF TopSees, Top
  <2> QED
    BY <2>1, <2>2
<1>14. JobsSee'
  <2> SUFFICES ASSUME NEW l, NEW k, NEW t, JobAt(l, k, t)
               PROVE  status'[t] \in {QUEUE, ABORTED}
    BY <1>1 DEF JobsSee, JobAt
  <2>1. status[t] \in {QUEUE, ABORTED}
    BY <1>4 DEF JobsSee, JobAt
  <2>2. t \in Task
    <3>1. queue \in [Level -> Seq(Task)]
      BY InvParts DEF RestType
    <3> QED
      BY <3>1 DEF JobAt
  <2> QED
    BY <1>2, <1>3, <1>5, <2>1, <2>2
<1>15. RunsOK'
  BY <1>1, <1>2, <1>3, <1>4, <1>5 DEF RunsOK
<1> QED
  BY <1>9, <1>10, <1>11, <1>12, <1>13, <1>14, <1>15 DEF RunInv, KnowsOK

LEMMA NextCallRun ==
  ASSUME IInv, RunInv, NEW th \in Thread, NextCall(th)
  PROVE  RunInv'
<1> DEFINE c == Head(script[th])
<1>1. /\ th \in App /\ stack[th] = <<>> /\ script[th] # <<>>
      /\ stack' = [stack EXCEPT ![th] = Frames(c)]
      /\ success' = success
      /\ status' = status /\ ndep' = ndep /\ queue' = queue /\ runs' = runs
  BY DEF NextCall, task, job
<1>2. c.t \in Task /\ c.p \in Task /\ c.op \in Op
  <2>1. script[th] \in Seq(ApiCall)
    BY <1>1, InvParts DEF RestType
  <2>2. c \in ApiCall
    BY <1>1, <2>1
  <2> QED
    BY <2>2 DEF ApiCall
<1> HIDE DEF c
<1>3. CASE c.op # "commit"
  <2>1. PICK f \in Frame : f.pc \in Easy /\ Frames(c) = <<f>>
    <3>1. {"add_lock", "rm_lock", "free_erase", "create", "retract", "wait"} \subseteq Easy
          /\ Easy \subseteq Label
      BY EasyLabels DEF Easy
    <3>2. CASE c.op = "create_barrier"
      <4>1. /\ [Enter("create", c.t, c.t) EXCEPT !.n = 1] \in Frame
            /\ [Enter("create", c.t, c.t) EXCEPT !.n = 1].pc = "create"
        BY <1>2 DEF Enter, Frame, Label, Status
      <4> QED
        BY <3>1, <3>2, <4>1 DEF Frames
    <3>3. CASE c.op = "wait_timed"
      <4>1. /\ [Enter("wait", c.t, c.t) EXCEPT !.n = 1] \in Frame
            /\ [Enter("wait", c.t, c.t) EXCEPT !.n = 1].pc = "wait"
        BY <1>2 DEF Enter, Frame, Label, Status
      <4> QED
        BY <3>1, <3>3, <4>1 DEF Frames
    <3>4. ASSUME NEW pc \in Easy, NEW p \in Task
          PROVE  Enter(pc, c.t, p) \in Frame /\ Enter(pc, c.t, p).pc = pc
      BY <1>2, <3>1, Entered
    <3>5. CASE c.op \in {"add_dep", "rm_dep", "free"}
      BY <1>2, <3>1, <3>4, <3>5 DEF Frames
    <3>6. CASE c.op \in {"create", "retract", "wait"}
      BY <1>2, <3>1, <3>4, <3>6 DEF Frames
    <3> QED
      BY <1>2, <1>3, <3>2, <3>3, <3>5, <3>6 DEF Op
  <2>2. Still(th)
    BY <1>1 DEF Still, At
  <2> QED
    BY <1>1, <2>1, <2>2, EasyPlain, QuietStart
<1>4. CASE c.op = "commit"
  <2> DEFINE g == Update(c.t, IDLE, DEPHOLD)
             h == Enter("commit", c.t, c.t)
             s == <<g, h>>
  <2>1. /\ g \in Frame /\ g.pc = "cas" /\ g.t = c.t /\ g.old = IDLE /\ g.new = DEPHOLD
        /\ h \in Frame /\ h.pc = "commit" /\ h.t = c.t
    <3>1. IDLE \in Status /\ DEPHOLD \in Status /\ "commit" \in Label
      BY DEF Status, Label
    <3> QED
      BY <1>2, <3>1, Updates, Entered
  <2>2. stack' = [stack EXCEPT ![th] = s]
    BY <1>1, <1>4 DEF Frames
  <2> HIDE DEF g, h
  <2>3. s \in Seq(Frame) /\ s # <<>> /\ Len(s) = 2 /\ s[1] = g /\ s[2] = h
    BY <2>1
  <2> HIDE DEF s
  <2>4. /\ Shape(th, 2) /\ StackType /\ stack'[th][1] = g /\ stack'[th][2] = h
        /\ stack'[th] # <<>> /\ Head(stack'[th]) = g
    <3>1. stack \in [Thread -> Seq(Frame)] /\ Len(s) \in 1..2
      BY <2>3, InvParts, FramesType
    <3>2. Shape(th, Len(s)) /\ StackType /\ stack'[th] = s /\ Head(stack'[th]) = s[1]
      BY <1>1, <2>2, <2>3, <3>1, StartIs
    <3> QED
      BY <2>3, <3>2
  <2>5. \A k \in 1..2 : k = 1 \/ k = 2
    OBVIOUS
  <2>6. HandsOK /\ CommitsOK /\ NestOK
    BY DEF RunInv
  <2>7. /\ ~InHand(g) /\ ~InHand(h) /\ ~Committing(g) /\ ~Committing(h)
        /\ Knows(g) = Status /\ Knows(h) = Status
    BY <2>1, Labels DEF InHand, Committing, Knows, IDLE, DEPHOLD, READY, QUEUE, RUNNING, FINAL,
                        COMPLETED, FAILED
  <2>8. HandsOK'
    BY <1>1, <2>4, <2>5, <2>6, <2>7, HandsKeeps
  <2>9. CommitsOK'
    <3>1. \A t \in Task : ~Held(th, t) /\ ~Accepted(th, t)'
      BY <1>1, <2>1, <2>4 DEF Held, Accepted, Top
    <3>2. \A t \in Task : Begun(t)' <=> Begun(t)
      BY <1>1 DEF Begun
    <3> QED
      BY <1>1, <2>4, <2>5, <2>6, <2>7, <3>1, <3>2, CommitsSame
  <2>10. NestOK'
    <3>1. h.pc \notin Updating /\ h.pc \notin {"queue_job", "ran"} /\ g.new = DEPHOLD
          /\ h.t = g.t /\ h.pc = Caller(g.new)
      BY <2>1, Labels, Callers
    <3> QED
      BY <1>1, <2>4, <2>6, <3>1, NestKeeps
  <2>11. TopSees(th)'
    BY <2>1, <2>4 DEF TopSees, Top
  <2>12. Sees(g) /\ Sees(h)
    <3>1. status[c.t] \in Status
      BY <1>2, InvParts DEF GraphType
    <3> QED
      BY <2>1, <2>7, <3>1, Labels DEF Sees
  <2> QED
    BY <1>1, <2>4, <2>5, <2>8, <2>9, <2>10, <2>11, <2>12, StackStep
<1> QED
  BY <1>3, <1>4

-----------------------------------------------------------------------------
(* RunInv is inductive. *)

LEMMA InitRun == Init => RunInv
<1> SUFFICES ASSUME Init PROVE RunInv
  OBVIOUS
<1>1. /\ \A th \in Thread : stack[th] = <<>>
      /\ \A th \in Thread : 1..Len(stack[th]) = {}
      /\ \A l \in Level : 1..Len(queue[l]) = {}
  BY DEF Init
<1>2. HandsOK
  BY <1>1 DEF HandsOK, JobOnce, One, None
<1>3. CommitsOK
  <2>1. \A t \in Task : ~Begun(t)
    BY DEF Init, Begun, INVAL, DEPHOLD
  <2> QED
    BY <1>1, <2>1 DEF CommitsOK, Accepted, One, None
<1>4. NestOK
  BY <1>1 DEF NestOK
<1>5. KnowsOK
  BY <1>1 DEF KnowsOK, SeesOK, TopSees, JobsSee
<1>6. RunsOK
  BY DEF Init, RunsOK
<1> QED
  BY <1>2, <1>3, <1>4, <1>5, <1>6 DEF RunInv

LEMMA StepRun ==
  ASSUME IInv, RunInv, NEW th \in Thread, Run(th)
  PROVE  RunInv'
<1>1. CASE UpdateStatus(th)
  BY <1>1, CasRun, CasFailsRun, NotifyRun, ChangeRun, ActReadyRun, ActFinalRun, ActOtherRun
     DEF UpdateStatus
<1>2. CASE Queue(th)
  BY <1>2, QueueJobRun, QueuePushRun, QueueIncRun DEF Queue
<1>3. CASE Schedule(th)
  BY <1>3, SemDecRun, PopRun, PopEmptyRun, RanRun, HandlerReturnsRun DEF Schedule
<1>4. CASE Commit(th)
  BY <1>4, CommitRefusedRun, CommitSyncRun, CommitInitRun, WireRun, LoadRun, CheckRun
     DEF Commit
<1>5. CASE Retract(th) \/ Retracted(th) \/ Waits(th)
  BY <1>5, RetractRun, WaitsRun
<1>6. CASE Depend(th)
  BY <1>6, DependRun
<1>7. CASE Create(th) \/ BarLock(th) \/ BarLoop(th)
  BY <1>7, CreateRun, BarrierRun
<1>8. CASE FreeErase(th) \/ FreeTask(th) \/ NextCall(th)
  BY <1>8, FreeRun, NextCallRun
<1> QED
  BY <1>1, <1>2, <1>3, <1>4, <1>5, <1>6, <1>7, <1>8 DEF Run

LEMMA NextRun == IInv /\ RunInv /\ [Next]_vars => RunInv'
<1> SUFFICES ASSUME IInv, RunInv, [Next]_vars PROVE RunInv'
  OBVIOUS
<1>1. CASE UNCHANGED vars
  BY <1>1, RunStutter DEF vars, task, job, local
<1>2. CASE \E th \in Thread : Run(th)
  BY <1>2, StepRun
<1> QED
  BY <1>1, <1>2 DEF Next

\* Whoever has a task's run in hand is alone, and knows the task's status.
THEOREM RunInvariance == Spec => []RunInv
  BY Invariance, InitRun, NextRun, PTL DEF Spec

\* No task runs twice, however many threads commit it, retract it, queue it and wait
\* for it at once: no compare-and-swap of Taski_update_status lets two threads move
\* it to RUNNING, and no job stays behind in a queue for a second one to find.
THEOREM RunsOnceHolds == Spec => []RunsOnce
<1>1. RunInv => RunsOnce
  BY DEF RunInv, RunsOK, RunsOnce
<1> QED
  BY <1>1, RunInvariance, PTL

-----------------------------------------------------------------------------
(* The semaphore's tokens. *)

\* The jobs in the queues 0..l.
Slots(l) == {s \in Level \X Nat : s[1] <= l /\ s[2] \in 1..Len(queue[s[1]])}

\* The threads that have pushed a job and owe its token, and those that are on
\* their way to the jobs in queue l.
Giving      == {th \in Thread : At(th, "queue_inc")}
Scanning(l) == {th \in Thread : At(th, "pop") /\ Top(th).i <= l}

\* For every job there is a token, one on its way, or a thread that has taken one and
\* has yet to look at the job's queue.
TokensOK ==
    /\ IsFiniteSet(Giving)
    /\ \A l \in Level :
         /\ IsFiniteSet(Slots(l)) /\ IsFiniteSet(Scanning(l))
         /\ Cardinality(Slots(l)) <= njob + Cardinality(Giving) + Cardinality(Scanning(l))

LEMMA Grown ==
  ASSUME NEW S, NEW T, NEW x, IsFiniteSet(S), T \subseteq S \cup {x}
  PROVE  /\ IsFiniteSet(T) /\ Cardinality(S) \in Nat /\ Cardinality(T) \in Nat
         /\ S \subseteq T => Cardinality(S) <= Cardinality(T)
         /\ S \subseteq T /\ x \in T /\ x \notin S => Cardinality(T) = Cardinality(S) + 1
         /\ S \ {x} \subseteq T => Cardinality(S) - 1 <= Cardinality(T)
         /\ T \subseteq S => Cardinality(T) <= Cardinality(S)
         /\ T \subseteq S /\ x \in S /\ x \notin T => Cardinality(T) <= Cardinality(S) - 1
<1>1. IsFiniteSet(S \cup {x}) /\ IsFiniteSet(S \ {x})
  BY FS_AddElement, FS_RemoveElement
<1>2. IsFiniteSet(T)
  BY <1>1, FS_Subset
<1>3. Cardinality(S) \in Nat /\ Cardinality(T) \in Nat
  BY <1>2, FS_CardinalityType
<1>4. S \subseteq T => Cardinality(S) <= Cardinality(T)
  BY <1>2, FS_Subset
<1>5. S \subseteq T /\ x \in T /\ x \notin S => Cardinality(T) = Cardinality(S) + 1
  <2> SUFFICES ASSUME S \subseteq T, x \in T, x \notin S
               PROVE  Cardinality(T) = Cardinality(S) + 1
    OBVIOUS
  <2>1. T = S \cup {x}
    OBVIOUS
  <2> QED
    BY <2>1, FS_AddElement
<1>6. S \ {x} \subseteq T => Cardinality(S) - 1 <= Cardinality(T)
  <2> SUFFICES ASSUME S \ {x} \subseteq T PROVE Cardinality(S) - 1 <= Cardinality(T)
    OBVIOUS
  <2>1. Cardinality(S \ {x}) <= Cardinality(T)
    BY <1>2, FS_Subset
  <2>2. Cardinality(S) - 1 <= Cardinality(S \ {x})
    BY <1>3, FS_RemoveElement
  <2>3. Cardinality(S \ {x}) \in Nat
    BY <1>1, FS_CardinalityType
  <2> QED
    BY <1>3, <2>1, <2>2, <2>3
<1>7. T \subseteq S => Cardinality(T) <= Cardinality(S)
  BY FS_Subset
<1>8. T \subseteq S /\ x \in S /\ x \notin T => Cardinality(T) <= Cardinality(S) - 1
  <2> SUFFICES ASSUME T \subseteq S, x \in S, x \notin T
               PROVE  Cardinality(T) <= Cardinality(S) - 1
    OBVIOUS
  <2>1. T \subseteq S \ {x}
    OBVIOUS
  <2>2. Cardinality(T) <= Cardinality(S \ {x})
    BY <1>1, <2>1, FS_Subset
  <2> QED
    BY <2>2, FS_RemoveElement
<1> QED
  BY <1>2, <1>3, <1>4, <1>5, <1>6, <1>7, <1>8

\* What a step of th does to the two sets of threads.
LEMMA Sets ==
  ASSUME NEW th \in Thread, \A u \in Thread : u # th => stack'[u] = stack[u]
  PROVE  /\ Giving' \subseteq Giving \cup {th} /\ Giving \ {th} \subseteq Giving'
         /\ th \in Giving <=> At(th, "queue_inc")
         /\ th \in Giving' <=> At(th, "queue_inc")'
         /\ \A l : /\ Scanning(l)' \subseteq Scanning(l) \cup {th}
                   /\ Scanning(l) \ {th} \subseteq Scanning(l)'
                   /\ th \in Scanning(l) <=> At(th, "pop") /\ Top(th).i <= l
                   /\ th \in Scanning(l)' <=> (At(th, "pop") /\ Top(th).i <= l)'
<1>1. /\ Giving' \subseteq Giving \cup {th} /\ Giving \ {th} \subseteq Giving'
      /\ th \in Giving <=> At(th, "queue_inc")
      /\ th \in Giving' <=> At(th, "queue_inc")'
  BY DEF Giving, At, Top
<1>2. ASSUME NEW l
      PROVE  /\ Scanning(l)' \subseteq Scanning(l) \cup {th}
             /\ Scanning(l) \ {th} \subseteq Scanning(l)'
             /\ th \in Scanning(l) <=> At(th, "pop") /\ Top(th).i <= l
             /\ th \in Scanning(l)' <=> (At(th, "pop") /\ Top(th).i <= l)'
  BY DEF Scanning, At, Top
<1> QED
  BY <1>1, <1>2

\* A step that neither pushes nor scans.
LEMMA TokensKeep ==
  ASSUME IInv, TokensOK, NEW th \in Thread, \A u \in Thread : u # th => stack'[u] = stack[u],
         queue' = queue, njob' = njob, ~At(th, "queue_inc"), ~At(th, "pop")
  PROVE  TokensOK'
<1>1. njob \in Nat
  BY InvParts DEF RestType
<1>2. Giving \subseteq Giving' /\ Giving' \subseteq Giving \cup {th}
  BY Sets
<1>3. IsFiniteSet(Giving') /\ Cardinality(Giving) <= Cardinality(Giving')
      /\ Cardinality(Giving) \in Nat /\ Cardinality(Giving') \in Nat
  BY <1>2, Grown DEF TokensOK
<1>4. ASSUME NEW l \in Level
      PROVE  /\ IsFiniteSet(Slots(l))' /\ IsFiniteSet(Scanning(l))'
             /\ Cardinality(Slots(l))' <= njob' + Cardinality(Giving)' + Cardinality(Scanning(l))'
  <2>1. Slots(l)' = Slots(l)
    BY DEF Slots
  <2>2. Scanning(l) \subseteq Scanning(l)' /\ Scanning(l)' \subseteq Scanning(l) \cup {th}
    BY Sets
  <2>3. IsFiniteSet(Slots(l)) /\ IsFiniteSet(Scanning(l))
        /\ Cardinality(Slots(l)) <= njob + Cardinality(Giving) + Cardinality(Scanning(l))
    BY DEF TokensOK
  <2>4. IsFiniteSet(Scanning(l)') /\ Cardinality(Scanning(l)) <= Cardinality(Scanning(l)')
        /\ Cardinality(Scanning(l)) \in Nat /\ Cardinality(Scanning(l)') \in Nat
    BY <2>2, <2>3, Grown
  <2>5. Cardinality(Slots(l)) \in Nat
    BY <2>3, FS_CardinalityType
  <2> QED
    BY <1>1, <1>3, <2>1, <2>3, <2>4, <2>5
<1> QED
  BY <1>3, <1>4 DEF TokensOK

LEMMA SlotsPushed ==
  ASSUME queue \in [Level -> Seq(Task)], NEW p \in Level, NEW t \in Task,
         queue' = [queue EXCEPT ![p] = Append(@, t)], NEW l \in Level
  PROVE  Slots(l)' \subseteq Slots(l) \cup {<<p, Len(queue[p]) + 1>>}
<1> DEFINE n == Len(queue[p])
<1>1. /\ n \in Nat /\ 1..Len(queue'[p]) = 1..n \cup {n + 1}
      /\ \A k \in Level : k # p => queue'[k] = queue[k]
  <2> DEFINE s == queue[p]
  <2>1. s \in Seq(Task) /\ queue'[p] = Append(s, t)
    OBVIOUS
  <2> HIDE DEF s
  <2>2. Len(s) \in Nat /\ Len(Append(s, t)) = Len(s) + 1
    BY <2>1
  <2>3. 1..(Len(s) + 1) = 1..Len(s) \cup {Len(s) + 1}
    BY <2>2
  <2> QED
    BY <2>1, <2>2, <2>3 DEF s
<1> HIDE DEF n
<1>2. ASSUME NEW k \in Level, NEW i \in Nat, <<k, i>> \in Slots(l)'
      PROVE  <<k, i>> \in Slots(l) \/ (k = p /\ i = n + 1)
  <2>1. CASE k # p
    BY <1>1, <1>2, <2>1 DEF Slots
  <2>2. CASE k = p
    BY <1>1, <1>2, <2>2 DEF Slots, n
  <2> QED
    BY <2>1, <2>2
<1>3. Slots(l)' \subseteq Level \X Nat
  BY DEF Slots
<1> QED
  BY <1>2, <1>3 DEF n

LEMMA SlotsPopped ==
  ASSUME queue \in [Level -> Seq(Task)], NEW p \in Level, queue[p] # <<>>,
         queue' = [queue EXCEPT ![p] = Tail(@)], NEW l \in Level
  PROVE  /\ Slots(l)' \subseteq Slots(l)
         /\ p <= l => <<p, Len(queue[p])>> \in Slots(l) /\ <<p, Len(queue[p])>> \notin Slots(l)'
<1> DEFINE n == Len(queue[p])
<1>1. /\ n \in Nat \ {0} /\ Len(queue'[p]) = n - 1
      /\ \A k \in Level : k # p => queue'[k] = queue[k]
  <2> DEFINE s == queue[p]
  <2>1. s \in Seq(Task) /\ s # <<>> /\ queue'[p] = Tail(s)
    OBVIOUS
  <2> HIDE DEF s
  <2>2. Len(s) \in Nat \ {0} /\ Len(Tail(s)) = Len(s) - 1
    BY <2>1, PopFacts
  <2> QED
    BY <2>1, <2>2 DEF s
<1>2. 1..(n - 1) \subseteq 1..n /\ n \notin 1..(n - 1) /\ n \in 1..n
  BY <1>1
<1> HIDE DEF n
<1>3. ASSUME NEW k \in Level, NEW i \in 1..Len(queue'[k])
      PROVE  i \in 1..Len(queue[k])
  <2>1. CASE k = p
    BY <1>1, <1>2, <2>1 DEF n
  <2> QED
    BY <1>1, <1>3, <2>1
<1>4. Slots(l)' \subseteq Slots(l)
  BY <1>3 DEF Slots
<1>5. p <= l => <<p, n>> \in Slots(l) /\ <<p, n>> \notin Slots(l)'
  BY <1>1, <1>2 DEF Slots, n
<1> QED
  BY <1>4, <1>5 DEF n

LEMMA QueuePushTokens ==
  ASSUME IInv, TokensOK, NEW th \in Thread, QueuePush(th)
  PROVE  TokensOK'
<1>1. /\ stack[th] # <<>> /\ Top(th).pc = "queue_push" /\ Step(th, "queue_inc")
      /\ queue' = [queue EXCEPT ![Priority[Top(th).t]] = Append(@, Top(th).t)]
      /\ njob' = njob
  BY DEF QueuePush, At
<1>2. Top(th).t \in Task /\ Top(th) \in Frame /\ stack \in [Thread -> Seq(Frame)]
      /\ queue \in [Level -> Seq(Task)] /\ njob \in Nat
  BY <1>1, TopFacts, InvParts, FramesType DEF RestType
<1>f. PICK f \in Frame : f = Top(th)
  BY <1>2
<1>t. PICK t \in Task : t = f.t
  BY DEF Frame
<1>p. PICK p \in Level : p = Priority[t]
  BY ConstantsAssumption
<1>3. /\ \A u \in Thread : u # th => stack'[u] = stack[u]
      /\ At(th, "queue_inc")' /\ ~At(th, "queue_inc")
      /\ ~At(th, "pop") /\ ~At(th, "pop")'
  <2> DEFINE g == [f EXCEPT !.pc = "queue_inc"]
  <2>1. g \in Frame /\ g.pc = "queue_inc" /\ Goto(th, g)
    BY <1>1, <1>f DEF Step, Frame, Label
  <2> HIDE DEF g
  <2>2. Shape(th, 1) /\ stack'[th] # <<>> /\ Head(stack'[th]) = g
    BY <1>1, <1>2, <2>1, GotoIs
  <2> QED
    BY <1>1, <2>1, <2>2 DEF Shape, At, Top
<1>4. /\ IsFiniteSet(Giving') /\ Cardinality(Giving') = Cardinality(Giving) + 1
      /\ Cardinality(Giving) \in Nat
  <2>1. IsFiniteSet(Giving) /\ th \in Giving' /\ th \notin Giving
        /\ Giving' \subseteq Giving \cup {th} /\ Giving \subseteq Giving'
    BY <1>3, Sets DEF TokensOK
  <2> QED
    BY <2>1, Grown
<1>5. ASSUME NEW l \in Level
      PROVE  /\ IsFiniteSet(Slots(l))' /\ IsFiniteSet(Scanning(l))'
             /\ Cardinality(Slots(l))' <= njob' + Cardinality(Giving)' + Cardinality(Scanning(l))'
  <2>1. IsFiniteSet(Slots(l)) /\ IsFiniteSet(Scanning(l))
        /\ Cardinality(Slots(l)) <= njob + Cardinality(Giving) + Cardinality(Scanning(l))
    BY DEF TokensOK
  <2>2. Scanning(l)' = Scanning(l)
    <3>1. /\ Scanning(l)' \subseteq Scanning(l) \cup {th} /\ Scanning(l) \ {th} \subseteq Scanning(l)'
          /\ th \notin Scanning(l) /\ th \notin Scanning(l)'
      BY <1>3, Sets
    <3> QED
      BY <3>1
  <2>3. queue' = [queue EXCEPT ![p] = Append(@, t)]
    BY <1>1, <1>f, <1>t, <1>p
  <2>4. PICK s : Slots(l)' \subseteq Slots(l) \cup {s}
    BY <1>2, <2>3, SlotsPushed
  <2>5. IsFiniteSet(Slots(l)') /\ Cardinality(Slots(l)') <= Cardinality(Slots(l)) + 1
    <3>1. IsFiniteSet(Slots(l) \cup {s}) /\ Cardinality(Slots(l)) \in Nat
          /\ Cardinality(Slots(l) \cup {s}) <= Cardinality(Slots(l)) + 1
      BY <2>1, FS_AddElement, FS_CardinalityType
    <3>2. IsFiniteSet(Slots(l)') /\ Cardinality(Slots(l)') <= Cardinality(Slots(l) \cup {s})
      BY <2>4, <3>1, FS_Subset
    <3>3. Cardinality(Slots(l)') \in Nat /\ Cardinality(Slots(l) \cup {s}) \in Nat
      BY <3>1, <3>2, FS_CardinalityType
    <3> QED
      BY <3>1, <3>2, <3>3
  <2>6. Cardinality(Slots(l)) \in Nat /\ Cardinality(Slots(l)') \in Nat
        /\ Cardinality(Scanning(l)) \in Nat /\ njob \in Nat
    BY <1>2, <2>1, <2>5, FS_CardinalityType
  <2>7. Cardinality(Slots(l)') <= njob + Cardinality(Giving') + Cardinality(Scanning(l))
    BY <1>4, <2>1, <2>5, <2>6
  <2> QED
    BY <1>1, <2>1, <2>2, <2>5, <2>7
<1> QED
  BY <1>4, <1>5 DEF TokensOK

\* The token is there; nothing below the top is a scan or a push.
LEMMA QueueIncTokens ==
  ASSUME IInv, TokensOK, NEW th \in Thread, QueueInc(th)
  PROVE  TokensOK'
<1>1. /\ stack[th] # <<>> /\ Top(th).pc = "queue_inc" /\ Return(th)
      /\ queue' = queue /\ njob' = njob + 1 /\ njob \in Nat
  BY InvParts DEF QueueInc, At, RestType
<1>2. /\ \A u \in Thread : u # th => stack'[u] = stack[u]
      /\ At(th, "queue_inc") /\ ~At(th, "pop")
  BY <1>1, ReturnIs, InvParts, FramesType DEF Shape, At
<1>3. /\ IsFiniteSet(Giving') /\ Cardinality(Giving) - 1 <= Cardinality(Giving')
      /\ Cardinality(Giving) \in Nat /\ Cardinality(Giving') \in Nat
  <2>1. IsFiniteSet(Giving) /\ Giving' \subseteq Giving \cup {th} /\ Giving \ {th} \subseteq Giving'
    BY <1>2, Sets DEF TokensOK
  <2> QED
    BY <2>1, Grown
<1>4. ASSUME NEW l \in Level
      PROVE  /\ IsFiniteSet(Slots(l))' /\ IsFiniteSet(Scanning(l))'
             /\ Cardinality(Slots(l))' <= njob' + Cardinality(Giving)' + Cardinality(Scanning(l))'
  <2>1. IsFiniteSet(Slots(l)) /\ IsFiniteSet(Scanning(l))
        /\ Cardinality(Slots(l)) <= njob + Cardinality(Giving) + Cardinality(Scanning(l))
    BY DEF TokensOK
  <2>2. Slots(l)' = Slots(l)
    BY <1>1 DEF Slots
  <2>3. Scanning(l) \subseteq Scanning(l)' /\ Scanning(l)' \subseteq Scanning(l) \cup {th}
    BY <1>2, Sets
  <2>4. IsFiniteSet(Scanning(l)') /\ Cardinality(Scanning(l)) <= Cardinality(Scanning(l)')
        /\ Cardinality(Scanning(l)) \in Nat /\ Cardinality(Scanning(l)') \in Nat
    BY <2>1, <2>3, Grown
  <2>5. Cardinality(Slots(l)) \in Nat /\ njob \in Nat
    BY <1>1, <2>1, FS_CardinalityType
  <2>6. Cardinality(Slots(l)) <= (njob + 1) + Cardinality(Giving') + Cardinality(Scanning(l)')
    BY <1>3, <2>1, <2>4, <2>5
  <2> QED
    BY <1>1, <2>1, <2>2, <2>4, <2>6
<1> QED
  BY <1>3, <1>4 DEF TokensOK

\* A worker takes a token and starts at queue 0, below every job.
LEMMA SemDecTokens ==
  ASSUME IInv, TokensOK, NEW th \in Thread, SemDec(th)
  PROVE  TokensOK'
<1>1. /\ stack[th] = <<>> /\ stack' = [stack EXCEPT ![th] = << Scheduler(AnyTask) >>]
      /\ queue' = queue /\ njob' = njob - 1 /\ njob \in Nat /\ njob > 0
  BY InvParts DEF SemDec, RestType
<1>2. /\ \A u \in Thread : u # th => stack'[u] = stack[u]
      /\ ~At(th, "queue_inc") /\ ~At(th, "pop")
      /\ At(th, "pop")' /\ ~At(th, "queue_inc")' /\ Top(th)'.i = 0
  <2>1. stack \in [Thread -> Seq(Frame)]
    BY InvParts, FramesType
  <2>2. Scheduler(AnyTask).pc = "pop" /\ Scheduler(AnyTask).i = 0
    BY DEF Scheduler, Enter
  <2>3. stack'[th] = << Scheduler(AnyTask) >>
    BY <1>1, <2>1
  <2> QED
    BY <1>1, <2>1, <2>2, <2>3 DEF At, Top
<1>3. Giving' = Giving
  <2>1. Giving' \subseteq Giving \cup {th} /\ Giving \ {th} \subseteq Giving'
        /\ th \notin Giving /\ th \notin Giving'
    BY <1>2, Sets
  <2> QED
    BY <2>1
<1>4. ASSUME NEW l \in Level
      PROVE  /\ IsFiniteSet(Slots(l))' /\ IsFiniteSet(Scanning(l))'
             /\ Cardinality(Slots(l))' <= njob' + Cardinality(Giving)' + Cardinality(Scanning(l))'
  <2>1. IsFiniteSet(Slots(l)) /\ IsFiniteSet(Scanning(l)) /\ IsFiniteSet(Giving)
        /\ Cardinality(Slots(l)) <= njob + Cardinality(Giving) + Cardinality(Scanning(l))
    BY DEF TokensOK
  <2>2. Slots(l)' = Slots(l)
    BY <1>1 DEF Slots
  <2>3. 0 <= l
    BY ConstantsAssumption DEF Level
  <2>4. /\ Scanning(l) \subseteq Scanning(l)' /\ Scanning(l)' \subseteq Scanning(l) \cup {th}
        /\ th \in Scanning(l)' /\ th \notin Scanning(l)
    BY <1>2, <2>3, Sets
  <2>5. IsFiniteSet(Scanning(l)') /\ Cardinality(Scanning(l)') = Cardinality(Scanning(l)) + 1
        /\ Cardinality(Scanning(l)) \in Nat
    BY <2>1, <2>4, Grown
  <2>6. Cardinality(Slots(l)) \in Nat /\ njob \in Nat /\ Cardinality(Giving) \in Nat
    BY <1>1, <2>1, FS_CardinalityType
  <2>7. Cardinality(Slots(l)) <= (njob - 1) + Cardinality(Giving) + Cardinality(Scanning(l)')
    BY <2>1, <2>5, <2>6
  <2> QED
    BY <1>1, <1>3, <2>1, <2>2, <2>5, <2>7
<1> QED
  BY <1>3, <1>4 DEF TokensOK

\* A scan ends with the job it has found.
LEMMA PopTokens ==
  ASSUME IInv, TokensOK, NEW th \in Thread, Pop(th)
  PROVE  TokensOK'
<1>1. /\ stack[th] # <<>> /\ Top(th).pc = "pop" /\ Top(th).i < NumLevels
      /\ queue[Top(th).i] # <<>>
      /\ queue' = [queue EXCEPT ![Top(th).i] = Tail(@)]
      /\ njob' = njob
  BY DEF Pop, At
<1>f. PICK f \in Frame : f = Top(th)
  BY <1>1, TopFacts
<1>p. PICK p \in Level : p = f.i
  BY <1>1, <1>f, ConstantsAssumption DEF Frame, Level
<1>2. queue \in [Level -> Seq(Task)] /\ njob \in Nat /\ stack \in [Thread -> Seq(Frame)]
  BY InvParts, FramesType DEF RestType
<1>3. queue[p] # <<>> /\ queue' = [queue EXCEPT ![p] = Tail(@)]
  BY <1>1, <1>f, <1>p
<1>4. \/ stack' = stack
      \/ /\ \A u \in Thread : u # th => stack'[u] = stack[u]
         /\ ~At(th, "pop")' /\ ~At(th, "queue_inc")'
  <2> SUFFICES ASSUME stack' # stack
               PROVE  /\ \A u \in Thread : u # th => stack'[u] = stack[u]
                      /\ ~At(th, "pop")' /\ ~At(th, "queue_inc")'
    OBVIOUS
  <2> DEFINE t == Head(queue[f.i])
             g == Update(t, QUEUE, RUNNING)
             h == [f EXCEPT !.pc = "ran", !.t = t]
  <2>1. Call(th, g, h)
    BY <1>f DEF Pop
  <2>2. g.pc = "cas"
    BY DEF Update
  <2> HIDE DEF g, h
  <2>3. stack' = [stack EXCEPT ![th] = <<g, h>> \o Tail(stack[th])]
    BY <2>1 DEF Call
  <2>4. /\ \A u \in Thread : u # th => stack'[u] = stack[u]
        /\ stack'[th] = <<g, h>> \o Tail(stack[th])
    BY <1>2, <2>3
  <2>5. Head(stack'[th]) = g
    <3>1. t \in Task
      <4>1. queue[p] \in Seq(Task)
        BY <1>2
      <4> QED
        BY <1>3, <1>p, <4>1, PopFacts
    <3>2. g \in Frame /\ h \in Frame
      <4>1. QUEUE \in Status /\ RUNNING \in Status
        BY DEF Status
      <4>2. g \in Frame
        BY <3>1, <4>1, Updates DEF g
      <4>3. h \in Frame
        BY <3>1 DEF h, Frame, Label
      <4> QED
        BY <4>2, <4>3
    <3> QED
      BY <1>1, <1>2, <2>1, <3>2, CallIs
  <2> QED
    BY <2>2, <2>4, <2>5 DEF At, Top
<1>5. Giving' = Giving
  <2>1. CASE stack' = stack
    BY <2>1 DEF Giving, At, Top
  <2>2. CASE /\ \A u \in Thread : u # th => stack'[u] = stack[u]
             /\ ~At(th, "pop")' /\ ~At(th, "queue_inc")'
    <3>1. Giving' \subseteq Giving \cup {th} /\ Giving \ {th} \subseteq Giving'
          /\ th \notin Giving /\ th \notin Giving'
      BY <1>1, <2>2, Sets DEF At
    <3> QED
      BY <3>1
  <2> QED
    BY <1>4, <2>1, <2>2
<1>6. ASSUME NEW l \in Level
      PROVE  /\ IsFiniteSet(Slots(l))' /\ IsFiniteSet(Scanning(l))'
             /\ Cardinality(Slots(l))' <= njob' + Cardinality(Giving)' + Cardinality(Scanning(l))'
  <2>1. IsFiniteSet(Slots(l)) /\ IsFiniteSet(Scanning(l)) /\ IsFiniteSet(Giving)
        /\ Cardinality(Slots(l)) <= njob + Cardinality(Giving) + Cardinality(Scanning(l))
    BY DEF TokensOK
  <2>2. /\ Slots(l)' \subseteq Slots(l)
        /\ p <= l => \E s : s \in Slots(l) /\ s \notin Slots(l)'
    BY <1>2, <1>3, SlotsPopped
  <2>3. /\ IsFiniteSet(Slots(l)') /\ Cardinality(Slots(l)') <= Cardinality(Slots(l))
        /\ p <= l => Cardinality(Slots(l)') <= Cardinality(Slots(l)) - 1
    <3>1. ASSUME NEW s
          PROVE  /\ IsFiniteSet(Slots(l)') /\ Cardinality(Slots(l)') <= Cardinality(Slots(l))
                 /\ s \in Slots(l) /\ s \notin Slots(l)' =>
                      Cardinality(Slots(l)') <= Cardinality(Slots(l)) - 1
      BY <2>1, <2>2, Grown
    <3> QED
      BY <2>2, <3>1
  <2>4. Scanning(l)' \subseteq Scanning(l) /\ Scanning(l) \ {th} \subseteq Scanning(l)'
        /\ (~(p <= l) => Scanning(l) \subseteq Scanning(l)')
    <3>1. CASE stack' = stack
      BY <3>1 DEF Scanning, At, Top
    <3>2. CASE /\ \A u \in Thread : u # th => stack'[u] = stack[u]
               /\ ~At(th, "pop")' /\ ~At(th, "queue_inc")'
      BY <1>f, <1>p, <3>2, Sets
    <3> QED
      BY <1>4, <3>1, <3>2
  <2>5. /\ IsFiniteSet(Scanning(l)') /\ Cardinality(Scanning(l)) - 1 <= Cardinality(Scanning(l)')
        /\ ~(p <= l) => Cardinality(Scanning(l)) <= Cardinality(Scanning(l)')
        /\ Cardinality(Scanning(l)) \in Nat /\ Cardinality(Scanning(l)') \in Nat
    BY <2>1, <2>4, Grown
  <2>6. /\ Cardinality(Slots(l)) \in Nat /\ Cardinality(Slots(l)') \in Nat
        /\ Cardinality(Giving) \in Nat /\ njob \in Nat
    BY <1>2, <2>1, <2>3, FS_CardinalityType
  <2>7. Cardinality(Slots(l)') <= njob + Cardinality(Giving) + Cardinality(Scanning(l)')
    <3>1. CASE p <= l
      BY <2>1, <2>3, <2>5, <2>6, <3>1
    <3>2. CASE ~(p <= l)
      BY <2>1, <2>3, <2>5, <2>6, <3>2
    <3> QED
      BY <3>1, <3>2
  <2> QED
    BY <1>1, <1>5, <2>3, <2>5, <2>7
<1> QED
  BY <1>5, <1>6 DEF TokensOK

\* The jobs up to an empty queue are those below it.
LEMMA SlotsEmpty ==
  ASSUME NEW p \in Level, queue[p] = <<>>
  PROVE  /\ p = 0 => Slots(p) = {}
         /\ p # 0 => p - 1 \in Level /\ Slots(p) \subseteq Slots(p - 1)
<1>1. Level \subseteq Nat /\ \A k \in Level : k <= p /\ k # p => k <= p - 1
  BY ConstantsAssumption DEF Level
<1>2. 1..Len(queue[p]) = {}
  OBVIOUS
<1>3. p # 0 => p - 1 \in Level
  BY ConstantsAssumption DEF Level
<1>4. p # 0 => Slots(p) \subseteq Slots(p - 1)
  BY <1>1, <1>2 DEF Slots
<1>5. p = 0 => Slots(p) = {}
  <2>1. \A k \in Level : k <= 0 => k = 0
    BY ConstantsAssumption DEF Level
  <2> QED
    BY <1>2, <2>1 DEF Slots
<1> QED
  BY <1>3, <1>4, <1>5

\* A scan goes on to the next queue: there is no job in this one.
LEMMA PopEmptyTokens ==
  ASSUME IInv, TokensOK, NEW th \in Thread, PopEmpty(th)
  PROVE  TokensOK'
<1>1. /\ stack[th] # <<>> /\ Top(th).pc = "pop"
      /\ Top(th).i < NumLevels => queue[Top(th).i] = <<>>
      /\ IF Top(th).i < NumLevels THEN StepTo(th, "pop", Top(th).i + 1) ELSE Return(th)
      /\ queue' = queue /\ njob' = njob
  BY DEF PopEmpty, At, job
<1>f. PICK f \in Frame : f = Top(th)
  BY <1>1, TopFacts
<1>2. f.i \in Nat /\ njob \in Nat /\ stack \in [Thread -> Seq(Frame)] /\ NumLevels \in Nat
  BY ConstantsAssumption, InvParts, FramesType DEF RestType, Frame
<1>3. /\ \A u \in Thread : u # th => stack'[u] = stack[u]
      /\ f.i < NumLevels => At(th, "pop")' /\ Top(th)'.i = f.i + 1
  <2>1. CASE f.i < NumLevels
    <3> DEFINE g == Moved(f, "pop", f.i + 1)
    <3>1. g \in Frame /\ g.pc = "pop" /\ g.i = f.i + 1
      <4>1. f.i + 1 \in Nat /\ "pop" \in Label
        BY <1>2 DEF Label
      <4> QED
        BY <4>1, PcFrame
    <3>3. Goto(th, g)
      BY <1>1, <1>f, <2>1 DEF Moved, StepTo
    <3> HIDE DEF g
    <3>2. Shape(th, 1) /\ stack'[th] # <<>> /\ Head(stack'[th]) = g
      BY <1>1, <1>2, <3>1, <3>3, GotoIs
    <3> QED
      BY <3>1, <3>2 DEF Shape, At, Top
  <2>2. CASE ~(f.i < NumLevels)
    BY <1>1, <1>f, <1>2, <2>2, ReturnIs DEF Shape
  <2> QED
    BY <2>1, <2>2
<1>4. /\ IsFiniteSet(Giving') /\ Cardinality(Giving) <= Cardinality(Giving')
      /\ Cardinality(Giving) \in Nat /\ Cardinality(Giving') \in Nat
  <2>1. IsFiniteSet(Giving) /\ Giving \subseteq Giving' /\ Giving' \subseteq Giving \cup {th}
    BY <1>1, <1>3, Sets DEF TokensOK, At
  <2> QED
    BY <2>1, Grown
<1>5. ASSUME NEW l \in Level
      PROVE  /\ IsFiniteSet(Slots(l))' /\ IsFiniteSet(Scanning(l))'
             /\ Cardinality(Slots(l))' <= njob' + Cardinality(Giving)' + Cardinality(Scanning(l))'
  <2>1. IsFiniteSet(Slots(l)) /\ IsFiniteSet(Scanning(l)) /\ IsFiniteSet(Giving)
        /\ Cardinality(Slots(l)) <= njob + Cardinality(Giving) + Cardinality(Scanning(l))
    BY DEF TokensOK
  <2>2. Slots(l)' = Slots(l)
    BY <1>1 DEF Slots
  <2>3. IsFiniteSet(Scanning(l)') /\ Cardinality(Scanning(l)') \in Nat
        /\ Cardinality(Scanning(l)) \in Nat
        /\ (Scanning(l) \subseteq Scanning(l)'
              => Cardinality(Scanning(l)) <= Cardinality(Scanning(l)'))
    BY <1>3, <2>1, Sets, Grown
  <2>4. Cardinality(Slots(l)) \in Nat /\ l \in Nat
    BY <2>1, ConstantsAssumption, FS_CardinalityType DEF Level
  <2>5. CASE l # f.i
    <3>1. th \in Scanning(l) => th \in Scanning(l)'
      <4> SUFFICES ASSUME f.i <= l PROVE th \in Scanning(l)'
        BY <1>3, <1>f, Sets
      <4>1. f.i < NumLevels /\ f.i + 1 <= l
        BY <1>2, <2>4, <2>5, ConstantsAssumption DEF Level
      <4> QED
        BY <1>3, <4>1, Sets
    <3>2. Scanning(l) \subseteq Scanning(l)'
      BY <1>3, <3>1, Sets
    <3>3. Cardinality(Slots(l)) <= njob + Cardinality(Giving') + Cardinality(Scanning(l)')
      <4>1. Cardinality(Scanning(l)) <= Cardinality(Scanning(l)')
        BY <2>3, <3>2
      <4>2. njob \in Nat
        BY <1>2
      <4> QED
        BY <1>4, <2>1, <2>3, <2>4, <4>1, <4>2
    <3> QED
      BY <1>1, <2>1, <2>2, <2>3, <3>3
  <2>6. CASE l = f.i
    <3>1. queue[l] = <<>>
      BY <1>1, <1>f, <2>6, ConstantsAssumption DEF Level
    <3>2. CASE l = 0
      <4>1. Cardinality(Slots(l)) = 0
        BY <3>1, <3>2, SlotsEmpty, FS_EmptySet
      <4>2. Cardinality(Slots(l)) <= njob + Cardinality(Giving') + Cardinality(Scanning(l)')
        BY <1>2, <1>4, <2>3, <4>1
      <4> QED
        BY <1>1, <2>1, <2>2, <2>3, <4>2
    <3>3. CASE l # 0
      <4> DEFINE m == l - 1
      <4>1. m \in Level /\ Slots(l) \subseteq Slots(m)
        BY <3>1, <3>3, SlotsEmpty
      <4>2. m < l /\ m \in Int
        BY <2>4
      <4> HIDE DEF m
      <4>3. IsFiniteSet(Slots(m)) /\ IsFiniteSet(Scanning(m))
            /\ Cardinality(Slots(m)) <= njob + Cardinality(Giving) + Cardinality(Scanning(m))
        BY <4>1 DEF TokensOK
      <4>4. Scanning(m) \subseteq Scanning(l)'
        <5>1. th \notin Scanning(m)
          BY <1>2, <1>3, <1>f, <2>6, <4>2, Sets
        <5>2. Scanning(m) \subseteq Scanning(l)
          <6>1. ASSUME NEW u \in Thread, At(u, "pop"), Top(u).i <= m PROVE Top(u).i <= l
            <7>1. Top(u).i \in Nat
              BY <6>1, TopFacts DEF At, Frame
            <7> QED
              BY <2>4, <4>2, <6>1, <7>1
          <6> QED
            BY <6>1 DEF Scanning
        <5> QED
          BY <1>3, <5>1, <5>2, Sets
      <4>5. Cardinality(Scanning(m)) <= Cardinality(Scanning(l)')
            /\ Cardinality(Slots(l)) <= Cardinality(Slots(m))
        BY <2>3, <4>1, <4>3, <4>4, FS_Subset
      <4>6. Cardinality(Scanning(m)) \in Nat /\ Cardinality(Slots(m)) \in Nat
        BY <4>3, FS_CardinalityType
      <4>7. njob \in Nat
        BY <1>2
      <4>8. Cardinality(Slots(l)) <= njob + Cardinality(Giving') + Cardinality(Scanning(l)')
        BY <1>4, <2>3, <2>4, <4>3, <4>5, <4>6, <4>7
      <4> QED
        BY <1>1, <2>1, <2>2, <2>3, <4>8
    <3> QED
      BY <3>2, <3>3
  <2> QED
    BY <2>5, <2>6
<1> QED
  BY <1>4, <1>5 DEF TokensOK

LEMMA TokensStutter ==
  ASSUME TokensOK, stack' = stack, queue' = queue, njob' = njob
  PROVE  TokensOK'
BY DEF TokensOK, Giving, Scanning, Slots, At, Top

\* A thread's steps leave the stacks of the others alone.
Own(th) == stack' = stack \/ \E s : stack' = [stack EXCEPT ![th] = s]

LEMMA Owned ==
  ASSUME NEW th \in Thread
  PROVE  /\ \A f : Goto(th, f) => Own(th)
         /\ \A f, g : Call(th, g, f) => Own(th)
         /\ Return(th) => Own(th)
         /\ \A pc : Step(th, pc) => Own(th)
         /\ \A pc, n : StepTo(th, pc, n) => Own(th)
<1>1. /\ \A f : Goto(th, f) => Own(th)
      /\ \A f, g : Call(th, g, f) => Own(th)
      /\ Return(th) => Own(th)
  BY DEF Own, Goto, Call, Return
<1>2. ASSUME NEW pc, Step(th, pc) PROVE Own(th)
  BY <1>1, <1>2 DEF Step
<1>3. ASSUME NEW pc, NEW n, StepTo(th, pc, n) PROVE Own(th)
  BY <1>1, <1>3 DEF StepTo
<1> QED
  BY <1>1, <1>2, <1>3

LEMMA OwnTokens ==
  ASSUME IInv, TokensOK, NEW th \in Thread, Own(th), queue' = queue, njob' = njob,
         ~At(th, "queue_inc"), ~At(th, "pop")
  PROVE  TokensOK'
<1>1. stack \in [Thread -> Seq(Frame)]
  BY InvParts, FramesType
<1>2. \A u \in Thread : u # th => stack'[u] = stack[u]
  BY <1>1 DEF Own
<1> QED
  BY <1>2, TokensKeep
\* The steps that neither push nor scan.
LEMMA UpdateTokens ==
  ASSUME IInv, TokensOK, NEW th \in Thread, UpdateStatus(th)
  PROVE  TokensOK'
<1>1. CASE Cas(th) \/ CasFails(th)
  BY <1>1, Owned, OwnTokens DEF Cas, CasFails, task, job, At
<1>2. CASE Notify(th) \/ NotifyEnds(th)
  BY <1>2, Owned, OwnTokens DEF Notify, NotifyEnds, job, At
<1>3. CASE Change(th)
  BY <1>3, Owned, OwnTokens DEF Change, job, At
<1>4. CASE ActReady(th) \/ ActFinal(th) \/ ActOther(th)
  BY <1>4, Owned, OwnTokens DEF ActReady, ActFinal, ActOther, job, At
<1> QED
  BY <1>1, <1>2, <1>3, <1>4 DEF UpdateStatus

LEMMA CommitTokens ==
  ASSUME IInv, TokensOK, NEW th \in Thread, Commit(th)
  PROVE  TokensOK'
<1>1. NextDep(th) => Own(th)
  BY Owned DEF NextDep
<1>2. CASE CommitRefused(th)
  BY <1>2, Owned, OwnTokens DEF CommitRefused, job, At
<1>3. CASE CommitSync(th)
  BY <1>3, Owned, OwnTokens DEF CommitSync, job, At
<1>4. CASE CommitInit(th)
  BY <1>4, Owned, OwnTokens DEF CommitInit, job, At
<1>5. CASE Wire(th)
  BY <1>5, Owned, OwnTokens DEF Wire, job, At
<1>6. CASE LoadParent(th) \/ LoadDep(th)
  BY <1>1, <1>6, Owned, OwnTokens DEF LoadParent, LoadDep, job, At
<1>7. CASE Check(th)
  BY <1>1, <1>7, Owned, OwnTokens DEF Check, job, At
<1> QED
  BY <1>2, <1>3, <1>4, <1>5, <1>6, <1>7 DEF Commit

LEMMA CallTokens ==
  ASSUME IInv, TokensOK, NEW th \in Thread,
         \/ Retract(th) \/ Retracted(th) \/ Waits(th) \/ Depend(th)
         \/ Create(th) \/ BarLock(th) \/ BarLoop(th)
         \/ FreeErase(th) \/ FreeTask(th) \/ NextCall(th)
  PROVE  TokensOK'
<1>1. CASE Retract(th) \/ Retracted(th)
  BY <1>1, Owned, OwnTokens DEF Retract, Retracted, job, At
<1>2. CASE Wait(th) \/ WaitStat(th) \/ WaitLoop(th) \/ WaitDone(th)
  BY <1>2, Owned, OwnTokens DEF Wait, WaitStat, WaitLoop, WaitDone, job, At
<1>3. CASE WaitSched(th)
  <2>1. Own(th)
    BY <1>3, Owned DEF WaitSched, Own
  <2> QED
    BY <1>3, <2>1, OwnTokens DEF WaitSched, job, At
<1>4. CASE ReadLock(th) \/ IdleCheck(th)
  BY <1>4, Owned, OwnTokens DEF ReadLock, IdleCheck, job, At
<1>5. CASE AddPush(th) \/ RmDetach(th)
  BY <1>5, Owned, OwnTokens DEF AddPush, RmDetach, job, At
<1>6. CASE Create(th)
  BY <1>6, Owned, OwnTokens DEF Create, job, At
<1>7. CASE BarLock(th) \/ BarLoop(th)
  BY <1>7, Owned, OwnTokens DEF BarLock, BarLoop, job, At
<1>8. CASE FreeErase(th) \/ FreeTask(th)
  BY <1>8, Owned, OwnTokens DEF FreeErase, FreeTask, job, At
<1>9. CASE NextCall(th)
  BY <1>9, OwnTokens DEF NextCall, Own, job, At
<1> QED
  BY <1>1, <1>2, <1>3, <1>4, <1>5, <1>6, <1>7, <1>8, <1>9 DEF Waits, Depend

LEMMA ScheduleTokens ==
  ASSUME IInv, TokensOK, NEW th \in Thread, Schedule(th) \/ Queue(th)
  PROVE  TokensOK'
<1>1. CASE Ran(th)
  BY <1>1, Owned, OwnTokens DEF Ran, job, At
<1>2. CASE HandlerReturns(th)
  BY <1>2, Owned, OwnTokens DEF HandlerReturns, job, At
<1>3. CASE QueueJob(th)
  BY <1>3, Owned, OwnTokens DEF QueueJob, At
<1>4. CASE QueueFault(th)
  BY <1>4, TokensStutter DEF QueueFault, job, local
<1> QED
  BY <1>1, <1>2, <1>3, <1>4, SemDecTokens, PopTokens, PopEmptyTokens, QueuePushTokens,
     QueueIncTokens DEF Schedule, Queue

LEMMA InitTokens == Init => TokensOK
<1> SUFFICES ASSUME Init PROVE TokensOK
  OBVIOUS
<1>1. Giving = {} /\ \A l \in Level : Scanning(l) = {}
  BY DEF Init, Giving, Scanning, At
<1>2. ASSUME NEW l \in Level PROVE Slots(l) = {}
  <2>1. \A k \in Level : 1..Len(queue[k]) = {}
    BY DEF Init
  <2> QED
    BY <2>1 DEF Slots
<1>3. njob = 0
  BY DEF Init
<1> QED
  BY <1>1, <1>2, <1>3, FS_EmptySet DEF TokensOK

LEMMA NextTokens == IInv /\ TokensOK /\ [Next]_vars => TokensOK'
<1> SUFFICES ASSUME IInv, TokensOK, [Next]_vars PROVE TokensOK'
  OBVIOUS
<1>1. CASE UNCHANGED vars
  BY <1>1, TokensStutter DEF vars, job, local
<1>2. CASE \E th \in Thread : Run(th)
  BY <1>2, UpdateTokens, ScheduleTokens, CommitTokens, CallTokens DEF Run
<1> QED
  BY <1>1, <1>2 DEF Next

\* When every call has returned and every worker sleeps, no queue holds a job: whoever
\* pushes one gives its token afterwards, and a thread that has taken a token looks at
\* every queue until it finds a job, however pushes and scans overlap.
THEOREM NoJobLeftHolds == Spec => []NoJobLeft
<1>1. Spec => []TokensOK
  BY Invariance, InitTokens, NextTokens, PTL DEF Spec
<1>2. IInv /\ TokensOK => NoJobLeft
  <2> SUFFICES ASSUME IInv, TokensOK, Done, fault = "none", NEW l \in Level
               PROVE  queue[l] = <<>>
    BY DEF NoJobLeft
  <2>1. (\A th \in Thread : stack[th] = <<>>) /\ njob = 0
    BY DEF Done
  <2>2. Giving = {} /\ Scanning(l) = {}
    BY <2>1 DEF Giving, Scanning, At
  <2>3. IsFiniteSet(Slots(l)) /\ Cardinality(Slots(l)) <= 0
    BY <2>1, <2>2, FS_EmptySet DEF TokensOK
  <2>4. Slots(l) = {}
    <3>1. Cardinality(Slots(l)) \in Nat
      BY <2>3, FS_CardinalityType
    <3>2. Cardinality(Slots(l)) = 0
      BY <2>3, <3>1
    <3> QED
      BY <2>3, <3>2, FS_EmptySet
  <2>5. queue[l] \in Seq(Task) /\ l \in Nat
    BY InvParts, ConstantsAssumption DEF RestType, Level
  <2> SUFFICES ASSUME queue[l] # <<>> PROVE FALSE
    OBVIOUS
  <2>6. Len(queue[l]) \in Nat \ {0}
    BY <2>5, PopFacts
  <2>7. <<l, 1>> \in Slots(l)
    BY <2>5, <2>6 DEF Slots
  <2> QED
    BY <2>4, <2>7
<1> QED
  BY <1>1, <1>2, Invariance, PTL

-----------------------------------------------------------------------------
(* No wake-up is lost. *)

\* The handler of a task that has one wants to know of completions.
Told == \A c \in Task : HasHandler(c) => COMPLETED \in Mask[c]

\* A pair of tasks has one record in the model, so no dependency is added twice; and
\* the application frees no task while the commit of a task that depends on it has
\* still to look at it.
Orderly ==
    /\ \A c \in Task : \A m, n \in 1..Len(parents[c]) : parents[c][m] = parents[c][n] => m = n
    /\ \A th \in Thread : At(th, "load_parent") => depParent[parents[Top(th).t][Top(th).i]]

\* The frame is on its way to tell d's child that d's parent has completed.
Tells(f, d) ==
    /\ f.t = d[2] /\ f.new = COMPLETED
    /\ \E k \in 1..Len(childs[d[2]]) :
          /\ childs[d[2]][k] = d
          /\ \/ f.pc = "notify" /\ f.i <= k
             \/ f.pc = "change" /\ f.i < k

\* The commit whose frame this is is on its way to find out by itself.
Finds(f, m) ==
    \/ f.pc = "wire"
    \/ f.pc = "load_parent" /\ f.i <= m
    \/ /\ f.pc \in {"load_dep", "check"}
       /\ f.i < m \/ (f.i = m /\ f.new = COMPLETED)

Telling(d)    == \E th \in Thread : \E k \in 1..Len(stack[th]) : Tells(stack[th][k], d)
Finding(c, m) == \E th \in Thread : stack[th] # <<>> /\ Top(th).t = c /\ Finds(Top(th), m)

\* The completion of c's m-th parent has not been noted in the dependency, and will
\* be if it can be.
Owed(c, m) ==
    \/ ~depChild[parents[c][m]]
    \/ status[parents[c][m][2]] # COMPLETED
    \/ /\ depStatus[parents[c][m]] # COMPLETED
       /\ Telling(parents[c][m]) \/ Finding(c, m)

\* The dependencies that have been noted, and the threads that have noted one of
\* them and have still to count it.
Heard(c)   == {m \in 1..Len(parents[c]) : ~Owed(c, m)}
Pending(c) == {th \in Thread : At(th, "change") /\ Top(th).new = COMPLETED
                                  /\ childs[Top(th).t][Top(th).i][1] = c}

Releasing(c) == \E th \in Thread : At(th, "cas") /\ Top(th).t = c /\ Top(th).old = DEPHOLD

CountOK(c) ==
    status[c] = DEPHOLD /\ Counted(c) /\ HasHandler(c) =>
        \/ Releasing(c)
        \/ /\ counter[c] > 0
           /\ Cardinality(Heard(c)) + counter[c] <= ndep[c] + Cardinality(Pending(c))

CountsOK == \A c \in Task : IsFiniteSet(Pending(c)) /\ CountOK(c)

\* A commit makes every dependency it has counted known to its parent.
WiredOK ==
    \A c \in Task : \A m \in 1..Len(parents[c]) :
        /\ parents[c][m] \notin Attached => depParent[parents[c][m]]
        /\ Counted(c) => \/ parents[c][m] \in Attached
                         \/ \E th \in Thread : At(th, "wire") /\ Top(th).t = c /\ Top(th).i <= m

\* A dependency says that its parent has come to an end only if it has.
RecordsOK ==
    /\ \A d \in Dep : depStatus[d] >= COMPLETED => status[d[2]] = depStatus[d]
    /\ \A c \in Task : ~Counted(c) => \A m \in 1..Len(parents[c]) : depStatus[parents[c][m]] < COMPLETED

\* What the second loop of a commit has read of a parent.
Loaded(f) ==
    f.pc \in {"load_dep", "check"} =>
        /\ f.new >= COMPLETED => status[parents[f.t][f.i][2]] = f.new
        /\ f.pc = "check" /\ f.new = COMPLETED => depStatus[parents[f.t][f.i]] \in {f.old, COMPLETED}

LoadedOK == \A th \in Thread : stack[th] # <<>> => Loaded(Top(th))

WakeInv == WiredOK /\ RecordsOK /\ LoadedOK /\ CountsOK
\* The labels a thread may come to without having taken part in a notification.
Harmless == Label \ {"change", "load_dep", "check"}

\* Nothing below the top of th's stack is lost and no other thread is disturbed.
Away(th) ==
    /\ \A u \in Thread : u # th => stack'[u] = stack[u]
    /\ \A k \in 2..Len(stack[th]) :
          \E k2 \in 1..Len(stack'[th]) : stack'[th][k2] = stack[th][k]

Lands(th) == stack'[th] # <<>> => Head(stack'[th]).pc \in Harmless

LEMMA CallingHarmless == Calling \subseteq Harmless
  BY DEF Calling, Harmless, Label

LEMMA ShapeAway ==
  ASSUME StackType, NEW th \in Thread, NEW n, Shape(th, n)
  PROVE  Away(th)
<1>1. Len(stack[th]) \in Nat
  BY DEF StackType
<1>2. ASSUME NEW k \in 2..Len(stack[th])
      PROVE  \E k2 \in 1..Len(stack'[th]) : stack'[th][k2] = stack[th][k]
  <2>1. k \in 1..Len(stack[th]) /\ k # 1
    BY <1>1
  <2> QED
    BY <2>1, Persists
<1> QED
  BY <1>2 DEF Away, Shape

LEMMA GotoAway ==
  ASSUME IInv, NEW th \in Thread, stack[th] # <<>>, NEW f \in Frame, Goto(th, f)
  PROVE  Away(th) /\ stack'[th] # <<>> /\ Head(stack'[th]) = f
<1>1. Shape(th, 1) /\ StackType /\ stack'[th] # <<>> /\ Head(stack'[th]) = f
  BY GotoIs, InvParts, FramesType
<1> QED
  BY <1>1, ShapeAway

LEMMA CallAway ==
  ASSUME IInv, NEW th \in Thread, stack[th] # <<>>, NEW g \in Frame, NEW f \in Frame,
         Call(th, g, f)
  PROVE  /\ Away(th) /\ stack'[th] # <<>> /\ Head(stack'[th]) = g
         /\ 2 \in 1..Len(stack'[th]) /\ stack'[th][2] = f
<1>1. /\ Shape(th, 2) /\ StackType /\ stack'[th][2] = f
      /\ stack'[th] # <<>> /\ Head(stack'[th]) = g /\ Len(stack'[th]) >= 2
  BY CallIs, InvParts, FramesType
<1>2. Len(stack'[th]) \in Nat
  BY <1>1 DEF StackType
<1>3. 2 \in 1..Len(stack'[th])
  BY <1>1, <1>2
<1> QED
  BY <1>1, <1>3, ShapeAway

LEMMA ReturnAway ==
  ASSUME IInv, NEW th \in Thread, stack[th] # <<>>, Return(th)
  PROVE  Away(th) /\ Lands(th)
<1>1. /\ Shape(th, 0) /\ StackType
      /\ stack'[th] # <<>> => 2 \in 1..Len(stack[th]) /\ Head(stack'[th]) = stack[th][2]
  BY ReturnIs, InvParts, FramesType
<1>2. ASSUME stack'[th] # <<>>
      PROVE  Head(stack'[th]).pc \in Harmless
  <2>1. Len(stack[th]) \in Nat
    BY <1>1 DEF StackType
  <2>2. 2 \in 2..Len(stack[th])
    BY <1>1, <1>2, <2>1
  <2>3. stack[th][2].pc \in Calling
    BY <2>2, InvParts DEF StackOK, CallersOK
  <2> QED
    BY <1>1, <1>2, <2>3, CallingHarmless
<1> QED
  BY <1>1, <1>2, ShapeAway DEF Lands

\* The steps that only move a thread on.
LEMMA Leaves ==
  ASSUME IInv, NEW th \in Thread, stack[th] # <<>>,
         \/ Return(th)
         \/ \E pc \in Harmless : Step(th, pc)
         \/ \E pc \in Harmless, i \in Nat : StepTo(th, pc, i)
         \/ \E f \in Frame : Goto(th, f) /\ f.pc \in Harmless
         \/ \E g, f \in Frame : Call(th, g, f) /\ g.pc \in Harmless
         \/ stack' = stack /\ Top(th).pc \in Harmless
  PROVE  Away(th) /\ Lands(th)
<1>1. Top(th) \in Frame
  BY TopFacts
<1>2. Harmless \subseteq Label
  BY DEF Harmless
<1>3. ASSUME NEW f \in Frame, Goto(th, f), f.pc \in Harmless
      PROVE  Away(th) /\ Lands(th)
  BY <1>3, GotoAway DEF Lands
<1>4. CASE Return(th)
  BY <1>4, ReturnAway
<1>5. ASSUME NEW pc \in Harmless, Step(th, pc)
      PROVE  Away(th) /\ Lands(th)
  <2> DEFINE g == [Top(th) EXCEPT !.pc = pc]
  <2>0. pc \in Label /\ 0 \in Nat
    BY <1>2
  <2>1. g \in Frame /\ g.pc = pc /\ Goto(th, g)
    BY <1>1, <1>5, <2>0, PcFrame DEF Step
  <2> HIDE DEF g
  <2> QED
    BY <1>3, <2>1
<1>6. ASSUME NEW pc \in Harmless, NEW i \in Nat, StepTo(th, pc, i)
      PROVE  Away(th) /\ Lands(th)
  <2> DEFINE g == Moved(Top(th), pc, i)
  <2>0. pc \in Label
    BY <1>2
  <2>1. g \in Frame /\ g.pc = pc /\ Goto(th, g)
    BY <1>1, <1>6, <2>0, PcFrame DEF StepTo, Moved
  <2> HIDE DEF g
  <2> QED
    BY <1>3, <2>1
<1>7. ASSUME NEW g \in Frame, NEW f \in Frame, Call(th, g, f), g.pc \in Harmless
      PROVE  Away(th) /\ Lands(th)
  BY <1>7, CallAway DEF Lands
<1>8. CASE stack' = stack /\ Top(th).pc \in Harmless
  <2>1. Len(stack[th]) \in Nat
    BY InvParts, FramesType
  <2>2. \A k \in 2..Len(stack[th]) : k \in 1..Len(stack[th])
    BY <2>1
  <2> QED
    BY <1>8, <2>2 DEF Away, Lands, Top
<1> QED
  BY <1>3, <1>4, <1>5, <1>6, <1>7, <1>8

\* A call begins on an empty stack.
LEMMA StartLeaves ==
  ASSUME IInv, NEW th \in Thread, stack[th] = <<>>, NEW s \in Seq(Frame), s # <<>>,
         s[1].pc \in Harmless, stack' = [stack EXCEPT ![th] = s]
  PROVE  Away(th) /\ Lands(th)
<1>1. stack \in [Thread -> Seq(Frame)] /\ Len(stack[th]) = 0
  BY InvParts, FramesType
<1>2. stack'[th] = s /\ Head(s) = s[1]
  BY <1>1, PopFacts
<1> QED
  BY <1>1, <1>2 DEF Away, Lands

-----------------------------------------------------------------------------
\* What stays owed.

ChildsGrow ==
    \A p \in Task : \A k \in 1..Len(childs[p]) :
        k \in 1..Len(childs'[p]) /\ childs'[p][k] = childs[p][k]

LEMMA TellsGrows ==
  ASSUME ChildsGrow, NEW f, NEW d \in Dep, Tells(f, d)
  PROVE  Tells(f, d)'
<1>1. d[2] \in Task
  BY DEF Dep
<1> QED
  BY <1>1 DEF Tells, ChildsGrow

LEMMA TellingKeeps ==
  ASSUME IInv, NEW th \in Thread, Away(th), ChildsGrow, NEW d \in Dep, Telling(d),
         stack[th] # <<>> => ~Tells(Top(th), d)
  PROVE  Telling(d)'
<1>1. PICK u \in Thread : \E k \in 1..Len(stack[u]) : Tells(stack[u][k], d)
  BY DEF Telling
<1>2. PICK k \in 1..Len(stack[u]) : Tells(stack[u][k], d)
  BY <1>1
<1>3. PICK f : f = stack[u][k]
  OBVIOUS
<1>4. Tells(f, d)'
  BY <1>2, <1>3, TellsGrows
<1>5. \E k2 \in 1..Len(stack'[u]) : stack'[u][k2] = f
  <2>1. CASE u # th
    BY <1>3, <2>1 DEF Away
  <2>2. CASE u = th
    <3>1. Len(stack[th]) \in Nat /\ (stack[th] # <<>> => Top(th) = stack[th][1])
      BY InvParts, FramesType, PopFacts DEF Top
    <3>2. stack[th] # <<>>
      BY <2>2
    <3>3. k # 1 /\ k \in 2..Len(stack[th])
      BY <1>2, <2>2, <3>1, <3>2
    <3> QED
      BY <1>3, <2>2, <3>3 DEF Away
  <2> QED
    BY <2>1, <2>2
<1> QED
  BY <1>4, <1>5 DEF Telling, Tells

LEMMA FindingKeeps ==
  ASSUME NEW th \in Thread, Away(th), NEW c, NEW m, Finding(c, m),
         stack[th] # <<>> => ~(Top(th).t = c /\ Finds(Top(th), m))
  PROVE  Finding(c, m)'
<1>1. PICK u \in Thread : stack[u] # <<>> /\ Top(u).t = c /\ Finds(Top(u), m)
  BY DEF Finding
<1>2. u # th /\ stack'[u] = stack[u]
  BY <1>1 DEF Away
<1> QED
  BY <1>1, <1>2 DEF Finding, Top, Finds

LEMMA ParentFacts ==
  ASSUME IInv, NEW c \in Task, NEW m \in 1..Len(parents[c])
  PROVE  /\ parents[c][m] \in Dep /\ parents[c][m][1] = c
         /\ parents[c][m][2] \in Task /\ parents[c][m][2] \in Needs(c)
         /\ Len(parents[c]) \in Nat /\ m \in Nat \ {0}
<1>1. parents[c] \in Seq(Dep)
  BY InvParts DEF GraphType
<1>2. Len(parents[c]) \in Nat /\ m \in Nat \ {0} /\ m \in DOMAIN parents[c]
      /\ parents[c][m] \in Dep
  BY <1>1
<1>3. parents[c][m][1] = c
  BY InvParts DEF DepsOK
<1>4. parents[c][m][2] \in Task
  BY <1>2 DEF Dep
<1> QED
  BY <1>2, <1>3, <1>4 DEF Needs

LEMMA ChildFacts ==
  ASSUME IInv, NEW p \in Task, NEW k \in 1..Len(childs[p])
  PROVE  /\ childs[p][k] \in Dep /\ childs[p][k][1] \in Task /\ childs[p][k][2] = p
         /\ Counted(childs[p][k][1]) /\ Len(childs[p]) \in Nat /\ k \in Nat \ {0}
         /\ childs[p][k] \in Attached
<1>1. childs[p] \in Seq(Dep)
  BY InvParts DEF GraphType
<1>2. Len(childs[p]) \in Nat /\ k \in Nat \ {0} /\ childs[p][k] \in Dep
      /\ k \in DOMAIN childs[p]
  BY <1>1
<1>3. childs[p][k][2] = p /\ Counted(childs[p][k][1])
  BY InvParts DEF DepsOK
<1>4. childs[p][k][1] \in Task
  BY <1>2 DEF Dep
<1> QED
  BY <1>2, <1>3, <1>4 DEF Attached

LEMMA OwedKeeps ==
  ASSUME NEW c, NEW m, Owed(c, m), parents'[c] = parents[c],
         depChild'[parents[c][m]] => depChild[parents[c][m]],
         status'[parents[c][m][2]] = status[parents[c][m][2]],
         depStatus'[parents[c][m]] = depStatus[parents[c][m]],
         Telling(parents[c][m]) => Telling(parents[c][m])' \/ Finding(c, m)',
         Finding(c, m) => Telling(parents[c][m])' \/ Finding(c, m)'
  PROVE  Owed(c, m)'
<1> DEFINE d == parents[c][m]
<1>1. d = parents'[c][m]
  OBVIOUS
<1>2. Telling(d) => Telling(d)' \/ Finding(c, m)'
  OBVIOUS
<1>3. Finding(c, m) => Telling(d)' \/ Finding(c, m)'
  OBVIOUS
<1>4. depChild'[d] => depChild[d]
  OBVIOUS
<1>5. status'[d[2]] = status[d[2]] /\ depStatus'[d] = depStatus[d]
  OBVIOUS
<1> QED
  BY <1>1, <1>2, <1>3, <1>4, <1>5 DEF Owed

\* What a step of th does to the threads that owe c a count.
LEMMA PendingSets ==
  ASSUME IInv, NEW th \in Thread, Away(th), ChildsGrow, NEW c
  PROVE  /\ Pending(c)' \subseteq Pending(c) \cup {th}
         /\ Pending(c) \ {th} \subseteq Pending(c)'
         /\ th \in Pending(c) <=> At(th, "change") /\ Top(th).new = COMPLETED
                                     /\ childs[Top(th).t][Top(th).i][1] = c
         /\ Lands(th) => th \notin Pending(c)'
<1>1. ASSUME NEW u \in Thread, u # th, At(u, "change")
      PROVE  /\ At(u, "change")' /\ Top(u)' = Top(u)
             /\ childs'[Top(u).t][Top(u).i] = childs[Top(u).t][Top(u).i]
  <2>1. stack'[u] = stack[u]
    BY <1>1 DEF Away
  <2>2. Top(u).t \in Task /\ Top(u).i \in 1..Len(childs[Top(u).t])
    BY <1>1, UpdatingFacts DEF At, Updating
  <2> QED
    BY <1>1, <2>1, <2>2 DEF At, Top, ChildsGrow
<1>2. ASSUME NEW u \in Thread, u # th, At(u, "change")'
      PROVE  At(u, "change")
  BY <1>2 DEF At, Top, Away
<1>3. \A u \in Thread : u # th => (u \in Pending(c)' <=> u \in Pending(c))
  BY <1>1, <1>2 DEF Pending
<1>4. Lands(th) => ~At(th, "change")'
  BY DEF Lands, At, Top, Harmless
<1>5. Pending(c)' \subseteq Thread /\ Pending(c) \subseteq Thread
  BY DEF Pending
<1>6. Lands(th) => th \notin Pending(c)'
  BY <1>4 DEF Pending
<1>7. th \in Pending(c) <=> At(th, "change") /\ Top(th).new = COMPLETED
                                     /\ childs[Top(th).t][Top(th).i][1] = c
  BY DEF Pending
<1> QED
  BY <1>3, <1>5, <1>6, <1>7

LEMMA CountSum ==
  ASSUME NEW h \in Nat, NEW h2 \in Nat, NEW p \in Nat, NEW p2 \in Nat, NEW n \in Nat,
         NEW x \in Int, NEW x2 \in Int, x > 0, h + x <= n + p,
         \/ h2 <= h /\ x2 = x /\ p <= p2
         \/ h2 <= h + 1 /\ x2 = x /\ p2 = p + 1
         \/ h2 <= h /\ x2 = x - 1 /\ x # 1 /\ p - 1 <= p2
         \/ h2 <= h + 1 /\ x2 = x - 1 /\ x # 1 /\ p <= p2
  PROVE  x2 > 0 /\ h2 + x2 <= n + p2
  OBVIOUS

\* The sum of what a child has heard and what it still counts on.
LEMMA CountMade ==
  ASSUME IInv, IInv', NEW c \in Task, IsFiniteSet(Pending(c)), CountOK(c),
         NEW th, Pending(c)' \subseteq Pending(c) \cup {th},
         Pending(c) \ {th} \subseteq Pending(c)',
         parents'[c] = parents[c], ndep'[c] = ndep[c],
         status'[c] = DEPHOLD => status[c] = DEPHOLD,
         Releasing(c) => Releasing(c)',
         NEW m,
         \/ Releasing(c)'
         \/ /\ Heard(c)' \subseteq Heard(c) /\ counter'[c] = counter[c]
            /\ th \in Pending(c) => th \in Pending(c)'
         \/ /\ Heard(c)' \subseteq Heard(c) \cup {m} /\ counter'[c] = counter[c]
            /\ th \notin Pending(c) /\ th \in Pending(c)'
         \/ /\ Heard(c)' \subseteq Heard(c) /\ counter'[c] = counter[c] - 1 /\ counter[c] # 1
         \/ /\ Heard(c)' \subseteq Heard(c) \cup {m}
            /\ counter'[c] = counter[c] - 1 /\ counter[c] # 1
            /\ th \in Pending(c) => th \in Pending(c)'
  PROVE  IsFiniteSet(Pending(c)') /\ CountOK(c)'
<1>1. IsFiniteSet(Pending(c)') /\ Cardinality(Pending(c)) \in Nat
      /\ Cardinality(Pending(c)') \in Nat
  BY Grown
<1> SUFFICES ASSUME status[c] = DEPHOLD, Counted(c), HasHandler(c), ~Releasing(c)'
             PROVE  /\ counter'[c] > 0
                    /\ Cardinality(Heard(c)') + counter'[c] <= ndep'[c] + Cardinality(Pending(c)')
  BY <1>1 DEF CountOK, Counted, HasHandler
<1>2. /\ counter[c] > 0
      /\ Cardinality(Heard(c)) + counter[c] <= ndep[c] + Cardinality(Pending(c))
  BY DEF CountOK
<1>3. counter[c] \in Int /\ counter'[c] \in Int /\ ndep[c] \in Nat /\ Len(parents[c]) \in Nat
  BY InvParts DEF RestType, GraphType, Counted
<1>4. IsFiniteSet(Heard(c)) /\ IsFiniteSet(Heard(c)')
  <2>1. Heard(c) \subseteq 1..Len(parents[c]) /\ Heard(c)' \subseteq 1..Len(parents[c])
    BY DEF Heard
  <2>2. IsFiniteSet(1..Len(parents[c]))
    BY <1>3, FS_Interval
  <2> QED
    BY <2>1, <2>2, FS_Subset
<1>5. Cardinality(Heard(c)) \in Nat /\ Cardinality(Heard(c)') \in Nat
  BY <1>4, FS_CardinalityType
<1>6. Heard(c)' \subseteq Heard(c) => Cardinality(Heard(c)') <= Cardinality(Heard(c))
  BY <1>4, FS_Subset
<1>7. Heard(c)' \subseteq Heard(c) \cup {m} => Cardinality(Heard(c)') <= Cardinality(Heard(c)) + 1
  <2> SUFFICES ASSUME Heard(c)' \subseteq Heard(c) \cup {m}
               PROVE  Cardinality(Heard(c)') <= Cardinality(Heard(c)) + 1
    OBVIOUS
  <2>1. IsFiniteSet(Heard(c) \cup {m})
        /\ Cardinality(Heard(c) \cup {m}) <= Cardinality(Heard(c)) + 1
    <3>1. IsFiniteSet(Heard(c) \cup {m})
          /\ Cardinality(Heard(c) \cup {m})
               = IF m \in Heard(c) THEN Cardinality(Heard(c)) ELSE Cardinality(Heard(c)) + 1
      BY <1>4, FS_AddElement
    <3> QED
      BY <1>5, <3>1
  <2>2. Cardinality(Heard(c)') <= Cardinality(Heard(c) \cup {m})
    BY <2>1, FS_Subset
  <2>3. Cardinality(Heard(c) \cup {m}) \in Nat
    BY <2>1, FS_CardinalityType
  <2> QED
    BY <1>5, <2>1, <2>2, <2>3
<1>8. /\ Cardinality(Pending(c)) - 1 <= Cardinality(Pending(c)')
      /\ (th \in Pending(c) => th \in Pending(c)')
            => Cardinality(Pending(c)) <= Cardinality(Pending(c)')
      /\ th \notin Pending(c) /\ th \in Pending(c)'
            => Cardinality(Pending(c)') = Cardinality(Pending(c)) + 1
  BY Grown
<1> DEFINE h == Cardinality(Heard(c))
           p == Cardinality(Pending(c))
           h2 == Cardinality(Heard(c)')
           p2 == Cardinality(Pending(c)')
<1>9. \/ h2 <= h /\ counter'[c] = counter[c] /\ p <= p2
      \/ h2 <= h + 1 /\ counter'[c] = counter[c] /\ p2 = p + 1
      \/ h2 <= h /\ counter'[c] = counter[c] - 1 /\ counter[c] # 1 /\ p - 1 <= p2
      \/ h2 <= h + 1 /\ counter'[c] = counter[c] - 1 /\ counter[c] # 1 /\ p <= p2
  BY <1>6, <1>7, <1>8
<1>10. h \in Nat /\ h2 \in Nat /\ p \in Nat /\ p2 \in Nat /\ h + counter[c] <= ndep[c] + p
  BY <1>1, <1>2, <1>5
<1>11. counter'[c] > 0 /\ h2 + counter'[c] <= ndep[c] + p2
  <2>1. PICK x \in Int, x2 \in Int, n \in Nat : x = counter[c] /\ x2 = counter'[c] /\ n = ndep[c]
    BY <1>3
  <2>2. PICK a \in Nat, a2 \in Nat, b \in Nat, b2 \in Nat : a = h /\ a2 = h2 /\ b = p /\ b2 = p2
    BY <1>10
  <2> HIDE DEF h, p, h2, p2
  <2>3. x > 0 /\ a + x <= n + b
    BY <1>2, <1>10, <2>1, <2>2
  <2>4. \/ a2 <= a /\ x2 = x /\ b <= b2
        \/ a2 <= a + 1 /\ x2 = x /\ b2 = b + 1
        \/ a2 <= a /\ x2 = x - 1 /\ x # 1 /\ b - 1 <= b2
        \/ a2 <= a + 1 /\ x2 = x - 1 /\ x # 1 /\ b <= b2
    BY <1>9, <2>1, <2>2
  <2>5. x2 > 0 /\ a2 + x2 <= n + b2
    BY <2>3, <2>4, CountSum
  <2> QED
    BY <2>1, <2>2, <2>5
<1> QED
  BY <1>11

-----------------------------------------------------------------------------
\* The parts of the invariant under steps that have little to do with them.

LEMMA AttachedGrows ==
  ASSUME IInv, IInv', ChildsGrow
  PROVE  Attached \subseteq Attached'
<1> SUFFICES ASSUME NEW d \in Attached
             PROVE  d \in Attached'
  OBVIOUS
<1>1. d \in Dep /\ d[2] \in Task
  BY DEF Attached, Dep
<1>2. childs[d[2]] \in Seq(Dep) /\ childs'[d[2]] \in Seq(Dep)
  <2>1. childs \in [Task -> Seq(Dep)]
    BY InvParts DEF GraphType
  <2>2. childs' \in [Task -> Seq(Dep)]
    BY DEF IInv, TypeOK
  <2> QED
    BY <1>1, <2>1, <2>2
<1>3. PICK k \in 1..Len(childs[d[2]]) : childs[d[2]][k] = d
  BY <1>2 DEF Attached
<1>4. k \in 1..Len(childs'[d[2]]) /\ childs'[d[2]][k] = d
  BY <1>1, <1>3 DEF ChildsGrow
<1>5. k \in DOMAIN childs'[d[2]]
  BY <1>2, <1>4
<1> QED
  BY <1>1, <1>4, <1>5 DEF Attached

LEMMA WiredKeeps ==
  ASSUME IInv, IInv', WiredOK, NEW th \in Thread, Away(th), ~At(th, "wire"),
         parents' = parents, ndep' = ndep, ChildsGrow,
         \A d \in Dep : d \notin Attached => depParent'[d] = depParent[d]
  PROVE  WiredOK'
<1> SUFFICES ASSUME NEW c \in Task, NEW m \in 1..Len(parents[c])
             PROVE  /\ parents[c][m] \notin Attached' => depParent'[parents[c][m]]
                    /\ Counted(c) =>
                         \/ parents[c][m] \in Attached'
                         \/ \E u \in Thread : (At(u, "wire") /\ Top(u).t = c /\ Top(u).i <= m)'
  BY DEF WiredOK, Counted
<1>1. parents[c][m] \in Dep
  BY ParentFacts
<1>2. Attached \subseteq Attached'
  BY AttachedGrows
<1>3. \A u \in Thread : At(u, "wire") /\ Top(u).t = c /\ Top(u).i <= m
                          => (At(u, "wire") /\ Top(u).t = c /\ Top(u).i <= m)'
  BY DEF At, Top, Away
<1> QED
  BY <1>1, <1>2, <1>3 DEF WiredOK

LEMMA RecordsKeep ==
  ASSUME RecordsOK, status' = status, depStatus' = depStatus, parents' = parents,
         \A c \in Task : Counted(c) => Counted(c)'
  PROVE  RecordsOK'
  BY DEF RecordsOK

LEMMA LoadedKeeps ==
  ASSUME IInv, LoadedOK, NEW th \in Thread, Away(th),
         \A c \in Task : Counted(c) => parents'[c] = parents[c],
         \A p \in Task : status[p] >= COMPLETED => status'[p] = status[p],
         \A u \in Thread : u # th /\ At(u, "check") =>
            LET d == parents[Top(u).t][Top(u).i] IN
            status[d[2]] = COMPLETED => depStatus'[d] \in {depStatus[d], COMPLETED},
         Lands(th) \/ \E g : Head(stack'[th]) = g /\ Loaded(g)'
  PROVE  LoadedOK'
<1>1. ASSUME NEW u \in Thread, u # th, stack'[u] # <<>>
      PROVE  Loaded(Top(u))'
  <2>1. stack'[u] = stack[u] /\ stack[u] # <<>>
    BY <1>1 DEF Away
  <2>t. Top(u) \in Frame /\ Top(u).new \in Status
    BY <2>1, TopFacts, Zenon
  <2>f. PICK f \in Frame : f = Top(u) /\ f.new \in Status
    BY <2>t, Zenon
  <2> SUFFICES ASSUME f.pc \in {"load_dep", "check"}
               PROVE  Loaded(f)'
    BY <2>1, <2>f, Zenon DEF Loaded, Top
  <2>2. Loaded(f)
    BY <2>1, <2>f DEF LoadedOK
  <2>d. PICK d \in Dep : d = parents[f.t][f.i] /\ d[2] \in Task
    BY <2>1, <2>f, WiringFacts DEF Wiring
  <2>p. parents'[f.t] = parents[f.t]
    BY <2>1, <2>f, WiringFacts DEF Wiring
  <2>3. f.new >= COMPLETED => status'[d[2]] = f.new
    BY <2>2, <2>d DEF Loaded
  <2>4. f.pc = "check" /\ f.new = COMPLETED => depStatus'[d] \in {f.old, COMPLETED}
    <3> SUFFICES ASSUME f.pc = "check", f.new = COMPLETED
                 PROVE  depStatus'[d] \in {f.old, COMPLETED}
      OBVIOUS
    <3>1. f.new >= COMPLETED
      BY DEF COMPLETED
    <3>2. status[d[2]] = COMPLETED /\ depStatus[d] \in {f.old, COMPLETED}
      BY <2>2, <2>d, <3>1 DEF Loaded
    <3>3. depStatus'[d] \in {depStatus[d], COMPLETED}
      BY <1>1, <2>1, <2>f, <2>d, <3>2 DEF At
    <3> QED
      BY <3>2, <3>3
  <2> QED
    BY <2>3, <2>4, <2>d, <2>p DEF Loaded
<1>2. ASSUME stack'[th] # <<>>
      PROVE  Loaded(Top(th))'
  <2>1. CASE Lands(th)
    BY <1>2, <2>1, Zenon DEF Lands, Harmless, Loaded, Top
  <2>2. ASSUME NEW g, Head(stack'[th]) = g, Loaded(g)'
        PROVE  Loaded(Top(th))'
    BY <2>2, Zenon DEF Loaded, Top
  <2> QED
    BY <2>1, <2>2, Zenon
<1> QED
  BY <1>1, <1>2 DEF LoadedOK

\* The frame of a thread whose next step has no part in a notification.
Useless(f) ==
    /\ f.pc \notin Wiring \cup {"change"}
    /\ f.pc = "notify" => f.i > Len(childs[f.t])
    /\ f.pc = "cas" => status[f.t] # f.old

LEMMA UselessTop ==
  ASSUME IInv, NEW th \in Thread, stack[th] # <<>> => Useless(Top(th))
  PROVE  /\ \A d \in Dep : stack[th] # <<>> => ~Tells(Top(th), d)
         /\ \A m : stack[th] # <<>> => ~Finds(Top(th), m)
         /\ ~At(th, "wire") /\ ~At(th, "change")
<1>1. \A m : stack[th] # <<>> => ~Finds(Top(th), m)
  BY DEF Useless, Finds, Wiring
<1>2. ASSUME NEW d \in Dep, stack[th] # <<>>, Tells(Top(th), d)
      PROVE  FALSE
  <2>1. Top(th).pc = "notify"
    BY <1>2 DEF Useless, Tells
  <2>2. Top(th).t = d[2] /\ \E k \in 1..Len(childs[d[2]]) : Top(th).i <= k
    BY <1>2, <2>1 DEF Tells
  <2>3. Top(th).i > Len(childs[d[2]]) /\ Top(th).i \in Nat /\ d[2] \in Task
    BY <1>2, <2>1, <2>2, TopFacts DEF Useless
  <2>4. Len(childs[d[2]]) \in Nat
    BY <2>3, InvParts DEF GraphType
  <2> QED
    BY <2>2, <2>3, <2>4
<1> QED
  BY <1>1, <1>2 DEF Useless, At, Wiring

LEMMA QuietWake ==
  ASSUME IInv, IInv', WakeInv, NEW th \in Thread, Away(th), Lands(th),
         stack[th] # <<>> => Useless(Top(th)),
         UNCHANGED <<status, parents, childs, ndep, counter, depStatus>>,
         \A d \in Dep : depChild'[d] => depChild[d],
         \A d \in Dep : d \notin Attached => depParent'[d] = depParent[d]
  PROVE  WakeInv'
<1>1. WiredOK /\ RecordsOK /\ LoadedOK /\ CountsOK
  BY DEF WakeInv
<1>2. ChildsGrow
  BY DEF ChildsGrow
<1>3. WiredOK'
  BY <1>1, <1>2, UselessTop, WiredKeeps
<1>4. RecordsOK'
  BY <1>1, RecordsKeep DEF Counted
<1>5. LoadedOK'
  BY <1>1, LoadedKeeps
<1>6. ASSUME NEW c \in Task
      PROVE  IsFiniteSet(Pending(c)') /\ CountOK(c)'
  <2>1. IsFiniteSet(Pending(c)) /\ CountOK(c)
    BY <1>1 DEF CountsOK
  <2>2. /\ Pending(c)' \subseteq Pending(c) \cup {th} /\ Pending(c) \ {th} \subseteq Pending(c)'
        /\ th \notin Pending(c)
    BY <1>2, PendingSets, UselessTop
  <2>3. CASE status[c] = DEPHOLD
    <3>1. Releasing(c) => Releasing(c)'
      <4> SUFFICES ASSUME NEW u \in Thread, At(u, "cas"), Top(u).t = c, Top(u).old = DEPHOLD
                   PROVE  Releasing(c)'
        BY DEF Releasing
      <4>1. u # th
        BY <2>3 DEF Useless, At
      <4> QED
        BY <4>1 DEF Releasing, At, Top, Away
    <3>2. Heard(c)' \subseteq Heard(c)
      <4> SUFFICES ASSUME NEW m \in 1..Len(parents[c]), Owed(c, m)
                   PROVE  Owed(c, m)'
        BY DEF Heard
      <4>1. parents[c][m] \in Dep
        BY ParentFacts
      <4>2. Telling(parents[c][m]) => Telling(parents[c][m])'
        BY <1>2, <4>1, UselessTop, TellingKeeps
      <4>3. Finding(c, m) => Finding(c, m)'
        BY UselessTop, FindingKeeps
      <4> QED
        BY <4>1, <4>2, <4>3, OwedKeeps
    <3> QED
      BY <2>1, <2>2, <3>1, <3>2, CountMade
  <2>4. CASE status[c] # DEPHOLD
    <3>1. IsFiniteSet(Pending(c)')
      BY <2>1, <2>2, Grown
    <3> QED
      BY <2>4, <3>1 DEF CountOK
  <2> QED
    BY <2>3, <2>4
<1> QED
  BY <1>3, <1>4, <1>5, <1>6 DEF WakeInv, CountsOK

-----------------------------------------------------------------------------
\* The actions that have no part in a notification.

Silent == UNCHANGED <<status, parents, childs, ndep, counter, depStatus, depChild, depParent>>

LEMMA SilentWake ==
  ASSUME IInv, IInv', WakeInv, NEW th \in Thread, stack[th] # <<>>, Useless(Top(th)), Silent,
         \/ Return(th)
         \/ \E pc \in Harmless : Step(th, pc)
         \/ \E pc \in Harmless, i \in Nat : StepTo(th, pc, i)
         \/ \E f \in Frame : Goto(th, f) /\ f.pc \in Harmless
         \/ \E g, f \in Frame : Call(th, g, f) /\ g.pc \in Harmless
         \/ stack' = stack /\ Top(th).pc \in Harmless
  PROVE  WakeInv'
  BY Leaves, QuietWake DEF Silent

LEMMA HarmlessLabels ==
  /\ Harmless \subseteq Label
  /\ {"cas", "notify", "act", "queue_job", "queue_push", "queue_inc", "pop", "ran", "handler",
      "commit", "commit_init", "wire", "load_parent", "retract", "retracted"} \subseteq Harmless
  /\ {"wait", "wait_stat", "wait_sched", "wait_loop", "wait_done",
      "add_lock", "add_check", "add_push", "rm_lock", "rm_check", "rm_detach",
      "create", "bar_lock", "bar_loop", "free_erase", "free_task"} \subseteq Harmless
  BY DEF Harmless, Label

LEMMA PlainUseless ==
  ASSUME NEW f, f.pc \notin Wiring \cup {"change", "notify", "cas"}
  PROVE  Useless(f)
  BY DEF Useless

LEMMA CasFailsWake ==
  ASSUME IInv, IInv', WakeInv, NEW th \in Thread, CasFails(th)
  PROVE  WakeInv'
<1>1. stack[th] # <<>> /\ Useless(Top(th)) /\ Return(th)
  BY DEF CasFails, At, Useless, Wiring
<1> QED
  BY <1>1, SilentWake DEF CasFails, task, dep, Silent

LEMMA NotifyEndsWake ==
  ASSUME IInv, IInv', WakeInv, NEW th \in Thread, NotifyEnds(th)
  PROVE  WakeInv'
<1>1. stack[th] # <<>> /\ Useless(Top(th)) /\ Step(th, "act") /\ "act" \in Harmless
  BY HarmlessLabels DEF NotifyEnds, At, Useless, Wiring
<1> QED
  BY <1>1, SilentWake DEF NotifyEnds, task, dep, Silent

LEMMA ActWake ==
  ASSUME IInv, IInv', WakeInv, NEW th \in Thread, ActReady(th) \/ ActFinal(th) \/ ActOther(th)
  PROVE  WakeInv'
<1>1. stack[th] # <<>> /\ Top(th).pc = "act"
  BY DEF ActReady, ActFinal, ActOther, At
<1>2. Useless(Top(th)) /\ Top(th) \in Frame /\ Top(th).t \in Task
  BY <1>1, PlainUseless, TopFacts DEF Wiring
<1>3. Silent
  BY DEF ActReady, ActFinal, ActOther, task, dep, Silent
<1>4. "cas" \in Harmless /\ "queue_job" \in Label /\ 0 \in Nat
      /\ {READY, QUEUE, FINAL, COMPLETED} \subseteq Status
  BY HarmlessLabels DEF Status, Label
<1>5. CASE ActReady(th)
  <2> DEFINE t == Top(th).t
             g == Update(t, READY, QUEUE)
             f == [Top(th) EXCEPT !.pc = "queue_job"]
             h == Update(t, READY, FINAL)
  <2>1. g \in Frame /\ g.pc = "cas" /\ h \in Frame /\ h.pc = "cas"
    BY <1>2, <1>4, Updates
  <2>2. f \in Frame
    BY <1>2, <1>4, PcFrame
  <2>3. Call(th, g, f) \/ Goto(th, h)
    BY <1>5 DEF ActReady
  <2> HIDE DEF g, f, h
  <2> QED
    BY <1>1, <1>2, <1>3, <1>4, <2>1, <2>2, <2>3, SilentWake
<1>6. CASE ActFinal(th)
  <2> DEFINE g == Update(Top(th).t, FINAL, COMPLETED)
  <2>1. g \in Frame /\ g.pc = "cas"
    BY <1>2, <1>4, Updates
  <2>2. Goto(th, g)
    BY <1>6 DEF ActFinal
  <2> HIDE DEF g
  <2> QED
    BY <1>1, <1>2, <1>3, <1>4, <2>1, <2>2, SilentWake
<1>7. CASE ActOther(th)
  BY <1>1, <1>2, <1>3, <1>7, SilentWake DEF ActOther
<1> QED
  BY <1>5, <1>6, <1>7

LEMMA QueueWake ==
  ASSUME IInv, IInv', WakeInv, NEW th \in Thread, Queue(th)
  PROVE  WakeInv'
<1>1. stack[th] # <<>> /\ Top(th).pc \in {"queue_job", "queue_push", "queue_inc"}
  BY DEF Queue, QueueJob, QueuePush, QueueInc, QueueFault, At
<1>2. Useless(Top(th)) /\ Top(th).pc \in Harmless
  BY <1>1, PlainUseless, HarmlessLabels DEF Wiring
<1>3. Silent
  BY DEF Queue, QueueJob, QueuePush, QueueInc, QueueFault, task, dep, Silent
<1>4. "queue_push" \in Harmless /\ "queue_inc" \in Harmless
  BY HarmlessLabels
<1>5. \/ Return(th) \/ Step(th, "queue_push") \/ Step(th, "queue_inc") \/ stack' = stack
  BY DEF Queue, QueueJob, QueuePush, QueueInc, QueueFault, local
<1> QED
  BY <1>1, <1>2, <1>3, <1>4, <1>5, SilentWake

LEMMA ScheduleWake ==
  ASSUME IInv, IInv', WakeInv, NEW th \in Thread, Schedule(th)
  PROVE  WakeInv'
<1>1. Silent
  BY DEF Schedule, SemDec, Pop, PopEmpty, Ran, HandlerReturns, task, dep, Silent
<1>2. "pop" \in Harmless /\ "cas" \in Harmless /\ "handler" \in Harmless
      /\ "ran" \in Label /\ "pop" \in Label
      /\ {QUEUE, RUNNING, FINAL, FAILED} \subseteq Status
  BY HarmlessLabels DEF Status, Label
<1>3. CASE SemDec(th)
  <2>1. AnyTask \in Task
    BY ConstantsAssumption DEF AnyTask
  <2>2. Scheduler(AnyTask) \in Frame /\ Scheduler(AnyTask).pc = "pop"
    BY <1>2, <2>1, Entered
  <2>3. PICK f \in Frame : f = Scheduler(AnyTask)
    BY <2>2
  <2>4. <<f>> \in Seq(Frame) /\ <<f>> # <<>> /\ <<f>>[1].pc = "pop"
    BY <2>2, <2>3
  <2>5. stack[th] = <<>> /\ stack' = [stack EXCEPT ![th] = <<f>>]
    BY <1>3, <2>3 DEF SemDec
  <2>6. Away(th) /\ Lands(th)
    BY <1>2, <2>4, <2>5, StartLeaves
  <2> QED
    BY <1>1, <2>5, <2>6, QuietWake DEF Silent
<1>4. CASE ~SemDec(th)
  <2>1. stack[th] # <<>> /\ Top(th).pc \in {"pop", "ran", "handler"}
    BY <1>4 DEF Schedule, Pop, PopEmpty, Ran, HandlerReturns, At
  <2>2. Useless(Top(th)) /\ Top(th) \in Frame /\ Top(th).pc \in Harmless /\ Top(th).t \in Task
        /\ Top(th).i \in Nat
    BY <2>1, PlainUseless, HarmlessLabels, TopFacts DEF Wiring
  <2>3. CASE Pop(th) /\ stack' # stack
    <3> DEFINE t == Head(queue[Top(th).i])
               g == Update(t, QUEUE, RUNNING)
               f == [Top(th) EXCEPT !.pc = "ran", !.t = t]
    <3>1. t \in Task
      <4>1. Top(th).i \in Level /\ queue[Top(th).i] # <<>>
        BY <2>2, <2>3, ConstantsAssumption DEF Pop, Level
      <4>2. queue[Top(th).i] \in Seq(Task)
        BY <4>1, InvParts DEF RestType
      <4> QED
        BY <4>1, <4>2, PopFacts
    <3>2. Call(th, g, f)
      BY <2>3 DEF Pop
    <3>3. g \in Frame /\ g.pc = "cas"
      BY <1>2, <3>1, Updates
    <3>4. f \in Frame
      BY <1>2, <2>2, <3>1 DEF Frame
    <3> HIDE DEF f, g
    <3> QED
      BY <1>1, <1>2, <2>1, <2>2, <3>2, <3>3, <3>4, SilentWake
  <2>4. CASE Pop(th) /\ stack' = stack
    BY <1>1, <2>1, <2>2, <2>4, SilentWake
  <2>5. CASE PopEmpty(th)
    <3>1. Return(th) \/ StepTo(th, "pop", Top(th).i + 1)
      BY <2>5 DEF PopEmpty
    <3>2. Top(th).i + 1 \in Nat
      BY <2>2
    <3> QED
      BY <1>1, <1>2, <2>1, <2>2, <3>1, <3>2, SilentWake
  <2>6. CASE Ran(th)
    <3>1. Step(th, "handler") \/ Step(th, "pop")
      BY <2>6 DEF Ran
    <3> QED
      BY <1>1, <1>2, <2>1, <2>2, <3>1, SilentWake
  <2>7. CASE HandlerReturns(th)
    <3> DEFINE g == Update(Top(th).t, RUNNING, FINAL)
               h == Update(Top(th).t, RUNNING, FAILED)
    <3>1. g \in Frame /\ g.pc = "cas" /\ h \in Frame /\ h.pc = "cas"
      BY <1>2, <2>2, Updates
    <3>2. Goto(th, g) \/ Goto(th, h)
      BY <2>7 DEF HandlerReturns
    <3> HIDE DEF g, h
    <3> QED
      BY <1>1, <1>2, <2>1, <2>2, <3>1, <3>2, SilentWake
  <2> QED
    BY <1>4, <2>3, <2>4, <2>5, <2>6, <2>7 DEF Schedule
<1> QED
  BY <1>3, <1>4

LEMMA CommitEndsWake ==
  ASSUME IInv, IInv', WakeInv, NEW th \in Thread, CommitRefused(th) \/ CommitSync(th)
  PROVE  WakeInv'
<1>1. stack[th] # <<>> /\ Top(th).pc = "commit"
  BY DEF CommitRefused, CommitSync, At
<1>2. Useless(Top(th))
  BY <1>1, PlainUseless DEF Wiring
<1>3. Silent
  BY DEF CommitRefused, CommitSync, task, dep, Silent
<1>4. "commit_init" \in Harmless /\ (Return(th) \/ Step(th, "commit_init"))
  BY HarmlessLabels DEF CommitRefused, CommitSync
<1> QED
  BY <1>1, <1>2, <1>3, <1>4, SilentWake

LEMMA RetractWake ==
  ASSUME IInv, IInv', WakeInv, NEW th \in Thread, Retract(th) \/ Retracted(th)
  PROVE  WakeInv'
<1>1. stack[th] # <<>> /\ Top(th).pc \in {"retract", "retracted"}
  BY DEF Retract, Retracted, At
<1>2. Useless(Top(th)) /\ Top(th) \in Frame /\ Top(th).t \in Task
  BY <1>1, PlainUseless, TopFacts DEF Wiring
<1>3. Silent
  BY DEF Retract, Retracted, task, dep, Silent
<1>4. "retract" \in Harmless /\ "retracted" \in Label /\ "cas" \in Harmless
      /\ 0 \in Nat /\ {DEPHOLD, READY, ABORTED} \subseteq Status
  BY HarmlessLabels DEF Status, Label
<1>5. CASE Retract(th)
  <2> DEFINE g == Update(Top(th).t, status[Top(th).t], ABORTED)
             f == [Top(th) EXCEPT !.pc = "retracted"]
  <2>1. f \in Frame
    BY <1>2, <1>4, PcFrame
  <2>2. CASE status[Top(th).t] \in {DEPHOLD, READY}
    <3>1. g \in Frame /\ g.pc = "cas"
      BY <1>2, <1>4, <2>2, Updates
    <3>2. Call(th, g, f)
      BY <1>5, <2>2 DEF Retract
    <3> HIDE DEF g, f
    <3> QED
      BY <1>1, <1>2, <1>3, <1>4, <2>1, <3>1, <3>2, SilentWake
  <2>3. CASE status[Top(th).t] \notin {DEPHOLD, READY}
    BY <1>1, <1>2, <1>3, <1>5, <2>3, SilentWake DEF Retract
  <2> QED
    BY <2>2, <2>3
<1>6. CASE Retracted(th)
  <2>1. Return(th) \/ Step(th, "retract")
    BY <1>6 DEF Retracted
  <2> QED
    BY <1>1, <1>2, <1>3, <1>4, <2>1, SilentWake
<1> QED
  BY <1>5, <1>6

LEMMA WaitsWake ==
  ASSUME IInv, IInv', WakeInv, NEW th \in Thread, Waits(th)
  PROVE  WakeInv'
<1>1. stack[th] # <<>>
      /\ Top(th).pc \in {"wait", "wait_stat", "wait_sched", "wait_loop", "wait_done"}
  BY DEF Waits, Wait, WaitStat, WaitSched, WaitLoop, WaitDone, At
<1>2. Useless(Top(th)) /\ Top(th) \in Frame /\ Top(th).t \in Task /\ Top(th).pc \in Harmless
  BY <1>1, PlainUseless, TopFacts, HarmlessLabels DEF Wiring
<1>3. Silent
  BY DEF Waits, Wait, WaitStat, WaitSched, WaitLoop, WaitDone, task, dep, Silent
<1>4. /\ {"wait_stat", "wait_sched", "wait_done", "pop"} \subseteq Harmless
      /\ {"wait_loop", "pop"} \subseteq Label /\ {0, 1} \subseteq Nat
  BY HarmlessLabels DEF Label
<1>5. CASE Wait(th)
  <2>1. \E i \in Nat : StepTo(th, "wait_stat", i)
    BY <1>4, <1>5 DEF Wait
  <2> QED
    BY <1>1, <1>2, <1>3, <1>4, <2>1, SilentWake
<1>6. CASE WaitStat(th)
  <2>1. \E pc \in {"wait_sched", "wait_done"} : Step(th, pc)
    BY <1>6 DEF WaitStat
  <2> QED
    BY <1>1, <1>2, <1>3, <1>4, <2>1, SilentWake
<1>7. CASE WaitSched(th)
  <2> DEFINE g == Scheduler(Top(th).t)
             f == [Top(th) EXCEPT !.pc = "wait_loop"]
  <2>1. g \in Frame /\ g.pc = "pop" /\ f \in Frame
    BY <1>2, <1>4, Entered, PcFrame
  <2>2. Call(th, g, f) \/ stack' = stack
    BY <1>7 DEF WaitSched
  <2> HIDE DEF g, f
  <2> QED
    BY <1>1, <1>2, <1>3, <1>4, <2>1, <2>2, SilentWake
<1>8. CASE WaitLoop(th)
  <2>1. \E pc \in {"wait_sched", "wait_done"} : Step(th, pc)
    BY <1>8 DEF WaitLoop
  <2> QED
    BY <1>1, <1>2, <1>3, <1>4, <2>1, SilentWake
<1>9. CASE WaitDone(th)
  BY <1>1, <1>2, <1>3, <1>9, SilentWake DEF WaitDone
<1> QED
  BY <1>5, <1>6, <1>7, <1>8, <1>9 DEF Waits

LEMMA BarrierWake ==
  ASSUME IInv, IInv', WakeInv, NEW th \in Thread, BarLock(th) \/ BarLoop(th)
  PROVE  WakeInv'
<1>1. stack[th] # <<>> /\ Top(th).pc \in {"bar_lock", "bar_loop"}
  BY DEF BarLock, BarLoop, At
<1>2. Useless(Top(th)) /\ Top(th) \in Frame /\ Top(th).t \in Task /\ Top(th).i \in Nat
  BY <1>1, PlainUseless, TopFacts DEF Wiring
<1>3. Silent
  BY DEF BarLock, BarLoop, task, dep, Silent
<1>4. "bar_loop" \in Harmless /\ "add_lock" \in Harmless /\ {"bar_loop", "add_lock"} \subseteq Label
  BY HarmlessLabels
<1>5. tasks \in Seq(Task)
  BY InvParts DEF RestType
<1>6. CASE BarLock(th)
  <2>n. PICK n \in Nat : n = Len(tasks)
    BY <1>5
  <2> DEFINE g == [Top(th) EXCEPT !.pc = "bar_loop", !.n = n]
  <2>1. g \in Frame /\ g.pc = "bar_loop"
    BY <1>2, <1>4 DEF Frame
  <2>2. Goto(th, g)
    BY <1>6, <2>n DEF BarLock
  <2> HIDE DEF g
  <2> QED
    BY <1>1, <1>2, <1>3, <1>4, <2>1, <2>2, SilentWake
<1>7. CASE BarLoop(th)
  <2> DEFINE pp == tasks[Top(th).i]
             next == [Top(th) EXCEPT !.i = @ + 1]
             g == Enter("add_lock", Top(th).t, pp)
  <2>1. next \in Frame /\ next.pc = "bar_loop"
    BY <1>1, <1>2, <1>7 DEF BarLoop, At, Frame
  <2>2. \/ Call(th, g, next) /\ pp \in Task
        \/ Goto(th, next)
        \/ Return(th)
    BY <1>2, <1>7, ConstantsAssumption DEF BarLoop
  <2>3. pp \in Task => g \in Frame /\ g.pc = "add_lock"
    BY <1>2, <1>4, Entered
  <2> HIDE DEF g, next, pp
  <2> QED
    BY <1>1, <1>2, <1>3, <1>4, <2>1, <2>2, <2>3, SilentWake
<1> QED
  BY <1>6, <1>7

LEMMA LockWake ==
  ASSUME IInv, IInv', WakeInv, NEW th \in Thread, ReadLock(th) \/ IdleCheck(th) \/ FreeErase(th)
  PROVE  WakeInv'
<1>1. stack[th] # <<>>
      /\ Top(th).pc \in {"add_lock", "rm_lock", "add_check", "rm_check", "free_erase"}
  BY DEF ReadLock, IdleCheck, FreeErase, At
<1>2. Useless(Top(th))
  BY <1>1, PlainUseless DEF Wiring
<1>3. Silent
  BY DEF ReadLock, IdleCheck, FreeErase, task, dep, Silent
<1>4. {"add_check", "rm_check", "add_push", "rm_detach", "free_task"} \subseteq Harmless
  BY HarmlessLabels
<1>5. Return(th) \/ \E pc \in {"add_check", "rm_check", "add_push", "rm_detach", "free_task"} :
                       Step(th, pc)
  BY DEF ReadLock, IdleCheck, FreeErase
<1> QED
  BY <1>1, <1>2, <1>3, <1>4, <1>5, SilentWake

\* rm_dep and free only take pointers away, those to a parent from the
\* dependencies it knows.
LEMMA RmDetachWake ==
  ASSUME IInv, IInv', WakeInv, NEW th \in Thread, RmDetach(th)
  PROVE  WakeInv'
<1>1. stack[th] # <<>> /\ Top(th).pc = "rm_detach" /\ Return(th)
  BY DEF RmDetach, At
<1>2. Useless(Top(th)) /\ Away(th) /\ Lands(th)
  BY <1>1, PlainUseless, ReturnAway DEF Wiring
<1>3. UNCHANGED <<status, parents, childs, ndep, counter, depStatus, depParent>>
  BY DEF RmDetach, task
<1>4. \A d \in Dep : depChild'[d] => depChild[d]
  <2>1. depChild \in [Dep -> BOOLEAN]
    BY InvParts DEF RestType
  <2>2. \E x, y : depChild' = [depChild EXCEPT ![x] = @ /\ y]
    BY DEF RmDetach
  <2> QED
    BY <2>1, <2>2
<1> QED
  BY <1>1, <1>2, <1>3, <1>4, QuietWake

LEMMA FreeTaskWake ==
  ASSUME IInv, IInv', WakeInv, NEW th \in Thread, FreeTask(th)
  PROVE  WakeInv'
<1>1. stack[th] # <<>> /\ Top(th).pc = "free_task" /\ Return(th)
  BY DEF FreeTask, At
<1>2. Useless(Top(th)) /\ Away(th) /\ Lands(th) /\ Top(th).t \in Task
  BY <1>1, PlainUseless, ReturnAway, TopFacts DEF Wiring
<1>3. UNCHANGED <<status, parents, childs, ndep, counter, depStatus>>
  BY DEF FreeTask, task
<1>t. PICK t \in Task : t = Top(th).t
  BY <1>2
<1>4. /\ depParent' = [d \in Dep |-> depParent[d] /\ d \notin {childs[t][i] : i \in DOMAIN childs[t]}]
      /\ depChild' = [d \in Dep |-> depChild[d] /\ d \notin {parents[t][i] : i \in DOMAIN parents[t]}]
  BY <1>t DEF FreeTask
<1>5. \A d \in Dep : depChild'[d] => depChild[d]
  BY <1>4
<1>6. ASSUME NEW d \in Dep, d \notin Attached
      PROVE  depParent'[d] = depParent[d]
  <2>1. childs[t] \in Seq(Dep) /\ depParent \in [Dep -> BOOLEAN]
    BY InvParts DEF GraphType, RestType
  <2>2. ASSUME NEW i \in DOMAIN childs[t], childs[t][i] = d PROVE FALSE
    <3>1. i \in 1..Len(childs[t])
      BY <2>1
    <3>2. d \in Attached
      BY <2>2, <3>1, ChildFacts
    <3> QED
      BY <1>6, <3>2
  <2> QED
    BY <1>4, <2>1, <2>2
<1> QED
  BY <1>1, <1>2, <1>3, <1>5, <1>6, QuietWake

LEMMA NextCallWake ==
  ASSUME IInv, IInv', WakeInv, NEW th \in Thread, NextCall(th)
  PROVE  WakeInv'
<1>1. stack[th] = <<>> /\ th \in App /\ script[th] # <<>>
  BY DEF NextCall
<1>2. PICK c \in ApiCall : c = Head(script[th])
  <2>1. script[th] \in Seq(ApiCall)
    BY <1>1, InvParts DEF RestType
  <2> QED
    BY <1>1, <2>1, PopFacts
<1>3. c.op \in Op /\ c.t \in Task /\ c.p \in Task
  BY DEF ApiCall
<1>4. stack' = [stack EXCEPT ![th] = Frames(c)]
  BY <1>2 DEF NextCall
<1>5. Silent
  BY DEF NextCall, task, dep, Silent
<1>6. {"cas", "create", "wait", "add_lock", "rm_lock", "free_erase", "retract"} \subseteq Harmless
      /\ {"commit", "create", "wait", "add_lock", "rm_lock", "free_erase", "retract"} \subseteq Label
      /\ IDLE \in Status /\ DEPHOLD \in Status
  BY HarmlessLabels DEF Label, Status
<1>7. Frames(c) \in Seq(Frame) /\ Frames(c) # <<>> /\ Frames(c)[1].pc \in Harmless
  <2>1. ASSUME NEW f \in Frame, f.pc \in Harmless, Frames(c) = <<f>>
        PROVE  Frames(c) \in Seq(Frame) /\ Frames(c) # <<>> /\ Frames(c)[1].pc \in Harmless
    BY <2>1
  <2>2. CASE c.op = "commit"
    <3> DEFINE g == Update(c.t, IDLE, DEPHOLD)
               f == Enter("commit", c.t, c.t)
    <3>1. g \in Frame /\ g.pc = "cas" /\ f \in Frame
      BY <1>3, <1>6, Updates, Entered
    <3>2. Frames(c) = <<g, f>>
      BY <2>2 DEF Frames
    <3> HIDE DEF g, f
    <3> QED
      BY <1>6, <3>1, <3>2
  <2>3. CASE c.op = "create_barrier"
    <3> DEFINE f == [Enter("create", c.t, c.t) EXCEPT !.n = 1]
    <3>1. f \in Frame /\ f.pc = "create"
      BY <1>3, <1>6 DEF Enter, Frame, Status
    <3>2. Frames(c) = <<f>>
      BY <2>3 DEF Frames
    <3> HIDE DEF f
    <3> QED
      BY <1>6, <2>1, <3>1, <3>2
  <2>4. CASE c.op = "wait_timed"
    <3> DEFINE f == [Enter("wait", c.t, c.t) EXCEPT !.n = 1]
    <3>1. f \in Frame /\ f.pc = "wait"
      BY <1>3, <1>6 DEF Enter, Frame, Status
    <3>2. Frames(c) = <<f>>
      BY <2>4 DEF Frames
    <3> HIDE DEF f
    <3> QED
      BY <1>6, <2>1, <3>1, <3>2
  <2>5. CASE c.op \notin {"commit", "create_barrier", "wait_timed"}
    <3>1. PICK pc \in {"create", "wait", "add_lock", "rm_lock", "free_erase", "retract"}, p \in Task :
            Frames(c) = <<Enter(pc, c.t, p)>>
      BY <1>3, <2>5 DEF Frames, Op
    <3>2. PICK f : f = Enter(pc, c.t, p)
      OBVIOUS
    <3>3. f \in Frame /\ f.pc = pc
      BY <1>3, <1>6, <3>2, Entered
    <3> QED
      BY <1>6, <2>1, <3>1, <3>2, <3>3
  <2> QED
    BY <2>2, <2>3, <2>4, <2>5
<1>8. Away(th) /\ Lands(th)
  BY <1>1, <1>4, <1>7, StartLeaves
<1> QED
  BY <1>1, <1>5, <1>8, QuietWake DEF Silent

-----------------------------------------------------------------------------
\* The steps of a notification and of a commit.

LEMMA EdgeEnds ==
  ASSUME NEW t \in Task, NEW o \in Status, NEW n \in Status, <<o, n>> \in Edge(t)
  PROVE  o < COMPLETED /\ (n = DEPHOLD => o = IDLE)
  BY DEF Edge, INVAL, IDLE, DEPHOLD, READY, QUEUE, RUNNING, FINAL, COMPLETED, ABORTED, FAILED

LEMMA AttachedAt ==
  ASSUME IInv, NEW d \in Attached
  PROVE  d[2] \in Task /\ \E k \in 1..Len(childs[d[2]]) : childs[d[2]][k] = d
<1>1. d \in Dep /\ d[2] \in Task
  BY DEF Attached, Dep
<1>2. childs[d[2]] \in Seq(Dep)
  BY <1>1, InvParts DEF GraphType
<1> QED
  BY <1>1, <1>2 DEF Attached

LEMMA CasWake ==
  ASSUME IInv, IInv', WakeInv, NEW th \in Thread, Cas(th)
  PROVE  WakeInv'
<1>1. stack[th] # <<>> /\ Top(th).pc = "cas"
  BY DEF Cas, At
<1>f. PICK f \in Frame : f = Top(th)
  BY <1>1, TopFacts
<1>2. /\ f.pc = "cas" /\ f.t \in Task /\ f.old \in Status /\ f.new \in Status
      /\ <<f.old, f.new>> \in Edge(f.t) /\ f.i = 1
  BY <1>1, <1>f, TopFacts DEF FrameOK, Updating
<1>3. status[f.t] = f.old /\ status' = [status EXCEPT ![f.t] = f.new]
      /\ UNCHANGED <<parents, childs, ndep, counter, dep>>
  BY <1>f DEF Cas
<1>4. f.old < COMPLETED /\ (f.new = DEPHOLD => f.old = IDLE)
  BY <1>2, EdgeEnds
<1>5. status \in [Task -> Status] /\ status'[f.t] = f.new
  BY <1>2, <1>3, InvParts DEF GraphType
<1>g. PICK g \in Frame : g = [f EXCEPT !.pc = "notify"]
  BY DEF Frame, Label
<1>6. g.pc = "notify" /\ g.t = f.t /\ g.new = f.new /\ g.i = 1
  BY <1>2, <1>g DEF Frame
<1>7. Away(th) /\ stack'[th] # <<>> /\ Head(stack'[th]) = g /\ Lands(th)
  <2>1. Goto(th, g)
    BY <1>f, <1>g DEF Cas, Step
  <2> QED
    BY <1>1, <1>6, <2>1, GotoAway, HarmlessLabels DEF Lands
<1>8. ChildsGrow
  BY <1>3 DEF ChildsGrow
<1>9. WiredOK /\ RecordsOK /\ LoadedOK /\ CountsOK
  BY DEF WakeInv
<1>10. WiredOK'
  BY <1>1, <1>3, <1>7, <1>8, <1>9, WiredKeeps DEF dep, At
<1>11. \A p \in Task : status[p] >= COMPLETED => status'[p] = status[p] /\ p # f.t
  BY <1>2, <1>3, <1>4, <1>5 DEF COMPLETED, Status, INVAL, IDLE, DEPHOLD, READY, QUEUE,
     RUNNING, FINAL, ABORTED, FAILED
<1>12. RecordsOK'
  <2>1. \A d \in Dep : d[2] \in Task /\ (depStatus[d] >= COMPLETED => status[d[2]] = depStatus[d])
    BY <1>9 DEF RecordsOK, Dep
  <2>2. \A d \in Dep : depStatus'[d] >= COMPLETED => status'[d[2]] = depStatus'[d]
    BY <1>3, <1>11, <2>1 DEF dep
  <2> QED
    BY <1>3, <1>9, <2>2 DEF RecordsOK, Counted, dep
<1>13. LoadedOK'
  BY <1>3, <1>7, <1>9, <1>11, LoadedKeeps DEF dep
<1>14. ASSUME NEW c \in Task
       PROVE  IsFiniteSet(Pending(c)') /\ CountOK(c)'
  <2>1. IsFiniteSet(Pending(c)) /\ CountOK(c)
    BY <1>9 DEF CountsOK
  <2>2. /\ Pending(c)' \subseteq Pending(c) \cup {th} /\ Pending(c) \ {th} \subseteq Pending(c)'
        /\ th \notin Pending(c)
    BY <1>1, <1>7, <1>8, PendingSets DEF At
  <2>3. IsFiniteSet(Pending(c)')
    BY <2>1, <2>2, Grown
  <2>4. CASE ~Counted(c)
    BY <1>3, <2>3, <2>4 DEF CountOK, Counted
  <2>5. CASE Counted(c) /\ c = f.t
    <3>1. status[c] >= DEPHOLD
      BY <2>5, InvParts DEF DepsOK, Begun
    <3>2. status'[c] # DEPHOLD
      BY <1>3, <1>4, <1>5, <2>5, <3>1 DEF IDLE, DEPHOLD
    <3> QED
      BY <2>3, <3>2 DEF CountOK
  <2>6. CASE Counted(c) /\ c # f.t
    <3>1. status'[c] = status[c]
      BY <1>3, <1>5, <2>6
    <3>2. Releasing(c) => Releasing(c)'
      <4> SUFFICES ASSUME NEW u \in Thread, At(u, "cas"), Top(u).t = c, Top(u).old = DEPHOLD
                   PROVE  Releasing(c)'
        BY DEF Releasing
      <4>1. u # th
        BY <1>f, <2>6
      <4> QED
        BY <1>7, <4>1 DEF Releasing, At, Top, Away
    <3>3. Heard(c)' \subseteq Heard(c)
      <4> SUFFICES ASSUME NEW m \in 1..Len(parents[c]), Owed(c, m)
                   PROVE  Owed(c, m)'
        BY <1>3 DEF Heard
      <4>d. PICK d \in Dep : d = parents[c][m] /\ d[2] \in Task
        BY ParentFacts
      <4>1. Telling(d) => Telling(d)'
        BY <1>1, <1>7, <1>8, TellingKeeps DEF Tells
      <4>2. Finding(c, m) => Finding(c, m)'
        BY <1>1, <1>7, FindingKeeps DEF Finds
      <4>3. CASE d[2] # f.t
        <5>1. status'[d[2]] = status[d[2]]
          BY <1>3, <1>5, <4>3, <4>d
        <5> QED
          BY <1>3, <4>1, <4>2, <4>d, <5>1, OwedKeeps DEF dep
      <4>4. CASE d[2] = f.t /\ f.new # COMPLETED
        BY <1>3, <1>5, <4>4, <4>d DEF Owed
      <4>5. CASE d[2] = f.t /\ f.new = COMPLETED
        <5>1. depStatus'[d] # COMPLETED
          BY <1>3, <1>4, <1>9, <4>5 DEF RecordsOK, dep, COMPLETED
        <5>2. Telling(d)' \/ Finding(c, m)'
          <6>1. CASE d \in Attached
            <7>1. PICK k \in 1..Len(childs[d[2]]) : childs[d[2]][k] = d
              BY <6>1, AttachedAt
            <7>2. childs[d[2]] \in Seq(Dep)
              BY <4>d, InvParts DEF GraphType
            <7>3. g.i <= k
              BY <1>6, <7>2
            <7>4. Tells(g, d)'
              BY <1>3, <1>6, <4>5, <7>1, <7>3 DEF Tells
            <7>5. stack'[th][1] = g /\ 1 \in 1..Len(stack'[th])
              <8>1. stack'[th] \in Seq(Frame)
                BY DEF IInv, TypeOK
              <8> QED
                BY <1>7, <8>1, PopFacts
            <7> QED
              BY <7>4, <7>5 DEF Telling, Tells
          <6>2. CASE d \notin Attached
            <7>1. PICK u \in Thread : At(u, "wire") /\ Top(u).t = c /\ Top(u).i <= m
              BY <1>9, <2>6, <4>d, <6>2 DEF WiredOK
            <7>2. u # th
              BY <1>1, <7>1 DEF At
            <7> QED
              BY <1>7, <7>1, <7>2 DEF Finding, Finds, At, Top, Away
          <6> QED
            BY <6>1, <6>2
        <5> QED
          BY <1>3, <4>d, <5>1, <5>2 DEF Owed
      <4> QED
        BY <4>3, <4>4, <4>5
    <3>4. counter'[c] = counter[c] /\ parents'[c] = parents[c] /\ ndep'[c] = ndep[c]
      BY <1>3
    <3> QED
      BY <2>1, <2>2, <3>1, <3>2, <3>3, <3>4, CountMade
  <2> QED
    BY <2>4, <2>5, <2>6
<1> QED
  BY <1>10, <1>12, <1>13, <1>14 DEF WakeInv, CountsOK

\* What an update in progress knows of an end it has reached.
LEMMA EndKnown ==
  ASSUME IInv, RunInv, NEW th \in Thread, stack[th] # <<>>, Top(th).pc \in Active
  PROVE  /\ Top(th).new >= COMPLETED => status[Top(th).t] = Top(th).new
         /\ status[Top(th).t] = COMPLETED => Top(th).new = COMPLETED
<1>f. PICK f \in Frame : f = Top(th) /\ f.pc \in Active /\ f.new \in Status /\ Sees(f)
  BY TopKnown, TopFacts
<1>1. f.pc \notin {"cas", "queue_push", "handler"}
  BY <1>f DEF Active, Updating
<1>2. Knows(f) = {f.new} \cup (IF f.new \in {DEPHOLD, READY} THEN {ABORTED} ELSE {})
  BY <1>f, <1>1 DEF Knows
<1>3. status[f.t] \in {f.new} \cup (IF f.new \in {DEPHOLD, READY} THEN {ABORTED} ELSE {})
  BY <1>f, <1>2 DEF Sees
<1> QED
  BY <1>f, <1>3 DEF Status, INVAL, IDLE, DEPHOLD, READY, QUEUE, RUNNING, FINAL, COMPLETED,
     ABORTED, FAILED

\* A step of a thread that is not about to release c releases it no less.
LEMMA ReleasingKeeps ==
  ASSUME NEW th \in Thread, Away(th), NEW c, Releasing(c),
         At(th, "cas") => Top(th).t # c
  PROVE  Releasing(c)'
<1>1. PICK u \in Thread : At(u, "cas") /\ Top(u).t = c /\ Top(u).old = DEPHOLD
  BY DEF Releasing
<1>2. u # th
  BY <1>1
<1> QED
  BY <1>1, <1>2 DEF Releasing, At, Top, Away

LEMMA NewTop ==
  ASSUME IInv', NEW th \in Thread, stack'[th] # <<>>, NEW g, Head(stack'[th]) = g
  PROVE  stack'[th][1] = g /\ 1 \in 1..Len(stack'[th])
<1>1. stack'[th] \in Seq(Frame)
  BY DEF IInv, TypeOK
<1> QED
  BY <1>1, PopFacts

LEMMA NotifyWake ==
  ASSUME IInv, IInv', RunInv, WakeInv, Told, Orderly, NEW th \in Thread, Notify(th)
  PROVE  WakeInv'
<1>1. stack[th] # <<>> /\ Top(th).pc = "notify"
  BY DEF Notify, At
<1>f. PICK f \in Frame : f = Top(th)
  BY <1>1, TopFacts
<1>2. /\ f.pc = "notify" /\ f.t \in Task /\ f.i \in Nat \ {0} /\ f.new \in Status
      /\ f.new = COMPLETED => status[f.t] = COMPLETED
      /\ f.new >= COMPLETED => status[f.t] = f.new
      /\ status[f.t] = COMPLETED => f.new = COMPLETED
  BY <1>1, <1>f, UpdatingFacts, EndKnown DEF Updating, Active
<1>3. f.i \in 1..Len(childs[f.t])
  <2>1. f.i <= Len(childs[f.t]) /\ childs[f.t] \in Seq(Dep)
    BY <1>2, <1>f, InvParts DEF Notify, GraphType
  <2> QED
    BY <1>2, <2>1
<1>d. PICK d \in Dep : d = childs[f.t][f.i] /\ d[1] \in Task /\ d[2] = f.t /\ Counted(d[1])
  BY <1>2, <1>3, ChildFacts
<1> DEFINE told  == depChild[d] /\ depStatus[d] < f.new
           hears == told /\ status[d[1]] = DEPHOLD /\ f.new \in Mask[d[1]]
<1>4. /\ depStatus' = [depStatus EXCEPT ![d] = IF told THEN f.new ELSE @]
      /\ IF hears THEN Step(th, "change") ELSE StepTo(th, "notify", f.i + 1)
      /\ UNCHANGED <<status, parents, childs, ndep, counter, depChild, depParent>>
  BY <1>f, <1>d DEF Notify, task
<1>5. depStatus \in [Dep -> Status]
  BY InvParts DEF RestType
<1>6. /\ told => depStatus'[d] = f.new
      /\ ~told => depStatus'[d] = depStatus[d]
      /\ \A e \in Dep : e # d => depStatus'[e] = depStatus[e]
  BY <1>4, <1>5
<1>g. PICK g \in Frame : g = IF hears THEN [f EXCEPT !.pc = "change"]
                             ELSE Moved(f, "notify", f.i + 1)
  <2>1. "change" \in Label /\ "notify" \in Label /\ f.i + 1 \in Nat
    BY <1>2 DEF Label
  <2> QED
    BY <2>1, PcFrame
<1>7. /\ g.t = f.t /\ g.new = f.new
      /\ hears => g.pc = "change" /\ g.i = f.i
      /\ ~hears => g.pc = "notify" /\ g.i = f.i + 1
  <2>1. "change" \in Label /\ "notify" \in Label /\ f.i + 1 \in Nat
    BY <1>2 DEF Label
  <2>2. hears => g = [f EXCEPT !.pc = "change"]
    BY <1>g
  <2>3. ~hears => g = Moved(f, "notify", f.i + 1)
    BY <1>g
  <2> HIDE DEF hears
  <2>4. CASE hears
    BY <2>2, <2>4 DEF Frame
  <2>5. CASE ~hears
    <3>1. g = Moved(f, "notify", f.i + 1)
      BY <2>3, <2>5
    <3> QED
      BY <2>5, <3>1 DEF Moved, Frame
  <2> QED
    BY <2>4, <2>5
<1>8. Away(th) /\ stack'[th] # <<>> /\ Head(stack'[th]) = g
  <2>1. Goto(th, g)
    BY <1>4, <1>f, <1>g DEF Step, StepTo, Moved
  <2> QED
    BY <1>1, <2>1, GotoAway
<1>9. ChildsGrow
  BY <1>4 DEF ChildsGrow
<1>10. WiredOK /\ RecordsOK /\ LoadedOK /\ CountsOK
  BY DEF WakeInv
<1>11. WiredOK'
  BY <1>1, <1>4, <1>8, <1>9, <1>10, WiredKeeps DEF At
<1>12. RecordsOK'
  <2>1. ASSUME NEW e \in Dep, depStatus'[e] >= COMPLETED
        PROVE  status'[e[2]] = depStatus'[e]
    <3>1. CASE e = d /\ told
      BY <1>2, <1>4, <1>6, <1>d, <2>1, <3>1
    <3>2. CASE e # d \/ ~told
      BY <1>4, <1>6, <1>10, <2>1, <3>2 DEF RecordsOK
    <3> QED
      BY <3>1, <3>2
  <2>2. ASSUME NEW c \in Task, ~Counted(c), NEW m \in 1..Len(parents[c])
        PROVE  depStatus'[parents[c][m]] < COMPLETED
    <3>1. parents[c][m] \in Dep /\ parents[c][m][1] = c
      BY ParentFacts
    <3>2. parents[c][m] # d
      BY <1>d, <2>2, <3>1
    <3> QED
      BY <1>6, <1>10, <2>2, <3>1, <3>2 DEF RecordsOK
  <2> QED
    BY <1>4, <2>1, <2>2 DEF RecordsOK, Counted
<1>13. LoadedOK'
  <2>1. Loaded(g)'
    BY <1>7 DEF Loaded
  <2>2. ASSUME NEW e \in Dep, status[e[2]] = COMPLETED
        PROVE  depStatus'[e] \in {depStatus[e], COMPLETED}
    BY <1>2, <1>6, <1>d, <2>2
  <2>3. \A u \in Thread : At(u, "check") => parents[Top(u).t][Top(u).i] \in Dep
    BY WiringFacts DEF At, Wiring
  <2> QED
    BY <1>4, <1>8, <1>10, <2>1, <2>2, <2>3, LoadedKeeps
<1>14. ASSUME NEW c \in Task
       PROVE  IsFiniteSet(Pending(c)') /\ CountOK(c)'
  <2>1. IsFiniteSet(Pending(c)) /\ CountOK(c)
    BY <1>10 DEF CountsOK
  <2>2. /\ Pending(c)' \subseteq Pending(c) \cup {th} /\ Pending(c) \ {th} \subseteq Pending(c)'
        /\ th \notin Pending(c)
    BY <1>1, <1>8, <1>9, PendingSets DEF At
  <2>3. Releasing(c) => Releasing(c)'
    BY <1>1, <1>8, ReleasingKeeps DEF At
  <2>4. counter'[c] = counter[c] /\ parents'[c] = parents[c] /\ ndep'[c] = ndep[c]
        /\ (status'[c] = DEPHOLD => status[c] = DEPHOLD)
    BY <1>4
  <2>5. ASSUME NEW m \in 1..Len(parents[c]), Owed(c, m),
               ~(parents[c][m] = d /\ told /\ f.new = COMPLETED)
        PROVE  Owed(c, m)'
    <3>e. PICK e \in Dep : e = parents[c][m] /\ e[2] \in Task
      BY ParentFacts
    <3>1. Finding(c, m) => Finding(c, m)'
      BY <1>1, <1>8, FindingKeeps DEF Finds
    <3>2. CASE ~depChild[e] \/ status[e[2]] # COMPLETED
      BY <1>4, <3>2, <3>e DEF Owed
    <3>3. CASE depChild[e] /\ status[e[2]] = COMPLETED
      <4>1. depStatus[e] # COMPLETED /\ (Telling(e) \/ Finding(c, m))
        BY <2>5, <3>3, <3>e DEF Owed
      <4>2. e # d \/ ~told
        BY <1>2, <1>d, <2>5, <3>3, <3>e
      <4>3. depStatus'[e] = depStatus[e]
        BY <1>6, <4>2
      <4>4. Telling(e) => Telling(e)'
        <5>1. CASE ~Tells(Top(th), e)
          BY <1>8, <1>9, <5>1, TellingKeeps
        <5>2. CASE Tells(Top(th), e)
          <6>1. PICK k \in 1..Len(childs[f.t]) : childs[f.t][k] = e /\ f.i <= k
            BY <1>2, <1>f, <5>2 DEF Tells
          <6>2. e[2] = f.t /\ f.new = COMPLETED
            BY <1>f, <5>2 DEF Tells
          <6>3. k # f.i
            <7>1. SUFFICES ASSUME k = f.i PROVE FALSE
              OBVIOUS
            <7>2. e = d /\ ~told /\ ~(depStatus[d] < COMPLETED)
              BY <1>d, <3>3, <4>2, <6>1, <6>2, <7>1
            <7>3. depStatus[d] >= COMPLETED
              BY <1>5, <7>2 DEF Status, INVAL, IDLE, DEPHOLD, READY, QUEUE, RUNNING, FINAL,
                 COMPLETED, ABORTED, FAILED
            <7>4. depStatus[d] = COMPLETED
              BY <1>10, <3>3, <7>2, <7>3 DEF RecordsOK
            <7> QED
              BY <4>1, <7>2, <7>4
          <6>4. (g.pc = "notify" /\ g.i <= k) \/ (g.pc = "change" /\ g.i < k)
            <7>1. k \in Nat
              BY <1>2, <6>1, ChildFacts
            <7>2. f.i < k /\ f.i + 1 <= k
              BY <1>2, <6>1, <6>3, <7>1
            <7>3. \/ g.pc = "change" /\ g.i = f.i
                  \/ g.pc = "notify" /\ g.i = f.i + 1
              BY <1>7
            <7> QED
              BY <7>2, <7>3
          <6>5. Tells(g, e)'
            BY <1>4, <1>7, <6>1, <6>2, <6>4 DEF Tells
          <6> QED
            BY <1>8, <6>5, NewTop DEF Telling, Tells
        <5> QED
          BY <5>1, <5>2
      <4> QED
        BY <1>4, <3>1, <3>e, <4>1, <4>3, <4>4 DEF Owed
    <3> QED
      BY <3>2, <3>3
  <2>6. CASE c = d[1] /\ told /\ f.new = COMPLETED /\ status[c] = DEPHOLD /\ HasHandler(c)
    <3>1. PICK m : \A k \in 1..Len(parents[c]) : parents[c][k] = d => k = m
      BY DEF Orderly
    <3>2. Heard(c)' \subseteq Heard(c) \cup {m}
      BY <1>4, <2>5, <3>1 DEF Heard
    <3>3. hears
      BY <2>6 DEF Told
    <3>4. th \in Pending(c)'
      BY <1>4, <1>7, <1>8, <1>d, <2>6, <3>3 DEF Pending, At, Top
    <3> QED
      BY <2>1, <2>2, <2>3, <2>4, <3>2, <3>4, CountMade
  <2>7. CASE c # d[1] \/ ~told \/ f.new # COMPLETED
    <3>1. Heard(c)' \subseteq Heard(c)
      <4> SUFFICES ASSUME NEW m \in 1..Len(parents[c]), Owed(c, m)
                   PROVE  Owed(c, m)'
        BY <1>4 DEF Heard
      <4>1. parents[c][m][1] = c
        BY ParentFacts
      <4> QED
        BY <2>5, <2>7, <4>1
    <3> QED
      BY <2>1, <2>2, <2>3, <2>4, <3>1, CountMade
  <2>8. CASE status[c] # DEPHOLD \/ ~HasHandler(c)
    <3>1. IsFiniteSet(Pending(c)')
      BY <2>1, <2>2, Grown
    <3> QED
      BY <1>4, <2>8, <3>1 DEF CountOK, HasHandler
  <2> QED
    BY <2>6, <2>7, <2>8
<1> QED
  BY <1>11, <1>12, <1>13, <1>14 DEF WakeInv, CountsOK

LEMMA VerdictIs ==
  ASSUME NEW c, NEW n \in Status
  PROVE  /\ Verdict(c, n) \in {DEPHOLD, READY, ABORTED}
         /\ n = COMPLETED /\ counter[c] = 1 => Verdict(c, n) = READY
         /\ READY # DEPHOLD /\ ABORTED # DEPHOLD
         /\ n >= COMPLETED /\ n # COMPLETED => Verdict(c, n) = ABORTED
  BY DEF Verdict, Status, INVAL, IDLE, DEPHOLD, READY, QUEUE, RUNNING, FINAL, COMPLETED,
     ABORTED, FAILED

LEMMA ChangeWake ==
  ASSUME IInv, IInv', WakeInv, NEW th \in Thread, Change(th)
  PROVE  WakeInv'
<1>1. stack[th] # <<>> /\ Top(th).pc = "change"
  BY DEF Change, At
<1>f. PICK f \in Frame : f = Top(th)
  BY <1>1, TopFacts
<1>2. f.pc = "change" /\ f.t \in Task /\ f.i \in Nat \ {0} /\ f.new \in Status
      /\ f.i \in 1..Len(childs[f.t])
  BY <1>1, <1>f, UpdatingFacts DEF Updating
<1>d. PICK d \in Dep : d = childs[f.t][f.i] /\ d[1] \in Task
  BY <1>2, ChildFacts
<1>v. PICK after \in {DEPHOLD, READY, ABORTED} : after = Verdict(d[1], f.new)
  BY <1>2, VerdictIs
<1>g. PICK g \in Frame : g = Moved(f, "notify", f.i + 1)
  <2>1. "notify" \in Label /\ f.i + 1 \in Nat
    BY <1>2 DEF Label
  <2> QED
    BY <2>1, PcFrame
<1>3. g.t = f.t /\ g.new = f.new /\ g.pc = "notify" /\ g.i = f.i + 1
  BY <1>g DEF Moved, Frame
<1>h. PICK h \in Frame : h = Update(d[1], DEPHOLD, after) /\ h.pc = "cas" /\ h.t = d[1]
                         /\ h.old = DEPHOLD
  <2>1. DEPHOLD \in Status /\ after \in Status
    BY DEF Status
  <2> QED
    BY <1>d, <2>1, Updates
<1>4. /\ counter' = [counter EXCEPT ![d[1]] = IF f.new = COMPLETED THEN @ - 1 ELSE @]
      /\ IF after = DEPHOLD THEN Goto(th, g) ELSE Call(th, h, g)
      /\ UNCHANGED <<status, parents, childs, ndep, depStatus, depChild, depParent>>
  <2>1. /\ StatusChange(d, f.new)
        /\ IF after = DEPHOLD
           THEN Goto(th, [f EXCEPT !.pc = "notify", !.i = @ + 1])
           ELSE Call(th, Update(d[1], DEPHOLD, after), [f EXCEPT !.pc = "notify", !.i = @ + 1])
        /\ UNCHANGED <<status, parents, childs, ndep, dep>>
    BY <1>f, <1>d, <1>v DEF Change
  <2>2. [f EXCEPT !.pc = "notify", !.i = @ + 1] = g
    BY <1>g DEF Moved
  <2> QED
    BY <1>h, <2>1, <2>2 DEF StatusChange, dep
<1>5. Away(th) /\ Lands(th) /\ \E k \in 1..Len(stack'[th]) : stack'[th][k] = g
  <2>1. CASE after = DEPHOLD
    <3>1. Away(th) /\ stack'[th] # <<>> /\ Head(stack'[th]) = g
      BY <1>1, <1>4, <2>1, GotoAway
    <3> QED
      BY <1>3, <3>1, NewTop, HarmlessLabels DEF Lands
  <2>2. CASE after # DEPHOLD
    <3>1. /\ Away(th) /\ stack'[th] # <<>> /\ Head(stack'[th]) = h
          /\ 2 \in 1..Len(stack'[th]) /\ stack'[th][2] = g
      BY <1>1, <1>4, <2>2, CallAway
    <3> QED
      BY <1>h, <3>1, HarmlessLabels DEF Lands
  <2> QED
    BY <2>1, <2>2
<1>6. after # DEPHOLD => Releasing(d[1])'
  <2> SUFFICES ASSUME after # DEPHOLD PROVE Releasing(d[1])'
    OBVIOUS
  <2>1. stack'[th] # <<>> /\ Head(stack'[th]) = h
    BY <1>1, <1>4, CallAway
  <2> QED
    BY <1>h, <2>1 DEF Releasing, At, Top
<1>7. ChildsGrow
  BY <1>4 DEF ChildsGrow
<1>8. WiredOK /\ RecordsOK /\ LoadedOK /\ CountsOK
  BY DEF WakeInv
<1>9. WiredOK'
  BY <1>1, <1>4, <1>5, <1>7, <1>8, WiredKeeps DEF At
<1>10. RecordsOK'
  BY <1>4, <1>8, RecordsKeep DEF Counted
<1>11. LoadedOK'
  BY <1>4, <1>5, <1>8, LoadedKeeps
<1>12. ASSUME NEW e \in Dep, Telling(e)
       PROVE  Telling(e)'
  <2>1. CASE ~Tells(Top(th), e)
    BY <1>5, <1>7, <1>12, <2>1, TellingKeeps
  <2>2. CASE Tells(Top(th), e)
    <3>1. PICK k \in 1..Len(childs[f.t]) : childs[f.t][k] = e /\ f.i < k
      BY <1>2, <1>f, <2>2 DEF Tells
    <3>2. e[2] = f.t /\ f.new = COMPLETED
      BY <1>f, <2>2 DEF Tells
    <3>3. k \in Nat
      BY <1>2, <3>1, ChildFacts
    <3>4. g.i <= k
      BY <1>2, <1>3, <3>1, <3>3
    <3>5. Tells(g, e)'
      BY <1>3, <1>4, <3>1, <3>2, <3>4 DEF Tells
    <3> QED
      BY <1>5, <3>5 DEF Telling, Tells
  <2> QED
    BY <2>1, <2>2
<1>13. ASSUME NEW c \in Task
       PROVE  IsFiniteSet(Pending(c)') /\ CountOK(c)'
  <2>1. IsFiniteSet(Pending(c)) /\ CountOK(c)
    BY <1>8 DEF CountsOK
  <2>2. /\ Pending(c)' \subseteq Pending(c) \cup {th} /\ Pending(c) \ {th} \subseteq Pending(c)'
        /\ th \in Pending(c) <=> f.new = COMPLETED /\ d[1] = c
    BY <1>1, <1>5, <1>7, <1>f, <1>d, PendingSets DEF At
  <2>3. Releasing(c) => Releasing(c)'
    BY <1>1, <1>5, ReleasingKeeps DEF At
  <2>4. parents'[c] = parents[c] /\ ndep'[c] = ndep[c]
        /\ (status'[c] = DEPHOLD => status[c] = DEPHOLD)
    BY <1>4
  <2>5. Heard(c)' \subseteq Heard(c)
    <3> SUFFICES ASSUME NEW m \in 1..Len(parents[c]), Owed(c, m)
                 PROVE  Owed(c, m)'
      BY <1>4 DEF Heard
    <3>e. PICK e \in Dep : e = parents[c][m]
      BY ParentFacts
    <3>1. Finding(c, m) => Finding(c, m)'
      BY <1>1, <1>5, FindingKeeps DEF Finds
    <3>2. Telling(e) => Telling(e)'
      BY <1>12
    <3> QED
      BY <1>4, <3>e, <3>1, <3>2, OwedKeeps
  <2>6. counter \in [Task -> Int]
    BY InvParts DEF RestType
  <2>7. CASE d[1] = c /\ f.new = COMPLETED
    <3>1. counter'[c] = counter[c] - 1
      BY <1>4, <2>6, <2>7
    <3>2. counter[c] = 1 => Releasing(c)'
      BY <1>2, <1>6, <1>v, <2>7, VerdictIs
    <3> QED
      BY <2>1, <2>2, <2>3, <2>4, <2>5, <3>1, <3>2, CountMade
  <2>8. CASE ~(d[1] = c /\ f.new = COMPLETED)
    <3>1. counter'[c] = counter[c]
      BY <1>4, <1>d, <2>6, <2>8
    <3> QED
      BY <2>1, <2>2, <2>3, <2>4, <2>5, <2>8, <3>1, CountMade
  <2> QED
    BY <2>7, <2>8
<1> QED
  BY <1>9, <1>10, <1>11, <1>13 DEF WakeInv, CountsOK

LEMMA CommitInitWake ==
  ASSUME IInv, IInv', RunInv, WakeInv, NEW th \in Thread, CommitInit(th)
  PROVE  WakeInv'
<1>1. stack[th] # <<>> /\ Top(th).pc = "commit_init"
  BY DEF CommitInit, At
<1>f. PICK f \in Frame : f = Top(th) /\ f.t \in Task
  BY <1>1, TopFacts
<1>t. PICK t \in Task : t = f.t
  BY <1>f
<1>n. PICK n \in Nat : n = Len(parents[t])
  BY InvParts DEF GraphType
<1>2. /\ ndep' = [ndep EXCEPT ![t] = n]
      /\ counter' = [counter EXCEPT ![t] = IF HasHandler(t) THEN n ELSE @]
      /\ IF n > 0 THEN StepTo(th, "wire", 1) ELSE Goto(th, Update(t, DEPHOLD, READY))
      /\ UNCHANGED <<status, parents, childs, depStatus, depChild, depParent>>
  BY <1>f, <1>t, <1>n DEF CommitInit, dep
<1>3. ndep \in [Task -> Nat \cup {-1}] /\ counter \in [Task -> Int]
  BY InvParts DEF GraphType, RestType
<1>4. ~Counted(t)
  <2>1. 1 \in 1..Len(stack[th]) /\ stack[th][1] = f
    <3>1. stack[th] \in Seq(Frame)
      BY InvParts, FramesType
    <3> QED
      BY <1>1, <1>f, <3>1, PopFacts DEF Top
  <2>2. f \in Commits(t) /\ f.pc \notin Wiring
    BY <1>1, <1>f, <1>t DEF Commits, Committing, Wiring
  <2> QED
    BY <2>1, <2>2 DEF RunInv, CommitsOK
<1>5. /\ ndep'[t] = n /\ \A c \in Task : c # t => ndep'[c] = ndep[c] /\ counter'[c] = counter[c]
      /\ HasHandler(t) => counter'[t] = n
  BY <1>2, <1>3
<1>6. /\ Away(th) /\ Lands(th) /\ stack'[th] # <<>>
      /\ n > 0 => Head(stack'[th]).pc = "wire" /\ Head(stack'[th]).t = t /\ Head(stack'[th]).i = 1
      /\ n = 0 => Head(stack'[th]).pc = "cas" /\ Head(stack'[th]).t = t
                     /\ Head(stack'[th]).old = DEPHOLD
  <2>1. CASE n > 0
    <3>1. PICK g \in Frame : g = Moved(f, "wire", 1)
      <4>1. "wire" \in Label /\ 1 \in Nat
        BY DEF Label
      <4> QED
        BY <4>1, PcFrame
    <3>2. g.pc = "wire" /\ g.t = t /\ g.i = 1
      BY <1>t, <3>1 DEF Moved, Frame
    <3>3. Goto(th, g)
      BY <1>2, <1>f, <2>1, <3>1 DEF StepTo, Moved
    <3> QED
      BY <1>1, <2>1, <3>2, <3>3, GotoAway, HarmlessLabels DEF Lands
  <2>2. CASE n = 0
    <3>1. DEPHOLD \in Status /\ READY \in Status
      BY DEF Status
    <3>2. PICK g \in Frame : g = Update(t, DEPHOLD, READY) /\ g.pc = "cas" /\ g.t = t /\ g.old = DEPHOLD
      BY <3>1, Updates
    <3>3. Goto(th, g)
      BY <1>2, <2>2, <3>2
    <3> QED
      BY <1>1, <2>2, <3>2, <3>3, GotoAway, HarmlessLabels DEF Lands
  <2> QED
    BY <2>1, <2>2
<1>7. ChildsGrow
  BY <1>2 DEF ChildsGrow
<1>8. WiredOK /\ RecordsOK /\ LoadedOK /\ CountsOK
  BY DEF WakeInv
<1>9. WiredOK'
  <2> SUFFICES ASSUME NEW c \in Task, NEW m \in 1..Len(parents[c])
               PROVE  /\ parents[c][m] \notin Attached => depParent[parents[c][m]]
                      /\ Counted(c)' =>
                           \/ parents[c][m] \in Attached
                           \/ \E u \in Thread : (At(u, "wire") /\ Top(u).t = c /\ Top(u).i <= m)'
    BY <1>2 DEF WiredOK, Attached
  <2>1. CASE c = t
    <3>1. n > 0 /\ m >= 1
      BY <1>n, <2>1
    <3>2. (At(th, "wire") /\ Top(th).t = c /\ Top(th).i <= m)'
      BY <1>6, <2>1, <3>1 DEF At, Top
    <3> QED
      BY <1>8, <3>2 DEF WiredOK
  <2>2. CASE c # t
    <3>1. Counted(c)' => Counted(c)
      BY <1>5, <2>2 DEF Counted
    <3>2. \A u \in Thread : At(u, "wire") /\ Top(u).t = c /\ Top(u).i <= m
                             => (At(u, "wire") /\ Top(u).t = c /\ Top(u).i <= m)'
      BY <1>1, <1>6 DEF At, Top, Away
    <3> QED
      BY <1>8, <3>1, <3>2 DEF WiredOK
  <2> QED
    BY <2>1, <2>2
<1>10. RecordsOK'
  <2>1. \A c \in Task : Counted(c) => Counted(c)'
    BY <1>5, <1>4 DEF Counted
  <2> QED
    BY <1>2, <1>8, <2>1, RecordsKeep
<1>11. LoadedOK'
  BY <1>2, <1>6, <1>8, LoadedKeeps
<1>12. ASSUME NEW c \in Task
       PROVE  IsFiniteSet(Pending(c)') /\ CountOK(c)'
  <2>1. IsFiniteSet(Pending(c)) /\ CountOK(c)
    BY <1>8 DEF CountsOK
  <2>2. /\ Pending(c)' \subseteq Pending(c) \cup {th} /\ Pending(c) \ {th} \subseteq Pending(c)'
        /\ th \notin Pending(c)
    BY <1>1, <1>6, <1>7, PendingSets DEF At
  <2>3. IsFiniteSet(Pending(c)') /\ Cardinality(Pending(c)') \in Nat
    BY <2>1, <2>2, Grown
  <2>4. CASE c = t /\ n = 0
    <3>1. Releasing(c)'
      BY <1>6, <2>4 DEF Releasing, At, Top
    <3> QED
      BY <2>3, <3>1 DEF CountOK
  <2>5. CASE c = t /\ n > 0
    <3>1. Heard(c)' = {}
      <4> SUFFICES ASSUME NEW m \in 1..Len(parents[c])
                   PROVE  Owed(c, m)'
        BY <1>2 DEF Heard
      <4>1. Finding(c, m)'
        BY <1>6, <2>5 DEF Finding, Finds, Top
      <4>2. depStatus'[parents'[c][m]] # COMPLETED
        BY <1>2, <1>4, <1>8, <2>5 DEF RecordsOK, COMPLETED
      <4> QED
        BY <4>1, <4>2 DEF Owed
    <3>2. Cardinality(Heard(c)') = 0
      BY <3>1, FS_EmptySet
    <3>3. HasHandler(c) => counter'[c] = n /\ ndep'[c] = n
      BY <1>5, <2>5
    <3>4. HasHandler(c) => /\ counter'[c] > 0
                           /\ Cardinality(Heard(c)') + counter'[c] <= ndep'[c] + Cardinality(Pending(c)')
      BY <2>3, <2>5, <3>2, <3>3
    <3> QED
      BY <2>3, <3>4 DEF CountOK, HasHandler
  <2>6. CASE c # t
    <3>1. Releasing(c) => Releasing(c)'
      BY <1>1, <1>6, ReleasingKeeps DEF At
    <3>2. parents'[c] = parents[c] /\ ndep'[c] = ndep[c] /\ counter'[c] = counter[c]
          /\ (status'[c] = DEPHOLD => status[c] = DEPHOLD)
      BY <1>2, <1>5, <2>6
    <3>3. Heard(c)' \subseteq Heard(c)
      <4> SUFFICES ASSUME NEW m \in 1..Len(parents[c]), Owed(c, m)
                   PROVE  Owed(c, m)'
        BY <1>2 DEF Heard
      <4>e. PICK e \in Dep : e = parents[c][m]
        BY ParentFacts
      <4>1. Finding(c, m) => Finding(c, m)'
        BY <1>1, <1>6, FindingKeeps DEF Finds
      <4>2. Telling(e) => Telling(e)'
        BY <1>1, <1>6, <1>7, TellingKeeps DEF Tells
      <4> QED
        BY <1>2, <4>e, <4>1, <4>2, OwedKeeps
    <3> QED
      BY <2>1, <2>2, <3>1, <3>2, <3>3, CountMade
  <2> QED
    BY <2>4, <2>5, <2>6
<1> QED
  BY <1>9, <1>10, <1>11, <1>12 DEF WakeInv, CountsOK

\* The end of a round of the second loop.
LEMMA NextDepAway ==
  ASSUME IInv, NEW th \in Thread, stack[th] # <<>>, Top(th).pc \in Wiring, NextDep(th),
         NEW f \in Frame, f = Top(th)
  PROVE  /\ Away(th) /\ Lands(th)
         /\ \A m \in 1..ndep[f.t] : m > f.i => Finding(f.t, m)'
<1>1. f.i \in Nat /\ ndep[f.t] \in Nat
  BY WiringFacts
<1>2. CASE f.i < ndep[f.t]
  <2>1. "load_parent" \in Label /\ f.i + 1 \in Nat
    BY <1>1 DEF Label
  <2>g. PICK g \in Frame : g = Moved(f, "load_parent", f.i + 1)
    BY <2>1, PcFrame
  <2>2. g.pc = "load_parent" /\ g.i = f.i + 1 /\ g.t = f.t
    BY <2>1, <2>g DEF Moved, Frame
  <2>3. Goto(th, g)
    BY <1>2, <2>g DEF NextDep, StepTo, Moved
  <2>4. Away(th) /\ stack'[th] # <<>> /\ Head(stack'[th]) = g
    BY <2>3, GotoAway
  <2>5. ASSUME NEW m \in 1..ndep[f.t], m > f.i
        PROVE  Finding(f.t, m)'
    <3>1. g.i <= m
      BY <1>1, <2>2, <2>5
    <3> QED
      BY <2>2, <2>4, <3>1 DEF Finding, Finds, Top
  <2> QED
    BY <2>2, <2>4, <2>5, HarmlessLabels DEF Lands
<1>3. CASE ~(f.i < ndep[f.t])
  <2>1. Return(th)
    BY <1>3 DEF NextDep
  <2>2. \A m \in 1..ndep[f.t] : ~(m > f.i)
    BY <1>1, <1>3
  <2> QED
    BY <2>1, <2>2, ReturnAway
<1> QED
  BY <1>2, <1>3

\* The steps of the second loop that change nothing but the frame.
LEMMA LookingWake ==
  ASSUME IInv, IInv', WakeInv, NEW th \in Thread, stack[th] # <<>>,
         Top(th).pc \in {"load_parent", "load_dep", "check"}, Away(th), Silent,
         NEW f \in Frame, f = Top(th),
         Lands(th) \/ \E g : Head(stack'[th]) = g /\ Loaded(g)',
         \A m \in 1..Len(parents[f.t]) :
            Finds(f, m) => \/ Finding(f.t, m)'
                           \/ status[parents[f.t][m][2]] # COMPLETED
                           \/ depStatus[parents[f.t][m]] = COMPLETED
  PROVE  WakeInv'
<1>1. WiredOK /\ RecordsOK /\ LoadedOK /\ CountsOK
  BY DEF WakeInv
<1>2. ChildsGrow
  BY DEF ChildsGrow, Silent
<1>3. WiredOK'
  BY <1>1, <1>2, WiredKeeps DEF At, Silent
<1>4. RecordsOK'
  BY <1>1, RecordsKeep DEF Counted, Silent
<1>5. LoadedOK'
  BY <1>1, LoadedKeeps DEF Silent
<1>6. ASSUME NEW c \in Task
      PROVE  IsFiniteSet(Pending(c)') /\ CountOK(c)'
  <2>1. IsFiniteSet(Pending(c)) /\ CountOK(c)
    BY <1>1 DEF CountsOK
  <2>2. /\ Pending(c)' \subseteq Pending(c) \cup {th} /\ Pending(c) \ {th} \subseteq Pending(c)'
        /\ th \notin Pending(c)
    BY <1>2, PendingSets DEF At
  <2>3. Releasing(c) => Releasing(c)'
    BY ReleasingKeeps DEF At
  <2>4. Heard(c)' \subseteq Heard(c)
    <3> SUFFICES ASSUME NEW m \in 1..Len(parents[c]), Owed(c, m)
                 PROVE  Owed(c, m)'
      BY DEF Heard, Silent
    <3>d. PICK d \in Dep : d = parents[c][m]
      BY ParentFacts
    <3>1. Telling(d) => Telling(d)'
      BY <1>2, TellingKeeps DEF Tells
    <3>2. CASE Finding(c, m) => Finding(c, m)'
      BY <3>1, <3>2, <3>d, OwedKeeps DEF Silent
    <3>3. CASE Finding(c, m) /\ ~Finding(c, m)'
      <4>1. f.t = c /\ Finds(f, m)
        BY <3>3, FindingKeeps
      <4>2. status[d[2]] # COMPLETED \/ depStatus[d] = COMPLETED
        BY <3>3, <3>d, <4>1
      <4> QED
        BY <3>d, <4>2 DEF Owed, Silent
    <3> QED
      BY <3>2, <3>3
  <2>5. counter'[c] = counter[c] /\ parents'[c] = parents[c] /\ ndep'[c] = ndep[c]
        /\ (status'[c] = DEPHOLD => status[c] = DEPHOLD)
    BY DEF Silent
  <2> QED
    BY <2>1, <2>2, <2>3, <2>4, <2>5, CountMade
<1> QED
  BY <1>3, <1>4, <1>5, <1>6 DEF WakeInv, CountsOK

LEMMA LoadParentWake ==
  ASSUME IInv, IInv', WakeInv, Orderly, NEW th \in Thread, LoadParent(th)
  PROVE  WakeInv'
<1>1. stack[th] # <<>> /\ Top(th).pc = "load_parent"
  BY DEF LoadParent, At
<1>f. PICK f \in Frame : f = Top(th) /\ f.pc = "load_parent"
  BY <1>1, TopFacts
<1>2. f.t \in Task /\ f.i \in Nat
  BY <1>1, <1>f, WiringFacts DEF Wiring
<1>d. PICK d \in Dep : d = parents[f.t][f.i] /\ d[2] \in Task
  BY <1>1, <1>f, WiringFacts DEF Wiring
<1>s. PICK s \in Status : s = status[d[2]]
  BY <1>d, InvParts DEF GraphType
<1>g. PICK g \in Frame : g = [f EXCEPT !.pc = "load_dep", !.new = s]
  BY DEF Frame, Label
<1>3. g.pc = "load_dep" /\ g.t = f.t /\ g.i = f.i /\ g.new = s
  BY <1>g DEF Frame
<1>4. depParent[d]
  BY <1>1, <1>f, <1>d DEF Orderly, At
<1>5. Goto(th, g) /\ Silent
  BY <1>f, <1>d, <1>s, <1>g, <1>4 DEF LoadParent, Silent, task, dep
<1>6. Away(th) /\ stack'[th] # <<>> /\ Head(stack'[th]) = g
  BY <1>1, <1>5, GotoAway
<1>7. Loaded(g)'
  BY <1>3, <1>5, <1>d, <1>s DEF Loaded, Silent
<1>8. ASSUME NEW m \in 1..Len(parents[f.t]), Finds(f, m)
      PROVE  Finding(f.t, m)' \/ status[parents[f.t][m][2]] # COMPLETED
  <2>1. f.i <= m /\ m \in Nat
    BY <1>2, <1>f, <1>8, ParentFacts DEF Finds
  <2>2. CASE f.i < m
    BY <1>3, <1>6, <2>2 DEF Finding, Finds, Top
  <2>3. CASE f.i = m
    BY <1>3, <1>6, <1>d, <1>s, <2>3 DEF Finding, Finds, Top
  <2> QED
    BY <1>2, <2>1, <2>2, <2>3
<1> QED
  BY <1>1, <1>5, <1>6, <1>7, <1>8, <1>f, LookingWake

LEMMA LoadDepWake ==
  ASSUME IInv, IInv', WakeInv, NEW th \in Thread, LoadDep(th)
  PROVE  WakeInv'
<1>1. stack[th] # <<>> /\ Top(th).pc = "load_dep"
  BY DEF LoadDep, At
<1>f. PICK f \in Frame : f = Top(th) /\ f.pc = "load_dep"
  BY <1>1, TopFacts
<1>d. PICK d \in Dep : d = parents[f.t][f.i]
  BY <1>1, <1>f, WiringFacts DEF Wiring
<1>s. PICK s \in Status : s = depStatus[d]
  BY <1>d, InvParts DEF RestType
<1>g. PICK g \in Frame : g = [f EXCEPT !.pc = "check", !.old = s]
  BY DEF Frame, Label
<1>3. g.pc = "check" /\ g.t = f.t /\ g.i = f.i /\ g.new = f.new /\ g.old = s
  BY <1>g DEF Frame
<1>5. Goto(th, g) /\ Silent
  BY <1>f, <1>d, <1>s, <1>g DEF LoadDep, Silent, task, dep
<1>6. Away(th) /\ stack'[th] # <<>> /\ Head(stack'[th]) = g
  BY <1>1, <1>5, GotoAway
<1>7. Loaded(g)'
  <2>1. Loaded(f)
    BY <1>1, <1>f DEF WakeInv, LoadedOK
  <2> QED
    BY <1>3, <1>5, <1>d, <1>f, <1>s, <2>1 DEF Loaded, Silent
<1>8. \A m : Finds(f, m) => Finding(f.t, m)'
  BY <1>3, <1>6, <1>f DEF Finding, Finds, Top
<1> QED
  BY <1>1, <1>5, <1>6, <1>7, <1>8, <1>f, LookingWake

\* Only one thread looks at the dependencies of a task.
LEMMA OneCommit ==
  ASSUME IInv, RunInv, NEW th \in Thread, NEW u \in Thread, stack[th] # <<>>, stack[u] # <<>>,
         Top(th).pc \in Wiring, Top(u).pc \in Wiring, Top(u).t = Top(th).t
  PROVE  u = th
<1>1. stack \in [Thread -> Seq(Frame)]
  BY InvParts, FramesType
<1>2. /\ 1 \in 1..Len(stack[th]) /\ stack[th][1] = Top(th)
      /\ 1 \in 1..Len(stack[u]) /\ stack[u][1] = Top(u)
  BY <1>1, PopFacts DEF Top
<1>t. PICK t \in Task : t = Top(th).t
  BY TopFacts
<1>3. Top(th) \in Commits(t) /\ Top(u) \in Commits(t)
  BY <1>t, TopFacts DEF Commits, Committing
<1> QED
  BY <1>2, <1>3 DEF RunInv, CommitsOK, One

LEMMA CheckWake ==
  ASSUME IInv, IInv', RunInv, WakeInv, Told, Orderly, NEW th \in Thread, Check(th)
  PROVE  WakeInv'
<1>1. stack[th] # <<>> /\ Top(th).pc = "check"
  BY DEF Check, At
<1>f. PICK f \in Frame : f = Top(th) /\ f.pc = "check"
  BY <1>1, TopFacts
<1>d. PICK d \in Dep : d = parents[f.t][f.i] /\ d[1] = f.t /\ d[2] \in Task
  BY <1>1, <1>f, WiringFacts DEF Wiring
<1>2. /\ f.t \in Task /\ f.i \in Nat /\ f.new \in Status /\ Counted(f.t)
      /\ ndep[f.t] = Len(parents[f.t])
  <2>1. f.t \in Task /\ f.i \in Nat /\ Counted(f.t)
    BY <1>1, <1>f, WiringFacts DEF Wiring
  <2> QED
    BY <1>1, <1>f, <2>1, TopFacts, InvParts DEF DepsOK
<1>3. /\ f.new >= COMPLETED => status[d[2]] = f.new
      /\ f.new = COMPLETED => depStatus[d] \in {f.old, COMPLETED}
  BY <1>1, <1>f, <1>d DEF WakeInv, LoadedOK, Loaded
<1>v. PICK after \in {DEPHOLD, READY, ABORTED} : after = Verdict(f.t, f.new)
  BY <1>2, VerdictIs
<1>4. /\ UNCHANGED <<status, parents, childs, ndep, depChild, depParent>>
      /\ IF depStatus[d] = f.old
         THEN /\ depStatus' = [depStatus EXCEPT ![d] = f.new]
              /\ IF f.new \in Mask[f.t]
                 THEN /\ counter' = [counter EXCEPT ![f.t] = IF f.new = COMPLETED THEN @ - 1 ELSE @]
                      /\ IF after = DEPHOLD THEN NextDep(th)
                                            ELSE Goto(th, Update(f.t, DEPHOLD, after))
                 ELSE counter' = counter /\ NextDep(th)
         ELSE counter' = counter /\ NextDep(th) /\ UNCHANGED depStatus
  BY <1>f, <1>d, <1>v DEF Check, StatusChange, NoStatusChange
<1>5. NextDep(th) => /\ Away(th) /\ Lands(th)
                     /\ \A m \in 1..Len(parents[f.t]) : m > f.i => Finding(f.t, m)'
  BY <1>1, <1>2, <1>f, NextDepAway DEF Wiring
<1>6. CASE depStatus[d] # f.old
  <2>1. ASSUME NEW m \in 1..Len(parents[f.t]), Finds(f, m)
        PROVE  Finding(f.t, m)' \/ depStatus[parents[f.t][m]] = COMPLETED
    <3>1. f.i < m \/ (f.i = m /\ f.new = COMPLETED)
      BY <1>f, <2>1 DEF Finds
    <3>2. CASE f.i < m
      <4>1. m > f.i
        BY <1>2, <3>2, ParentFacts
      <4> QED
        BY <1>4, <1>5, <1>6, <4>1
    <3>3. CASE f.i = m /\ f.new = COMPLETED
      BY <1>3, <1>6, <1>d, <3>3
    <3> QED
      BY <3>1, <3>2, <3>3
  <2>2. Silent /\ Away(th) /\ Lands(th)
    BY <1>4, <1>5, <1>6 DEF Silent
  <2> QED
    BY <1>1, <1>f, <2>1, <2>2, LookingWake
<1>7. CASE depStatus[d] = f.old
  <2>1. depStatus \in [Dep -> Status] /\ counter \in [Task -> Int]
    BY InvParts DEF RestType
  <2>2. depStatus'[d] = f.new /\ \A e \in Dep : e # d => depStatus'[e] = depStatus[e]
    BY <1>4, <1>7, <2>1
  <2>3. /\ \A c \in Task : c # f.t => counter'[c] = counter[c]
        /\ f.new # COMPLETED => counter'[f.t] = counter[f.t]
        /\ f.new = COMPLETED /\ f.new \in Mask[f.t] => counter'[f.t] = counter[f.t] - 1
    <3>1. CASE f.new \in Mask[f.t]
      BY <1>2, <1>4, <1>7, <2>1, <3>1
    <3>2. CASE f.new \notin Mask[f.t]
      BY <1>4, <1>7, <3>2
    <3> QED
      BY <3>1, <3>2
  <2>4. /\ Away(th) /\ Lands(th)
        /\ NextDep(th) \/ (f.new \in Mask[f.t] /\ after # DEPHOLD /\ Releasing(f.t)')
        /\ f.new \in Mask[f.t] /\ after # DEPHOLD => Releasing(f.t)'
    <3>1. CASE f.new \in Mask[f.t] /\ after # DEPHOLD
      <4>h. PICK h \in Frame : h = Update(f.t, DEPHOLD, after) /\ h.pc = "cas" /\ h.t = f.t
                               /\ h.old = DEPHOLD
        <5>1. DEPHOLD \in Status /\ after \in Status
          BY DEF Status
        <5> QED
          BY <1>2, <5>1, Updates
      <4>1. Goto(th, h)
        BY <1>4, <1>7, <3>1, <4>h
      <4>2. Away(th) /\ stack'[th] # <<>> /\ Head(stack'[th]) = h
        BY <1>1, <4>1, GotoAway
      <4>3. Lands(th)
        BY <4>h, <4>2, HarmlessLabels DEF Lands
      <4>4. Releasing(f.t)'
        BY <4>h, <4>2 DEF Releasing, At, Top
      <4> QED
        BY <3>1, <4>2, <4>3, <4>4
    <3>2. CASE ~(f.new \in Mask[f.t] /\ after # DEPHOLD)
      <4>1. NextDep(th)
        BY <1>4, <1>7, <3>2
      <4> QED
        BY <1>5, <3>2, <4>1
    <3> QED
      BY <3>1, <3>2
  <2>5. ChildsGrow
    BY <1>4 DEF ChildsGrow
  <2>6. WiredOK /\ RecordsOK /\ LoadedOK /\ CountsOK
    BY DEF WakeInv
  <2>7. WiredOK'
    BY <1>1, <1>4, <2>4, <2>5, <2>6, WiredKeeps DEF At
  <2>8. RecordsOK'
    <3>1. \A e \in Dep : depStatus'[e] >= COMPLETED => status'[e[2]] = depStatus'[e]
      BY <1>3, <1>4, <2>2, <2>6 DEF RecordsOK
    <3>2. ASSUME NEW c \in Task, ~Counted(c), NEW m \in 1..Len(parents[c])
          PROVE  depStatus'[parents[c][m]] < COMPLETED
      <4>1. parents[c][m] \in Dep /\ parents[c][m][1] = c
        BY ParentFacts
      <4>2. parents[c][m] # d
        BY <1>2, <1>d, <3>2, <4>1
      <4> QED
        BY <2>2, <2>6, <3>2, <4>1, <4>2 DEF RecordsOK
    <3> QED
      BY <1>4, <3>1, <3>2 DEF RecordsOK, Counted
  <2>9. LoadedOK'
    <3>1. ASSUME NEW u \in Thread, u # th, At(u, "check")
          PROVE  depStatus'[parents[Top(u).t][Top(u).i]] = depStatus[parents[Top(u).t][Top(u).i]]
      <4>1. stack[u] # <<>> /\ Top(u).pc \in Wiring
        BY <3>1 DEF At, Wiring
      <4>2. Top(u).t # f.t
        BY <1>1, <1>f, <3>1, <4>1, OneCommit DEF Wiring
      <4>3. parents[Top(u).t][Top(u).i] \in Dep /\ parents[Top(u).t][Top(u).i][1] = Top(u).t
        BY <4>1, WiringFacts
      <4> QED
        BY <1>d, <2>2, <4>2, <4>3
    <3> QED
      BY <1>4, <2>4, <2>6, <3>1, LoadedKeeps
  <2>10. ASSUME NEW c \in Task
         PROVE  IsFiniteSet(Pending(c)') /\ CountOK(c)'
    <3>1. IsFiniteSet(Pending(c)) /\ CountOK(c)
      BY <2>6 DEF CountsOK
    <3>2. /\ Pending(c)' \subseteq Pending(c) \cup {th} /\ Pending(c) \ {th} \subseteq Pending(c)'
          /\ th \notin Pending(c)
      BY <1>1, <2>4, <2>5, PendingSets DEF At
    <3>3. Releasing(c) => Releasing(c)'
      BY <1>1, <2>4, ReleasingKeeps DEF At
    <3>4. parents'[c] = parents[c] /\ ndep'[c] = ndep[c]
          /\ (status'[c] = DEPHOLD => status[c] = DEPHOLD)
      BY <1>4
    <3>5. ASSUME NEW m \in 1..Len(parents[c]), Owed(c, m),
                 c # f.t \/ NextDep(th), ~(c = f.t /\ m = f.i /\ f.new = COMPLETED)
          PROVE  Owed(c, m)'
      <4>e. PICK e \in Dep : e = parents[c][m] /\ e[1] = c /\ m \in Nat
        BY ParentFacts
      <4>1. Telling(e) => Telling(e)'
        BY <1>1, <2>4, <2>5, TellingKeeps DEF Tells
      <4>2. Finding(c, m) => Finding(c, m)'
        <5>1. CASE c = f.t /\ Finds(f, m)
          <6>1. f.i < m
            BY <1>f, <3>5, <5>1 DEF Finds
          <6>2. m > f.i
            BY <1>2, <4>e, <6>1
          <6> QED
            BY <1>5, <3>5, <5>1, <6>2
        <5>2. CASE ~(c = f.t /\ Finds(f, m))
          BY <1>f, <2>4, <5>2, FindingKeeps
        <5> QED
          BY <5>1, <5>2
      <4>3. depStatus[e] # COMPLETED => depStatus'[e] # COMPLETED
        <5>1. CASE e # d
          BY <2>2, <5>1
        <5>2. CASE e = d
          <6>1. c = f.t
            BY <1>d, <4>e, <5>2
          <6>2. CASE f.new # COMPLETED
            BY <2>2, <5>2, <6>2
          <6>3. CASE f.new = COMPLETED
            <7>1. f.i \in 1..Len(parents[c])
              BY <1>1, <1>2, <1>f, <6>1, WiringFacts DEF Wiring
            <7>2. \A k, l \in 1..Len(parents[c]) : parents[c][k] = parents[c][l] => k = l
              BY DEF Orderly
            <7>3. parents[c][m] = parents[c][f.i]
              BY <1>d, <4>e, <5>2, <6>1
            <7>4. m = f.i
              BY <7>1, <7>2, <7>3
            <7> QED
              BY <3>5, <6>1, <6>3, <7>4
          <6> QED
            BY <6>2, <6>3
        <5> QED
          BY <5>1, <5>2
      <4> QED
        BY <1>4, <3>5, <4>e, <4>1, <4>2, <4>3 DEF Owed
    <3>6. CASE c # f.t
      <4>1. Heard(c)' \subseteq Heard(c)
        BY <1>4, <3>5, <3>6 DEF Heard
      <4> QED
        BY <2>3, <3>1, <3>2, <3>3, <3>4, <3>6, <4>1, CountMade
    <3>7. CASE c = f.t /\ ~HasHandler(c)
      <4>1. IsFiniteSet(Pending(c)')
        BY <3>1, <3>2, Grown
      <4> QED
        BY <3>7, <4>1 DEF CountOK, HasHandler
    <3>8. CASE c = f.t /\ Releasing(c)'
      BY <3>1, <3>2, <3>3, <3>4, <3>8, CountMade
    <3>9. CASE c = f.t /\ HasHandler(c) /\ ~Releasing(c)'
      <4>1. NextDep(th)
        BY <2>4, <3>9
      <4>2. CASE f.new # COMPLETED
        <5>1. Heard(c)' \subseteq Heard(c)
          BY <1>4, <3>5, <4>1, <4>2 DEF Heard
        <5> QED
          BY <2>3, <3>1, <3>2, <3>3, <3>4, <3>9, <4>2, <5>1, CountMade
      <4>3. CASE f.new = COMPLETED
        <5>m. PICK m : m = f.i
          OBVIOUS
        <5>1. Heard(c)' \subseteq Heard(c) \cup {m}
          BY <1>4, <3>5, <4>1, <5>m DEF Heard
        <5>2. f.new \in Mask[f.t]
          BY <3>9, <4>3 DEF Told
        <5>3. counter'[c] = counter[c] - 1
          BY <2>3, <3>9, <4>3, <5>2
        <5>4. counter[c] # 1
          BY <1>2, <1>v, <2>4, <3>9, <4>3, <5>2, VerdictIs
        <5> QED
          BY <3>1, <3>2, <3>3, <3>4, <5>1, <5>3, <5>4, CountMade
      <4> QED
        BY <4>2, <4>3
    <3> QED
      BY <3>6, <3>7, <3>8, <3>9
  <2> QED
    BY <2>7, <2>8, <2>9, <2>10 DEF WakeInv, CountsOK
<1> QED
  BY <1>6, <1>7

LEMMA WireWake ==
  ASSUME IInv, IInv', WakeInv, NEW th \in Thread, Wire(th)
  PROVE  WakeInv'
<1>1. stack[th] # <<>> /\ Top(th).pc = "wire"
  BY DEF Wire, At
<1>f. PICK f \in Frame : f = Top(th) /\ f.pc = "wire"
  BY <1>1, TopFacts
<1>d. PICK d \in Dep : d = parents[f.t][f.i] /\ d[1] = f.t /\ d[2] \in Task
  BY <1>1, <1>f, WiringFacts DEF Wiring
<1>2. /\ f.t \in Task /\ f.i \in Nat /\ Counted(f.t) /\ ndep[f.t] \in Nat
      /\ ndep[f.t] = Len(parents[f.t])
  <2>1. f.t \in Task /\ f.i \in Nat /\ Counted(f.t) /\ ndep[f.t] \in Nat
    BY <1>1, <1>f, WiringFacts DEF Wiring
  <2> QED
    BY <2>1, InvParts DEF DepsOK
<1>3. /\ childs' = IF depParent[d] THEN [childs EXCEPT ![d[2]] = Append(@, d)] ELSE childs
      /\ IF f.i < ndep[f.t] THEN StepTo(th, "wire", f.i + 1) ELSE StepTo(th, "load_parent", 1)
      /\ UNCHANGED <<status, parents, ndep, counter, depStatus, depChild, depParent>>
  BY <1>f, <1>d DEF Wire, dep
<1>g. PICK g \in Frame : g = IF f.i < ndep[f.t] THEN Moved(f, "wire", f.i + 1)
                                                ELSE Moved(f, "load_parent", 1)
  <2>1. "wire" \in Label /\ "load_parent" \in Label /\ f.i + 1 \in Nat /\ 1 \in Nat
    BY <1>2 DEF Label
  <2> QED
    BY <2>1, PcFrame
<1>4. /\ g.t = f.t
      /\ f.i < ndep[f.t] => g.pc = "wire" /\ g.i = f.i + 1
      /\ ~(f.i < ndep[f.t]) => g.pc = "load_parent" /\ g.i = 1
  <2>1. CASE f.i < ndep[f.t]
    BY <1>g, <2>1 DEF Moved, Frame
  <2>2. CASE ~(f.i < ndep[f.t])
    BY <1>g, <2>2 DEF Moved, Frame
  <2> QED
    BY <2>1, <2>2
<1>5. Away(th) /\ stack'[th] # <<>> /\ Head(stack'[th]) = g /\ Lands(th)
  <2>1. Goto(th, g)
    BY <1>3, <1>f, <1>g DEF StepTo, Moved
  <2> QED
    BY <1>1, <1>4, <2>1, GotoAway, HarmlessLabels DEF Lands
<1>6. childs \in [Task -> Seq(Dep)] /\ childs' \in [Task -> Seq(Dep)]
  <2>1. childs \in [Task -> Seq(Dep)]
    BY InvParts DEF GraphType
  <2>2. childs' \in [Task -> Seq(Dep)]
    BY DEF IInv, TypeOK
  <2> QED
    BY <2>1, <2>2
<1>7. ChildsGrow
  <2> SUFFICES ASSUME NEW p \in Task, NEW k \in 1..Len(childs[p])
               PROVE  k \in 1..Len(childs'[p]) /\ childs'[p][k] = childs[p][k]
    BY DEF ChildsGrow
  <2>s. PICK s \in Seq(Dep) : s = childs[p]
    BY <1>6
  <2>1. childs'[p] = s \/ childs'[p] = Append(s, d)
    BY <1>3, <1>6, <2>s
  <2>2. k \in 1..Len(s)
    BY <2>s
  <2>3. k \in 1..Len(Append(s, d)) /\ Append(s, d)[k] = s[k]
    BY <2>2
  <2> QED
    BY <2>1, <2>2, <2>3, <2>s
<1>8. depParent[d] => d \in Attached'
  <2> SUFFICES ASSUME depParent[d] PROVE d \in Attached'
    OBVIOUS
  <2>0. childs[d[2]] \in Seq(Dep)
    BY <1>6, <1>d, Zenon
  <2>s. PICK s \in Seq(Dep) : s = childs[d[2]]
    BY <2>0, Zenon
  <2>1. childs'[d[2]] = Append(s, d)
    BY <1>3, <1>6, <1>d, <2>s, Zenon
  <2>2. Len(s) + 1 \in DOMAIN Append(s, d) /\ Append(s, d)[Len(s) + 1] = d
    OBVIOUS
  <2> QED
    BY <2>1, <2>2 DEF Attached
<1>9. WiredOK /\ RecordsOK /\ LoadedOK /\ CountsOK
  BY DEF WakeInv
<1>10. WiredOK'
  <2> SUFFICES ASSUME NEW c \in Task, NEW m \in 1..Len(parents[c])
               PROVE  /\ parents[c][m] \notin Attached' => depParent[parents[c][m]]
                      /\ Counted(c) =>
                           \/ parents[c][m] \in Attached'
                           \/ \E u \in Thread : (At(u, "wire") /\ Top(u).t = c /\ Top(u).i <= m)'
    BY <1>3 DEF WiredOK, Counted
  <2>1. Attached \subseteq Attached'
    BY <1>7, AttachedGrows
  <2>2. parents[c][m] \notin Attached' => depParent[parents[c][m]]
    BY <1>9, <2>1 DEF WiredOK
  <2>3. ASSUME Counted(c), parents[c][m] \notin Attached'
        PROVE  \E u \in Thread : (At(u, "wire") /\ Top(u).t = c /\ Top(u).i <= m)'
    <3>1. PICK u \in Thread : At(u, "wire") /\ Top(u).t = c /\ Top(u).i <= m
      BY <1>9, <2>1, <2>3 DEF WiredOK
    <3>2. CASE u # th
      BY <1>5, <3>1, <3>2 DEF At, Top, Away
    <3>3. CASE u = th
      <4>1. f.t = c /\ f.i <= m /\ m \in Nat
        BY <1>f, <3>1, <3>3, ParentFacts
      <4>2. f.i # m
        BY <1>8, <1>d, <2>2, <2>3, <4>1
      <4>3. f.i < ndep[f.t] /\ f.i + 1 <= m
        BY <1>2, <4>1, <4>2
      <4> QED
        BY <1>4, <1>5, <4>1, <4>3 DEF At, Top
    <3> QED
      BY <3>2, <3>3
  <2> QED
    BY <2>2, <2>3
<1>11. RecordsOK'
  BY <1>3, <1>9, RecordsKeep DEF Counted
<1>12. LoadedOK'
  BY <1>3, <1>5, <1>9, LoadedKeeps
<1>13. ASSUME NEW c \in Task
       PROVE  IsFiniteSet(Pending(c)') /\ CountOK(c)'
  <2>1. IsFiniteSet(Pending(c)) /\ CountOK(c)
    BY <1>9 DEF CountsOK
  <2>2. /\ Pending(c)' \subseteq Pending(c) \cup {th} /\ Pending(c) \ {th} \subseteq Pending(c)'
        /\ th \notin Pending(c)
    BY <1>1, <1>5, <1>7, PendingSets DEF At
  <2>3. Releasing(c) => Releasing(c)'
    BY <1>1, <1>5, ReleasingKeeps DEF At
  <2>4. counter'[c] = counter[c] /\ parents'[c] = parents[c] /\ ndep'[c] = ndep[c]
        /\ (status'[c] = DEPHOLD => status[c] = DEPHOLD)
    BY <1>3
  <2>5. Heard(c)' \subseteq Heard(c)
    <3> SUFFICES ASSUME NEW m \in 1..Len(parents[c]), Owed(c, m)
                 PROVE  Owed(c, m)'
      BY <1>3 DEF Heard
    <3>e. PICK e \in Dep : e = parents[c][m] /\ m \in Nat \ {0}
      BY ParentFacts
    <3>1. Telling(e) => Telling(e)'
      BY <1>1, <1>5, <1>7, TellingKeeps DEF Tells
    <3>2. Finding(c, m) => Finding(c, m)'
      <4>1. CASE f.t = c
        <5>1. Finds(g, m)'
          BY <1>4, <3>e DEF Finds
        <5> QED
          BY <1>4, <1>5, <4>1, <5>1 DEF Finding, Finds, Top
      <4>2. CASE f.t # c
        BY <1>5, <1>f, <4>2, FindingKeeps
      <4> QED
        BY <4>1, <4>2
    <3> QED
      BY <1>3, <3>1, <3>2, <3>e, OwedKeeps
  <2> QED
    BY <2>1, <2>2, <2>3, <2>4, <2>5, CountMade
<1> QED
  BY <1>10, <1>11, <1>12, <1>13 DEF WakeInv, CountsOK

LEMMA CreateWake ==
  ASSUME IInv, IInv', WakeInv, NEW th \in Thread, Create(th)
  PROVE  WakeInv'
<1>1. stack[th] # <<>> /\ Top(th).pc = "create"
  BY DEF Create, At
<1>t. PICK t \in Task : t = Top(th).t
  BY <1>1, TopFacts
<1>2. /\ status[t] = INVAL /\ status' = [status EXCEPT ![t] = IDLE]
      /\ Return(th) \/ Step(th, "bar_lock")
      /\ UNCHANGED <<parents, childs, ndep, counter, depStatus, depChild, depParent>>
  BY <1>t DEF Create, dep
<1>3. Away(th) /\ Lands(th)
  <2>1. "bar_lock" \in Harmless
    BY HarmlessLabels
  <2> QED
    BY <1>1, <1>2, <2>1, Leaves
<1>4. status \in [Task -> Status]
  BY InvParts DEF GraphType
<1>5. status'[t] = IDLE /\ \A p \in Task : p # t => status'[p] = status[p]
  BY <1>2, <1>4
<1>6. IDLE # COMPLETED /\ IDLE # DEPHOLD /\ ~(INVAL >= COMPLETED)
  BY DEF INVAL, IDLE, DEPHOLD, COMPLETED
<1>7. \A p \in Task : status[p] >= COMPLETED => status'[p] = status[p]
  BY <1>2, <1>5, <1>6
<1>8. ChildsGrow
  BY <1>2 DEF ChildsGrow
<1>9. WiredOK /\ RecordsOK /\ LoadedOK /\ CountsOK
  BY DEF WakeInv
<1>10. WiredOK'
  BY <1>1, <1>2, <1>3, <1>8, <1>9, WiredKeeps DEF At
<1>11. RecordsOK'
  <2>1. \A d \in Dep : depStatus'[d] >= COMPLETED => status'[d[2]] = depStatus'[d]
    <3> SUFFICES ASSUME NEW d \in Dep, depStatus[d] >= COMPLETED
                 PROVE  status'[d[2]] = depStatus[d]
      BY <1>2
    <3>1. d[2] \in Task /\ status[d[2]] = depStatus[d]
      BY <1>9 DEF RecordsOK, Dep
    <3> QED
      BY <1>7, <3>1
  <2> QED
    BY <1>2, <1>9, <2>1 DEF RecordsOK, Counted
<1>12. LoadedOK'
  BY <1>2, <1>3, <1>7, <1>9, LoadedKeeps
<1>13. ASSUME NEW c \in Task
       PROVE  IsFiniteSet(Pending(c)') /\ CountOK(c)'
  <2>1. IsFiniteSet(Pending(c)) /\ CountOK(c)
    BY <1>9 DEF CountsOK
  <2>2. /\ Pending(c)' \subseteq Pending(c) \cup {th} /\ Pending(c) \ {th} \subseteq Pending(c)'
        /\ th \notin Pending(c)
    BY <1>1, <1>3, <1>8, PendingSets DEF At
  <2>3. Releasing(c) => Releasing(c)'
    BY <1>1, <1>3, ReleasingKeeps DEF At
  <2>4. counter'[c] = counter[c] /\ parents'[c] = parents[c] /\ ndep'[c] = ndep[c]
        /\ (status'[c] = DEPHOLD => status[c] = DEPHOLD)
    BY <1>2, <1>5, <1>6
  <2>5. Heard(c)' \subseteq Heard(c)
    <3> SUFFICES ASSUME NEW m \in 1..Len(parents[c]), Owed(c, m)
                 PROVE  Owed(c, m)'
      BY <1>2 DEF Heard
    <3>e. PICK e \in Dep : e = parents[c][m] /\ e[2] \in Task
      BY ParentFacts
    <3>1. Telling(e) => Telling(e)'
      BY <1>1, <1>3, <1>8, TellingKeeps DEF Tells
    <3>2. Finding(c, m) => Finding(c, m)'
      BY <1>1, <1>3, FindingKeeps DEF Finds
    <3>3. CASE e[2] = t
      BY <1>2, <1>5, <1>6, <3>3, <3>e DEF Owed
    <3>4. CASE e[2] # t
      <4>1. status'[e[2]] = status[e[2]]
        BY <1>5, <3>4, <3>e
      <4> QED
        BY <1>2, <3>1, <3>2, <3>e, <4>1, OwedKeeps
    <3> QED
      BY <3>3, <3>4
  <2> QED
    BY <2>1, <2>2, <2>3, <2>4, <2>5, CountMade
<1> QED
  BY <1>10, <1>11, <1>12, <1>13 DEF WakeInv, CountsOK

LEMMA AddPushWake ==
  ASSUME IInv, IInv', WakeInv, NEW th \in Thread, AddPush(th)
  PROVE  WakeInv'
<1>1. stack[th] # <<>> /\ Top(th).pc = "add_push" /\ Return(th)
  BY DEF AddPush, At
<1>t. PICK t \in Task, p \in Task : t = Top(th).t /\ p = Top(th).p
  BY <1>1, TopFacts
<1>0. <<t, p>> \in Dep /\ <<t, p>>[1] = t
  BY DEF Dep
<1>d. PICK d \in Dep : d = <<t, p>> /\ d[1] = t
  BY <1>0
<1>2. ~Counted(t)
  BY <1>1, <1>t, InvParts DEF StackOK, PushOK
<1>3. /\ parents' = [parents EXCEPT ![t] = Append(@, d)]
      /\ depStatus' = [depStatus EXCEPT ![d] = INVAL]
      /\ depChild' = [depChild EXCEPT ![d] = TRUE]
      /\ depParent' = [depParent EXCEPT ![d] = TRUE]
      /\ UNCHANGED <<status, childs, ndep, counter>>
  BY <1>t, <1>d DEF AddPush
<1>4. Away(th) /\ Lands(th)
  BY <1>1, ReturnAway
<1>5. /\ parents \in [Task -> Seq(Dep)] /\ depStatus \in [Dep -> Status]
      /\ depChild \in [Dep -> BOOLEAN] /\ depParent \in [Dep -> BOOLEAN]
  BY InvParts DEF GraphType, RestType
<1>6. /\ \A c \in Task : c # t => parents'[c] = parents[c]
      /\ \A e \in Dep : e # d => /\ depStatus'[e] = depStatus[e] /\ depChild'[e] = depChild[e]
                                 /\ depParent'[e] = depParent[e]
      /\ depStatus'[d] = INVAL /\ depParent'[d]
  BY <1>3, <1>5
<1>7. ASSUME NEW c \in Task, NEW m \in 1..Len(parents'[c]), parents'[c][m] # d
      PROVE  m \in 1..Len(parents[c]) /\ parents'[c][m] = parents[c][m]
  <2>s. PICK s \in Seq(Dep) : s = parents[c]
    BY <1>5
  <2>1. CASE c # t
    BY <1>6, <1>7, <2>1
  <2>2. CASE c = t
    <3>1. parents'[c] = Append(s, d)
      BY <1>3, <1>5, <2>2, <2>s
    <3>2. m \in 1..Len(s) /\ Append(s, d)[m] = s[m]
      BY <1>7, <3>1
    <3> QED
      BY <2>s, <3>1, <3>2
  <2> QED
    BY <2>1, <2>2
<1>8. \A c \in Task : Counted(c) => c # t /\ parents'[c] = parents[c]
  BY <1>2, <1>6
<1>9. ASSUME NEW c \in Task, NEW m \in 1..Len(parents'[c]), parents'[c][m] = d
      PROVE  c = t
  BY <1>9, <1>d DEF IInv, DepsOK
<1>10. WiredOK /\ RecordsOK /\ LoadedOK /\ CountsOK
  BY DEF WakeInv
<1>11. ChildsGrow /\ Attached' = Attached
  BY <1>3 DEF ChildsGrow, Attached
<1>12. WiredOK'
  <2> SUFFICES ASSUME NEW c \in Task, NEW m \in 1..Len(parents'[c])
               PROVE  /\ parents'[c][m] \notin Attached => depParent'[parents'[c][m]]
                      /\ Counted(c) =>
                           \/ parents'[c][m] \in Attached
                           \/ \E u \in Thread : (At(u, "wire") /\ Top(u).t = c /\ Top(u).i <= m)'
    BY <1>3, <1>11 DEF WiredOK, Counted
  <2>1. CASE parents'[c][m] = d
    BY <1>2, <1>6, <1>9, <2>1
  <2>2. CASE parents'[c][m] # d
    <3>e. PICK e \in Dep : m \in 1..Len(parents[c]) /\ parents'[c][m] = e /\ parents[c][m] = e
      BY <1>7, <2>2, ParentFacts
    <3>1. e # d /\ depParent'[e] = depParent[e]
      BY <1>6, <2>2, <3>e
    <3>2. \A u \in Thread : At(u, "wire") /\ Top(u).t = c /\ Top(u).i <= m
                             => (At(u, "wire") /\ Top(u).t = c /\ Top(u).i <= m)'
      BY <1>1, <1>4 DEF At, Top, Away
    <3> QED
      BY <1>10, <3>1, <3>2, <3>e DEF WiredOK
  <2> QED
    BY <2>1, <2>2
<1>13. RecordsOK'
  <2>0. ~(INVAL >= COMPLETED) /\ INVAL < COMPLETED
    BY DEF INVAL, COMPLETED
  <2>1. \A e \in Dep : depStatus'[e] >= COMPLETED => status'[e[2]] = depStatus'[e]
    BY <1>3, <1>6, <1>10, <2>0 DEF RecordsOK
  <2>2. ASSUME NEW c \in Task, ~Counted(c), NEW m \in 1..Len(parents'[c])
        PROVE  depStatus'[parents'[c][m]] < COMPLETED
    <3>1. CASE parents'[c][m] = d
      BY <1>6, <2>0, <3>1
    <3>2. CASE parents'[c][m] # d
      <4>e. PICK e \in Dep : m \in 1..Len(parents[c]) /\ parents'[c][m] = e /\ parents[c][m] = e
        BY <1>7, <3>2, ParentFacts
      <4> QED
        BY <1>6, <1>10, <2>2, <3>2, <4>e DEF RecordsOK
    <3> QED
      BY <3>1, <3>2
  <2> QED
    BY <1>3, <2>1, <2>2 DEF RecordsOK, Counted
<1>14. LoadedOK'
  <2>1. ASSUME NEW u \in Thread, At(u, "check")
        PROVE  depStatus'[parents[Top(u).t][Top(u).i]] = depStatus[parents[Top(u).t][Top(u).i]]
    <3>1. /\ Top(u).t \in Task /\ Counted(Top(u).t) /\ parents[Top(u).t][Top(u).i] \in Dep
          /\ parents[Top(u).t][Top(u).i][1] = Top(u).t
      BY <2>1, WiringFacts DEF At, Wiring
    <3> QED
      BY <1>d, <1>6, <1>8, <3>1
  <2> QED
    BY <1>3, <1>4, <1>8, <1>10, <2>1, LoadedKeeps
<1>15. ASSUME NEW c \in Task
       PROVE  IsFiniteSet(Pending(c)') /\ CountOK(c)'
  <2>1. IsFiniteSet(Pending(c)) /\ CountOK(c)
    BY <1>10 DEF CountsOK
  <2>2. /\ Pending(c)' \subseteq Pending(c) \cup {th} /\ Pending(c) \ {th} \subseteq Pending(c)'
        /\ th \notin Pending(c)
    BY <1>1, <1>4, <1>11, PendingSets DEF At
  <2>3. CASE ~Counted(c)
    <3>1. IsFiniteSet(Pending(c)')
      BY <2>1, <2>2, Grown
    <3> QED
      BY <1>3, <2>3, <3>1 DEF CountOK, Counted
  <2>4. CASE Counted(c)
    <3>1. c # t /\ parents'[c] = parents[c]
      BY <1>8, <2>4
    <3>2. Releasing(c) => Releasing(c)'
      BY <1>1, <1>4, ReleasingKeeps DEF At
    <3>3. counter'[c] = counter[c] /\ ndep'[c] = ndep[c]
          /\ (status'[c] = DEPHOLD => status[c] = DEPHOLD)
      BY <1>3
    <3>4. Heard(c)' \subseteq Heard(c)
      <4> SUFFICES ASSUME NEW m \in 1..Len(parents[c]), Owed(c, m)
                   PROVE  Owed(c, m)'
        BY <3>1 DEF Heard
      <4>e. PICK e \in Dep : e = parents[c][m] /\ e[1] = c
        BY ParentFacts
      <4>1. e # d
        BY <1>d, <3>1, <4>e
      <4>2. Telling(e) => Telling(e)'
        BY <1>1, <1>4, <1>11, TellingKeeps DEF Tells
      <4>3. Finding(c, m) => Finding(c, m)'
        BY <1>1, <1>4, FindingKeeps DEF Finds
      <4> QED
        BY <1>3, <1>6, <3>1, <4>1, <4>2, <4>3, <4>e, OwedKeeps
    <3> QED
      BY <2>1, <2>2, <3>1, <3>2, <3>3, <3>4, CountMade
  <2> QED
    BY <2>3, <2>4
<1> QED
  BY <1>12, <1>13, <1>14, <1>15 DEF WakeInv, CountsOK

LEMMA WakeStutter ==
  ASSUME WakeInv, UNCHANGED vars
  PROVE  WakeInv'
<1>1. UNCHANGED <<status, parents, childs, ndep, counter, depStatus, depChild, depParent, stack>>
  BY DEF vars, task, dep, local
<1>2. WiredOK /\ RecordsOK /\ LoadedOK /\ CountsOK
  BY DEF WakeInv
<1>3. WiredOK' /\ RecordsOK'
  BY <1>1, <1>2 DEF WiredOK, RecordsOK, Attached, At, Top, Counted
<1>4. LoadedOK'
  BY <1>1, <1>2 DEF LoadedOK, Loaded, Top
<1>5. ASSUME NEW c \in Task
      PROVE  IsFiniteSet(Pending(c)') /\ CountOK(c)'
  <2>1. Pending(c)' = Pending(c) /\ (Releasing(c)' <=> Releasing(c))
    BY <1>1 DEF Pending, Releasing, At, Top
  <2>2. ASSUME NEW m PROVE Owed(c, m)' <=> Owed(c, m)
    <3>1. Finding(c, m)' <=> Finding(c, m)
      BY <1>1 DEF Finding, Finds, Top
    <3>2. Telling(parents[c][m])' <=> Telling(parents[c][m])
      BY <1>1 DEF Telling, Tells
    <3> QED
      BY <1>1, <3>1, <3>2 DEF Owed
  <2>3. Heard(c)' = Heard(c)
    BY <1>1, <2>2 DEF Heard
  <2>4. IsFiniteSet(Pending(c)) /\ CountOK(c)
    BY <1>2 DEF CountsOK
  <2> QED
    BY <1>1, <2>1, <2>3, <2>4 DEF CountOK, Counted, HasHandler
<1> QED
  BY <1>3, <1>4, <1>5 DEF WakeInv, CountsOK

LEMMA InitWake == Init => WakeInv
<1> SUFFICES ASSUME Init PROVE WakeInv
  OBVIOUS
<1>1. /\ \A th \in Thread : stack[th] = <<>>
      /\ \A c \in Task : 1..Len(parents[c]) = {} /\ ~Counted(c)
      /\ \A d \in Dep : depStatus[d] = INVAL
  BY DEF Init, Counted
<1>2. ~(INVAL >= COMPLETED)
  BY DEF INVAL, COMPLETED
<1>3. \A c \in Task : Pending(c) = {}
  BY <1>1 DEF Pending, At
<1>4. CountsOK
  BY <1>1, <1>3, FS_EmptySet DEF CountsOK, CountOK
<1> QED
  BY <1>1, <1>2, <1>4 DEF WakeInv, WiredOK, RecordsOK, LoadedOK

LEMMA StepWake ==
  ASSUME IInv, IInv', RunInv, WakeInv, Told, Orderly, NEW th \in Thread, Run(th)
  PROVE  WakeInv'
<1>1. CASE UpdateStatus(th)
  BY <1>1, CasWake, CasFailsWake, NotifyWake, ChangeWake, NotifyEndsWake, ActWake
     DEF UpdateStatus
<1>2. CASE Queue(th) \/ Schedule(th)
  BY <1>2, QueueWake, ScheduleWake
<1>3. CASE Commit(th)
  BY <1>3, CommitEndsWake, CommitInitWake, WireWake, LoadParentWake, LoadDepWake, CheckWake
     DEF Commit
<1>4. CASE Retract(th) \/ Retracted(th) \/ Waits(th)
  BY <1>4, RetractWake, WaitsWake
<1>5. CASE Depend(th)
  BY <1>5, LockWake, AddPushWake, RmDetachWake DEF Depend
<1>6. CASE Create(th) \/ BarLock(th) \/ BarLoop(th)
  BY <1>6, CreateWake, BarrierWake
<1>7. CASE FreeErase(th) \/ FreeTask(th) \/ NextCall(th)
  BY <1>7, LockWake, FreeTaskWake, NextCallWake
<1> QED
  BY <1>1, <1>2, <1>3, <1>4, <1>5, <1>6, <1>7 DEF Run

LEMMA NextWake == IInv /\ RunInv /\ WakeInv /\ Told /\ Orderly /\ [Next]_vars => WakeInv'
<1> SUFFICES ASSUME IInv, RunInv, WakeInv, Told, Orderly, [Next]_vars PROVE WakeInv'
  OBVIOUS
<1>1. IInv'
  BY NextInv
<1>2. CASE UNCHANGED vars
  BY <1>2, WakeStutter
<1>3. CASE \E th \in Thread : Run(th)
  BY <1>1, <1>3, StepWake
<1> QED
  BY <1>2, <1>3 DEF Next

LEMMA RestWake ==
  ASSUME IInv, RunInv, WakeInv, Done, fault = "none", NEW c \in Task, status[c] = DEPHOLD,
         HasHandler(c)
  PROVE  \E p \in Needs(c) : status[p] # COMPLETED \/ ~depChild[<<c, p>>]
<1> SUFFICES ASSUME \A p \in Needs(c) : status[p] = COMPLETED /\ depChild[<<c, p>>]
             PROVE  FALSE
  OBVIOUS
<1>1. \A th \in Thread : stack[th] = <<>>
  BY DEF Done
<1>2. \A th \in Thread : 1..Len(stack[th]) = {}
  BY <1>1
<1>3. Counted(c)
  <2>1. Begun(c) /\ status[c] # ABORTED
    BY DEF Begun, DEPHOLD, ABORTED
  <2>2. None(Commits(c)) /\ ~\E th \in Thread : Accepted(th, c)
    BY <1>1, <1>2 DEF None, Accepted
  <2> QED
    BY <2>1, <2>2 DEF RunInv, CommitsOK
<1>4. Pending(c) = {} /\ ~Releasing(c)
  BY <1>1 DEF Pending, Releasing, At
<1>5. counter[c] > 0 /\ Cardinality(Heard(c)) + counter[c] <= ndep[c]
  <2>1. CountOK(c)
    BY DEF WakeInv, CountsOK
  <2>2. Cardinality(Pending(c)) = 0
    BY <1>4, FS_EmptySet
  <2>3. ndep[c] \in Nat
    BY <1>3, InvParts DEF GraphType, Counted
  <2> QED
    BY <1>3, <1>4, <2>1, <2>2, <2>3 DEF CountOK
<1>6. ASSUME NEW m \in 1..Len(parents[c])
      PROVE  ~Owed(c, m)
  <2>1. parents[c][m] \in Dep /\ parents[c][m][1] = c /\ parents[c][m][2] \in Needs(c)
    BY ParentFacts
  <2>2. parents[c][m] = <<c, parents[c][m][2]>>
    BY <2>1 DEF Dep
  <2>3. depChild[parents[c][m]] /\ status[parents[c][m][2]] = COMPLETED
    BY <2>1, <2>2
  <2>4. ~Telling(parents[c][m]) /\ ~Finding(c, m)
    BY <1>1, <1>2 DEF Telling, Finding
  <2> QED
    BY <2>3, <2>4 DEF Owed
<1>7. Heard(c) = 1..Len(parents[c]) /\ Len(parents[c]) \in Nat
  BY <1>6, InvParts DEF Heard, GraphType
<1>8. Cardinality(Heard(c)) = Len(parents[c])
  BY <1>7, FS_Interval
<1>9. Len(parents[c]) = ndep[c] /\ counter[c] \in Int
  BY <1>3, InvParts DEF DepsOK, RestType
<1> QED
  BY <1>5, <1>7, <1>8, <1>9

\* No wake-up is lost: at rest, whatever is on hold depends on a task that has not
\* completed, or on one rm_dep has detached it from.  A completion that Task_commit
\* races with is told by Taski_notify_parent_status or found by the commit's second
\* loop, and counted once.  It takes a handler that asks for completions and an
\* application that frees no task a commit has still to look at: Task_free detaches
\* it, and the commit has counted it.
THEOREM NoWakeupLost == Spec /\ [](Told /\ Orderly) => []NoLostWakeup
<1>1. Spec /\ [](Told /\ Orderly) => []WakeInv
  BY Invariance, RunInvariance, InitWake, NextWake, PTL DEF Spec
<1>2. IInv /\ RunInv /\ WakeInv => NoLostWakeup
  BY RestWake DEF NoLostWakeup
<1> QED
  BY <1>1, <1>2, Invariance, RunInvariance, PTL

=============================================================================
