--------------------------------- MODULE Fifo ---------------------------------
(***************************************************************************)
(* What a job queue promises to the threads that share it: items come out  *)
(* in the order they went in, and a pop finds nothing only when there is   *)
(* nothing.  NbQueue implements it.                                        *)
(***************************************************************************)
EXTENDS Sequences

CONSTANTS
    Thread,
    Item,
    Nil         \* what a pop that finds nothing returns

VARIABLES
    items,      \* the queue, oldest item first
    out         \* out[th]: what the last pop of thread th returned

vars == <<items, out>>

Push(x) ==
    /\ items' = Append(items, x)
    /\ UNCHANGED out

Pop(th) ==
    /\ items # <<>>
    /\ items' = Tail(items)
    /\ out' = [out EXCEPT ![th] = Head(items)]

PopNothing(th) ==
    /\ items = <<>>
    /\ out' = [out EXCEPT ![th] = Nil]
    /\ UNCHANGED items

Init == items = <<>> /\ out = [th \in Thread |-> Nil]

Next ==
    \/ \E x \in Item : Push(x)
    \/ \E th \in Thread : Pop(th) \/ PopNothing(th)

Spec == Init /\ [][Next]_vars
=============================================================================
