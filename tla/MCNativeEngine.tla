---------------------------- MODULE MCNativeEngine ----------------------------
(***************************************************************************)
(* Instances of NativeEngine: two task jobs, of which one may be stale,    *)
(* and the job of one event.                                               *)
(***************************************************************************)
EXTENDS NativeEngine

CONSTANTS j1, j2, e1

Levels == [j \in Job |-> IF j = j2 THEN 1 ELSE 0]
=============================================================================
