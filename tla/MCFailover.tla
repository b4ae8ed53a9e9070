------------------------------ MODULE MCFailover ------------------------------
(***************************************************************************)
(* Two processes, the first with two threads; or one process and thread.   *)
(***************************************************************************)
EXTENDS Failover, TLC

CONSTANTS v1, v2, w1, p1, p2

MCWorker == {v1, v2, w1}
MCProcOf == v1 :> p1 @@ v2 :> p1 @@ w1 :> p2

MCOneWorker == {w1}
MCOneProcOf == w1 :> p2

MCSymmetry == Permutations({v1, v2})

MCSpacing == <<1>>
MCSpacings == <<1, 2>>
=============================================================================
