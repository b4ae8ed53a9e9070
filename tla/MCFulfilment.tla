----------------------------- MODULE MCFulfilment -----------------------------
(***************************************************************************)
(* One payment for a basket of two packs.                                  *)
(***************************************************************************)
EXTENDS Fulfilment, TLC

CONSTANTS s1, i1, i2

MCSaleOf == i1 :> s1 @@ i2 :> s1
=============================================================================
