---------------------------- MODULE MCClaimLock ----------------------------
(***************************************************************************)
(* Instances of ClaimLock for TLC.  Two workers are enough for a holder    *)
(* and a thief; the third gives the thief a rival, or the holder an heir   *)
(* while the thief still looks at its corpse; the fourth gives it both.    *)
(***************************************************************************)
EXTENDS ClaimLock, TLC

\* Workers differ by nothing but their name.
WorkerSymmetry == Permutations(Worker)
=============================================================================
