-------------------------------- MODULE Lease --------------------------------
(***************************************************************************)
(* What a claim on one candidate promises its callers, with no files in    *)
(* it: at most one worker works under the claim, and a claim is taken from *)
(* its owner only after the owner has stopped working.  ClaimLock (lock    *)
(* files) and QueueLease (columns of an index row) both implement it.      *)
(***************************************************************************)
CONSTANTS
  Worker,   \* the processes and threads that compete for the claim
  None      \* "nobody"

VARIABLES
  owner,    \* the worker the claim is recorded for, or None
  working   \* the workers that act as if they held the claim

Init ==
  /\ owner = None
  /\ working = {}

\* Nobody works under the claim: w becomes its owner and starts working.
Take(w) ==
  /\ owner \notin working
  /\ owner' = w
  /\ working' = working \cup {w}

\* w, the owner, stops working and gives the claim back, in one step.
Finish(w) ==
  /\ owner = w
  /\ w \in working
  /\ owner' = None
  /\ working' = working \ {w}

\* w stops working without giving the claim back: it died, or failed.
Fail(w) ==
  /\ w \in working
  /\ working' = working \ {w}
  /\ UNCHANGED owner

\* The claim of a worker that no longer works is taken away.
Reclaim ==
  /\ owner # None
  /\ owner \notin working
  /\ owner' = None
  /\ UNCHANGED working

Next ==
  \/ \E w \in Worker : Take(w) \/ Finish(w) \/ Fail(w)
  \/ Reclaim

Spec == Init /\ [][Next]_<<owner, working>>
=============================================================================
