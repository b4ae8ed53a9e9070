------------------------------ MODULE WorkQueue ------------------------------
(***************************************************************************)
(* What recovery promises of one candidate, with no files in it: once it   *)
(* has been recorded it is never lost, and it stays pending until there is *)
(* a ruling.                                                               *)
(***************************************************************************)
VARIABLE status   \* "new", "pending" or "ruled"

Init == status = "new"

\* The candidate is recorded.
Put == status = "new" /\ status' = "pending"

\* A ruling is reached, on a candidate that was recorded or on one that could
\* not be.
Rule == status \in {"new", "pending"} /\ status' = "ruled"

Next == Put \/ Rule

Spec == Init /\ [][Next]_status
=============================================================================
