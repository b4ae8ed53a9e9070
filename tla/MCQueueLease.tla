---------------------------- MODULE MCQueueLease ----------------------------
(***************************************************************************)
(* Instances of QueueLease for TLC: a pass on another machine and two on   *)
(* this one, and the rulings that the code treats differently.             *)
(***************************************************************************)
EXTENDS QueueLease

MCOutcome ==
  {[decision |-> "kill",  prov |-> FALSE, infra |-> FALSE],
   [decision |-> "kill",  prov |-> TRUE,  infra |-> FALSE],
   [decision |-> "pass",  prov |-> FALSE, infra |-> FALSE],
   [decision |-> "pass",  prov |-> TRUE,  infra |-> FALSE],
   [decision |-> "defer", prov |-> FALSE, infra |-> FALSE],
   [decision |-> "defer", prov |-> FALSE, infra |-> TRUE]}

\* A trusted PASS, the only ruling that is published, and a DEFER.
MCFewOutcomes ==
  {[decision |-> "pass",  prov |-> FALSE, infra |-> FALSE],
   [decision |-> "defer", prov |-> FALSE, infra |-> FALSE]}
=============================================================================
