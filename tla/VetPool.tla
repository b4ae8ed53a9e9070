------------------------------- MODULE VetPool -------------------------------
(***************************************************************************)
(* The pool that vets one batch (run_signal): a thread per running vet,    *)
(* and a main thread that takes the results as they complete and may stop  *)
(* the batch, because its time is spent or because nothing can be ruled.   *)
(*                                                                         *)
(* A stop cancels futures one by one while the workers go on taking them   *)
(* from the queue.  A candidate was paid for when it was generated, so the *)
(* question is where each of them is when the batch is over.               *)
(***************************************************************************)
EXTENDS Integers, FiniteSets

CONSTANTS
  Batch,     \* how many candidates: they are 1..Batch, in the order they are submitted
  Workers,   \* max_workers
  Limits     \* the thresholds infra_defer_abort_streak may have; 0 switches the rail off

ASSUME PoolAssumption ==
  Batch \in Nat \ {0} /\ Workers \in Nat \ {0} /\ Limits \subseteq Nat /\ Limits # {}

Candidate == 1..Batch

VARIABLES
  fut,      \* the future of each candidate
  out,      \* what its vet came to
  rows,     \* the candidates with a row in the index
  kept,     \* `dossiers`, those of them a vet returned
  parked,   \* `dossiers`, those the budget stop wrote
  taken,    \* the futures as_completed has yielded
  cur,      \* the one being looked at
  limit, streak, halt,
  spent,    \* the batch's time is spent
  stopped,  \* budget_stopped
  already,  \* already_cancelled
  next,     \* the next future a cancelling loop comes to
  dropped,  \* ghost: cancelled by the infrastructure rail
  unsaved,  \* ghost: could not be parked
  infra,    \* ghost: how many results in a row say that nothing can be ruled
  phase

futureVars == <<fut, out, rows>>
railVars == <<limit, streak, halt, spent, stopped, already, infra>>
listVars == <<kept, parked, taken, cur, dropped, unsaved>>
poolVars == <<futureVars, railVars, listVars, next, phase>>

Returned == {"ruled", "deferred"}
Raised == {"outage", "error"}
Cancelled == {c \in Candidate : fut[c] \in {"cancelled", "notified"}}
Submitted == {c \in Candidate : fut[c] # "new"}
Complete(c) == fut[c] \in {"finished", "notified"}

PoolInit ==
  /\ fut = [c \in Candidate |-> "new"]
  /\ out = [c \in Candidate |-> "none"]
  /\ rows = {} /\ kept = {} /\ parked = {} /\ taken = {} /\ cur = 1
  /\ limit \in Limits
  /\ streak = 0 /\ infra = 0
  /\ halt = FALSE /\ spent = FALSE /\ stopped = FALSE
  /\ already = {} /\ dropped = {} /\ unsaved = {}
  /\ next = 1
  /\ phase = "submit"

-----------------------------------------------------------------------------
(***************************************************************************)
(* The threads of the pool.  One takes the head of the queue when it is    *)
(* free, also when that future is cancelled; only then does as_completed   *)
(* yield the cancelled one.                                                *)
(***************************************************************************)
Waiting == {c \in Candidate : fut[c] \in {"queued", "cancelled"}}
Idle == Cardinality({c \in Candidate : fut[c] = "running"}) < Workers

Pop ==
  /\ Idle
  /\ \E c \in Waiting :
       /\ \A d \in Waiting : c <= d
       /\ fut' = [fut EXCEPT ![c] = IF fut[c] = "queued" THEN "running" ELSE "notified"]
  /\ UNCHANGED <<out, rows, railVars, listVars, next, phase>>

\* vet_candidate returns a dossier, which it has saved, or raises.
Vet(c) ==
  /\ fut[c] = "running"
  /\ fut' = [fut EXCEPT ![c] = "finished"]
  /\ \E o \in Returned \cup Raised :
       /\ out' = [out EXCEPT ![c] = o]
       /\ rows' = IF o \in Returned THEN rows \cup {c} ELSE rows
  /\ UNCHANGED <<railVars, listVars, next, phase>>

TimeIsSpent ==
  /\ ~spent
  /\ spent' = TRUE
  /\ UNCHANGED <<futureVars, limit, streak, halt, stopped, already, infra, listVars, next,
                 phase>>

-----------------------------------------------------------------------------
(***************************************************************************)
(* The main thread.                                                        *)
(***************************************************************************)
\* The spend guard may end the submissions.
Submit ==
  /\ phase = "submit"
  /\ \/ /\ fut' = [fut EXCEPT ![next] = "queued"]
        /\ IF next = Batch THEN next' = 1 /\ phase' = "wait"
           ELSE next' = next + 1 /\ UNCHANGED phase
     \/ next' = 1 /\ phase' = "wait" /\ UNCHANGED fut
  /\ UNCHANGED <<out, rows, railVars, listVars>>

\* The next result, or none is left.
Take ==
  /\ phase = "wait"
  /\ \E c \in Submitted \ taken :
       Complete(c) /\ taken' = taken \cup {c} /\ cur' = c
  /\ phase' = "clock"
  /\ UNCHANGED <<futureVars, railVars, kept, parked, dropped, unsaved, next>>

\* All results are in: the list is returned, unless searching was down, and then the exception that
\* was kept is raised, past the summary.
Finish ==
  /\ phase = "wait" /\ Submitted \subseteq taken
  /\ phase' = IF halt THEN "raised" ELSE "done"
  /\ UNCHANGED <<futureVars, railVars, listVars, next>>

InTime ==
  /\ phase = "clock" /\ (stopped \/ ~spent)
  /\ phase' = "result"
  /\ UNCHANGED <<futureVars, railVars, listVars, next>>

BudgetStop ==
  /\ phase = "clock" /\ ~stopped /\ spent
  /\ stopped' = TRUE
  /\ already' = Cancelled
  /\ phase' = "stop"
  /\ UNCHANGED <<futureVars, limit, streak, halt, spent, infra, listVars, next>>

\* Mutant of Cancel: the loop ends at the first future that refuses.
CancelMut ==
  /\ phase \in {"stop", "halt"} /\ next <= Batch
  /\ fut' = IF fut[next] = "queued" THEN [fut EXCEPT ![next] = "cancelled"] ELSE fut
  /\ dropped' = IF fut[next] = "queued" /\ phase = "halt" THEN dropped \cup {next} ELSE dropped
  /\ next' = IF fut[next] = "queued" THEN next + 1 ELSE Batch + 1
  /\ UNCHANGED <<out, rows, railVars, kept, parked, taken, cur, unsaved, phase>>

\* Future.cancel() on each in turn; it refuses what is running or done.
Cancel ==
  /\ phase \in {"stop", "halt"} /\ next <= Batch
  /\ fut' = IF fut[next] = "queued" THEN [fut EXCEPT ![next] = "cancelled"] ELSE fut
  /\ dropped' = IF fut[next] = "queued" /\ phase = "halt" THEN dropped \cup {next} ELSE dropped
  /\ next' = next + 1
  /\ UNCHANGED <<out, rows, railVars, kept, parked, taken, cur, unsaved, phase>>

\* Mutant of Unstarted: a future that a worker has taken off the queue since is overlooked.
UnstartedMut == {c \in Candidate : fut[c] = "cancelled"} \ already

\* _defer_unstarted_candidates; a row that cannot be saved is logged.
Unstarted == Cancelled \ already

Park ==
  /\ phase = "stop" /\ next > Batch
  /\ \E failed \in SUBSET Unstarted :
       /\ parked' = Unstarted \ failed
       /\ rows' = rows \cup parked'
       /\ unsaved' = failed
  /\ next' = 1
  /\ phase' = "result"
  /\ UNCHANGED <<fut, out, railVars, kept, taken, cur, dropped>>

Halted ==
  /\ phase = "halt" /\ next > Batch
  /\ next' = 1
  /\ phase' = "wait"
  /\ UNCHANGED <<futureVars, railVars, listVars>>

\* Mutant of PassOver: the CancelledError of a cancelled future is not caught.
PassOverMut ==
  /\ phase = "result"
  /\ fut[cur] = "notified" \/ out[cur] = "error"
  /\ phase' = IF fut[cur] = "notified" THEN "escape" ELSE "wait"
  /\ UNCHANGED <<futureVars, railVars, listVars, next>>

\* A cancelled future is passed over, and so is a vet that raised for a reason of its own.
PassOver ==
  /\ phase = "result"
  /\ fut[cur] = "notified" \/ out[cur] = "error"
  /\ phase' = "wait"
  /\ UNCHANGED <<futureVars, railVars, listVars, next>>

\* A dossier is kept.  A DEFER is filed without its gate, so _infra_abort_check takes it for a
\* ruling.
Keep ==
  /\ phase = "result" /\ out[cur] \in Returned
  /\ kept' = kept \cup {cur}
  /\ streak' = 0
  /\ infra' = IF out[cur] = "deferred" THEN infra + 1 ELSE 0
  /\ phase' = "wait"
  /\ UNCHANGED <<futureVars, limit, halt, spent, stopped, already, parked, taken, cur, dropped,
                 unsaved, next>>

\* No search provider answered: go on, stop the batch, or raise at once if the rail is off.
Outage ==
  /\ phase = "result" /\ out[cur] = "outage"
  /\ streak' = streak + 1 /\ infra' = infra + 1
  /\ halt' = (halt \/ (limit # 0 /\ streak' >= limit))
  /\ phase' = IF limit = 0 THEN "escape" ELSE IF halt' /\ ~halt THEN "halt" ELSE "wait"
  /\ UNCHANGED <<futureVars, limit, spent, stopped, already, listVars, next>>

\* The exception leaves the pool, which first waits for every vet that was submitted.
Escape ==
  /\ phase = "escape" /\ \A c \in Submitted : Complete(c)
  /\ phase' = "raised"
  /\ UNCHANGED <<futureVars, railVars, listVars, next>>

Main ==
  \/ Submit \/ Take \/ Finish \/ InTime \/ BudgetStop \/ Cancel \/ Park \/ Halted
  \/ PassOver \/ Keep \/ Outage \/ Escape

PoolNext == Pop \/ (\E c \in Candidate : Vet(c)) \/ TimeIsSpent \/ Main

PoolSpec == PoolInit /\ [][PoolNext]_poolVars

\* Threads run, and every vet ends: its calls have timeouts.
PoolFairness ==
  WF_poolVars(Pop) /\ (\A c \in Candidate : WF_poolVars(Vet(c))) /\ WF_poolVars(Main)

PoolFairSpec == PoolSpec /\ PoolFairness

-----------------------------------------------------------------------------
(***************************************************************************)
(* Properties.                                                             *)
(***************************************************************************)
PoolTypeOK ==
  /\ fut \in [Candidate ->
        {"new", "queued", "running", "finished", "cancelled", "notified"}]
  /\ out \in [Candidate -> {"none"} \cup Returned \cup Raised]
  /\ rows \subseteq Candidate /\ kept \subseteq Candidate /\ parked \subseteq Candidate
  /\ taken \subseteq Candidate /\ cur \in Candidate /\ limit \in Limits
  /\ streak \in 0..Batch /\ infra \in 0..Batch
  /\ {halt, spent, stopped} \subseteq BOOLEAN
  /\ already \cup dropped \cup unsaved \subseteq Candidate
  /\ next \in 1..(Batch + 1)
  /\ phase \in {"submit", "wait", "clock", "stop", "result", "halt", "escape", "done", "raised"}

\* A stop ends at a batch in which no vet can start any more, although workers took vets from
\* the queue all through it.
NothingStarts ==
  (stopped \/ halt) /\ phase \notin {"stop", "halt"} => \A c \in Candidate : fut[c] # "queued"

\* It declines to buy more and throws nothing away: what it cancelled had not begun, and no
\* candidate is both ruled on and parked.
NothingDiscarded ==
  /\ \A c \in Cancelled : out[c] = "none"
  /\ parked \cup unsaved \cup dropped \subseteq Cancelled
  /\ \A c \in Candidate : out[c] \in Returned => c \in rows \ parked

\* The batch is over: its list is returned, or the exception of an outage is raised, at once with
\* the rail off and once the loop has taken every result if the rail has stopped the batch.
HasReturned == phase = "done" /\ ~halt
HasRaised == phase = "raised" /\ (limit = 0 \/ halt)

\* The loop ran to its end.
LoopEnded == phase = "done" \/ (phase = "raised" /\ halt)

\* What has been taken is complete, and a future has an outcome exactly if its vet has ended.
FutureInv ==
  /\ \A c \in Candidate : out[c] = "none" <=> fut[c] # "finished"
  /\ \A c \in taken : Complete(c)
  /\ phase \in {"done", "raised"} => \A c \in Submitted : Complete(c)
  /\ LoopEnded => Submitted \subseteq taken

\* Where the main thread is in its loops, and what they have left behind.
LoopInv ==
  /\ phase = "submit" =>
       next <= Batch /\ ~stopped /\ ~halt /\ \A c \in next..Batch : fut[c] = "new"
  /\ phase \notin {"submit", "stop", "halt"} => next = 1
  /\ phase = "stop" => stopped
  /\ phase = "halt" => halt
  /\ phase = "escape" => limit = 0
  /\ phase = "done" => HasReturned
  /\ phase = "raised" => HasRaised
  /\ limit = 0 => ~halt
  /\ stopped \/ halt =>
       \A c \in Candidate : fut[c] = "queued" => phase \in {"stop", "halt"} /\ c >= next

\* The main thread has a result in its hands.
Looking == phase \in {"clock", "stop", "result"}

\* What has been taken is kept once it has been looked at, and every streak is one of such
\* results.
ResultInv ==
  /\ kept \subseteq {c \in Candidate : out[c] \in Returned}
  /\ Looking => cur \in taken
  /\ \A c \in taken : out[c] \in Returned => c \in kept \/ (Looking /\ c = cur)
  /\ LET seen == Cardinality(taken) - (IF Looking THEN 1 ELSE 0)
     IN  streak <= seen /\ infra <= seen

\* Whoever was cancelled is parked, or could not be, or was dropped; only while the budget stop
\* cancels may some of them be none of these yet.
CancelInv ==
  /\ rows = {c \in Candidate : out[c] \in Returned} \cup parked
  /\ ~stopped \/ phase = "stop" => parked = {} /\ unsaved = {}
  /\ already \subseteq dropped
  /\ dropped # {} => halt
  /\ phase # "stop" => Cancelled \subseteq parked \cup unsaved \cup dropped

\* The inductive invariant, and the two promises of a stop with it.
PoolInv ==
  /\ PoolTypeOK
  /\ FutureInv
  /\ LoopInv
  /\ ResultInv
  /\ CancelInv
  /\ NothingStarts
  /\ NothingDiscarded

\* When the batch is over every candidate is somewhere: whoever has no row raised (and is in the
\* in-flight ledger), could not be saved, was never submitted, or was cancelled by the
\* infrastructure rail, and then the caller is told by an exception.  The list, returned or only
\* summed up, holds exactly the rows that were written if the loop ran to its end.
CandidatesAccounted ==
  /\ phase \in {"done", "raised"} =>
       \A c \in Candidate \ rows :
         out[c] \in Raised \/ c \in unsaved \cup dropped \/ fut[c] = "new"
  /\ LoopEnded => rows = kept \cup parked
  /\ phase = "done" => dropped = {}

\* A batch comes to an end however it is stopped: a cancelled future is yielded only once a worker
\* has come to it, and its CancelledError must not escape.  It returns its list unless searching
\* was down, for one result with the rail off or for as many in a row as stop the batch: only
\* these two ends are exceptions.
BatchEnds == <>(HasReturned \/ HasRaised)

-----------------------------------------------------------------------------
(***************************************************************************)
(* Why a batch ends, whatever its size: somebody can always take a step,   *)
(* and every step there is leaves less to do.                              *)
(***************************************************************************)
\* What the main thread has left to do before it waits again, at most.
LoopLeft ==
  CASE phase = "submit" -> Batch + 2 - next
    [] phase = "clock" -> 2 * Batch + 5
    [] phase = "stop" -> 2 * Batch + 5 - next
    [] phase = "result" -> Batch + 3
    [] phase = "halt" -> Batch + 3 - next
    [] phase \in {"wait", "escape"} -> 1
    [] phase \in {"done", "raised"} -> 0

Unbegun == {c \in Candidate : fut[c] \in {"new", "queued"}}
Incomplete == {c \in Candidate : ~Complete(c)}

\* What a batch has left to do, at most.
Left ==
  (2 * Batch + 5) * Cardinality(Candidate \ taken) + LoopLeft
    + Cardinality(Unbegun) + Cardinality(Incomplete) + (IF spent THEN 0 ELSE 1)

\* Nothing is done in vain: every step of a thread of the pool or of the main thread, the loops of
\* a stop included, leaves less to do.
Advances == [][{Left, Left'} \subseteq Nat /\ Left' < Left]_poolVars

\* Nobody waits for ever: until the batch is over a thread can take a future, a vet is running, or
\* the main thread can go on.
MainCanGoOn ==
  CASE phase = "wait" ->
         Submitted \subseteq taken \/ \E c \in Submitted \ taken : Complete(c)
    [] phase = "result" -> fut[cur] = "notified" \/ out[cur] \in Returned \cup Raised
    [] phase = "escape" -> \A c \in Submitted : Complete(c)
    [] phase \in {"submit", "clock", "stop", "halt"} -> TRUE
    [] phase \in {"done", "raised"} -> FALSE

NeverStuck ==
  \/ HasReturned \/ HasRaised
  \/ Idle /\ Waiting # {}
  \/ \E c \in Candidate : fut[c] = "running"
  \/ MainCanGoOn

-----------------------------------------------------------------------------
(***************************************************************************)
(* What the comments say and the code does not do; the README gives the    *)
(* configurations that show it.                                            *)
(***************************************************************************)
\* No candidate that was paid for is lost by a rail.
NoneDropped ==
  phase \in {"done", "raised"} =>
    \A c \in Candidate : c \in rows \/ out[c] \in Raised \/ c \in unsaved

\* The batch stops after so many results in a row that say nothing can be ruled.
StreakStops ==
  phase = "wait" /\ limit # 0 /\ infra >= limit => \A c \in Candidate : fut[c] # "queued"

\* With the rail off an outage stops the batch at once.
EscapeIsImmediate ==
  [][phase = "escape" => \A c \in Candidate : fut'[c] = "running" => fut[c] = "running"]_poolVars
=============================================================================
