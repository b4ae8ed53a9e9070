------------------------------ MODULE Withdrawal ------------------------------
(***************************************************************************)
(* How a pack that the engine no longer stands by goes off sale.           *)
(*                                                                         *)
(* A decay sweep that re-vets a pack to KILL (decay.py), or the operator   *)
(* who retires one whose citations have rotted (retire_rotted_passes.py),  *)
(* archives the pack's listing receipt and appends an entry to             *)
(* pending_unlist.jsonl.  Runs of unlist_killed.py, started by the ticks   *)
(* of both halves of the engine and by hand, read that queue, ask the shop *)
(* to unlist each pack, log what was done and take it out of the queue.    *)
(*                                                                         *)
(* Anything may fail or be killed anywhere.  Two windows lose entries: a   *)
(* producer that has ruled and not yet appended, and a run that has taken  *)
(* the queue's content out and not yet put back what is not done.  What is *)
(* lost there, and nothing else, is in "lost".                             *)
(***************************************************************************)
EXTENDS Naturals, Sequences, Functions

CONSTANTS
  Pack,          \* the packs
  Published,     \* those that publish() has listed, with a receipt
  Sweeper,       \* the decay sweeps: the consumer's one decay thread
  Retirer,       \* the operators who retire packs
  Run,           \* the runs of unlist_killed.py
  None,          \* no pack
  Nothing, Fragment,   \* see Trail
  MaxFaults      \* bound: calls that fail and processes that die

Producer == Sweeper \cup Retirer

ASSUME WithdrawalAssumption ==
  /\ Sweeper \cap Retirer = {}
  /\ Producer \cap Run = {}
  /\ None \notin Pack /\ Published \subseteq Pack
  /\ Nothing \notin Pack /\ Fragment \notin Pack /\ Nothing # Fragment
  /\ MaxFaults \in Nat

\* An entry of the queue is written once for a pack, as its receipt is archived
\* once: the pack stands for it.
T == INSTANCE Trail WITH Record <- Pack

VARIABLES
  passing,       \* the packs that the index has as PASS
  receipt,       \* the packs that have a listing receipt
  listed,        \* the packs on sale in the shop
  queue,         \* pending_unlist.jsonl
  done,          \* pending_unlist.done.jsonl
  pc,            \* what each producer and each run does next
  subject,       \* the pack a producer works on
  todo,          \* the entries a run has still to ask for
  off,           \* those the shop has confirmed to it
  held,          \* the entries it has taken out of the queue
  condemned,     \* history: the packs that were given up
  lost,          \* history: those whose entry was lost, or never written
  faults         \* the number of faults so far

engineVars == <<passing, receipt, subject, condemned, lost>>
runVars == <<todo, off, held>>
vars == <<engineVars, listed, queue, done, pc, runVars, faults>>

Init ==
  /\ passing = Pack
  /\ receipt = Published
  /\ listed = receipt
  /\ queue = T!Empty
  /\ done = {}
  /\ pc = [x \in Producer \cup Run |-> "idle"]
  /\ subject = [w \in Producer |-> None]
  /\ todo = [r \in Run |-> <<>>]
  /\ off = [r \in Run |-> {}]
  /\ held = [r \in Run |-> <<>>]
  /\ condemned = {}
  /\ lost = {}
  /\ faults = 0

Goto(x, label) == pc' = [pc EXCEPT ![x] = label]

\* A producer has the pack in hand: its entry is still to be written.
InHand(w, p) ==
  /\ subject[w] = p
  /\ \/ pc[w] = "append"
     \/ w \in Sweeper /\ pc[w] \in {"check", "move"} /\ p \in receipt

\* A producer is through with its pack.
Finish(w) == Goto(w, "idle") /\ subject' = [subject EXCEPT ![w] = None]

Fault == faults < MaxFaults /\ faults' = faults + 1

-----------------------------------------------------------------------------
(***************************************************************************)
(* The producers                                                           *)
(***************************************************************************)
\* run_decay_loop() comes to a row that is past its SLA, and vets it.
Sweep(w, p) ==
  /\ w \in Sweeper
  /\ pc[w] = "idle"
  /\ p \in passing
  /\ subject' = [subject EXCEPT ![w] = p]
  /\ Goto(w, "vet")
  /\ UNCHANGED <<passing, receipt, condemned, lost, listed, queue, done, runVars, faults>>

\* Mutant of Rule: whatever is not a PASS delists.
RuleMut(w) ==
  /\ pc[w] = "vet"
  /\ \/ /\ passing' = passing \cup {subject[w]}
        /\ Finish(w)
        /\ UNCHANGED condemned
     \/ /\ Goto(w, "check") /\ UNCHANGED subject
        /\ UNCHANGED <<passing, condemned>>
     \/ /\ passing' = passing \ {subject[w]}
        /\ condemned' = condemned \cup {subject[w]}
        /\ Goto(w, "check") /\ UNCHANGED subject
  /\ UNCHANGED <<receipt, lost, listed, queue, done, runVars, faults>>

\* PASS is saved again, DEFER (or an exception) changes nothing, KILL is saved
\* and the pack is to be withdrawn.
Rule(w) ==
  /\ pc[w] = "vet"
  /\ \/ /\ passing' = passing \cup {subject[w]}
        /\ Finish(w)
        /\ UNCHANGED condemned
     \/ /\ Finish(w)
        /\ UNCHANGED <<passing, condemned>>
     \/ /\ passing' = passing \ {subject[w]}
        /\ condemned' = condemned \cup {subject[w]}
        /\ Goto(w, "check") /\ UNCHANGED subject
  /\ UNCHANGED <<receipt, lost, listed, queue, done, runVars, faults>>

\* retire(): the operator may name any pack, also one that is retired already or was killed.
Retire(w, p) ==
  /\ w \in Retirer
  /\ pc[w] = "idle"
  /\ subject' = [subject EXCEPT ![w] = p]
  /\ Goto(w, "check")
  /\ UNCHANGED <<passing, receipt, condemned, lost, listed, queue, done, runVars, faults>>

\* The withdrawal is over: a sweep goes on, a retirement drops the dossier.
Queued(w) ==
  IF w \in Retirer THEN Goto(w, "drop") /\ UNCHANGED subject ELSE Finish(w)

\* Without a receipt the pack was never published, or is being withdrawn.
Check(w) ==
  /\ pc[w] = "check"
  /\ IF subject[w] \in receipt
     THEN Goto(w, "move") /\ UNCHANGED subject
     ELSE Queued(w)
  /\ UNCHANGED <<passing, receipt, condemned, lost, listed, queue, done, runVars, faults>>

\* The receipt is moved to the archive, which is where an operator commits
\* himself; if it has gone, rename() raises.
Move(w) ==
  /\ pc[w] = "move"
  /\ IF subject[w] \in receipt
     THEN /\ receipt' = receipt \ {subject[w]}
          /\ condemned' = condemned \cup (IF w \in Retirer THEN {subject[w]} ELSE {})
          /\ Goto(w, "append")
          /\ UNCHANGED subject
     ELSE /\ Finish(w)
          /\ UNCHANGED <<receipt, condemned>>
  /\ UNCHANGED <<passing, lost, listed, queue, done, runVars, faults>>

Enqueue(w) ==
  /\ pc[w] = "append"
  /\ queue' = T!Appended(queue, subject[w])
  /\ Queued(w)
  /\ UNCHANGED <<passing, receipt, condemned, lost, listed, done, runVars, faults>>

\* The append raises, and the sweep or the retirement ends with it.
EnqueueFails(w) ==
  /\ Fault
  /\ pc[w] = "append"
  /\ queue' \in T!Torn(queue, subject[w])
  /\ lost' = lost \cup {subject[w]}
  /\ Finish(w)
  /\ UNCHANGED <<passing, receipt, condemned, listed, done, runVars>>

\* The dossier is moved away and the row deleted.
Drop(w) ==
  /\ pc[w] = "drop"
  /\ passing' = passing \ {subject[w]}
  /\ Finish(w)
  /\ UNCHANGED <<receipt, condemned, lost, listed, queue, done, runVars, faults>>

\* A producer is killed, or its store call raises.
Die(w) ==
  /\ Fault
  /\ pc[w] # "idle"
  /\ lost' = lost \cup {p \in Pack : InHand(w, p)}
  /\ Finish(w)
  /\ UNCHANGED <<passing, receipt, condemned, listed, queue, done, runVars>>

-----------------------------------------------------------------------------
(***************************************************************************)
(* unlist_killed.py                                                        *)
(***************************************************************************)
\* _read_queue(): what is committed, without the lock.
Start(r) ==
  /\ pc[r] = "idle"
  /\ queue.lines # <<>>
  /\ todo' = [todo EXCEPT ![r] = queue.lines]
  /\ Goto(r, "patch")
  /\ UNCHANGED <<engineVars, listed, queue, done, off, held, faults>>

\* The shop answers 200 with the row unlisted, or 404.
Patch(r) ==
  /\ pc[r] = "patch"
  /\ todo[r] # <<>>
  /\ listed' = listed \ {Head(todo[r])}
  /\ off' = [off EXCEPT ![r] = @ \cup {Head(todo[r])}]
  /\ todo' = [todo EXCEPT ![r] = Tail(@)]
  /\ UNCHANGED <<engineVars, queue, done, pc, held, faults>>

\* Mutant of Refuse: the request is taken for done.
RefuseMut(r) ==
  /\ Fault
  /\ pc[r] = "patch"
  /\ todo[r] # <<>>
  /\ off' = [off EXCEPT ![r] = @ \cup {Head(todo[r])}]
  /\ todo' = [todo EXCEPT ![r] = Tail(@)]
  /\ UNCHANGED <<engineVars, listed, queue, done, pc, held>>

\* It refuses, or the answer is lost on the way.
Refuse(r) ==
  /\ Fault
  /\ pc[r] = "patch"
  /\ todo[r] # <<>>
  /\ listed' \in {listed, listed \ {Head(todo[r])}}
  /\ todo' = [todo EXCEPT ![r] = Tail(@)]
  /\ UNCHANGED <<engineVars, queue, done, pc, off, held>>

\* The run ends, and what it had in memory is gone.
Stop(r) ==
  /\ Goto(r, "idle")
  /\ todo' = [todo EXCEPT ![r] = <<>>]
  /\ off' = [off EXCEPT ![r] = {}]
  /\ held' = [held EXCEPT ![r] = <<>>]

\* _commit(): what was confirmed goes to the done log; nothing was, and the run
\* ends.
Log(r) ==
  /\ pc[r] = "patch"
  /\ todo[r] = <<>>
  /\ done' = done \cup off[r]
  /\ IF off[r] = {}
     THEN Stop(r)
     ELSE Goto(r, "take") /\ UNCHANGED runVars
  /\ UNCHANGED <<engineVars, listed, queue, faults>>

\* An append to the log raises, or the run is killed between two of them.
LogFails(r) ==
  /\ Fault
  /\ pc[r] = "patch"
  /\ todo[r] = <<>>
  /\ \E entries \in SUBSET off[r] : done' = done \cup entries
  /\ Stop(r)
  /\ UNCHANGED <<engineVars, listed, queue>>

\* Mutant of Take: the queue is emptied, whatever it holds by now.
TakeMut(r) ==
  /\ pc[r] = "take"
  /\ queue' = T!Consumed(queue)
  /\ Goto(r, "put")
  /\ UNCHANGED <<engineVars, listed, done, runVars, faults>>

\* The queue is emptied into memory.
Take(r) ==
  /\ pc[r] = "take"
  /\ held' = [held EXCEPT ![r] = queue.lines]
  /\ queue' = T!Consumed(queue)
  /\ Goto(r, "put")
  /\ UNCHANGED <<engineVars, listed, done, todo, off, faults>>

\* What this run has not seen to is put back, entry by entry.
PutBack(r) ==
  /\ pc[r] = "put"
  /\ held[r] # <<>>
  /\ held' = [held EXCEPT ![r] = Tail(@)]
  /\ queue' = IF Head(held[r]) \in off[r] THEN queue
              ELSE T!Appended(queue, Head(held[r]))
  /\ UNCHANGED <<engineVars, listed, done, pc, todo, off, faults>>

Leave(r) ==
  /\ pc[r] = "put"
  /\ held[r] = <<>>
  /\ Stop(r)
  /\ UNCHANGED <<engineVars, listed, queue, done, faults>>

\* What a run has taken out of the queue and not put back is gone with it.
Forget(r) == lost' = lost \cup (Range(held[r]) \ off[r])

\* The append that puts an entry back raises.
PutBackFails(r) ==
  /\ Fault
  /\ pc[r] = "put"
  /\ held[r] # <<>>
  /\ Head(held[r]) \notin off[r]
  /\ queue' \in T!Torn(queue, Head(held[r]))
  /\ Forget(r)
  /\ Stop(r)
  /\ UNCHANGED <<passing, receipt, subject, condemned, listed, done>>

\* The run dies, or overruns _UNLIST_TIMEOUT_S and is killed by the tick.
Kill(r) ==
  /\ Fault
  /\ pc[r] # "idle"
  /\ Forget(r)
  /\ Stop(r)
  /\ UNCHANGED <<passing, receipt, subject, condemned, listed, queue, done>>

-----------------------------------------------------------------------------
Withdraw(w) == Rule(w) \/ Check(w) \/ Move(w) \/ Enqueue(w) \/ Drop(w)

Unlist(r) == Start(r) \/ Patch(r) \/ Log(r) \/ Take(r) \/ PutBack(r) \/ Leave(r)

Next ==
  \/ \E w \in Producer :
       \/ \E p \in Pack : Sweep(w, p) \/ Retire(w, p)
       \/ Withdraw(w) \/ EnqueueFails(w) \/ Die(w)
  \/ \E r \in Run :
       \/ Unlist(r)
       \/ Refuse(r) \/ LogFails(r) \/ PutBackFails(r) \/ Kill(r)

Spec == Init /\ [][Next]_vars

\* Vets end, and every tick starts a run if there is anything to unlist.
Fairness ==
  /\ \A w \in Producer : WF_vars(Withdraw(w))
  /\ \A r \in Run : WF_vars(Unlist(r))

FairSpec == Spec /\ Fairness

-----------------------------------------------------------------------------
(***************************************************************************)
(* Properties                                                              *)
(***************************************************************************)
TypeOK ==
  /\ passing \subseteq Pack
  /\ receipt \subseteq Pack
  /\ listed \subseteq Pack
  /\ queue \in T!File
  /\ done \subseteq Pack
  /\ pc \in [Producer \cup Run ->
               {"idle", "vet", "check", "move", "append", "drop", "patch", "take", "put"}]
  /\ subject \in [Producer -> Pack \cup {None}]
  /\ todo \in [Run -> Seq(Pack)]
  /\ off \in [Run -> SUBSET Pack]
  /\ held \in [Run -> Seq(Pack)]
  /\ condemned \subseteq Pack
  /\ lost \subseteq Pack
  /\ faults \in 0 .. MaxFaults

\* Where the entry of a pack is, or is about to come from.
Pending(p) ==
  \/ \E w \in Producer : InHand(w, p)
  \/ p \in Range(queue.lines)
  \/ \E r \in Run : p \in Range(held[r])

\* A pack that was given up and is still on sale has an entry on its way,
\* whatever fails, overlaps or is killed meanwhile, but in the two windows that
\* lose entries: nowhere else is one dropped.
Accounted == \A p \in (condemned \cap listed) \ lost : Pending(p)

\* The two windows closed: "the whole point of this queue is that a re-vetted
\* KILL cannot stay in the catalogue" (_commit).
NeverForgotten == \A p \in condemned \cap listed : Pending(p)

\* An outage must never delist (decay.py): a pack goes off sale only if a sweep
\* has killed it or an operator has retired it.
OnlyCondemned == [][\A p \in listed \ listed' : p \in condemned]_vars

\* The done log does not lie: what is in it is not on sale.
DoneMeansGone == done \cap listed = {}

\* A pack that was given up goes off sale in the end, unless its entry is lost.
Withdrawn == \A p \in Pack : p \in condemned ~> p \notin listed \/ p \in lost

\* A producer whose decision has been made.
Committed(w) ==
  \/ pc[w] = "append"
  \/ w \in Sweeper /\ pc[w] \in {"check", "move"}

\* Everything on its way to a request was condemned, and what a run has seen
\* confirmed is off sale.
CoreInv ==
  /\ TypeOK
  /\ \A w \in Producer : pc[w] = "idle" <=> subject[w] = None
  /\ \A w \in Producer : Committed(w) => subject[w] \in condemned
  /\ Range(queue.lines) \subseteq condemned
  /\ queue.rest \in Pack => queue.rest \in condemned
  /\ \A r \in Run : Range(todo[r]) \cup Range(held[r]) \subseteq condemned
  /\ \A r \in Run : off[r] \cap listed = {}
  /\ DoneMeansGone

\* Only sweeps vet, a run holds entries of the queue only while it puts them
\* back, and a pack on sale has its receipt unless it was given up.
LinkInv ==
  /\ \A w \in Producer : pc[w] = "vet" => w \in Sweeper
  /\ \A r \in Run : pc[r] # "put" => held[r] = <<>>
  /\ listed \subseteq receipt \cup condemned

\* The inductive invariant; with Accounted it is inductive again.
WithdrawalInv == CoreInv /\ LinkInv
=============================================================================
