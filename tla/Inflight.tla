------------------------------- MODULE Inflight -------------------------------
(***************************************************************************)
(* The in-flight record of one candidate (inflight.py) and the processes   *)
(* that vet it: one generates it and starts the vet, the others find its   *)
(* record once they take that process for gone (_recover_orphans, run.py). *)
(*                                                                         *)
(* Every access to the record, to its ".recovering" marker and to the      *)
(* index is a step of its own.  Ages stop growing at the threshold they    *)
(* are compared with, or one past it where the comparison is strict.       *)
(***************************************************************************)
EXTENDS Naturals

CONSTANTS
  Worker,      \* the processes
  NoFile,      \* the content of a path at which there is no file
  Stale,       \* STALE_S, in clock units
  Ttl,         \* RECOVER_TTL_S, in clock units
  MaxFaults    \* bound: how many calls may fail

RecordFile == [pid : Worker, age : 0 .. Stale]
MarkerFile == [by : Worker, ready : BOOLEAN, age : 0 .. Ttl + 1]

ASSUME InflightAssumption ==
  /\ NoFile \notin RecordFile /\ NoFile \notin MarkerFile
  /\ Stale \in Nat \ {0}
  /\ Ttl \in Nat \ {0}
  /\ MaxFaults \in Nat

VARIABLES
  record,      \* <id>.json: NoFile, or the pid in it and its age
  marker,      \* <id>.recovering: NoFile, or who created it, whether its
               \* content has been written, and its age
  row,         \* whether the index holds a ruling
  born,        \* whether the candidate has been generated
  pc,          \* what each process does next
  recovering,  \* the processes that hold the recovery claim
  faults       \* the number of calls that have failed

vars == <<record, marker, row, born, pc, recovering, faults>>

Alive(w) == pc[w] # "dead"

Goto(w, label) == pc' = [pc EXCEPT ![w] = label]

Init ==
  /\ record = NoFile
  /\ marker = NoFile
  /\ row = FALSE
  /\ born = FALSE
  /\ pc = [w \in Worker |-> "idle"]
  /\ recovering = {}
  /\ faults = 0

-----------------------------------------------------------------------------
(***************************************************************************)
(* vet_candidate()                                                         *)
(***************************************************************************)
\* A process generates the candidate and starts to vet it.
Generate(w) ==
  /\ pc[w] = "idle"
  /\ ~born
  /\ born' = TRUE
  /\ Goto(w, "open")
  /\ UNCHANGED <<record, marker, row, recovering, faults>>

\* open_(): the record names the process that vets from now on.
Open(w) ==
  /\ pc[w] = "open"
  /\ record' = [pid |-> w, age |-> 0]
  /\ Goto(w, "vet")
  /\ UNCHANGED <<marker, row, born, recovering, faults>>

\* A recovery gives its claim back on every path; a first vet has none.
Leave(w) == Goto(w, IF w \in recovering THEN "release" ELSE "idle")

\* The vet ends and its dossier is saved.
Save(w) ==
  /\ pc[w] = "vet"
  /\ row' = TRUE
  /\ Goto(w, "close")
  /\ UNCHANGED <<record, marker, born, recovering, faults>>

\* close(): removes the record, whoever wrote it.
Close(w) ==
  /\ pc[w] = "close"
  /\ record' = NoFile
  /\ Leave(w)
  /\ UNCHANGED <<marker, row, born, recovering, faults>>

-----------------------------------------------------------------------------
(***************************************************************************)
(* _recover_orphans()                                                      *)
(***************************************************************************)
\* Mutant of Orphaned: only a dead process leaves an orphan.
OrphanedMut == record # NoFile /\ ~Alive(record.pid)

\* survey(): the process is proven gone, or the record is older than any vet.
Orphaned == record # NoFile /\ (~Alive(record.pid) \/ record.age >= Stale)

Survey(w) ==
  /\ pc[w] = "idle"
  /\ Orphaned
  /\ Goto(w, "known")
  /\ UNCHANGED <<record, marker, row, born, recovering, faults>>

\* Mutant of Known: every surveyed record is closed, settled or not.
KnownMut(w) ==
  /\ pc[w] = "known"
  /\ Goto(w, "settle")
  /\ UNCHANGED <<record, marker, row, born, recovering, faults>>

\* A candidate that is in the index is settled; any other goes on the list.
Known(w) ==
  /\ pc[w] = "known"
  /\ Goto(w, IF row THEN "settle" ELSE "claim")
  /\ UNCHANGED <<record, marker, row, born, recovering, faults>>

Settle(w) ==
  /\ pc[w] = "settle"
  /\ record' = NoFile
  /\ Goto(w, "idle")
  /\ UNCHANGED <<marker, row, born, recovering, faults>>

\* claim(): O_EXCL creates the marker, still empty.  The first refusal leads to
\* a look at the marker in the way, the second ends the call.
Claim(w) ==
  /\ pc[w] \in {"claim", "reclaim"}
  /\ IF marker = NoFile
     THEN marker' = [by |-> w, ready |-> FALSE, age |-> 0] /\ Goto(w, "stamp")
     ELSE UNCHANGED marker /\ Goto(w, IF pc[w] = "claim" THEN "judge" ELSE "idle")
  /\ UNCHANGED <<record, row, born, recovering, faults>>

\* The marker's content is written, if the file is still there; claim() returns
\* True either way.
Stamp(w) ==
  /\ pc[w] = "stamp"
  /\ marker' = IF marker # NoFile /\ marker.by = w
               THEN [marker EXCEPT !.ready = TRUE] ELSE marker
  /\ recovering' = recovering \cup {w}
  /\ Goto(w, "open")
  /\ UNCHANGED <<record, row, born, faults>>

\* Mutant of Judge: a marker that is held is held for ever.
JudgeMut(w) ==
  /\ pc[w] = "judge"
  /\ Goto(w, IF marker = NoFile \/ ~marker.ready THEN "drop" ELSE "idle")
  /\ UNCHANGED <<record, marker, row, born, recovering, faults>>

\* A marker that is gone, empty or older than ttl_s is dead.
Judge(w) ==
  /\ pc[w] = "judge"
  /\ Goto(w, IF marker = NoFile \/ ~marker.ready \/ marker.age > Ttl THEN "drop" ELSE "idle")
  /\ UNCHANGED <<record, marker, row, born, recovering, faults>>

\* Removes the marker judged dead, or whatever is at that path by now.
Drop(w) ==
  /\ pc[w] = "drop"
  /\ marker' = NoFile
  /\ Goto(w, "reclaim")
  /\ UNCHANGED <<record, row, born, recovering, faults>>

\* release_claim(): removes the marker, whoever wrote it.
Release(w) ==
  /\ pc[w] = "release"
  /\ marker' = NoFile
  /\ recovering' = recovering \ {w}
  /\ Goto(w, "idle")
  /\ UNCHANGED <<record, row, born, faults>>

-----------------------------------------------------------------------------
(***************************************************************************)
(* The environment                                                         *)
(***************************************************************************)
Fault == faults < MaxFaults /\ faults' = faults + 1

\* open_() cannot write the record: the vet goes on without one.
OpenFails(w) ==
  /\ Fault
  /\ pc[w] = "open"
  /\ Goto(w, "vet")
  /\ UNCHANGED <<record, marker, row, born, recovering>>

\* Mutant of VetFails: the record is closed on every path out of the vet.
VetFailsMut(w) ==
  /\ Fault
  /\ pc[w] = "vet"
  /\ record' = NoFile
  /\ Leave(w)
  /\ UNCHANGED <<marker, row, born, recovering>>

\* The vet raises, or its save does; the record stays.
VetFails(w) ==
  /\ Fault
  /\ pc[w] = "vet"
  /\ Leave(w)
  /\ UNCHANGED <<record, marker, row, born, recovering>>

\* A recovery pass does not reach the candidate: the moat is blind, or its
\* limit is spent.
Skip(w) ==
  /\ Fault
  /\ pc[w] = "claim"
  /\ Goto(w, "idle")
  /\ UNCHANGED <<record, marker, row, born, recovering>>

\* A file cannot be removed, the index not be read, or the marker not be created
\* or written: close() and release_claim() carry on, the others end the pass.
FileFails(w) ==
  /\ Fault
  /\ pc[w] \in {"close", "known", "settle", "claim", "reclaim", "stamp", "drop", "release"}
  /\ IF pc[w] = "close" THEN Leave(w) ELSE Goto(w, "idle")
  /\ recovering' = IF pc[w] = "release" THEN recovering \ {w} ELSE recovering
  /\ UNCHANGED <<record, marker, row, born>>

\* A process is killed; one started in its place is another.  One always
\* survives.
Crash(w) ==
  /\ Alive(w)
  /\ \E v \in Worker \ {w} : Alive(v)
  /\ Goto(w, "dead")
  /\ recovering' = recovering \ {w}
  /\ UNCHANGED <<record, marker, row, born, faults>>

Tick ==
  /\ record # NoFile \/ marker # NoFile
  /\ record' = IF record # NoFile /\ record.age < Stale
               THEN [record EXCEPT !.age = @ + 1] ELSE record
  /\ marker' = IF marker # NoFile /\ marker.age <= Ttl
               THEN [marker EXCEPT !.age = @ + 1] ELSE marker
  /\ UNCHANGED <<row, born, pc, recovering, faults>>

-----------------------------------------------------------------------------
\* The steps of a vet or a recovery under way, none of them a failure.
Step(w) ==
  \/ Open(w) \/ Save(w) \/ Close(w)
  \/ Known(w) \/ Settle(w) \/ Claim(w) \/ Stamp(w) \/ Judge(w) \/ Drop(w) \/ Release(w)

Next ==
  \/ \E w \in Worker :
       \/ Generate(w) \/ Survey(w) \/ Step(w)
       \/ OpenFails(w) \/ VetFails(w) \/ Skip(w) \/ FileFails(w) \/ Crash(w)
  \/ Tick

Spec == Init /\ [][Next]_vars

\* Vets end, passes go on and are started again and again, and time passes.
Fairness ==
  /\ WF_vars(Tick)
  /\ \A w \in Worker : WF_vars(Survey(w)) /\ WF_vars(Step(w))

FairSpec == Spec /\ Fairness

-----------------------------------------------------------------------------
(***************************************************************************)
(* Properties                                                              *)
(***************************************************************************)
TypeOK ==
  /\ record \in RecordFile \cup {NoFile}
  /\ marker \in MarkerFile \cup {NoFile}
  /\ row \in BOOLEAN
  /\ born \in BOOLEAN
  /\ pc \in [Worker -> {"idle", "open", "vet", "close", "known", "settle", "claim",
                        "reclaim", "stamp", "judge", "drop", "release", "dead"}]
  /\ recovering \subseteq Worker
  /\ faults \in 0 .. MaxFaults

\* "Killing the process cannot lose it" (inflight.py): a candidate whose record
\* reached the disk is there until it has a ruling, whoever dies, fails, takes
\* it over or cleans up after it.
Status == IF row THEN "ruled" ELSE IF record = NoFile THEN "new" ELSE "pending"

Abstract == INSTANCE WorkQueue WITH status <- Status

ImplementsQueue == Abstract!Spec

\* "This is how the engine heals itself" (_recover_orphans): a recorded
\* candidate is ruled on in the end, also when the process whose vet failed
\* lives on and keeps the record looking busy.
EventuallyRuled == record # NoFile ~> row

\* "Two drains racing the same record produce one winner" (claim): no two
\* processes hold the recovery claim at once.
OneRecoverer == \A v, w \in recovering : v = w

\* The inductive invariant: a record is about to be removed only once there is
\* a ruling.
InflightInv ==
  /\ TypeOK
  /\ \A w \in Worker : pc[w] \in {"close", "settle"} => row
=============================================================================
