----------------------------- MODULE QueueLease -----------------------------
(***************************************************************************)
(* One backlogged candidate and the drain passes that re-vet it: its index *)
(* row with the queue lease in it and its dossier files (store.py), and    *)
(* the passes of _cmd_resume (run.py) that survey, claim, vet, save,       *)
(* publish and release it.                                                 *)
(*                                                                         *)
(* A worker is one pass.  Every statement on the database and every call   *)
(* on the file system that another pass can observe is a step of its own.  *)
(* A lease keeps its age, which stops growing once the lease has expired.  *)
(*                                                                         *)
(* Env names the freedoms the environment has:                             *)
(*   "db"       a statement on the index may raise                         *)
(*   "overrun"  a live worker may keep a lease past lease_ttl_s            *)
(*   "torn"     save() may stop, killed or refused by the database, between*)
(*              the dossier files and the index row                        *)
(***************************************************************************)
EXTENDS Naturals

CONSTANTS
  Worker,       \* the drain passes
  Foreign,      \* those that run on another machine than the rest
  Publishers,   \* those started with --publish
  None,         \* "nobody", "nothing"
  Outcome,      \* the rulings a vet can end in
  RevetKills,   \* schedule.revet_provisional_kills
  MaxAttempts,  \* schedule.max_resume_attempts; 0 disables the cap
  Ttl,          \* schedule.lease_ttl_s, in clock units
  MaxFaults,    \* bound: how many statements may raise
  Env           \* the freedoms of the environment, above

Decision == {"pass", "kill", "defer"}

\* infra: some check of the dossier carries retrieval_failed.
Ruling == [decision : Decision, prov : BOOLEAN, infra : BOOLEAN]

ASSUME QueueLeaseAssumption ==
  /\ Foreign \subseteq Worker
  /\ Publishers \subseteq Worker
  /\ None \notin Worker /\ None \notin Ruling
  /\ Outcome \subseteq Ruling
  /\ RevetKills \in BOOLEAN
  /\ MaxAttempts \in Nat
  /\ Ttl \in Nat \ {0}
  /\ MaxFaults \in Nat
  /\ Env \subseteq {"db", "overrun", "torn"}

LeaseRecord == [owner : Worker \cup {None}, over : BOOLEAN, age : 0 .. Ttl + 1]

NoOwner == [owner |-> None, over |-> FALSE, age |-> 0]
TakenBy(w) == [owner |-> w, over |-> FALSE, age |-> 0]

\* The setting in which one row has one worker: no pass publishes, a vet ends
\* before its lease does, and save() is not stopped half way.
Plain == Publishers = {} /\ Env \subseteq {"db"}

\* The setting in which it has one worker even if save() is stopped half way:
\* no pass publishes, and a vet ends before its lease does.
Timely == Publishers = {} /\ "overrun" \notin Env

VARIABLES
  row,       \* the index row: the decision and the provisional flag it holds
  lease,     \* lease_owner, whether its pass is over, and the age of the
             \* lease; NoOwner for NULL
  files,     \* the decisions whose dossier file is on disk
  tmp,       \* the decisions whose temporary file is on disk
  attempts,  \* the row's count in the attempt ledger, never kept past the cap
  pubLock,   \* the holder of the candidate's publish claim, or None
  pc,        \* what each pass does next
  seen,      \* the owner a pass found dead, or None
  verdict,   \* the dossier a pass holds, or None
  saved,     \* whether a pass has saved its dossier once
  faults     \* the number of statements that have raised

vars == <<row, lease, files, tmp, attempts, pubLock, pc, seen, verdict, saved, faults>>

Alive(w) == pc[w] # "dead"

Goto(w, label) == pc' = [pc EXCEPT ![w] = label]

\* The pass has a dossier or has given up, and is on its way out of _revet.
Quit(w) ==
  /\ Goto(w, "release")
  /\ verdict' = [verdict EXCEPT ![w] = None]
  /\ pubLock' = IF pubLock = w THEN None ELSE pubLock

Init ==
  /\ row = [decision |-> "defer", prov |-> FALSE]
  /\ lease = NoOwner
  /\ files = {"defer"}
  /\ tmp = {}
  /\ attempts = 0
  /\ pubLock = None
  /\ pc = [w \in Worker |-> "idle"]
  /\ seen = [w \in Worker |-> None]
  /\ verdict = [w \in Worker |-> None]
  /\ saved = [w \in Worker |-> FALSE]
  /\ faults = 0

-----------------------------------------------------------------------------
(***************************************************************************)
(* Selection                                                               *)
(***************************************************************************)
Drainable == row.decision = "defer" \/ row.prov

Stalled == MaxAttempts > 0 /\ attempts >= MaxAttempts

\* drain_survey(): neither stalled, nor an orphan, nor a provisional kill that
\* nobody asked to see again.
Workable ==
  /\ Drainable
  /\ ~Stalled
  /\ row.decision \in files
  /\ RevetKills \/ row.decision # "kill"

Survey(w) ==
  /\ pc[w] = "idle"
  /\ Workable
  /\ Goto(w, "filter")
  /\ UNCHANGED <<row, lease, files, tmp, attempts, pubLock, seen, verdict, saved, faults>>

\* leased(): lease_until IS NOT NULL AND lease_until > now.
Leased == lease # NoOwner /\ lease.age < Ttl

\* Mutant of Gone: a pid absent from this machine's process table is gone.
GoneMut(w, o) == o \in Worker /\ (~Alive(o) \/ (o \in Foreign <=> w \notin Foreign))

\* _owner_is_gone(): a pid proves something only on the machine that minted it.
Gone(w, o) ==
  /\ o \in Worker
  /\ ~Alive(o)
  /\ o \in Foreign <=> w \in Foreign

\* _drop_leased(): a row under a live lease is left out of the pass, unless its
\* owner is known to be gone.
Filter(w) ==
  /\ pc[w] = "filter"
  /\ \/ ~Leased /\ Goto(w, "claim") /\ UNCHANGED seen
     \/ Leased /\ ~Gone(w, lease.owner) /\ Goto(w, "idle") /\ UNCHANGED seen
     \/ /\ Leased /\ Gone(w, lease.owner)
        /\ Goto(w, "reclaim")
        /\ seen' = [seen EXCEPT ![w] = lease.owner]
  /\ UNCHANGED <<row, lease, files, tmp, attempts, pubLock, verdict, saved, faults>>

\* release() on behalf of the dead owner; the row stays out of the pass if it is
\* no longer that owner's.
Reclaim(w) ==
  /\ pc[w] = "reclaim"
  /\ IF lease.owner = seen[w]
     THEN lease' = NoOwner /\ Goto(w, "claim")
     ELSE UNCHANGED lease /\ Goto(w, "idle")
  /\ seen' = [seen EXCEPT ![w] = None]
  /\ UNCHANGED <<row, files, tmp, attempts, pubLock, verdict, saved, faults>>

-----------------------------------------------------------------------------
(***************************************************************************)
(* _revet()                                                                *)
(***************************************************************************)
\* The lease carries the owner string of w's present pass.
Owns(w) == lease.owner = w /\ ~lease.over

\* The WHERE clause of Store.claim.
Claimable(w) == lease = NoOwner \/ lease.age > Ttl \/ Owns(w)

\* Mutant of Claim: the survey's answer is trusted, the lease is not compared.
ClaimMut(w) ==
  /\ pc[w] = "claim"
  /\ lease' = TakenBy(w)
  /\ Goto(w, "get")
  /\ UNCHANGED <<row, files, tmp, attempts, pubLock, seen, verdict, saved, faults>>

\* Mutant of Claim: only a NULL lease is free, an expired one is not.
ClaimExpiredMut(w) ==
  /\ pc[w] = "claim"
  /\ IF lease = NoOwner
     THEN lease' = TakenBy(w) /\ Goto(w, "get")
     ELSE UNCHANGED lease /\ Goto(w, "idle")
  /\ UNCHANGED <<row, files, tmp, attempts, pubLock, seen, verdict, saved, faults>>

\* One UPDATE compares and sets the lease; the loser skips the row.
Claim(w) ==
  /\ pc[w] = "claim"
  /\ IF Claimable(w)
     THEN lease' = TakenBy(w) /\ Goto(w, "get")
     ELSE UNCHANGED lease /\ Goto(w, "idle")
  /\ UNCHANGED <<row, files, tmp, attempts, pubLock, seen, verdict, saved, faults>>

\* get(): the row may have changed since the survey; only its file is asked for.
Get(w) ==
  /\ pc[w] = "get"
  /\ Goto(w, IF row.decision \in files THEN "vet" ELSE "release")
  /\ UNCHANGED <<row, lease, files, tmp, attempts, pubLock, seen, verdict, saved, faults>>

\* verify() and build_dossier(): any ruling.
Vet(w) ==
  /\ pc[w] = "vet"
  /\ \E o \in Outcome : verdict' = [verdict EXCEPT ![w] = o]
  /\ Goto(w, "write")
  /\ UNCHANGED <<row, lease, files, tmp, attempts, pubLock, seen, saved, faults>>

\* The vet raises instead: scoring, artifacts and the dossier are not guarded.
VetRaises(w) ==
  /\ pc[w] = "vet"
  /\ Quit(w)
  /\ UNCHANGED <<row, lease, files, tmp, attempts, seen, saved, faults>>

-----------------------------------------------------------------------------
(***************************************************************************)
(* Store.save(): the temporary file, the rename, the sweep, the upsert     *)
(***************************************************************************)
WriteTmp(w) ==
  /\ pc[w] = "write"
  /\ tmp' = tmp \cup {verdict[w].decision}
  /\ Goto(w, "rename")
  /\ UNCHANGED <<row, lease, files, attempts, pubLock, seen, verdict, saved, faults>>

\* The temporary name depends on nothing but the candidate and the decision, so
\* the rename fails when another save of the same ruling has renamed it.
Rename(w) ==
  /\ pc[w] = "rename"
  /\ IF verdict[w].decision \in tmp
     THEN /\ tmp' = tmp \ {verdict[w].decision}
          /\ files' = files \cup {verdict[w].decision}
          /\ Goto(w, "sweep")
          /\ UNCHANGED <<verdict, pubLock>>
     ELSE Quit(w) /\ UNCHANGED <<tmp, files>>
  /\ UNCHANGED <<row, lease, attempts, seen, saved, faults>>

\* Mutant of Sweep: the sweep takes every decision file, the new one included.
SweepMut(w) ==
  /\ pc[w] = "sweep"
  /\ files' = {}
  /\ Goto(w, "upsert")
  /\ UNCHANGED <<row, lease, tmp, attempts, pubLock, seen, verdict, saved, faults>>

\* Removes the files of the other decisions.
Sweep(w) ==
  /\ pc[w] = "sweep"
  /\ files' = files \cap {verdict[w].decision}
  /\ Goto(w, "upsert")
  /\ UNCHANGED <<row, lease, tmp, attempts, pubLock, seen, verdict, saved, faults>>

\* vet_candidate publishes a trusted PASS once it is saved.
Publishable(w) ==
  w \in Publishers /\ verdict[w].decision = "pass" /\ ~verdict[w].prov

\* INSERT OR REPLACE over a column list without the lease: whoever holds the
\* lease loses it here.
Upsert(w) ==
  /\ pc[w] = "upsert"
  /\ row' = [decision |-> verdict[w].decision, prov |-> verdict[w].prov]
  /\ lease' = NoOwner
  /\ saved' = [saved EXCEPT ![w] = TRUE]
  /\ Goto(w, IF saved[w] THEN "unlock" ELSE IF Publishable(w) THEN "publish" ELSE "release")
  /\ UNCHANGED <<files, tmp, attempts, pubLock, seen, verdict, faults>>

-----------------------------------------------------------------------------
(***************************************************************************)
(* publish_and_record() and the way out                                    *)
(***************************************************************************)
\* Mutant of Publish: no publish claim is taken.
PublishMut(w) ==
  /\ pc[w] = "publish"
  /\ pubLock' = w
  /\ Goto(w, "mint")
  /\ UNCHANGED <<row, lease, files, tmp, attempts, seen, verdict, saved, faults>>

\* The publish claim is the lock of module ClaimLock, taken in one step.  A dead
\* holder's claim goes stale.
Publish(w) ==
  /\ pc[w] = "publish"
  /\ IF pubLock = None \/ (pubLock \in Worker /\ ~Alive(pubLock))
     THEN pubLock' = w /\ Goto(w, "mint")
     ELSE UNCHANGED pubLock /\ Goto(w, "release")
  /\ UNCHANGED <<row, lease, files, tmp, attempts, seen, verdict, saved, faults>>

\* The listing is pushed, or refused; either way the dossier is saved again.
Mint(w) ==
  /\ pc[w] = "mint"
  /\ Goto(w, "write")
  /\ UNCHANGED <<row, lease, files, tmp, attempts, pubLock, seen, verdict, saved, faults>>

Unlock(w) ==
  /\ pc[w] = "unlock"
  /\ pubLock' = None
  /\ Goto(w, "release")
  /\ UNCHANGED <<row, lease, files, tmp, attempts, seen, verdict, saved, faults>>

\* Mutant of Release: not scoped to the owner.
ReleaseMut(w) ==
  /\ pc[w] = "release"
  /\ lease' = NoOwner
  /\ saved' = [saved EXCEPT ![w] = FALSE]
  /\ Goto(w, IF verdict[w] = None THEN "idle" ELSE "tally")
  /\ UNCHANGED <<row, files, tmp, attempts, pubLock, seen, verdict, faults>>

\* release() in the finally clause of _revet, scoped to the owner.
Release(w) ==
  /\ pc[w] = "release"
  /\ lease' = IF Owns(w) THEN NoOwner ELSE lease
  /\ saved' = [saved EXCEPT ![w] = FALSE]
  /\ Goto(w, IF verdict[w] = None THEN "idle" ELSE "tally")
  /\ UNCHANGED <<row, files, tmp, attempts, pubLock, seen, verdict, faults>>

\* The completion loop of the pass: an unresolved row has spent an attempt, a
\* resolved one is forgotten, and a DEFER of our own making is neither.
Tally(w) ==
  /\ pc[w] = "tally"
  /\ attempts' =
       IF MaxAttempts = 0 \/ verdict[w].infra THEN attempts
       ELSE IF verdict[w].decision # "defer" /\ ~verdict[w].prov THEN 0
       ELSE IF attempts < MaxAttempts THEN attempts + 1 ELSE attempts
  /\ verdict' = [verdict EXCEPT ![w] = None]
  /\ Goto(w, "idle")
  /\ UNCHANGED <<row, lease, files, tmp, pubLock, seen, saved, faults>>

-----------------------------------------------------------------------------
(***************************************************************************)
(* The environment                                                         *)
(***************************************************************************)
Fault ==
  /\ "db" \in Env
  /\ faults < MaxFaults
  /\ faults' = faults + 1

\* A statement of the selection raises: leased() is caught and nothing is left
\* out, the others end the pass or the row.
SelectFails(w) ==
  /\ Fault
  /\ pc[w] \in {"filter", "reclaim", "claim"}
  /\ Goto(w, IF pc[w] = "filter" THEN "claim" ELSE "idle")
  /\ seen' = [seen EXCEPT ![w] = None]
  /\ UNCHANGED <<row, lease, files, tmp, attempts, pubLock, verdict, saved>>

\* A statement under the lease raises.
RowFails(w) ==
  /\ Fault
  /\ pc[w] \in {"get", "upsert"}
  /\ pc[w] = "upsert" => "torn" \in Env
  /\ Quit(w)
  /\ UNCHANGED <<row, lease, files, tmp, attempts, seen, saved>>

\* The lease is not given back.  The next pass of the process has a new owner
\* string.
ReleaseFails(w) ==
  /\ Fault
  /\ pc[w] = "release"
  /\ lease' = IF Owns(w) THEN [lease EXCEPT !.over = TRUE] ELSE lease
  /\ saved' = [saved EXCEPT ![w] = FALSE]
  /\ verdict' = [verdict EXCEPT ![w] = None]
  /\ Goto(w, "idle")
  /\ UNCHANGED <<row, files, tmp, attempts, pubLock, seen>>

\* The process of the pass is killed; one started in its place is another
\* worker.  One worker always survives.
Crash(w) ==
  /\ Alive(w)
  /\ pc[w] = "upsert" => "torn" \in Env
  /\ \E v \in Worker \ {w} : Alive(v)
  /\ Goto(w, "dead")
  /\ seen' = [seen EXCEPT ![w] = None]
  /\ verdict' = [verdict EXCEPT ![w] = None]
  /\ saved' = [saved EXCEPT ![w] = FALSE]
  /\ UNCHANGED <<row, lease, files, tmp, attempts, pubLock, faults>>

Tick ==
  /\ lease # NoOwner
  /\ lease.age <= Ttl
  /\ \/ "overrun" \in Env
     \/ \A w \in Worker : Owns(w) /\ Alive(w) => lease.age + 1 < Ttl
  /\ lease' = [lease EXCEPT !.age = @ + 1]
  /\ UNCHANGED <<row, files, tmp, attempts, pubLock, pc, seen, verdict, saved, faults>>

-----------------------------------------------------------------------------
\* The steps of a pass under way, none of them a failure.
Step(w) ==
  \/ Filter(w) \/ Reclaim(w) \/ Claim(w) \/ Get(w) \/ Vet(w)
  \/ WriteTmp(w) \/ Rename(w) \/ Sweep(w) \/ Upsert(w)
  \/ Publish(w) \/ Mint(w) \/ Unlock(w) \/ Release(w) \/ Tally(w)

Next ==
  \/ \E w \in Worker :
       \/ Survey(w) \/ Step(w) \/ VetRaises(w)
       \/ SelectFails(w) \/ RowFails(w) \/ ReleaseFails(w) \/ Crash(w)
  \/ Tick

Spec == Init /\ [][Next]_vars

\* The consumer starts a pass as long as there is work, passes go on, and time
\* passes.
Fairness ==
  /\ WF_vars(Tick)
  /\ \A w \in Worker : WF_vars(Survey(w)) /\ WF_vars(Step(w))

FairSpec == Spec /\ Fairness

-----------------------------------------------------------------------------
(***************************************************************************)
(* Properties                                                              *)
(***************************************************************************)
Section == {"get", "vet", "write", "rename", "sweep", "upsert"}
Label   == Section \cup {"idle", "filter", "reclaim", "claim", "publish", "mint",
                         "unlock", "release", "tally", "dead"}

TypeOK ==
  /\ row \in [decision : Decision, prov : BOOLEAN]
  /\ lease \in LeaseRecord
  /\ files \subseteq Decision
  /\ tmp \subseteq Decision
  /\ attempts \in 0 .. MaxAttempts
  /\ pubLock \in Worker \cup {None}
  /\ pc \in [Worker -> Label]
  /\ seen \in [Worker -> Worker \cup {None}]
  /\ verdict \in [Worker -> Outcome \cup {None}]
  /\ saved \in [Worker -> BOOLEAN]
  /\ faults \in 0 .. MaxFaults

\* w has claimed the row and its ruling is not in the index yet.
Vetting(w) == pc[w] \in Section /\ ~saved[w]

\* "A queue ENTRY that exactly one worker may hold" (store.py): no two passes
\* vet the row at once, however their surveys, claims, deaths and expiries
\* interleave.
SingleVet == \A v, w \in Worker : Vetting(v) /\ Vetting(w) => v = w

\* The file the index points at is on disk, except for the moment between the
\* sweep and the upsert of a save: no interleaving of passes turns the row into
\* an orphan that no drain can work on.
RowBacked == row.decision \in files \/ \E w \in Worker : pc[w] = "upsert"

\* The fixed temporary name is never renamed away under the save that wrote it.
RenameFinds == \A w \in Worker : pc[w] = "rename" => verdict[w].decision \in tmp

\* Passes that publish hold the publish claim from the mint to the second save,
\* which therefore never overlaps another pass's.
Publishing(w) == pc[w] \in {"mint", "unlock"} \/ (pc[w] \in Section /\ saved[w])

SinglePublisher ==
  \A v, w \in Worker : Publishing(v) /\ Publishing(w) => v = w

\* "A worker that is SIGKILLed mid-vet returns its row to the queue by doing
\* nothing at all": a row that is there to be worked on is taken up again,
\* whoever died, failed or overran with its lease.
RowReturns == Workable ~> (~Workable \/ \E w \in Worker : pc[w] = "vet")

\* "The compare-and-swap is the whole defence" against paying for two vets
\* (_revet): a pass only ever begins to vet a row that still awaits a ruling.
OnlyDrainableVetted ==
  [][\A w \in Worker : pc[w] = "get" /\ pc'[w] = "vet" => Drainable]_vars

\* "Killing the process cannot lose it" (inflight.py): a row that still awaits a
\* ruling and that nobody is saving has a file for the next pass to load.
NeverStranded ==
  Drainable /\ (\A w \in Worker : pc[w] # "upsert") => row.decision \in files

-----------------------------------------------------------------------------
(***************************************************************************)
(* The inductive invariant, in named parts: what a lease gives where vets  *)
(* end in time, and the row's file where saves run to their end too.       *)
(***************************************************************************)
\* A pass that is about to save, publish or tally a dossier has one.
HasRuling ==
  \A w \in Worker :
    pc[w] \in {"write", "rename", "sweep", "upsert", "publish", "mint", "tally"}
      => verdict[w] # None

\* Whoever is between its claim and its upsert holds a live lease; whoever is
\* about to be relieved of one is dead.
LeaseInv ==
  /\ lease.owner = None => lease = NoOwner
  /\ \A w \in Worker :
       /\ pc[w] \in Section => Owns(w) /\ lease.age < Ttl
       /\ pc[w] = "reclaim" => seen[w] \in Worker /\ ~Alive(seen[w])

\* Nobody is publishing.
NoPublish ==
  \A w \in Worker :
    /\ pc[w] \notin {"publish", "mint", "unlock"}
    /\ saved[w] => pc[w] = "release"

\* How far the save under way has come.
SaveInv ==
  \A w \in Worker :
    /\ pc[w] = "rename" => verdict[w].decision \in tmp
    /\ pc[w] \in {"sweep", "upsert"} => verdict[w].decision \in files

TimelyInv == TypeOK /\ HasRuling /\ LeaseInv /\ NoPublish /\ SaveInv

QueueInv == TimelyInv /\ RowBacked

\* With publishing passes too: the publish claim is its holder's.
PublishInv ==
  \A w \in Worker :
    /\ Publishing(w) => pubLock = w
    /\ saved[w] => pc[w] \in Section \cup {"publish", "mint", "unlock", "release"}

-----------------------------------------------------------------------------
(***************************************************************************)
(* The columns of the row implement the lease: a worker works from its     *)
(* claim until its ruling is in the index.                                 *)
(***************************************************************************)
Working == {w \in Worker : pc[w] \in Section}

Abstract == INSTANCE Lease WITH owner <- lease.owner, working <- Working

ImplementsLease == Abstract!Spec
=============================================================================
