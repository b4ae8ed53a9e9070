------------------------------ MODULE ClaimLock ------------------------------
(***************************************************************************)
(* The per-candidate claim lock of prospector/claim_lock.py: one lock file *)
(* and its ".steal" guard, for one (candidate_id, purpose) key.  Keys do   *)
(* not share files, so one key stands for all.                             *)
(*                                                                         *)
(* Every system call on the two files is a step of its own and the steps   *)
(* of different workers interleave freely.  Times are kept as ages that    *)
(* stop growing one past the threshold they are compared with: the code    *)
(* only ever asks whether an age exceeds its threshold.                    *)
(*                                                                         *)
(* Env names the freedoms the environment has, so that a property can say  *)
(* which of them it survives:                                              *)
(*   "io"       a system call on either file may fail                      *)
(*   "leak"     a worker may leave its .steal file behind, by dying inside *)
(*              the guarded section or by failing to create or remove it   *)
(*   "overrun"  a live holder may keep its claim past stale_after_s        *)
(*   "stall"    the clock may advance while a call to claim() or release() *)
(*              is under way                                               *)
(*   "blink"    a claim may be released within the clock unit it was taken *)
(***************************************************************************)
EXTENDS Naturals

CONSTANTS
  Worker,       \* the processes and threads that compete for the claim
  None,         \* "no worker"
  NoFile,       \* the content of a path at which there is no file
  Token,        \* the uuids written into lock records
  StaleAfter,   \* stale_after_s, in clock units
  StealStale,   \* _STEAL_STALE_S, in clock units
  MaxFaults,    \* bound: how many system calls may fail
  Env           \* the freedoms of the environment, above

LockAge    == 0 .. StaleAfter + 1
StealAge   == 0 .. StealStale + 1
LockRecord == [token : Token, by : Worker, ready : BOOLEAN, age : LockAge]

ASSUME ClaimLockAssumption ==
  /\ None \notin Worker
  /\ NoFile \notin Nat /\ NoFile \notin LockRecord
  /\ Token \subseteq Nat
  /\ StaleAfter \in Nat \ {0}
  /\ StealStale \in Nat \ {0}
  /\ MaxFaults \in Nat
  /\ Env \subseteq {"io", "leak", "overrun", "stall", "blink"}

\* The environment under which the lock is meant to work: calls may fail, and
\* workers may die anywhere but inside the guarded section.
Calm == Env \subseteq {"io"}

\* Thieves come out of the guarded section before time passes, whatever else happens: claims may
\* outlive StaleAfter and the shared file system's clock and listings may be behind.
Brisk == Env \cap {"leak", "stall"} = {}

VARIABLES
  lock,     \* the lock file: NoFile, or its record and age
  steal,    \* the steal file: NoFile, or its age
  pc,       \* what each worker does next
  token,    \* the token each worker minted for its claim, or NoFile
  seen,     \* the token of the record a thief judged stale, or NoFile
  clear,    \* whether _expire() left the path clear, per worker
  heldFor,  \* the age of each worker's claim
  faults    \* the number of system calls that have failed

vars == <<lock, steal, pc, token, seen, clear, heldFor, faults>>

Calling    == {"create", "write", "judge", "guard", "unguard", "seize",
               "retry", "verify", "remove"}
Guarded    == {"read", "confirm", "rejudge", "unlink", "drop"}
Holding    == {"held", "verify", "remove"}

Older(age, limit) == IF age > limit THEN age ELSE age + 1

Goto(w, label) == pc' = [pc EXCEPT ![w] = label]

\* Tokens somebody still remembers; uuid4 never mints one of them again.
InUse ==
  {token[w] : w \in Worker} \cup {seen[w] : w \in Worker}
    \cup (IF lock = NoFile THEN {} ELSE {lock.token})

Init ==
  /\ lock = NoFile
  /\ steal = NoFile
  /\ pc = [w \in Worker |-> "idle"]
  /\ token = [w \in Worker |-> NoFile]
  /\ seen = [w \in Worker |-> NoFile]
  /\ clear = [w \in Worker |-> FALSE]
  /\ heldFor = [w \in Worker |-> 0]
  /\ faults = 0

-----------------------------------------------------------------------------
(***************************************************************************)
(* claim()                                                                 *)
(***************************************************************************)
Claim(w) ==
  /\ pc[w] = "idle"
  /\ Goto(w, "create")
  /\ UNCHANGED <<lock, steal, token, seen, clear, heldFor, faults>>

\* os.open(O_CREAT | O_EXCL) succeeded: an empty file, dated by its mtime.
\* The lowest unused token stands for a fresh uuid.
Create(w) ==
  /\ pc[w] \in {"create", "retry"}
  /\ lock = NoFile
  /\ \E t \in Token \ InUse :
       /\ \A u \in Token \ InUse : t <= u
       /\ lock' = [token |-> t, by |-> w, ready |-> FALSE, age |-> 0]
       /\ token' = [token EXCEPT ![w] = t]
  /\ heldFor' = [heldFor EXCEPT ![w] = 0]
  /\ Goto(w, "write")
  /\ UNCHANGED <<steal, seen, clear, faults>>

\* FileExistsError: the first attempt goes on to judge the lock, the second
\* one gives up.
CreateRefused(w) ==
  /\ lock # NoFile
  /\ \/ pc[w] = "create" /\ Goto(w, "judge")
     \/ pc[w] = "retry" /\ Goto(w, "idle")
  /\ UNCHANGED <<lock, steal, token, seen, clear, heldFor, faults>>

\* The record reaches the file that was created, which is the lock unless
\* somebody unlinked it since; claim() returns True either way.
Write(w) ==
  /\ pc[w] = "write"
  /\ lock' = IF lock # NoFile /\ lock.token = token[w]
             THEN [lock EXCEPT !.ready = TRUE] ELSE lock
  /\ Goto(w, "held")
  /\ UNCHANGED <<steal, token, seen, clear, heldFor, faults>>

\* An absent lock counts as stale: the create is worth another try.
Stale == IF lock = NoFile THEN TRUE ELSE lock.age > StaleAfter

\* claim() asks _is_stale(): a fresh lock ends the call with False.
Judge(w) ==
  /\ pc[w] = "judge"
  /\ Goto(w, IF Stale THEN "guard" ELSE "idle")
  /\ UNCHANGED <<lock, steal, token, seen, clear, heldFor, faults>>

-----------------------------------------------------------------------------
(***************************************************************************)
(* _expire()                                                               *)
(***************************************************************************)
\* Mutant of Guard: a steal file is never judged dead.
GuardMut(w) ==
  /\ pc[w] = "guard"
  /\ Goto(w, "seize")
  /\ UNCHANGED <<lock, steal, token, seen, clear, heldFor, faults>>

\* Dates the steal file of another thief.
Guard(w) ==
  /\ pc[w] = "guard"
  /\ Goto(w, IF steal # NoFile /\ steal > StealStale THEN "unguard" ELSE "seize")
  /\ UNCHANGED <<lock, steal, token, seen, clear, heldFor, faults>>

\* Removes the steal file it dated, or whatever is at that path by now.
Unguard(w) ==
  /\ pc[w] = "unguard"
  /\ steal' = NoFile
  /\ Goto(w, "seize")
  /\ UNCHANGED <<lock, token, seen, clear, heldFor, faults>>

\* Mutant of Seize: the steal file is opened without O_EXCL.
SeizeMut(w) ==
  /\ pc[w] = "seize"
  /\ steal' = 0
  /\ Goto(w, "read")
  /\ UNCHANGED <<lock, token, seen, clear, heldFor, faults>>

Seize(w) ==
  /\ pc[w] = "seize"
  /\ steal = NoFile
  /\ steal' = 0
  /\ Goto(w, "read")
  /\ UNCHANGED <<lock, token, seen, clear, heldFor, faults>>

SeizeRefused(w) ==
  /\ pc[w] = "seize"
  /\ steal # NoFile
  /\ Goto(w, "idle")
  /\ UNCHANGED <<lock, steal, token, seen, clear, heldFor, faults>>

\* Leaves the guarded section for its finally clause.
Leave(w, result) ==
  /\ Goto(w, "drop")
  /\ clear' = [clear EXCEPT ![w] = result]
  /\ seen' = [seen EXCEPT ![w] = NoFile]

\* Mutant of Read: an absent lock is judged stale here as it is in claim().
ReadAbsentMut(w) ==
  /\ pc[w] = "read"
  /\ \/ lock = NoFile /\ Goto(w, "unlink") /\ UNCHANGED <<clear, seen>>
     \/ lock # NoFile /\ lock.age <= StaleAfter /\ Leave(w, FALSE)
     \/ /\ lock # NoFile /\ lock.age > StaleAfter
        /\ seen' = [seen EXCEPT ![w] = lock.token]
        /\ Goto(w, "confirm")
        /\ UNCHANGED clear
  /\ UNCHANGED <<lock, steal, token, heldFor, faults>>

\* Mutant of Read: staleness is not judged again inside the section.
ReadTrustingMut(w) ==
  /\ pc[w] = "read"
  /\ \/ lock = NoFile /\ Leave(w, TRUE)
     \/ lock # NoFile /\ Goto(w, "unlink") /\ UNCHANGED <<clear, seen>>
  /\ UNCHANGED <<lock, steal, token, heldFor, faults>>

\* Reads the lock inside the section.  There is nothing to expire on an empty
\* path; a record that does not parse is judged by its mtime, in a step of its
\* own; one that does is judged by its ts.
Read(w) ==
  /\ pc[w] = "read"
  /\ \/ lock = NoFile /\ Leave(w, TRUE)
     \/ lock # NoFile /\ ~lock.ready /\ Goto(w, "rejudge") /\ UNCHANGED <<clear, seen>>
     \/ lock # NoFile /\ lock.ready /\ lock.age <= StaleAfter /\ Leave(w, FALSE)
     \/ /\ lock # NoFile /\ lock.ready /\ lock.age > StaleAfter
        /\ seen' = [seen EXCEPT ![w] = lock.token]
        /\ Goto(w, "confirm")
        /\ UNCHANGED clear
  /\ UNCHANGED <<lock, steal, token, heldFor, faults>>

\* The record did not parse: _is_stale() reads the path again, and here too an
\* absent file counts as stale.
Rejudge(w) ==
  /\ pc[w] = "rejudge"
  /\ \/ ~Stale /\ Leave(w, FALSE)
     \/ Stale /\ Goto(w, "unlink") /\ UNCHANGED <<clear, seen>>
  /\ UNCHANGED <<lock, steal, token, heldFor, faults>>

\* Reads the lock again and compares its token with the one judged stale.
Confirm(w) ==
  /\ pc[w] = "confirm"
  /\ \/ lock = NoFile /\ Leave(w, TRUE)
     \/ lock # NoFile /\ ~(lock.ready /\ lock.token = seen[w]) /\ Leave(w, FALSE)
     \/ /\ lock # NoFile /\ lock.ready /\ lock.token = seen[w]
        /\ Goto(w, "unlink")
        /\ UNCHANGED <<clear, seen>>
  /\ UNCHANGED <<lock, steal, token, heldFor, faults>>

\* _unlink_corpse(): removes the path, whatever is there.
Unlink(w) ==
  /\ pc[w] = "unlink"
  /\ lock' = NoFile
  /\ Leave(w, TRUE)
  /\ UNCHANGED <<steal, token, heldFor, faults>>

\* The finally clause removes the steal path, then claim() creates or gives up.
Drop(w) ==
  /\ pc[w] = "drop"
  /\ steal' = NoFile
  /\ Goto(w, IF clear[w] THEN "retry" ELSE "idle")
  /\ clear' = [clear EXCEPT ![w] = FALSE]
  /\ UNCHANGED <<lock, token, seen, heldFor, faults>>

-----------------------------------------------------------------------------
(***************************************************************************)
(* release(), which claiming() calls when its body ends or raises          *)
(***************************************************************************)
Release(w) ==
  /\ pc[w] = "held"
  /\ "blink" \in Env \/ heldFor[w] > 0
  /\ Goto(w, "verify")
  /\ UNCHANGED <<lock, steal, token, seen, clear, heldFor, faults>>

Forget(w) ==
  /\ token' = [token EXCEPT ![w] = NoFile]
  /\ heldFor' = [heldFor EXCEPT ![w] = 0]

\* Compares the token in the file with the one popped from _tokens.  A file
\* that is gone, that another worker holds, or that does not parse is left alone.
Verify(w) ==
  /\ pc[w] = "verify"
  /\ \/ /\ lock # NoFile /\ lock.ready /\ lock.token = token[w]
        /\ Goto(w, "remove")
        /\ UNCHANGED <<token, heldFor>>
     \/ /\ ~(lock # NoFile /\ lock.ready /\ lock.token = token[w])
        /\ Goto(w, "idle")
        /\ Forget(w)
  /\ UNCHANGED <<lock, steal, seen, clear, faults>>

\* Unlinks the path, whatever is there by now.
Remove(w) ==
  /\ pc[w] = "remove"
  /\ lock' = NoFile
  /\ Goto(w, "idle")
  /\ Forget(w)
  /\ UNCHANGED <<steal, seen, clear, faults>>

-----------------------------------------------------------------------------
(***************************************************************************)
(* The environment                                                         *)
(***************************************************************************)
Fault ==
  /\ "io" \in Env
  /\ faults < MaxFaults
  /\ faults' = faults + 1

\* An OSError outside the guarded section.  A lock that cannot be read is dated
\* as freshly taken; a record that cannot be written leaves an empty file and
\* claim() raises; a claim that cannot be verified or unlinked is not released.
CallFails(w) ==
  /\ Fault
  /\ pc[w] \in Calling
  /\ Goto(w, IF pc[w] \in {"guard", "unguard"} THEN "seize" ELSE "idle")
  /\ IF pc[w] \in {"write", "verify", "remove"}
     THEN Forget(w) ELSE UNCHANGED <<token, heldFor>>
  /\ UNCHANGED <<lock, steal, seen, clear>>

\* Mutant of GuardedCallFails: a lock that cannot be read counts as stale.
GuardedCallFailsMut(w) ==
  /\ Fault
  /\ pc[w] \in Guarded \ {"drop"}
  /\ IF pc[w] = "rejudge"
     THEN Goto(w, "unlink") /\ UNCHANGED <<clear, seen>>
     ELSE Leave(w, FALSE)
  /\ UNCHANGED <<lock, steal, token, heldFor>>

\* An OSError inside it: nothing is removed and _expire() returns False.
GuardedCallFails(w) ==
  /\ Fault
  /\ pc[w] \in Guarded \ {"drop"}
  /\ Leave(w, FALSE)
  /\ UNCHANGED <<lock, steal, token, heldFor>>

\* The steal file was created but not written, and _expire() raises; or its
\* final unlink failed.  Either way it stays behind.
StealLeaks(w) ==
  /\ Fault
  /\ "leak" \in Env
  /\ \/ /\ pc[w] = "seize" /\ steal = NoFile
        /\ steal' = 0
        /\ Goto(w, "idle")
        /\ UNCHANGED clear
     \/ /\ pc[w] = "drop"
        /\ Goto(w, IF clear[w] THEN "retry" ELSE "idle")
        /\ clear' = [clear EXCEPT ![w] = FALSE]
        /\ UNCHANGED steal
  /\ UNCHANGED <<lock, token, seen, heldFor>>

\* A worker dies; a process started in its place is another worker.  One
\* worker always survives.
Crash(w) ==
  /\ pc[w] # "dead"
  /\ pc[w] \in Guarded => "leak" \in Env
  /\ \E v \in Worker \ {w} : pc[v] # "dead"
  /\ Goto(w, "dead")
  /\ token' = [token EXCEPT ![w] = NoFile]
  /\ seen' = [seen EXCEPT ![w] = NoFile]
  /\ clear' = [clear EXCEPT ![w] = FALSE]
  /\ heldFor' = [heldFor EXCEPT ![w] = 0]
  /\ UNCHANGED <<lock, steal, faults>>

Tick ==
  /\ "stall" \in Env \/ \A w \in Worker : pc[w] \in {"idle", "held", "dead"}
  /\ "overrun" \in Env \/ \A w \in Worker : pc[w] \in Holding => heldFor[w] < StaleAfter
  /\ lock' = IF lock = NoFile THEN NoFile
             ELSE [lock EXCEPT !.age = Older(lock.age, StaleAfter)]
  /\ steal' = IF steal = NoFile THEN NoFile ELSE Older(steal, StealStale)
  /\ heldFor' = [w \in Worker |->
                   IF pc[w] \in Holding \cup {"write"}
                   THEN Older(heldFor[w], StaleAfter) ELSE heldFor[w]]
  /\ UNCHANGED <<pc, token, seen, clear, faults>>

-----------------------------------------------------------------------------
\* The steps of a call that is under way, none of them a failure.
Step(w) ==
  \/ Create(w) \/ CreateRefused(w) \/ Write(w) \/ Judge(w)
  \/ Guard(w) \/ Unguard(w) \/ Seize(w) \/ SeizeRefused(w)
  \/ Read(w) \/ Rejudge(w) \/ Confirm(w) \/ Unlink(w) \/ Drop(w)
  \/ Verify(w) \/ Remove(w)

Next ==
  \/ \E w \in Worker :
       \/ Claim(w) \/ Step(w) \/ Release(w)
       \/ CallFails(w) \/ GuardedCallFails(w) \/ StealLeaks(w) \/ Crash(w)
  \/ Tick

Spec == Init /\ [][Next]_vars

\* Calls return, bodies end, time passes, and the drain passes of every live
\* worker keep asking for the candidate.
Fairness ==
  /\ WF_vars(Tick)
  /\ \A w \in Worker : WF_vars(Step(w)) /\ WF_vars(Release(w)) /\ WF_vars(Claim(w))

FairSpec == Spec /\ Fairness

-----------------------------------------------------------------------------
(***************************************************************************)
(* Properties                                                              *)
(***************************************************************************)
TypeOK ==
  /\ lock \in {NoFile} \cup LockRecord
  /\ steal \in {NoFile} \cup StealAge
  /\ pc \in [Worker -> Calling \cup Guarded \cup {"idle", "held", "dead"}]
  /\ token \in [Worker -> Token \cup {NoFile}]
  /\ seen \in [Worker -> Token \cup {NoFile}]
  /\ clear \in [Worker -> BOOLEAN]
  /\ heldFor \in [Worker -> LockAge]
  /\ faults \in 0 .. MaxFaults

\* claim() has told w True, w has not finished releasing it, and it has not
\* expired.
HasClaim(w) == pc[w] \in Holding /\ heldFor[w] <= StaleAfter

\* "The winner of the subsequent O_EXCL create is still the single holder":
\* no two workers hold unexpired claims on one key.
SingleHolder ==
  \A v, w \in Worker : HasClaim(v) /\ HasClaim(w) => v = w

\* "At most one worker is in this critical section" (_expire).
SingleThief ==
  \A v, w \in Worker : pc[v] \in Guarded /\ pc[w] \in Guarded => v = w

\* An unexpired claim leaves the directory by its holder's hand: no other
\* worker's unlink ever removes it, whatever was judged before.
OnlyHolderRemoves ==
  [][\A w \in Worker :
       HasClaim(w) /\ lock # NoFile /\ lock.token = token[w] /\ lock' = NoFile
         => pc[w] = "remove" /\ pc'[w] = "idle"]_vars

\* A claim nobody alive holds any more does not block the key for ever, however
\* its holder and however many thieves died on the way.
OrphanClears ==
  \A t \in Token :
    (lock # NoFile /\ lock.token = t /\ \A w \in Worker : token[w] # t)
      ~> (lock = NoFile \/ lock.token # t)

-----------------------------------------------------------------------------
(***************************************************************************)
(* The inductive invariant, in three named parts.                          *)
(***************************************************************************)
\* The steal file stands exactly for the one thief inside the section, and is
\* never old enough to be taken for a dead thief's.
GuardInv ==
  /\ steal # NoFile => steal = 0 /\ \E w \in Worker : pc[w] \in Guarded
  /\ \A w \in Worker : pc[w] \in Guarded => steal # NoFile
  /\ \A w \in Worker : pc[w] # "unguard"
  /\ SingleThief

\* The lock file of a working worker is on disk, is its own, and has not expired.
OwnsLock(w) ==
  pc[w] \in Holding \cup {"write"} =>
    /\ lock # NoFile
    /\ lock.by = w
    /\ lock.token = token[w]
    /\ lock.ready <=> pc[w] # "write"
    /\ lock.age = heldFor[w]
    /\ heldFor[w] <= StaleAfter
    /\ pc[w] = "write" => heldFor[w] = 0
    /\ pc[w] \in {"verify", "remove"} => heldFor[w] > 0

HolderInv == \A w \in Worker : OwnsLock(w)

\* What a thief is about to remove has expired; while one looks again at a
\* record that did not parse, nobody can be releasing.
ThiefInv ==
  \A w \in Worker :
    /\ pc[w] \in {"confirm", "unlink"} => lock # NoFile /\ lock.age > StaleAfter
    /\ pc[w] = "rejudge" =>
         /\ lock # NoFile
         /\ \A v \in Worker : pc[v] \in Holding => heldFor[v] = 0

LockInv == TypeOK /\ GuardInv /\ HolderInv /\ ThiefInv

-----------------------------------------------------------------------------
(***************************************************************************)
(* The file system implements the lease: its owner is whoever created the  *)
(* lock file, and a worker works from that create until its release.       *)
(***************************************************************************)
Owner   == IF lock = NoFile THEN None ELSE lock.by
Working == {w \in Worker : pc[w] \in Holding \cup {"write"}}

Abstract == INSTANCE Lease WITH owner <- Owner, working <- Working

ImplementsLease == Abstract!Spec
=============================================================================
