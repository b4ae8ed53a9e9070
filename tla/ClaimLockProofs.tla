--------------------------- MODULE ClaimLockProofs ---------------------------
(***************************************************************************)
(* In a calm environment (system calls may fail, workers may die anywhere  *)
(* but inside the guarded section) the claim lock has one holder, one      *)
(* thief, and implements the lease: for every set of workers and every     *)
(* value of the two thresholds.                                            *)
(***************************************************************************)
EXTENDS ClaimLock, TLAPS

USE ClaimLockAssumption

-----------------------------------------------------------------------------
(***************************************************************************)
(* Type correctness, which holds in every environment.                     *)
(***************************************************************************)
LEMMA TypeInit == Init => TypeOK
  BY DEF Init, TypeOK, LockAge, StealAge

LEMMA TypeStep == TypeOK /\ [Next]_vars => TypeOK'
  <1> SUFFICES ASSUME TypeOK, [Next]_vars PROVE TypeOK'
    OBVIOUS
  <1> USE DEF TypeOK, LockRecord, LockAge, StealAge, Calling, Guarded, Goto
  <1>1. ASSUME NEW w \in Worker, Claim(w) PROVE TypeOK'
    BY <1>1 DEF Claim
  <1>2. ASSUME NEW w \in Worker, Create(w) PROVE TypeOK'
    BY <1>2 DEF Create, InUse
  <1>3. ASSUME NEW w \in Worker, CreateRefused(w) PROVE TypeOK'
    BY <1>3 DEF CreateRefused
  <1>4. ASSUME NEW w \in Worker, Write(w) PROVE TypeOK'
    BY <1>4 DEF Write
  <1>5. ASSUME NEW w \in Worker, Judge(w) PROVE TypeOK'
    BY <1>5 DEF Judge
  <1>6. ASSUME NEW w \in Worker, Guard(w) PROVE TypeOK'
    BY <1>6 DEF Guard
  <1>7. ASSUME NEW w \in Worker, Unguard(w) PROVE TypeOK'
    BY <1>7 DEF Unguard
  <1>8. ASSUME NEW w \in Worker, Seize(w) PROVE TypeOK'
    BY <1>8 DEF Seize
  <1>9. ASSUME NEW w \in Worker, SeizeRefused(w) PROVE TypeOK'
    BY <1>9 DEF SeizeRefused
  <1>10. ASSUME NEW w \in Worker, Read(w) PROVE TypeOK'
    BY <1>10 DEF Read, Leave
  <1>11. ASSUME NEW w \in Worker, Rejudge(w) PROVE TypeOK'
    BY <1>11 DEF Rejudge, Leave
  <1>12. ASSUME NEW w \in Worker, Confirm(w) PROVE TypeOK'
    BY <1>12 DEF Confirm, Leave
  <1>13. ASSUME NEW w \in Worker, Unlink(w) PROVE TypeOK'
    BY <1>13 DEF Unlink, Leave
  <1>14. ASSUME NEW w \in Worker, Drop(w) PROVE TypeOK'
    BY <1>14 DEF Drop
  <1>15. ASSUME NEW w \in Worker, Verify(w) PROVE TypeOK'
    BY <1>15 DEF Verify, Forget
  <1>16. ASSUME NEW w \in Worker, Remove(w) PROVE TypeOK'
    BY <1>16 DEF Remove, Forget
  <1>17. ASSUME NEW w \in Worker, Release(w) PROVE TypeOK'
    BY <1>17 DEF Release
  <1>18. ASSUME NEW w \in Worker, CallFails(w) PROVE TypeOK'
    BY <1>18 DEF CallFails, Fault, Forget
  <1>19. ASSUME NEW w \in Worker, GuardedCallFails(w) PROVE TypeOK'
    BY <1>19 DEF GuardedCallFails, Fault, Leave
  <1>20. ASSUME NEW w \in Worker, StealLeaks(w) PROVE TypeOK'
    <2>1. faults' \in 0 .. MaxFaults
      BY <1>20 DEF StealLeaks, Fault
    <2>2. CASE pc[w] = "seize"
      BY <1>20, <2>1, <2>2 DEF StealLeaks
    <2>3. CASE pc[w] = "drop"
      BY <1>20, <2>1, <2>3 DEF StealLeaks
    <2>. QED
      BY <1>20, <2>2, <2>3 DEF StealLeaks
  <1>21. ASSUME NEW w \in Worker, Crash(w) PROVE TypeOK'
    BY <1>21 DEF Crash
  <1>22. CASE Tick
    BY <1>22 DEF Tick, Older, Holding
  <1>23. CASE UNCHANGED vars
    BY <1>23 DEF vars
  <1>. QED
    BY <1>1, <1>2, <1>3, <1>4, <1>5, <1>6, <1>7, <1>8, <1>9, <1>10, <1>11, <1>12, <1>13, <1>14, <1>15, <1>16, <1>17, <1>18, <1>19, <1>20, <1>21, <1>22, <1>23 DEF Next, Step

\* Whatever the environment does, every variable keeps its type.
THEOREM TypeCorrect == Spec => []TypeOK
  BY TypeInit, TypeStep, PTL DEF Spec

-----------------------------------------------------------------------------
(***************************************************************************)
(* The invariant, in a calm environment.                                   *)
(***************************************************************************)
LEMMA LockInit == Init => LockInv
  <1> SUFFICES ASSUME Init PROVE LockInv
    OBVIOUS
  <1>1. TypeOK
    BY TypeInit
  <1>2. GuardInv /\ HolderInv /\ ThiefInv
    BY DEF Init, GuardInv, HolderInv, OwnsLock, ThiefInv, SingleThief, Guarded, Holding
  <1>. QED
    BY <1>1, <1>2 DEF LockInv

LEMMA GuardStep ==
  ASSUME Brisk, TypeOK, GuardInv, [Next]_vars
  PROVE  GuardInv'
  <1> USE DEF TypeOK, LockRecord, LockAge, StealAge, Calling, Guarded, Holding, Goto, GuardInv, SingleThief
  <1>1. ASSUME NEW w \in Worker, Claim(w) PROVE GuardInv'
    BY <1>1 DEF Claim
  <1>2. ASSUME NEW w \in Worker, Create(w) PROVE GuardInv'
    BY <1>2 DEF Create, InUse
  <1>3. ASSUME NEW w \in Worker, CreateRefused(w) PROVE GuardInv'
    BY <1>3 DEF CreateRefused
  <1>4. ASSUME NEW w \in Worker, Write(w) PROVE GuardInv'
    BY <1>4 DEF Write
  <1>5. ASSUME NEW w \in Worker, Judge(w) PROVE GuardInv'
    BY <1>5 DEF Judge, Stale
  <1>6. ASSUME NEW w \in Worker, Guard(w) PROVE GuardInv'
    BY <1>6 DEF Guard
  <1>7. ASSUME NEW w \in Worker, Unguard(w) PROVE GuardInv'
    BY <1>7 DEF Unguard
  <1>8. ASSUME NEW w \in Worker, Seize(w) PROVE GuardInv'
    BY <1>8 DEF Seize
  <1>9. ASSUME NEW w \in Worker, SeizeRefused(w) PROVE GuardInv'
    BY <1>9 DEF SeizeRefused
  <1>10. ASSUME NEW w \in Worker, Read(w) PROVE GuardInv'
    BY <1>10 DEF Read, Leave
  <1>11. ASSUME NEW w \in Worker, Rejudge(w) PROVE GuardInv'
    BY <1>11 DEF Rejudge, Leave, Stale
  <1>12. ASSUME NEW w \in Worker, Confirm(w) PROVE GuardInv'
    BY <1>12 DEF Confirm, Leave
  <1>13. ASSUME NEW w \in Worker, Unlink(w) PROVE GuardInv'
    BY <1>13 DEF Unlink, Leave
  <1>14. ASSUME NEW w \in Worker, Drop(w) PROVE GuardInv'
    BY <1>14 DEF Drop
  <1>15. ASSUME NEW w \in Worker, Verify(w) PROVE GuardInv'
    BY <1>15 DEF Verify, Forget
  <1>16. ASSUME NEW w \in Worker, Remove(w) PROVE GuardInv'
    BY <1>16 DEF Remove, Forget
  <1>17. ASSUME NEW w \in Worker, Release(w) PROVE GuardInv'
    BY <1>17 DEF Release
  <1>18. ASSUME NEW w \in Worker, CallFails(w) PROVE GuardInv'
    BY <1>18 DEF CallFails, Fault, Forget
  <1>19. ASSUME NEW w \in Worker, GuardedCallFails(w) PROVE GuardInv'
    BY <1>19 DEF GuardedCallFails, Fault, Leave
  <1>20. ASSUME NEW w \in Worker, StealLeaks(w) PROVE GuardInv'
    BY <1>20 DEF StealLeaks, Fault, Brisk
  <1>21. ASSUME NEW w \in Worker, Crash(w) PROVE GuardInv'
    BY <1>21 DEF Crash, Brisk
  <1>22. CASE Tick
    BY <1>22 DEF Tick, Older, Brisk
  <1>23. CASE UNCHANGED vars
    BY <1>23 DEF vars
  <1>. QED
    BY <1>1, <1>2, <1>3, <1>4, <1>5, <1>6, <1>7, <1>8, <1>9, <1>10, <1>11, <1>12, <1>13, <1>14, <1>15, <1>16, <1>17, <1>18, <1>19, <1>20, <1>21, <1>22, <1>23 DEF Next, Step

\* The steal file admits one thief at a time, even where claims expire under their holders and the
\* file system shows an old directory: two claims may then stand, never two thieves.
THEOREM ThiefExclusion == ASSUME Brisk PROVE Spec => []SingleThief
  <1>1. Init => TypeOK /\ GuardInv
    BY LockInit DEF LockInv
  <1>2. TypeOK /\ GuardInv /\ [Next]_vars => (TypeOK /\ GuardInv)'
    BY TypeStep, GuardStep
  <1>3. TypeOK /\ GuardInv => SingleThief
    BY DEF GuardInv
  <1>. QED
    BY <1>1, <1>2, <1>3, PTL DEF Spec

LEMMA HolderStep ==
  ASSUME Calm, LockInv, [Next]_vars
  PROVE  HolderInv'
  <1> USE DEF LockInv, TypeOK, LockRecord, LockAge, StealAge, Calling, Guarded, Holding, Goto, HolderInv, OwnsLock
  <1>1. ASSUME NEW w \in Worker, Claim(w) PROVE HolderInv'
    BY <1>1 DEF Claim
  <1>2. ASSUME NEW w \in Worker, Create(w) PROVE HolderInv'
    <2>1. ASSUME NEW v \in Worker, v # w PROVE OwnsLock(v)'
      BY <1>2, <2>1 DEF Create, InUse
    <2>2. OwnsLock(w)'
      <3>1. PICK n \in Token :
              /\ lock' = [token |-> n, by |-> w, ready |-> FALSE, age |-> 0]
              /\ token' = [token EXCEPT ![w] = n]
        BY <1>2 DEF Create
      <3>2. lock' # NoFile
        <4>1. [token |-> n, by |-> w, ready |-> FALSE, age |-> 0] \in LockRecord
          OBVIOUS
        <4>. QED
          BY <3>1, <4>1
      <3>3. heldFor'[w] = 0 /\ pc'[w] = "write" /\ token'[w] = n
        BY <1>2, <3>1 DEF Create
      <3>. QED
        BY <3>1, <3>2, <3>3
    <2>. QED
      BY <2>1, <2>2
  <1>3. ASSUME NEW w \in Worker, CreateRefused(w) PROVE HolderInv'
    BY <1>3 DEF CreateRefused
  <1>4. ASSUME NEW w \in Worker, Write(w) PROVE HolderInv'
    <2>1. ASSUME NEW v \in Worker, v # w PROVE OwnsLock(v)'
      BY <1>4, <2>1 DEF Write
    <2>2. OwnsLock(w)'
      <3>1. lock \in LockRecord /\ lock.by = w /\ lock.token = token[w] /\ lock.age = heldFor[w]
        BY <1>4 DEF Write
      <3>2. lock' = [lock EXCEPT !.ready = TRUE]
        BY <1>4, <3>1 DEF Write
      <3>3. heldFor' = heldFor /\ token' = token /\ pc'[w] = "held"
        BY <1>4 DEF Write
      <3>4. lock' \in LockRecord
        BY <3>1, <3>2
      <3>. QED
        BY <3>1, <3>2, <3>3, <3>4, <1>4 DEF Write
    <2>. QED
      BY <2>1, <2>2
  <1>5. ASSUME NEW w \in Worker, Judge(w) PROVE HolderInv'
    BY <1>5 DEF Judge, Stale
  <1>6. ASSUME NEW w \in Worker, Guard(w) PROVE HolderInv'
    BY <1>6 DEF Guard
  <1>7. ASSUME NEW w \in Worker, Unguard(w) PROVE HolderInv'
    BY <1>7 DEF Unguard
  <1>8. ASSUME NEW w \in Worker, Seize(w) PROVE HolderInv'
    BY <1>8 DEF Seize
  <1>9. ASSUME NEW w \in Worker, SeizeRefused(w) PROVE HolderInv'
    BY <1>9 DEF SeizeRefused
  <1>10. ASSUME NEW w \in Worker, Read(w) PROVE HolderInv'
    BY <1>10 DEF Read, Leave
  <1>11. ASSUME NEW w \in Worker, Rejudge(w) PROVE HolderInv'
    BY <1>11 DEF Rejudge, Leave, Stale
  <1>12. ASSUME NEW w \in Worker, Confirm(w) PROVE HolderInv'
    BY <1>12 DEF Confirm, Leave
  <1>13. ASSUME NEW w \in Worker, Unlink(w) PROVE HolderInv'
    <2>1. ASSUME NEW v \in Worker, v # w PROVE OwnsLock(v)'
      <3>1. lock # NoFile /\ lock.age > StaleAfter
        BY <1>13 DEF Unlink, ThiefInv
      <3>2. pc[v] \notin Holding \cup {"write"}
        BY <3>1
      <3>. QED
        BY <1>13, <2>1, <3>2 DEF Unlink, Leave
    <2>2. OwnsLock(w)'
      BY <1>13 DEF Unlink, Leave
    <2>. QED
      BY <2>1, <2>2
  <1>14. ASSUME NEW w \in Worker, Drop(w) PROVE HolderInv'
    BY <1>14 DEF Drop
  <1>15. ASSUME NEW w \in Worker, Verify(w) PROVE HolderInv'
    BY <1>15 DEF Verify, Forget
  <1>16. ASSUME NEW w \in Worker, Remove(w) PROVE HolderInv'
    BY <1>16 DEF Remove, Forget
  <1>17. ASSUME NEW w \in Worker, Release(w) PROVE HolderInv'
    <2>1. ASSUME NEW v \in Worker, v # w PROVE OwnsLock(v)'
      BY <1>17, <2>1 DEF Release, Calm
    <2>2. OwnsLock(w)'
      BY <1>17 DEF Release, Calm
    <2>. QED
      BY <2>1, <2>2
  <1>18. ASSUME NEW w \in Worker, CallFails(w) PROVE HolderInv'
    BY <1>18 DEF CallFails, Fault, Forget
  <1>19. ASSUME NEW w \in Worker, GuardedCallFails(w) PROVE HolderInv'
    BY <1>19 DEF GuardedCallFails, Fault, Leave
  <1>20. ASSUME NEW w \in Worker, StealLeaks(w) PROVE HolderInv'
    BY <1>20 DEF StealLeaks, Fault, Calm
  <1>21. ASSUME NEW w \in Worker, Crash(w) PROVE HolderInv'
    BY <1>21 DEF Crash, Calm
  <1>22. CASE Tick
    <2> SUFFICES ASSUME NEW v \in Worker PROVE OwnsLock(v)'
      OBVIOUS
    <2>1. pc[v] \in {"idle", "held", "dead"} /\ pc' = pc
      BY <1>22 DEF Tick, Calm
    <2>2. CASE pc[v] = "held"
      <3>1. lock # NoFile /\ lock.age = heldFor[v] /\ heldFor[v] < StaleAfter
        BY <1>22, <2>2 DEF Tick, Calm
      <3>2. heldFor'[v] = heldFor[v] + 1 /\ lock'.age = lock.age + 1
        BY <1>22, <2>2, <3>1 DEF Tick, Older
      <3>3. lock' = [lock EXCEPT !.age = lock.age + 1]
        BY <1>22, <3>1 DEF Tick, Older
      <3>4. lock' # NoFile /\ lock'.by = lock.by /\ lock'.token = lock.token /\ lock'.ready = lock.ready
        BY <3>1, <3>3
      <3>. QED
        BY <1>22, <2>1, <2>2, <3>1, <3>2, <3>4 DEF Tick
    <2>. QED
      BY <2>1, <2>2
  <1>23. CASE UNCHANGED vars
    BY <1>23 DEF vars
  <1>. QED
    BY <1>1, <1>2, <1>3, <1>4, <1>5, <1>6, <1>7, <1>8, <1>9, <1>10, <1>11, <1>12, <1>13, <1>14, <1>15, <1>16, <1>17, <1>18, <1>19, <1>20, <1>21, <1>22, <1>23 DEF Next, Step

LEMMA ThiefStep ==
  ASSUME Calm, LockInv, [Next]_vars
  PROVE  ThiefInv'
  <1> USE DEF LockInv, TypeOK, LockRecord, LockAge, StealAge, Calling, Guarded, Holding, Goto, HolderInv, OwnsLock, ThiefInv
  <1>1. ASSUME NEW w \in Worker, Claim(w) PROVE ThiefInv'
    BY <1>1 DEF Claim
  <1>2. ASSUME NEW w \in Worker, Create(w) PROVE ThiefInv'
    BY <1>2 DEF Create, InUse
  <1>3. ASSUME NEW w \in Worker, CreateRefused(w) PROVE ThiefInv'
    BY <1>3 DEF CreateRefused
  <1>4. ASSUME NEW w \in Worker, Write(w) PROVE ThiefInv'
    <2>1. lock' # NoFile /\ lock'.age = lock.age
      <3>1. lock \in LockRecord /\ lock.token = token[w]
        BY <1>4 DEF Write
      <3>2. lock' = [lock EXCEPT !.ready = TRUE]
        BY <1>4, <3>1 DEF Write
      <3>3. lock' \in LockRecord /\ lock'.age = lock.age
        BY <3>1, <3>2
      <3>. QED
        BY <3>3
    <2>2. heldFor' = heldFor /\ heldFor[w] = 0 /\ pc' = [pc EXCEPT ![w] = "held"]
      BY <1>4 DEF Write
    <2>. QED
      BY <1>4, <2>1, <2>2 DEF Write
  <1>5. ASSUME NEW w \in Worker, Judge(w) PROVE ThiefInv'
    BY <1>5 DEF Judge, Stale
  <1>6. ASSUME NEW w \in Worker, Guard(w) PROVE ThiefInv'
    BY <1>6 DEF Guard
  <1>7. ASSUME NEW w \in Worker, Unguard(w) PROVE ThiefInv'
    BY <1>7 DEF Unguard
  <1>8. ASSUME NEW w \in Worker, Seize(w) PROVE ThiefInv'
    BY <1>8 DEF Seize
  <1>9. ASSUME NEW w \in Worker, SeizeRefused(w) PROVE ThiefInv'
    BY <1>9 DEF SeizeRefused
  <1>10. ASSUME NEW w \in Worker, Read(w) PROVE ThiefInv'
    BY <1>10 DEF Read, Leave
  <1>11. ASSUME NEW w \in Worker, Rejudge(w) PROVE ThiefInv'
    BY <1>11 DEF Rejudge, Leave, Stale
  <1>12. ASSUME NEW w \in Worker, Confirm(w) PROVE ThiefInv'
    BY <1>12 DEF Confirm, Leave
  <1>13. ASSUME NEW w \in Worker, Unlink(w) PROVE ThiefInv'
    <2>1. ASSUME NEW v \in Worker, v # w PROVE pc[v] \notin Guarded
      BY <1>13, <2>1 DEF Unlink, GuardInv, SingleThief
    <2>. QED
      BY <1>13, <2>1 DEF Unlink, Leave
  <1>14. ASSUME NEW w \in Worker, Drop(w) PROVE ThiefInv'
    BY <1>14 DEF Drop
  <1>15. ASSUME NEW w \in Worker, Verify(w) PROVE ThiefInv'
    BY <1>15 DEF Verify, Forget
  <1>16. ASSUME NEW w \in Worker, Remove(w) PROVE ThiefInv'
    BY <1>16 DEF Remove, Forget
  <1>17. ASSUME NEW w \in Worker, Release(w) PROVE ThiefInv'
    BY <1>17 DEF Release
  <1>18. ASSUME NEW w \in Worker, CallFails(w) PROVE ThiefInv'
    BY <1>18 DEF CallFails, Fault, Forget
  <1>19. ASSUME NEW w \in Worker, GuardedCallFails(w) PROVE ThiefInv'
    BY <1>19 DEF GuardedCallFails, Fault, Leave
  <1>20. ASSUME NEW w \in Worker, StealLeaks(w) PROVE ThiefInv'
    BY <1>20 DEF StealLeaks, Fault, Calm
  <1>21. ASSUME NEW w \in Worker, Crash(w) PROVE ThiefInv'
    BY <1>21 DEF Crash, Calm
  <1>22. CASE Tick
    BY <1>22 DEF Tick, Older, Calm
  <1>23. CASE UNCHANGED vars
    BY <1>23 DEF vars
  <1>. QED
    BY <1>1, <1>2, <1>3, <1>4, <1>5, <1>6, <1>7, <1>8, <1>9, <1>10, <1>11, <1>12, <1>13, <1>14, <1>15, <1>16, <1>17, <1>18, <1>19, <1>20, <1>21, <1>22, <1>23 DEF Next, Step

\* The inductive invariant of the lock: which files exist, whose record each holds, and what every
\* worker inside claim(), _expire() and release() may rely on.
THEOREM LockInvariant == ASSUME Calm PROVE Spec => []LockInv
  <1>1. LockInv /\ [Next]_vars => LockInv'
    BY TypeStep, GuardStep, HolderStep, ThiefStep DEF LockInv, Calm, Brisk
  <1>. QED
    BY LockInit, <1>1, PTL DEF Spec

\* Nobody but the holder of an unexpired claim is told it holds the claim.
THEOREM MutualExclusion == ASSUME Calm PROVE Spec => []SingleHolder
  <1>1. LockInv => SingleHolder
    BY DEF LockInv, HolderInv, OwnsLock, SingleHolder, HasClaim
  <1>. QED
    BY LockInvariant, <1>1, PTL

-----------------------------------------------------------------------------
(***************************************************************************)
(* Steps.  Only Unlink and Remove make the lock file disappear.            *)
(***************************************************************************)
LEMMA Removals ==
  ASSUME Calm, LockInv, Next, lock # NoFile, lock' = NoFile
  PROVE  \/ \E w \in Worker : Unlink(w) /\ lock.age > StaleAfter
         \/ \E w \in Worker : Remove(w) /\ lock.by = w
  <1> USE DEF LockInv, TypeOK
  <1>1. lock \in LockRecord
    OBVIOUS
  <1>2. ASSUME NEW w \in Worker, Create(w) PROVE FALSE
    BY <1>2 DEF Create
  <1>3. ASSUME NEW w \in Worker, Write(w) PROVE FALSE
    <2>1. [lock EXCEPT !.ready = TRUE] \in LockRecord
      BY <1>1 DEF LockRecord
    <2>. QED
      BY <1>3, <2>1 DEF Write
  <1>4. CASE Tick
    <2>1. lock' = [lock EXCEPT !.age = Older(lock.age, StaleAfter)]
      BY <1>4 DEF Tick
    <2>2. Older(lock.age, StaleAfter) \in LockAge
      BY <1>1 DEF Older, LockRecord, LockAge
    <2>3. lock' \in LockRecord
      BY <1>1, <2>1, <2>2 DEF LockRecord
    <2>. QED
      BY <2>3
  <1>5. ASSUME NEW w \in Worker, Unlink(w) PROVE lock.age > StaleAfter
    BY <1>5 DEF Unlink, ThiefInv
  <1>6. ASSUME NEW w \in Worker, Remove(w) PROVE lock.by = w
    BY <1>6 DEF Remove, HolderInv, OwnsLock, Holding
  <1>7. ASSUME NEW w \in Worker,
               \/ Claim(w) \/ CreateRefused(w) \/ Judge(w) \/ Guard(w)
               \/ Unguard(w) \/ Seize(w) \/ SeizeRefused(w) \/ Read(w)
               \/ Rejudge(w) \/ Confirm(w) \/ Drop(w) \/ Verify(w)
               \/ Release(w) \/ CallFails(w) \/ GuardedCallFails(w)
               \/ StealLeaks(w) \/ Crash(w)
        PROVE  lock' = lock
    BY <1>7 DEF Claim, CreateRefused, Judge, Guard, Unguard, Seize, SeizeRefused,
       Read, Rejudge, Confirm, Drop, Verify, Release, CallFails, GuardedCallFails,
       StealLeaks, Crash
  <1>. QED
    BY <1>2, <1>3, <1>4, <1>5, <1>6, <1>7 DEF Next, Step

\* An unexpired claim's lock file disappears only by its holder's release().
THEOREM ClaimsNotStolen == ASSUME Calm PROVE Spec => OnlyHolderRemoves
  <1> DEFINE Kept ==
        \A w \in Worker :
          HasClaim(w) /\ lock # NoFile /\ lock.token = token[w] /\ lock' = NoFile
            => pc[w] = "remove" /\ pc'[w] = "idle"
  <1>1. ASSUME LockInv, [Next]_vars PROVE [Kept]_vars
    <2> SUFFICES ASSUME Next, NEW w \in Worker, HasClaim(w), lock # NoFile,
                        lock.token = token[w], lock' = NoFile
                 PROVE  pc[w] = "remove" /\ pc'[w] = "idle"
      BY <1>1
    <2>1. lock.by = w /\ lock.age = heldFor[w] /\ heldFor[w] <= StaleAfter
      BY <1>1 DEF LockInv, HolderInv, OwnsLock, HasClaim
    <2>2. heldFor[w] \in Nat
      BY <1>1 DEF LockInv, TypeOK, LockAge
    <2>3. Remove(w)
      BY <1>1, <2>1, <2>2, Removals
    <2>. QED
      BY <1>1, <2>3 DEF Remove, Goto, LockInv, TypeOK
  <1>. QED
    BY LockInvariant, <1>1, PTL DEF Spec, OnlyHolderRemoves

-----------------------------------------------------------------------------
(***************************************************************************)
(* Refinement.  The creating step takes the lease, the unlinking step of   *)
(* release() gives it back, a thief's unlink reclaims it from a worker     *)
(* that stopped working, a failing call or a death fails, and every other  *)
(* step changes neither the owner nor who works.                           *)
(***************************************************************************)
AbstractVars == <<Owner, Working>>

\* A worker is the owner if it is working.
LEMMA WorkingOwns ==
  ASSUME LockInv, NEW w \in Working
  PROVE  w \in Worker /\ Owner = w /\ lock # NoFile /\ lock.by = w
  BY DEF LockInv, HolderInv, OwnsLock, Working, Owner, Holding

LEMMA AbstractStep ==
  ASSUME Calm, LockInv, [Next]_vars
  PROVE  Abstract!Next \/ UNCHANGED AbstractVars
  <1> USE DEF LockInv, TypeOK, Goto, Holding, Calling, Guarded
  <1>1. ASSUME NEW w \in Worker, Create(w) PROVE Abstract!Take(w)
    <2>1. PICK n \in Token :
            lock' = [token |-> n, by |-> w, ready |-> FALSE, age |-> 0]
      BY <1>1 DEF Create
    <2>2. lock' \in LockRecord
      BY <2>1 DEF LockRecord, LockAge
    <2>3. Owner = None /\ Owner' = w
      BY <1>1, <2>1, <2>2 DEF Owner, Create
    <2>4. Working' = Working \cup {w}
      BY <1>1 DEF Working, Create
    <2>5. Owner \notin Working
      BY <2>3 DEF Working
    <2>. QED
      BY <2>3, <2>4, <2>5 DEF Abstract!Take
  <1>2. ASSUME NEW w \in Worker, Remove(w) PROVE Abstract!Finish(w)
    <2>1. w \in Working /\ Owner = w
      BY <1>2, WorkingOwns DEF Working, Remove
    <2>2. Owner' = None
      BY <1>2 DEF Owner, Remove
    <2>3. Working' = Working \ {w}
      BY <1>2 DEF Working, Remove
    <2>. QED
      BY <2>1, <2>2, <2>3 DEF Abstract!Finish
  <1>3. ASSUME NEW w \in Worker, Unlink(w) PROVE Abstract!Reclaim
    <2>1. lock # NoFile /\ lock.age > StaleAfter /\ lock \in LockRecord
      BY <1>3 DEF Unlink, ThiefInv
    <2>2. lock.by \notin Working
      BY <2>1 DEF HolderInv, OwnsLock, Working, LockRecord, LockAge
    <2>3. Owner = lock.by /\ Owner # None /\ Owner' = None
      BY <1>3, <2>1 DEF Owner, Unlink, LockRecord
    <2>4. Working' = Working
      BY <1>3 DEF Working, Unlink, Leave
    <2>. QED
      BY <2>2, <2>3, <2>4 DEF Abstract!Reclaim
  <1>4. ASSUME NEW w \in Worker, Write(w) PROVE UNCHANGED AbstractVars
    <2>1. lock \in LockRecord /\ lock' = [lock EXCEPT !.ready = TRUE]
      BY <1>4 DEF Write, HolderInv, OwnsLock
    <2>2. lock' \in LockRecord /\ lock'.by = lock.by
      BY <2>1 DEF LockRecord
    <2>3. Working' = Working
      BY <1>4 DEF Working, Write
    <2>. QED
      BY <2>1, <2>2, <2>3 DEF Owner, AbstractVars
  <1>5. ASSUME NEW w \in Worker, CallFails(w) \/ Crash(w) \/ Verify(w)
        PROVE  Abstract!Fail(w) \/ UNCHANGED AbstractVars
    <2>1. Owner' = Owner
      BY <1>5 DEF Owner, CallFails, Crash, Verify
    <2>2. \A v \in Worker \ {w} : pc'[v] = pc[v]
      BY <1>5 DEF CallFails, Crash, Verify
    <2>3. pc'[w] \notin {"held", "verify", "write"}
      BY <1>5 DEF CallFails, Crash, Verify
    <2>4. CASE w \in Working /\ w \notin Working'
      <3>1. Working' = Working \ {w}
        BY <2>2, <2>4 DEF Working
      <3>. QED
        BY <2>1, <2>4, <3>1 DEF Abstract!Fail
    <2>5. CASE w \in Working /\ w \in Working'
      <3>1. Working' = Working
        BY <2>2, <2>5 DEF Working
      <3>. QED
        BY <2>1, <3>1 DEF AbstractVars
    <2>6. CASE w \notin Working
      <3>1. w \notin Working'
        BY <1>5, <2>6 DEF Working, CallFails, Crash, Verify
      <3>2. Working' = Working
        BY <2>2, <2>6, <3>1 DEF Working
      <3>. QED
        BY <2>1, <3>2 DEF AbstractVars
    <2>. QED
      BY <2>4, <2>5, <2>6
  <1>6. ASSUME NEW w \in Worker,
               \/ Claim(w) \/ CreateRefused(w) \/ Judge(w) \/ Guard(w)
               \/ Unguard(w) \/ Seize(w) \/ SeizeRefused(w) \/ Read(w)
               \/ Rejudge(w) \/ Confirm(w) \/ Drop(w) \/ Release(w)
               \/ GuardedCallFails(w) \/ StealLeaks(w)
        PROVE  UNCHANGED AbstractVars
    <2>1. lock' = lock
      BY <1>6 DEF Claim, CreateRefused, Judge, Guard, Unguard, Seize, SeizeRefused,
         Read, Rejudge, Confirm, Drop, Release, GuardedCallFails, StealLeaks
    <2>2. \A v \in Worker \ {w} : pc'[v] = pc[v]
      BY <1>6 DEF Claim, CreateRefused, Judge, Guard, Unguard, Seize, SeizeRefused,
         Read, Rejudge, Confirm, Drop, Release, GuardedCallFails, StealLeaks, Leave
    <2>3. pc[w] \in Holding \cup {"write"} <=> pc'[w] \in Holding \cup {"write"}
      BY <1>6 DEF Claim, CreateRefused, Judge, Guard, Unguard, Seize, SeizeRefused,
         Read, Rejudge, Confirm, Drop, Release, GuardedCallFails, StealLeaks, Leave
    <2>. QED
      BY <2>1, <2>2, <2>3 DEF Owner, Working, AbstractVars
  <1>7. CASE Tick
    <2>1. Working' = Working
      BY <1>7 DEF Tick, Working
    <2>2. CASE lock = NoFile
      BY <1>7, <2>1, <2>2 DEF Tick, Owner, AbstractVars
    <2>3. CASE lock # NoFile
      <3>1. lock \in LockRecord /\ lock' = [lock EXCEPT !.age = Older(lock.age, StaleAfter)]
        BY <1>7, <2>3 DEF Tick
      <3>2. Older(lock.age, StaleAfter) \in LockAge
        BY <3>1 DEF Older, LockRecord, LockAge
      <3>3. lock' \in LockRecord /\ lock'.by = lock.by
        BY <3>1, <3>2 DEF LockRecord
      <3>. QED
        BY <2>1, <2>3, <3>3 DEF Owner, AbstractVars
    <2>. QED
      BY <2>2, <2>3
  <1>8. CASE UNCHANGED vars
    BY <1>8 DEF vars, AbstractVars, Owner, Working
  <1>. QED
    BY <1>1, <1>2, <1>3, <1>4, <1>5, <1>6, <1>7, <1>8 DEF Next, Step, Abstract!Next

\* The lock files implement the lease: claims are exclusive, and one is taken
\* away only from a worker that no longer works under it.
THEOREM Implementation == ASSUME Calm PROVE Spec => ImplementsLease
  <1>1. Init => Abstract!Init
    BY DEF Init, Abstract!Init, Owner, Working, Holding
  <1>2. LockInv /\ [Next]_vars => [Abstract!Next]_AbstractVars
    BY AbstractStep
  <1>. QED
    BY LockInvariant, <1>1, <1>2, PTL DEF Spec, ImplementsLease, Abstract!Spec, AbstractVars
=============================================================================
