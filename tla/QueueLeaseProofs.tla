-------------------------- MODULE QueueLeaseProofs --------------------------
(***************************************************************************)
(* Where no pass publishes and a vet ends before its lease, the queue      *)
(* lease gives a row to one pass at a time and the columns of the row      *)
(* implement the lease; where save() runs to its end too the row keeps its *)
(* dossier file: for every set of passes on any machines, every set of     *)
(* rulings and every lease_ttl_s.  Publishing is exclusive in every        *)
(* setting.                                                                *)
(***************************************************************************)
EXTENDS QueueLease, TLAPS

USE QueueLeaseAssumption

-----------------------------------------------------------------------------
(***************************************************************************)
(* Type correctness, which holds in every setting.                         *)
(***************************************************************************)
LEMMA LeaseRecords ==
  /\ NoOwner \in LeaseRecord
  /\ \A w \in Worker : TakenBy(w) \in LeaseRecord
  /\ \A l \in LeaseRecord : [l EXCEPT !.over = TRUE] \in LeaseRecord
  /\ \A l \in LeaseRecord : l.age <= Ttl => [l EXCEPT !.age = @ + 1] \in LeaseRecord
  <1> USE DEF LeaseRecord
  <1>1. NoOwner \in LeaseRecord
    BY DEF NoOwner
  <1>2. \A w \in Worker : TakenBy(w) \in LeaseRecord
    BY DEF TakenBy
  <1>3. \A l \in LeaseRecord : [l EXCEPT !.over = TRUE] \in LeaseRecord
    OBVIOUS
  <1>4. \A l \in LeaseRecord : l.age <= Ttl => [l EXCEPT !.age = @ + 1] \in LeaseRecord
    OBVIOUS
  <1>. QED
    BY <1>1, <1>2, <1>3, <1>4

LEMMA TypeInit == Init => TypeOK /\ HasRuling
  BY LeaseRecords DEF Init, TypeOK, HasRuling, Decision, Label, Section

LEMMA TypeStep == TypeOK /\ HasRuling /\ [Next]_vars => TypeOK' /\ HasRuling'
  <1> SUFFICES ASSUME TypeOK, HasRuling, [Next]_vars PROVE TypeOK' /\ HasRuling'
    OBVIOUS
  <1> USE LeaseRecords DEF TypeOK, HasRuling, Decision, Label, Section, Goto
  <1>1. ASSUME NEW w \in Worker, Survey(w) PROVE TypeOK' /\ HasRuling'
    BY <1>1 DEF Survey
  <1>2. ASSUME NEW w \in Worker, Filter(w) PROVE TypeOK' /\ HasRuling'
    BY <1>2 DEF Filter, Gone
  <1>3. ASSUME NEW w \in Worker, Reclaim(w) PROVE TypeOK' /\ HasRuling'
    BY <1>3 DEF Reclaim
  <1>4. ASSUME NEW w \in Worker, Claim(w) PROVE TypeOK' /\ HasRuling'
    BY <1>4 DEF Claim
  <1>5. ASSUME NEW w \in Worker, Get(w) PROVE TypeOK' /\ HasRuling'
    BY <1>5 DEF Get
  <1>6. ASSUME NEW w \in Worker, Vet(w) PROVE TypeOK' /\ HasRuling'
    BY <1>6 DEF Vet
  <1>7. ASSUME NEW w \in Worker, WriteTmp(w) PROVE TypeOK' /\ HasRuling'
    BY <1>7 DEF WriteTmp, Ruling
  <1>8. ASSUME NEW w \in Worker, Rename(w) PROVE TypeOK' /\ HasRuling'
    BY <1>8 DEF Rename, Quit, Ruling
  <1>9. ASSUME NEW w \in Worker, Sweep(w) PROVE TypeOK' /\ HasRuling'
    BY <1>9 DEF Sweep, Ruling
  <1>10. ASSUME NEW w \in Worker, Upsert(w) PROVE TypeOK' /\ HasRuling'
    BY <1>10 DEF Upsert, Ruling
  <1>11. ASSUME NEW w \in Worker, Publish(w) PROVE TypeOK' /\ HasRuling'
    BY <1>11 DEF Publish
  <1>12. ASSUME NEW w \in Worker, Mint(w) PROVE TypeOK' /\ HasRuling'
    BY <1>12 DEF Mint
  <1>13. ASSUME NEW w \in Worker, Unlock(w) PROVE TypeOK' /\ HasRuling'
    BY <1>13 DEF Unlock
  <1>14. ASSUME NEW w \in Worker, Release(w) PROVE TypeOK' /\ HasRuling'
    BY <1>14 DEF Release
  <1>15. ASSUME NEW w \in Worker, Tally(w) PROVE TypeOK' /\ HasRuling'
    BY <1>15 DEF Tally
  <1>16. ASSUME NEW w \in Worker, VetRaises(w) PROVE TypeOK' /\ HasRuling'
    BY <1>16 DEF VetRaises, Quit
  <1>17. ASSUME NEW w \in Worker, SelectFails(w) PROVE TypeOK' /\ HasRuling'
    BY <1>17 DEF SelectFails, Fault
  <1>18. ASSUME NEW w \in Worker, RowFails(w) PROVE TypeOK' /\ HasRuling'
    BY <1>18 DEF RowFails, Fault, Quit
  <1>19. ASSUME NEW w \in Worker, ReleaseFails(w) PROVE TypeOK' /\ HasRuling'
    BY <1>19 DEF ReleaseFails, Fault
  <1>20. ASSUME NEW w \in Worker, Crash(w) PROVE TypeOK' /\ HasRuling'
    BY <1>20 DEF Crash
  <1>21. CASE Tick
    BY <1>21 DEF Tick
  <1>22. CASE UNCHANGED vars
    BY <1>22 DEF vars
  <1>. QED
    BY <1>1, <1>2, <1>3, <1>4, <1>5, <1>6, <1>7, <1>8, <1>9, <1>10, <1>11, <1>12, <1>13, <1>14, <1>15, <1>16, <1>17, <1>18, <1>19, <1>20, <1>21, <1>22 DEF Next, Step

\* Whatever the environment does, every variable keeps its type.
THEOREM TypeCorrect == Spec => []TypeOK
  <1>1. TypeOK /\ HasRuling /\ [Next]_vars => TypeOK' /\ HasRuling'
    BY TypeStep
  <1>. QED
    BY TypeInit, <1>1, PTL DEF Spec

-----------------------------------------------------------------------------
(***************************************************************************)
(* Publishing, which is exclusive in every setting.                        *)
(***************************************************************************)
LEMMA PublishInit == Init => PublishInv
  BY DEF Init, PublishInv, Publishing, Section

LEMMA PublishStep ==
  ASSUME TypeOK, PublishInv, [Next]_vars
  PROVE  PublishInv'
  <1> USE DEF TypeOK, PublishInv, Publishing, Section, Goto, Alive
  <1>1. ASSUME NEW w \in Worker, Survey(w) PROVE PublishInv'
    BY <1>1 DEF Survey
  <1>2. ASSUME NEW w \in Worker, Filter(w) PROVE PublishInv'
    BY <1>2 DEF Filter
  <1>3. ASSUME NEW w \in Worker, Reclaim(w) PROVE PublishInv'
    BY <1>3 DEF Reclaim
  <1>4. ASSUME NEW w \in Worker, Claim(w) PROVE PublishInv'
    BY <1>4 DEF Claim
  <1>5. ASSUME NEW w \in Worker, Get(w) PROVE PublishInv'
    BY <1>5 DEF Get
  <1>6. ASSUME NEW w \in Worker, Vet(w) PROVE PublishInv'
    BY <1>6 DEF Vet
  <1>7. ASSUME NEW w \in Worker, WriteTmp(w) PROVE PublishInv'
    BY <1>7 DEF WriteTmp
  <1>8. ASSUME NEW w \in Worker, Rename(w) PROVE PublishInv'
    BY <1>8 DEF Rename, Quit
  <1>9. ASSUME NEW w \in Worker, Sweep(w) PROVE PublishInv'
    BY <1>9 DEF Sweep
  <1>10. ASSUME NEW w \in Worker, Upsert(w) PROVE PublishInv'
    BY <1>10 DEF Upsert
  <1>11. ASSUME NEW w \in Worker, Publish(w) PROVE PublishInv'
    BY <1>11 DEF Publish
  <1>12. ASSUME NEW w \in Worker, Mint(w) PROVE PublishInv'
    BY <1>12 DEF Mint
  <1>13. ASSUME NEW w \in Worker, Unlock(w) PROVE PublishInv'
    BY <1>13 DEF Unlock
  <1>14. ASSUME NEW w \in Worker, Release(w) PROVE PublishInv'
    BY <1>14 DEF Release
  <1>15. ASSUME NEW w \in Worker, Tally(w) PROVE PublishInv'
    BY <1>15 DEF Tally
  <1>16. ASSUME NEW w \in Worker, VetRaises(w) PROVE PublishInv'
    BY <1>16 DEF VetRaises, Quit
  <1>17. ASSUME NEW w \in Worker, SelectFails(w) PROVE PublishInv'
    BY <1>17 DEF SelectFails
  <1>18. ASSUME NEW w \in Worker, RowFails(w) PROVE PublishInv'
    BY <1>18 DEF RowFails, Quit
  <1>19. ASSUME NEW w \in Worker, ReleaseFails(w) PROVE PublishInv'
    BY <1>19 DEF ReleaseFails
  <1>20. ASSUME NEW w \in Worker, Crash(w) PROVE PublishInv'
    BY <1>20 DEF Crash
  <1>21. CASE Tick
    BY <1>21 DEF Tick
  <1>22. CASE UNCHANGED vars
    BY <1>22 DEF vars
  <1>. QED
    BY <1>1, <1>2, <1>3, <1>4, <1>5, <1>6, <1>7, <1>8, <1>9, <1>10, <1>11, <1>12, <1>13, <1>14, <1>15, <1>16, <1>17, <1>18, <1>19, <1>20, <1>21, <1>22 DEF Next, Step

\* From the mint of a listing to the second save of its dossier a pass is alone
\* with the candidate, whoever claims, saves, dies or overruns meanwhile.
THEOREM PublishingIsExclusive == Spec => []SinglePublisher
  <1>1. TypeOK /\ HasRuling /\ PublishInv /\ [Next]_vars => TypeOK' /\ HasRuling' /\ PublishInv'
    BY TypeStep, PublishStep
  <1>2. PublishInv => SinglePublisher
    BY DEF PublishInv, SinglePublisher
  <1>. QED
    BY TypeInit, PublishInit, <1>1, <1>2, PTL DEF Spec

-----------------------------------------------------------------------------
(***************************************************************************)
(* The inductive invariant of the plain setting.                           *)
(***************************************************************************)
LEMMA QueueInit == Init => QueueInv
  <1> SUFFICES ASSUME Init PROVE QueueInv
    OBVIOUS
  <1>1. TypeOK /\ HasRuling
    BY TypeInit
  <1>2. LeaseInv /\ NoPublish /\ SaveInv /\ RowBacked
    BY DEF Init, LeaseInv, NoPublish, SaveInv, RowBacked, Section, NoOwner
  <1>. QED
    BY <1>1, <1>2 DEF TimelyInv, QueueInv

LEMMA NoPublishStep ==
  ASSUME Timely, TimelyInv, [Next]_vars
  PROVE  NoPublish'
  <1> USE DEF Timely, TimelyInv, TypeOK, LeaseInv, NoPublish, Section, Goto, Publishable
  <1>1. ASSUME NEW w \in Worker, Survey(w) PROVE NoPublish'
    BY <1>1 DEF Survey
  <1>2. ASSUME NEW w \in Worker, Filter(w) PROVE NoPublish'
    BY <1>2 DEF Filter
  <1>3. ASSUME NEW w \in Worker, Reclaim(w) PROVE NoPublish'
    BY <1>3 DEF Reclaim
  <1>4. ASSUME NEW w \in Worker, Claim(w) PROVE NoPublish'
    BY <1>4 DEF Claim
  <1>5. ASSUME NEW w \in Worker, Get(w) PROVE NoPublish'
    BY <1>5 DEF Get
  <1>6. ASSUME NEW w \in Worker, Vet(w) PROVE NoPublish'
    BY <1>6 DEF Vet
  <1>7. ASSUME NEW w \in Worker, WriteTmp(w) PROVE NoPublish'
    BY <1>7 DEF WriteTmp
  <1>8. ASSUME NEW w \in Worker, Rename(w) PROVE NoPublish'
    BY <1>8 DEF Rename, Quit
  <1>9. ASSUME NEW w \in Worker, Sweep(w) PROVE NoPublish'
    BY <1>9 DEF Sweep
  <1>10. ASSUME NEW w \in Worker, Upsert(w) PROVE NoPublish'
    BY <1>10 DEF Upsert
  <1>11. ASSUME NEW w \in Worker, Publish(w) PROVE NoPublish'
    BY <1>11 DEF Publish
  <1>12. ASSUME NEW w \in Worker, Mint(w) PROVE NoPublish'
    BY <1>12 DEF Mint
  <1>13. ASSUME NEW w \in Worker, Unlock(w) PROVE NoPublish'
    BY <1>13 DEF Unlock
  <1>14. ASSUME NEW w \in Worker, Release(w) PROVE NoPublish'
    BY <1>14 DEF Release
  <1>15. ASSUME NEW w \in Worker, Tally(w) PROVE NoPublish'
    BY <1>15 DEF Tally
  <1>16. ASSUME NEW w \in Worker, VetRaises(w) PROVE NoPublish'
    BY <1>16 DEF VetRaises, Quit
  <1>17. ASSUME NEW w \in Worker, SelectFails(w) PROVE NoPublish'
    BY <1>17 DEF SelectFails
  <1>18. ASSUME NEW w \in Worker, RowFails(w) PROVE NoPublish'
    BY <1>18 DEF RowFails, Quit
  <1>19. ASSUME NEW w \in Worker, ReleaseFails(w) PROVE NoPublish'
    BY <1>19 DEF ReleaseFails
  <1>20. ASSUME NEW w \in Worker, Crash(w) PROVE NoPublish'
    BY <1>20 DEF Crash
  <1>21. CASE Tick
    BY <1>21 DEF Tick
  <1>22. CASE UNCHANGED vars
    BY <1>22 DEF vars
  <1>. QED
    BY <1>1, <1>2, <1>3, <1>4, <1>5, <1>6, <1>7, <1>8, <1>9, <1>10, <1>11, <1>12, <1>13, <1>14, <1>15, <1>16, <1>17, <1>18, <1>19, <1>20, <1>21, <1>22 DEF Next, Step

LEMMA LeaseStep ==
  ASSUME Timely, TimelyInv, [Next]_vars
  PROVE  LeaseInv'
  <1> USE DEF Timely, TimelyInv, TypeOK, LeaseInv, NoPublish, Section, Goto, Alive, Owns, NoOwner, LeaseRecord
  <1>1. ASSUME NEW w \in Worker, Survey(w) PROVE LeaseInv'
    BY <1>1 DEF Survey
  <1>2. ASSUME NEW w \in Worker, Filter(w) PROVE LeaseInv'
    BY <1>2 DEF Filter, Gone
  <1>3. ASSUME NEW w \in Worker, Reclaim(w) PROVE LeaseInv'
    BY <1>3 DEF Reclaim
  <1>4. ASSUME NEW w \in Worker, Claim(w) PROVE LeaseInv'
    <2>1. CASE Claimable(w)
      <3>1. \A v \in Worker : pc[v] \notin Section
        BY <1>4, <2>1 DEF Claim, Claimable
      <3>2. lease' = TakenBy(w)
        BY <1>4, <2>1 DEF Claim
      <3>. QED
        BY <1>4, <2>1, <3>1, <3>2 DEF Claim, TakenBy
    <2>2. CASE ~Claimable(w)
      BY <1>4, <2>2 DEF Claim
    <2>. QED
      BY <2>1, <2>2
  <1>5. ASSUME NEW w \in Worker, Get(w) PROVE LeaseInv'
    BY <1>5 DEF Get
  <1>6. ASSUME NEW w \in Worker, Vet(w) PROVE LeaseInv'
    BY <1>6 DEF Vet
  <1>7. ASSUME NEW w \in Worker, WriteTmp(w) PROVE LeaseInv'
    BY <1>7 DEF WriteTmp
  <1>8. ASSUME NEW w \in Worker, Rename(w) PROVE LeaseInv'
    BY <1>8 DEF Rename, Quit
  <1>9. ASSUME NEW w \in Worker, Sweep(w) PROVE LeaseInv'
    BY <1>9 DEF Sweep
  <1>10. ASSUME NEW w \in Worker, Upsert(w) PROVE LeaseInv'
    BY <1>10 DEF Upsert
  <1>11. ASSUME NEW w \in Worker, Publish(w) PROVE LeaseInv'
    BY <1>11 DEF Publish
  <1>12. ASSUME NEW w \in Worker, Mint(w) PROVE LeaseInv'
    BY <1>12 DEF Mint
  <1>13. ASSUME NEW w \in Worker, Unlock(w) PROVE LeaseInv'
    BY <1>13 DEF Unlock
  <1>14. ASSUME NEW w \in Worker, Release(w) PROVE LeaseInv'
    <2>1. CASE Owns(w)
      <3>1. \A v \in Worker : pc[v] \notin Section
        BY <1>14, <2>1 DEF Release
      <3>. QED
        BY <1>14, <2>1, <3>1 DEF Release
    <2>2. CASE ~Owns(w)
      <3>1. lease' = lease
        BY <1>14, <2>2 DEF Release
      <3>2. \A v \in Worker : pc'[v] \in Section => pc[v] \in Section
        BY <1>14 DEF Release
      <3>3. ASSUME NEW v \in Worker, pc'[v] = "reclaim"
            PROVE  pc[v] = "reclaim" /\ seen'[v] = seen[v] /\ seen[v] # w
        BY <1>14, <3>3 DEF Release
      <3>4. \A v \in Worker : v # w => pc'[v] = pc[v]
        BY <1>14 DEF Release
      <3>. QED
        BY <3>1, <3>2, <3>3, <3>4
    <2>. QED
      BY <2>1, <2>2
  <1>15. ASSUME NEW w \in Worker, Tally(w) PROVE LeaseInv'
    BY <1>15 DEF Tally
  <1>16. ASSUME NEW w \in Worker, VetRaises(w) PROVE LeaseInv'
    BY <1>16 DEF VetRaises, Quit
  <1>17. ASSUME NEW w \in Worker, SelectFails(w) PROVE LeaseInv'
    BY <1>17 DEF SelectFails
  <1>18. ASSUME NEW w \in Worker, RowFails(w) PROVE LeaseInv'
    BY <1>18 DEF RowFails, Quit
  <1>19. ASSUME NEW w \in Worker, ReleaseFails(w) PROVE LeaseInv'
    <2>1. CASE Owns(w)
      <3>1. \A v \in Worker : pc[v] \notin Section
        BY <1>19, <2>1 DEF ReleaseFails
      <3>2. lease'.owner # None
        BY <1>19, <2>1 DEF ReleaseFails
      <3>. QED
        BY <1>19, <2>1, <3>1, <3>2 DEF ReleaseFails
    <2>2. CASE ~Owns(w)
      <3>1. lease' = lease
        BY <1>19, <2>2 DEF ReleaseFails
      <3>2. \A v \in Worker : pc'[v] \in Section => pc[v] \in Section
        BY <1>19 DEF ReleaseFails
      <3>3. ASSUME NEW v \in Worker, pc'[v] = "reclaim"
            PROVE  pc[v] = "reclaim" /\ seen'[v] = seen[v] /\ seen[v] # w
        BY <1>19, <3>3 DEF ReleaseFails
      <3>4. \A v \in Worker : v # w => pc'[v] = pc[v]
        BY <1>19 DEF ReleaseFails
      <3>. QED
        BY <3>1, <3>2, <3>3, <3>4
    <2>. QED
      BY <2>1, <2>2
  <1>20. ASSUME NEW w \in Worker, Crash(w) PROVE LeaseInv'
    BY <1>20 DEF Crash
  <1>21. CASE Tick
    BY <1>21 DEF Tick
  <1>22. CASE UNCHANGED vars
    BY <1>22 DEF vars
  <1>. QED
    BY <1>1, <1>2, <1>3, <1>4, <1>5, <1>6, <1>7, <1>8, <1>9, <1>10, <1>11, <1>12, <1>13, <1>14, <1>15, <1>16, <1>17, <1>18, <1>19, <1>20, <1>21, <1>22 DEF Next, Step

LEMMA SaveStep ==
  ASSUME Timely, TimelyInv, [Next]_vars
  PROVE  SaveInv'
  <1> USE DEF Timely, TimelyInv, TypeOK, LeaseInv, NoPublish, SaveInv, Section, Goto, Owns
  <1>1. ASSUME NEW w \in Worker, Survey(w) PROVE SaveInv'
    BY <1>1 DEF Survey
  <1>2. ASSUME NEW w \in Worker, Filter(w) PROVE SaveInv'
    BY <1>2 DEF Filter
  <1>3. ASSUME NEW w \in Worker, Reclaim(w) PROVE SaveInv'
    BY <1>3 DEF Reclaim
  <1>4. ASSUME NEW w \in Worker, Claim(w) PROVE SaveInv'
    BY <1>4 DEF Claim
  <1>5. ASSUME NEW w \in Worker, Get(w) PROVE SaveInv'
    BY <1>5 DEF Get
  <1>6. ASSUME NEW w \in Worker, Vet(w) PROVE SaveInv'
    BY <1>6 DEF Vet
  <1>7. ASSUME NEW w \in Worker, WriteTmp(w) PROVE SaveInv'
    BY <1>7 DEF WriteTmp
  <1>8. ASSUME NEW w \in Worker, Rename(w) PROVE SaveInv'
    BY <1>8 DEF Rename, Quit
  <1>9. ASSUME NEW w \in Worker, Sweep(w) PROVE SaveInv'
    BY <1>9 DEF Sweep
  <1>10. ASSUME NEW w \in Worker, Upsert(w) PROVE SaveInv'
    BY <1>10 DEF Upsert
  <1>11. ASSUME NEW w \in Worker, Publish(w) PROVE SaveInv'
    BY <1>11 DEF Publish
  <1>12. ASSUME NEW w \in Worker, Mint(w) PROVE SaveInv'
    BY <1>12 DEF Mint
  <1>13. ASSUME NEW w \in Worker, Unlock(w) PROVE SaveInv'
    BY <1>13 DEF Unlock
  <1>14. ASSUME NEW w \in Worker, Release(w) PROVE SaveInv'
    BY <1>14 DEF Release
  <1>15. ASSUME NEW w \in Worker, Tally(w) PROVE SaveInv'
    BY <1>15 DEF Tally
  <1>16. ASSUME NEW w \in Worker, VetRaises(w) PROVE SaveInv'
    BY <1>16 DEF VetRaises, Quit
  <1>17. ASSUME NEW w \in Worker, SelectFails(w) PROVE SaveInv'
    BY <1>17 DEF SelectFails
  <1>18. ASSUME NEW w \in Worker, RowFails(w) PROVE SaveInv'
    BY <1>18 DEF RowFails, Quit
  <1>19. ASSUME NEW w \in Worker, ReleaseFails(w) PROVE SaveInv'
    BY <1>19 DEF ReleaseFails
  <1>20. ASSUME NEW w \in Worker, Crash(w) PROVE SaveInv'
    BY <1>20 DEF Crash
  <1>21. CASE Tick
    BY <1>21 DEF Tick
  <1>22. CASE UNCHANGED vars
    BY <1>22 DEF vars
  <1>. QED
    BY <1>1, <1>2, <1>3, <1>4, <1>5, <1>6, <1>7, <1>8, <1>9, <1>10, <1>11, <1>12, <1>13, <1>14, <1>15, <1>16, <1>17, <1>18, <1>19, <1>20, <1>21, <1>22 DEF Next, Step

LEMMA RowStep ==
  ASSUME Plain, QueueInv, [Next]_vars
  PROVE  RowBacked'
  <1> USE DEF Plain, QueueInv, TimelyInv, TypeOK, LeaseInv, NoPublish, SaveInv, RowBacked, Section, Goto, Owns
  <1>1. ASSUME NEW w \in Worker, Survey(w) PROVE RowBacked'
    BY <1>1 DEF Survey
  <1>2. ASSUME NEW w \in Worker, Filter(w) PROVE RowBacked'
    BY <1>2 DEF Filter
  <1>3. ASSUME NEW w \in Worker, Reclaim(w) PROVE RowBacked'
    BY <1>3 DEF Reclaim
  <1>4. ASSUME NEW w \in Worker, Claim(w) PROVE RowBacked'
    BY <1>4 DEF Claim
  <1>5. ASSUME NEW w \in Worker, Get(w) PROVE RowBacked'
    BY <1>5 DEF Get
  <1>6. ASSUME NEW w \in Worker, Vet(w) PROVE RowBacked'
    BY <1>6 DEF Vet
  <1>7. ASSUME NEW w \in Worker, WriteTmp(w) PROVE RowBacked'
    BY <1>7 DEF WriteTmp
  <1>8. ASSUME NEW w \in Worker, Rename(w) PROVE RowBacked'
    BY <1>8 DEF Rename, Quit
  <1>9. ASSUME NEW w \in Worker, Sweep(w) PROVE RowBacked'
    BY <1>9 DEF Sweep
  <1>10. ASSUME NEW w \in Worker, Upsert(w) PROVE RowBacked'
    BY <1>10 DEF Upsert
  <1>11. ASSUME NEW w \in Worker, Publish(w) PROVE RowBacked'
    BY <1>11 DEF Publish
  <1>12. ASSUME NEW w \in Worker, Mint(w) PROVE RowBacked'
    BY <1>12 DEF Mint
  <1>13. ASSUME NEW w \in Worker, Unlock(w) PROVE RowBacked'
    BY <1>13 DEF Unlock
  <1>14. ASSUME NEW w \in Worker, Release(w) PROVE RowBacked'
    BY <1>14 DEF Release
  <1>15. ASSUME NEW w \in Worker, Tally(w) PROVE RowBacked'
    BY <1>15 DEF Tally
  <1>16. ASSUME NEW w \in Worker, VetRaises(w) PROVE RowBacked'
    BY <1>16 DEF VetRaises, Quit
  <1>17. ASSUME NEW w \in Worker, SelectFails(w) PROVE RowBacked'
    BY <1>17 DEF SelectFails
  <1>18. ASSUME NEW w \in Worker, RowFails(w) PROVE RowBacked'
    BY <1>18 DEF RowFails, Quit
  <1>19. ASSUME NEW w \in Worker, ReleaseFails(w) PROVE RowBacked'
    BY <1>19 DEF ReleaseFails
  <1>20. ASSUME NEW w \in Worker, Crash(w) PROVE RowBacked'
    BY <1>20 DEF Crash
  <1>21. CASE Tick
    BY <1>21 DEF Tick
  <1>22. CASE UNCHANGED vars
    BY <1>22 DEF vars
  <1>. QED
    BY <1>1, <1>2, <1>3, <1>4, <1>5, <1>6, <1>7, <1>8, <1>9, <1>10, <1>11, <1>12, <1>13, <1>14, <1>15, <1>16, <1>17, <1>18, <1>19, <1>20, <1>21, <1>22 DEF Next, Step

\* Whose lease, temporary file and ruling are whose at every step of a drain pass, its saves
\* included, a save cut short between its files and its row among them.
THEOREM TimelyInvariant == ASSUME Timely PROVE Spec => []TimelyInv
  <1>1. TimelyInv /\ [Next]_vars => TimelyInv'
    BY TypeStep, LeaseStep, NoPublishStep, SaveStep DEF TimelyInv
  <1>. QED
    BY QueueInit, <1>1, PTL DEF Spec, QueueInv

\* The same and the row's file, where every save runs to its end.
THEOREM QueueInvariant == ASSUME Plain PROVE Spec => []QueueInv
  <1>1. Timely
    BY DEF Plain, Timely
  <1>2. QueueInv /\ [Next]_vars => QueueInv'
    BY <1>1, TypeStep, LeaseStep, NoPublishStep, SaveStep, RowStep DEF TimelyInv, QueueInv
  <1>. QED
    BY QueueInit, <1>2, PTL DEF Spec

\* No two passes vet one row at the same time, even where a save was cut short.
THEOREM OneVetPerRow == ASSUME Timely PROVE Spec => []SingleVet
  <1>1. TimelyInv => SingleVet
    BY DEF TimelyInv, LeaseInv, SingleVet, Vetting, Owns
  <1>. QED
    BY TimelyInvariant, <1>1, PTL

\* The row never becomes an orphan where every save runs to its end.
THEOREM RowKeepsItsFile == ASSUME Plain PROVE Spec => []RowBacked
  <1>1. QueueInv => RowBacked
    BY DEF QueueInv
  <1>. QED
    BY QueueInvariant, <1>1, PTL

\* No save loses its temporary file to another.
THEOREM SavesDoNotCollide == ASSUME Timely PROVE Spec => []RenameFinds
  <1>1. TimelyInv => RenameFinds
    BY DEF TimelyInv, SaveInv, RenameFinds
  <1>. QED
    BY TimelyInvariant, <1>1, PTL

-----------------------------------------------------------------------------
(***************************************************************************)
(* Implementation of the lease.                                            *)
(***************************************************************************)
AbstractVars == <<lease.owner, Working>>

\* Every pass but w stays where it is with respect to the section.
LEMMA Elsewhere ==
  ASSUME TypeOK, NEW w \in Worker, NEW label \in Label, Goto(w, label)
  PROVE  /\ label \in Section => Working' = Working \cup {w}
         /\ label \notin Section => Working' = Working \ {w}
  BY DEF TypeOK, Goto, Working

LEMMA OwnerKept ==
  ASSUME TypeOK, lease' = lease \/ lease' = [lease EXCEPT !.over = TRUE]
                 \/ lease' = [lease EXCEPT !.age = @ + 1]
  PROVE  lease'.owner = lease.owner
  BY DEF TypeOK, LeaseRecord

\* A step inside or outside the section that leaves the owner alone.
LEMMA Stutters ==
  ASSUME TypeOK, NEW w \in Worker, NEW label \in Label, Goto(w, label),
         pc[w] \in Section <=> label \in Section,
         lease'.owner = lease.owner
  PROVE  UNCHANGED AbstractVars
  <1>1. Working' = Working
    BY Elsewhere DEF Working
  <1>. QED
    BY <1>1 DEF AbstractVars

\* A pass that leaves the section while the lease stays as it is.
LEMMA Stops ==
  ASSUME TypeOK, NEW w \in Worker, NEW label \in Label \ Section, Goto(w, label),
         lease'.owner = lease.owner
  PROVE  Abstract!Next \/ UNCHANGED AbstractVars
  <1>1. Working' = Working \ {w}
    BY Elsewhere
  <1>2. CASE w \in Working
    BY <1>1, <1>2 DEF Abstract!Next, Abstract!Fail
  <1>3. CASE w \notin Working
    BY <1>1, <1>3 DEF AbstractVars
  <1>. QED
    BY <1>2, <1>3

\* A lease taken away from whoever does not work under it.
LEMMA TakenAway ==
  ASSUME TypeOK, NEW w \in Worker, NEW label \in Label \ Section, Goto(w, label),
         pc[w] \notin Section, lease.owner \notin Working, lease'.owner = None
  PROVE  Abstract!Next \/ UNCHANGED AbstractVars
  <1>1. Working' = Working
    BY Elsewhere DEF Working
  <1>2. CASE lease.owner = None
    BY <1>1, <1>2 DEF AbstractVars
  <1>3. CASE lease.owner # None
    BY <1>1, <1>3 DEF Abstract!Next, Abstract!Reclaim
  <1>. QED
    BY <1>2, <1>3

LEMMA AbstractStep ==
  ASSUME Timely, TimelyInv, [Next]_vars
  PROVE  Abstract!Next \/ UNCHANGED AbstractVars
  <1> DEFINE Done == Abstract!Next \/ UNCHANGED AbstractVars
  <1> SUFFICES Done
    OBVIOUS
  <1>0. TypeOK /\ LeaseInv /\ NoPublish
    BY DEF TimelyInv
  <1>1. ASSUME NEW w \in Worker, Survey(w) PROVE Done
    <2>1. Goto(w, "filter") /\ lease'.owner = lease.owner
      BY <1>1 DEF Survey
    <2>. QED
      BY <1>0, <1>1, <2>1, Stutters DEF Survey, Section, Label
  <1>2. ASSUME NEW w \in Worker, Vet(w) PROVE Done
    <2>1. Goto(w, "write") /\ lease'.owner = lease.owner
      BY <1>2 DEF Vet
    <2>. QED
      BY <1>0, <1>2, <2>1, Stutters DEF Vet, Section, Label
  <1>3. ASSUME NEW w \in Worker, WriteTmp(w) PROVE Done
    <2>1. Goto(w, "rename") /\ lease'.owner = lease.owner
      BY <1>3 DEF WriteTmp
    <2>. QED
      BY <1>0, <1>3, <2>1, Stutters DEF WriteTmp, Section, Label
  <1>4. ASSUME NEW w \in Worker, Sweep(w) PROVE Done
    <2>1. Goto(w, "upsert") /\ lease'.owner = lease.owner
      BY <1>4 DEF Sweep
    <2>. QED
      BY <1>0, <1>4, <2>1, Stutters DEF Sweep, Section, Label
  <1>5. ASSUME NEW w \in Worker, Tally(w) PROVE Done
    <2>1. Goto(w, "idle") /\ lease'.owner = lease.owner
      BY <1>5 DEF Tally
    <2>. QED
      BY <1>0, <1>5, <2>1, Stutters DEF Tally, Section, Label
  <1>6. ASSUME NEW w \in Worker, Filter(w) PROVE Done
    <2>1. PICK label \in {"claim", "idle", "reclaim"} : Goto(w, label)
      BY <1>6 DEF Filter
    <2>. QED
      BY <1>0, <1>6, <2>1, Stutters DEF Filter, Section, Label
  <1>7. ASSUME NEW w \in Worker, Reclaim(w) PROVE Done
    <2>1. CASE lease.owner = seen[w]
      <3>1. lease.owner \notin Working
        BY <1>0, <1>7, <2>1 DEF Reclaim, LeaseInv, Alive, Working, Section
      <3>. QED
        BY <1>0, <1>7, <2>1, <3>1, TakenAway DEF Reclaim, NoOwner, Section, Label
    <2>2. CASE lease.owner # seen[w]
      BY <1>0, <1>7, <2>2, Stutters DEF Reclaim, Section, Label
    <2>. QED
      BY <2>1, <2>2
  <1>8. ASSUME NEW w \in Worker, Claim(w) PROVE Done
    <2>1. CASE Claimable(w)
      <3>1. \A v \in Worker : pc[v] \notin Section
        BY <1>0, <1>8, <2>1 DEF Claim, Claimable, LeaseInv, Owns, TypeOK, LeaseRecord, Section, NoOwner
      <3>2. lease.owner \notin Working
        BY <3>1 DEF Working
      <3>3. lease'.owner = w
        BY <1>8, <2>1 DEF Claim, TakenBy
      <3>4. Working' = Working \cup {w}
        BY <1>0, <1>8, <2>1, Elsewhere DEF Claim, Section, Label
      <3>. QED
        BY <3>2, <3>3, <3>4 DEF Abstract!Next, Abstract!Take
    <2>2. CASE ~Claimable(w)
      BY <1>0, <1>8, <2>2, Stutters DEF Claim, Section, Label
    <2>. QED
      BY <2>1, <2>2
  <1>9. ASSUME NEW w \in Worker, Get(w) PROVE Done
    <2>1. CASE row.decision \in files
      BY <1>0, <1>9, <2>1, Stutters DEF Get, Section, Label
    <2>2. CASE row.decision \notin files
      BY <1>0, <1>9, <2>2, Stops DEF Get, Section, Label
    <2>. QED
      BY <2>1, <2>2
  <1>10. ASSUME NEW w \in Worker, Rename(w) PROVE Done
    <2>1. CASE verdict[w].decision \in tmp
      BY <1>0, <1>10, <2>1, Stutters DEF Rename, Section, Label
    <2>2. CASE verdict[w].decision \notin tmp
      BY <1>0, <1>10, <2>2, Stops DEF Rename, Quit, Section, Label
    <2>. QED
      BY <2>1, <2>2
  <1>11. ASSUME NEW w \in Worker, Upsert(w) PROVE Done
    <2>1. Goto(w, "release") /\ lease'.owner = None
      BY <1>0, <1>11 DEF Upsert, NoPublish, Publishable, Timely, NoOwner
    <2>2. lease.owner = w /\ w \in Working
      BY <1>0, <1>11 DEF Upsert, LeaseInv, Owns, Working, Section
    <2>3. Working' = Working \ {w}
      BY <1>0, <2>1, Elsewhere DEF Section, Label
    <2>. QED
      BY <2>1, <2>2, <2>3 DEF Abstract!Next, Abstract!Finish
  <1>12. ASSUME NEW w \in Worker, Publish(w) \/ Mint(w) \/ Unlock(w) PROVE Done
    BY <1>0, <1>12 DEF Publish, Mint, Unlock, NoPublish
  <1>13. ASSUME NEW w \in Worker, Release(w) PROVE Done
    <2>1. PICK label \in {"idle", "tally"} : Goto(w, label)
      BY <1>13 DEF Release
    <2>2. CASE Owns(w)
      <3>1. lease.owner \notin Working
        BY <1>13, <2>2 DEF Release, Owns, Working, Section
      <3>. QED
        BY <1>0, <1>13, <2>1, <2>2, <3>1, TakenAway DEF Release, NoOwner, Section, Label
    <2>3. CASE ~Owns(w)
      BY <1>0, <1>13, <2>1, <2>3, Stutters DEF Release, Section, Label
    <2>. QED
      BY <2>2, <2>3
  <1>14. ASSUME NEW w \in Worker, VetRaises(w) PROVE Done
    BY <1>0, <1>14, Stops DEF VetRaises, Quit, Section, Label
  <1>15. ASSUME NEW w \in Worker, SelectFails(w) PROVE Done
    <2>1. PICK label \in {"idle", "claim"} : Goto(w, label)
      BY <1>15 DEF SelectFails
    <2>. QED
      BY <1>0, <1>15, <2>1, Stutters DEF SelectFails, Section, Label
  <1>16. ASSUME NEW w \in Worker, RowFails(w) PROVE Done
    BY <1>0, <1>16, Stops DEF RowFails, Quit, Section, Label
  <1>17. ASSUME NEW w \in Worker, ReleaseFails(w) PROVE Done
    <2>1. lease'.owner = lease.owner
      BY <1>0, <1>17, OwnerKept DEF ReleaseFails
    <2>. QED
      BY <1>0, <1>17, <2>1, Stutters DEF ReleaseFails, Section, Label
  <1>18. ASSUME NEW w \in Worker, Crash(w) PROVE Done
    BY <1>0, <1>18, Stops DEF Crash, Section, Label
  <1>19. CASE Tick
    <2>1. lease'.owner = lease.owner
      BY <1>0, <1>19, OwnerKept DEF Tick
    <2>. QED
      BY <1>19, <2>1 DEF Tick, AbstractVars, Working
  <1>20. CASE UNCHANGED vars
    BY <1>20 DEF vars, AbstractVars, Working
  <1>. QED
    BY <1>1, <1>2, <1>3, <1>4, <1>5, <1>6, <1>7, <1>8, <1>9, <1>10, <1>11, <1>12, <1>13, <1>14, <1>15, <1>16, <1>17, <1>18, <1>19, <1>20 DEF Next, Step

\* The lease columns give what module Lease promises: a row is taken only when
\* nobody works under its lease, and worked on only by its owner.
THEOREM Implementation == ASSUME Timely PROVE Spec => ImplementsLease
  <1>1. Init => Abstract!Init
    BY DEF Init, Abstract!Init, NoOwner, Working, Section
  <1>2. TimelyInv /\ [Next]_vars => [Abstract!Next]_AbstractVars
    BY AbstractStep
  <1>. QED
    BY TimelyInvariant, <1>1, <1>2, PTL DEF Spec, ImplementsLease, Abstract!Spec, AbstractVars
=============================================================================
