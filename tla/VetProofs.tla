------------------------------ MODULE VetProofs -------------------------------
(***************************************************************************)
(* Theorems about a vet: the record it is under while it runs, the ruling  *)
(* it comes to, and the batch it is one of.  They hold for any number of   *)
(* processes, checks, candidates and workers, and any thresholds.          *)
(***************************************************************************)
EXTENDS Inflight, Vetting, VetPool, FiniteSetTheorems, TLAPS

-----------------------------------------------------------------------------
(***************************************************************************)
(* The in-flight record.                                                   *)
(***************************************************************************)

\* The processes' own steps, named apart from Next so that proofs can split them.
Own(w) ==
  \/ Generate(w) \/ Survey(w) \/ Step(w)
  \/ OpenFails(w) \/ VetFails(w) \/ Skip(w) \/ FileFails(w) \/ Crash(w)

LEMMA NextSplit == Next <=> (\E w \in Worker : Own(w)) \/ Tick
  BY DEF Next, Own

\* A record or a marker whose age moves on is still one.
LEMMA TickTypes ==
  ASSUME TypeOK, Tick
  PROVE  /\ record' \in RecordFile \cup {NoFile}
         /\ marker' \in MarkerFile \cup {NoFile}
  <1>1. ASSUME record # NoFile, record.age < Stale
        PROVE  [record EXCEPT !.age = @ + 1] \in RecordFile
    BY <1>1, InflightAssumption DEF TypeOK, RecordFile
  <1>2. ASSUME marker # NoFile, marker.age <= Ttl
        PROVE  [marker EXCEPT !.age = @ + 1] \in MarkerFile
    BY <1>2, InflightAssumption DEF TypeOK, MarkerFile
  <1> QED
    BY <1>1, <1>2 DEF TypeOK, Tick

-----------------------------------------------------------------------------
LEMMA InitInv == Init => InflightInv
  <1> SUFFICES ASSUME Init PROVE InflightInv
    OBVIOUS
  <1>1. /\ pc = [w \in Worker |-> "idle"]
        /\ \A w \in Worker : pc[w] = "idle"
    BY DEF Init
  <1>2. faults \in 0 .. MaxFaults
    BY InflightAssumption DEF Init
  <1>3. TypeOK
    BY <1>1, <1>2 DEF Init, TypeOK
  <1> QED
    BY <1>1, <1>3 DEF InflightInv

\* Types, action by action.
LEMMA OwnTypes ==
  ASSUME InflightInv, NEW w \in Worker, Own(w)
  PROVE  TypeOK'
  <1> USE InflightAssumption DEF InflightInv, TypeOK, Goto
  <1>1. CASE Generate(w)
    BY <1>1 DEF Generate
  <1>2. CASE Survey(w)
    BY <1>2 DEF Survey
  <1>3. CASE Open(w)
    BY <1>3 DEF Open, RecordFile
  <1>4. CASE Save(w)
    BY <1>4 DEF Save
  <1>5. CASE Close(w)
    BY <1>5 DEF Close, Leave
  <1>6. CASE Known(w)
    BY <1>6 DEF Known
  <1>7. CASE Settle(w)
    BY <1>7 DEF Settle
  <1>8. CASE Claim(w)
    <2>1. [by |-> w, ready |-> FALSE, age |-> 0] \in MarkerFile
      BY DEF MarkerFile
    <2>2. marker' \in MarkerFile \cup {NoFile}
      BY <1>8, <2>1 DEF Claim
    <2>3. \E l \in {"stamp", "judge", "idle"} : pc' = [pc EXCEPT ![w] = l]
      BY <1>8 DEF Claim
    <2> QED
      BY <1>8, <2>2, <2>3 DEF Claim
  <1>9. CASE Stamp(w)
    <2>1. marker' \in MarkerFile \cup {NoFile}
      BY <1>9 DEF Stamp, MarkerFile
    <2> QED
      BY <1>9, <2>1 DEF Stamp
  <1>10. CASE Judge(w)
    BY <1>10 DEF Judge
  <1>11. CASE Drop(w)
    BY <1>11 DEF Drop
  <1>12. CASE Release(w)
    BY <1>12 DEF Release
  <1>13. CASE OpenFails(w)
    BY <1>13 DEF OpenFails, Fault
  <1>14. CASE VetFails(w)
    BY <1>14 DEF VetFails, Fault, Leave
  <1>15. CASE Skip(w)
    BY <1>15 DEF Skip, Fault
  <1>16. CASE FileFails(w)
    <2>1. faults' \in 0 .. MaxFaults /\ UNCHANGED <<record, marker, row, born>>
      BY <1>16 DEF FileFails, Fault
    <2>2. recovering' \subseteq Worker
      BY <1>16 DEF FileFails
    <2>3. pc' = [pc EXCEPT ![w] = "idle"] \/ pc' = [pc EXCEPT ![w] = "release"]
      BY <1>16 DEF FileFails, Leave
    <2> QED
      BY <2>1, <2>2, <2>3
  <1>17. CASE Crash(w)
    BY <1>17 DEF Crash, Alive
  <1> QED
    BY <1>1, <1>2, <1>3, <1>4, <1>5, <1>6, <1>7, <1>8, <1>9, <1>10, <1>11, <1>12, <1>13,
       <1>14, <1>15, <1>16, <1>17 DEF Own, Step

\* Nobody comes to the point of removing the record unless there is a ruling.
LEMMA OwnRuled ==
  ASSUME InflightInv, NEW w \in Worker, Own(w)
  PROVE  \A v \in Worker : pc'[v] \in {"close", "settle"} => row'
  <1> SUFFICES ASSUME NEW v \in Worker, pc'[v] \in {"close", "settle"}
               PROVE  row'
    OBVIOUS
  <1>1. pc[v] \in {"close", "settle"} => row
    BY DEF InflightInv
  <1>2. row => row'
    BY DEF Own, Step, Generate, Survey, Open, Save, Close, Known, Settle, Claim, Stamp, Judge,
           Drop, Release, OpenFails, VetFails, Skip, FileFails, Crash
  <1>3. pc = [u \in Worker |-> pc[u]]
    BY DEF InflightInv, TypeOK
  <1>4. CASE v # w
    <2>1. \E l : pc' = [pc EXCEPT ![w] = l]
      BY DEF Own, Step, Generate, Survey, Open, Save, Close, Known, Settle, Claim, Stamp, Judge,
             Drop, Release, OpenFails, VetFails, Skip, FileFails, Crash, Goto, Leave
    <2> QED
      BY <1>1, <1>2, <1>3, <1>4, <2>1
  <1>5. CASE v = w
    <2>1. CASE Save(w)
      BY <2>1 DEF Save
    <2>2. CASE Known(w)
      BY <1>3, <1>5, <2>2 DEF Known, Goto
    <2>3. CASE ~Save(w) /\ ~Known(w)
      BY <1>3, <1>5, <2>3
         DEF Own, Step, Generate, Survey, Open, Close, Settle, Claim, Stamp, Judge, Drop,
             Release, OpenFails, VetFails, Skip, FileFails, Crash, Goto, Leave
    <2> QED
      BY <2>1, <2>2, <2>3
  <1> QED
    BY <1>4, <1>5

LEMMA NextInv == InflightInv /\ [Next]_vars => InflightInv'
  <1> SUFFICES ASSUME InflightInv, [Next]_vars
               PROVE  InflightInv'
    OBVIOUS
  <1>1. ASSUME NEW w \in Worker, Own(w)
        PROVE  InflightInv'
    BY <1>1, OwnTypes, OwnRuled DEF InflightInv
  <1>2. CASE Tick
    <2>1. TypeOK'
      BY <1>2, TickTypes DEF InflightInv, TypeOK, Tick
    <2> QED
      BY <1>2, <2>1 DEF InflightInv, Tick
  <1>3. CASE UNCHANGED vars
    BY <1>3 DEF InflightInv, TypeOK, vars
  <1> QED
    BY <1>1, <1>2, <1>3, NextSplit

\* Every reachable state is well typed, and a process only ever comes to remove
\* the record of a candidate that has a ruling (close, and the settled branch of
\* _recover_orphans).
THEOREM RecordsOutliveVets == Spec => []InflightInv
  <1>1. Init => InflightInv
    BY InitInv
  <1>2. InflightInv /\ [Next]_vars => InflightInv'
    BY NextInv
  <1> QED
    BY <1>1, <1>2, PTL DEF Spec

-----------------------------------------------------------------------------
LEMMA InitMaps == Init => Abstract!Init
  BY DEF Init, Abstract!Init, Status

LEMMA StepMaps == InflightInv /\ [Next]_vars => [Abstract!Next]_Status
  <1> SUFFICES ASSUME InflightInv, [Next]_vars
               PROVE  [Abstract!Next]_Status
    OBVIOUS
  <1>1. CASE row
    <2>1. row'
      BY <1>1, NextSplit
         DEF Own, Step, Generate, Survey, Open, Save, Close, Known, Settle, Claim, Stamp, Judge,
             Drop, Release, OpenFails, VetFails, Skip, FileFails, Crash, Tick, vars
    <2> QED
      BY <1>1, <2>1 DEF Status
  <1>2. CASE ~row /\ record = NoFile
    BY <1>2 DEF Status, Abstract!Next, Abstract!Put, Abstract!Rule
  <1>3. CASE ~row /\ record # NoFile
    <2>1. record' # NoFile
      <3>1. ASSUME NEW w \in Worker, Own(w)
            PROVE  record' # NoFile
        <4>1. ~Close(w) /\ ~Settle(w)
          BY <1>3 DEF InflightInv, Close, Settle
        <4>2. CASE Open(w)
          BY <3>1, <4>2, InflightAssumption DEF Open, RecordFile
        <4>3. CASE ~Open(w)
          BY <1>3, <3>1, <4>1, <4>3
             DEF Own, Step, Generate, Survey, Save, Known, Claim, Stamp, Judge, Drop, Release,
                 OpenFails, VetFails, Skip, FileFails, Crash
        <4> QED
          BY <4>2, <4>3
      <3>2. CASE Tick
        <4>1. record.age < Stale => [record EXCEPT !.age = @ + 1] # NoFile
          BY <1>3, InflightAssumption DEF InflightInv, TypeOK, RecordFile
        <4> QED
          BY <1>3, <3>2, <4>1 DEF Tick
      <3>3. CASE UNCHANGED vars
        BY <1>3, <3>3 DEF vars
      <3> QED
        BY <3>1, <3>2, <3>3, NextSplit
    <2> QED
      BY <1>3, <2>1 DEF Status, Abstract!Next, Abstract!Put, Abstract!Rule
  <1> QED
    BY <1>1, <1>2, <1>3 DEF InflightInv, TypeOK

\* "Killing the process cannot lose it" (inflight.py): whatever dies, fails or
\* cleans up, a recorded candidate stays pending until it is ruled on.
THEOREM Implementation == Spec => ImplementsQueue
  <1>1. Init => Abstract!Init
    BY InitMaps
  <1>2. InflightInv /\ [Next]_vars => [Abstract!Next]_Status
    BY StepMaps
  <1> QED
    BY <1>1, <1>2, RecordsOutliveVets, PTL DEF Spec, ImplementsQueue, Abstract!Spec

-----------------------------------------------------------------------------
(***************************************************************************)
(* The ruling.                                                             *)
(***************************************************************************)

(***************************************************************************)
(* One check                                                               *)
(***************************************************************************)
\* A verdict that counts for anything cites a page that was fetched.
LEMMA OutcomesCite ==
  /\ Outcomes \subseteq CheckResult
  /\ \A c \in Outcomes : c.conf > 0 => c.cites
  /\ Unheard(FALSE) \in Outcomes
<1>1. ASSUME NEW r \in Reply
      PROVE  Ruled(r) \in CheckResult /\ (Ruled(r).conf > 0 => Ruled(r).cites)
  <2> DEFINE said == IF Demoted(r) \/ (r.says = "supported" /\ ~r.cites)
                     THEN "unverifiable" ELSE r.says
  <2>1. /\ r.says \in Verdicts /\ said \in Verdicts /\ r.conf \in 1..3
        /\ r.cites \in BOOLEAN /\ r.tail \in BOOLEAN
    BY DEF Reply, Verdicts
  <2>2. CASE r.reasoned \/ Demoted(r)
    <3> DEFINE conf == IF said = "unverifiable" \/ ~r.cites THEN 0 ELSE r.conf
    <3>1. Ruled(r) = [verdict |-> said, cites |-> r.cites, failed |-> FALSE, tail |-> r.tail,
                      conf |-> conf]
      BY <2>2 DEF Ruled
    <3>2. conf \in 0..3 /\ (conf > 0 => r.cites)
      BY <2>1
    <3> HIDE DEF said, conf
    <3> QED BY <2>1, <3>1, <3>2 DEF CheckResult
  <2>3. CASE ~(r.reasoned \/ Demoted(r))
    <3>1. Ruled(r) = Unheard(r.tail)
      BY <2>3 DEF Ruled
    <3> QED BY <2>1, <3>1 DEF Unheard, CheckResult, Verdicts
  <2> QED BY <2>2, <2>3
<1>3. Silent \in CheckResult /\ Silent.conf = 0
  BY DEF Silent, CheckResult, Verdicts
<1>4. ASSUME NEW c \in Outcomes
      PROVE  c \in CheckResult /\ (c.conf > 0 => c.cites)
  <2>1. CASE c = Unheard(FALSE)
    BY <2>1 DEF Unheard, CheckResult, Verdicts
  <2>2. CASE c = Silent
    BY <1>3, <2>2
  <2>3. CASE \E r \in Reply : c = Ruled(r)
    BY <1>1, <2>3
  <2> QED BY <2>1, <2>2, <2>3 DEF Outcomes
<1> QED BY <1>4 DEF Outcomes

\* What a list of results supports can be counted.
LEMMA SupportsCounted ==
  ASSUME NEW cs \in Seq(Outcomes)
  PROVE  /\ IsFiniteSet(Supports(cs)) /\ Cardinality(Supports(cs)) \in Nat
         /\ Supports(cs) \subseteq 1..Len(cs)
<1>1. Supports(cs) \subseteq 1..Len(cs)
  BY DEF Supports
<1>2. IsFiniteSet(1..Len(cs))
  BY FS_Interval
<1> QED BY <1>1, <1>2, FS_Subset, FS_CardinalityType

(***************************************************************************)
(* What is filed                                                           *)
(***************************************************************************)
\* Every way a dossier may be decided, and what it takes.
LEMMA Decisions ==
  ASSUME gate = NoGate => score \in {"failed", "low", "high"}
  PROVE  \/ /\ Decided = [decision |-> "DEFER", gate |-> NoGate]
            /\ gate.kind \in DeferReasons \/ (gate = NoGate /\ score = "failed")
         \/ /\ Decided = [decision |-> "KILL", gate |-> gate]
            /\ gate # NoGate /\ gate.kind \notin DeferReasons
         \/ /\ Decided = [decision |-> "KILL", gate |-> Gate("min_composite")]
            /\ gate = NoGate /\ score = "low"
         \/ /\ Decided = [decision |-> "KILL", gate |-> Gate("moat_ungrounded")]
            /\ gate = NoGate /\ score = "high" /\ ~MoatGrounded(checks)
         \/ /\ Decided = [decision |-> "KILL", gate |-> Gate("source_or_die")]
            /\ gate = NoGate /\ score = "high" /\ ~Supported(checks)
         \/ /\ Decided = [decision |-> "PASS", gate |-> NoGate]
            /\ gate = NoGate /\ score = "high" /\ MoatGrounded(checks) /\ Supported(checks)
<1>1. CASE gate = NoGate /\ score = "failed"
  BY <1>1 DEF Decided, Final, DeferReasons, Gate, NoGate
<1>2. CASE gate = NoGate /\ score = "low"
  BY <1>2 DEF Decided, Final, DeferReasons, Gate, NoGate
<1>3. CASE gate = NoGate /\ score = "high"
  BY <1>3 DEF Decided, Final, DeferReasons, Gate, NoGate
<1>4. CASE gate # NoGate /\ gate.kind \in DeferReasons
  BY <1>4 DEF Decided, Final
<1>5. CASE gate # NoGate /\ gate.kind \notin DeferReasons
  BY <1>5 DEF Decided, Final
<1> QED BY <1>1, <1>2, <1>3, <1>4, <1>5

\* What is filed depends on the results, the gate, the adversary and the score only.
LEMMA FiledStands ==
  ASSUME UNCHANGED <<checks, gate, adv, score>>
  PROVE  Filed' = Filed
  BY DEF Filed, Decided, Final, Provisional, MoatGrounded, Supported, Supports, Grounded
(***************************************************************************)
(* The invariant                                                           *)
(***************************************************************************)
\* Only one check is the first.
LEMMA FirstIsOne ==
  ASSUME checks \in Seq(Outcomes), NEW i \in DOMAIN checks, NEW j \in DOMAIN checks,
         First(i), First(j)
  PROVE  i = j
<1>1. i \in Nat /\ j \in Nat /\ i >= 1 /\ j >= 1
  OBVIOUS
<1>2. ~(i < j) /\ ~(j < i)
  BY <1>1 DEF First
<1> QED BY <1>1, <1>2

\* That evidence stands follows from what the gate is.
LEMMA Stands ==
  ASSUME VettingTypeOK, StageInv, GateInv, RulingInv
  PROVE  EvidenceStands
<1> SUFFICES ASSUME stage = "done", ~late, NEW i \in DOMAIN checks, First(i)
             PROVE  IF checks[i].failed THEN ruling.decision = "DEFER"
                    ELSE ruling.decision = "KILL" /\ ruling.gate = AtCheck(i)
  BY DEF EvidenceStands
<1>1. PICK j \in DOMAIN checks : First(j) /\ gate = FiredGate(j)
  BY DEF GateInv, First
<1>2. gate = FiredGate(i)
  BY <1>1, FirstIsOne DEF VettingTypeOK
<1>3. ruling.decision = Decided.decision /\ ruling.gate = Decided.gate
  BY DEF RulingInv, Filed
<1>4. gate # NoGate
  BY <1>2 DEF FiredGate, Gate, AtCheck, NoGate
<1>5. CASE checks[i].failed
  <2>1. gate.kind \in DeferReasons
    BY <1>2, <1>5 DEF FiredGate, Gate, DeferReasons
  <2> QED BY <1>3, <1>4, <1>5, <2>1, Decisions
<1>6. CASE ~checks[i].failed
  <2>1. gate = AtCheck(i) /\ gate.kind \notin DeferReasons
    BY <1>2, <1>6 DEF FiredGate, AtCheck, DeferReasons
  <2> QED BY <1>3, <1>4, <1>6, <2>1, Decisions
<1> QED BY <1>5, <1>6

LEMMA FiredGates == \A i : FiredGate(i) # NoGate
<1>1. \A i : AtCheck(i).kind # NoGate.kind
  BY DEF AtCheck, Gate, NoGate
<1>2. Gate("retrieval_unavailable").kind # NoGate.kind
  BY DEF Gate, NoGate
<1> QED BY <1>1, <1>2 DEF FiredGate

LEMMA VettingInitially == VettingInit => VettingInv
<1> SUFFICES ASSUME VettingInit PROVE VettingInv
  OBVIOUS
<1>1. gate \in AnyGate /\ NoRuling \in Dossier /\ adv \in Objection
  BY LaneAssumption DEF VettingInit, NoGate, Gate, AnyGate, GateKind, NoRuling, Dossier, NoAdv, Objection
<1>2. VettingTypeOK
  <2>1. checks \in Seq(Outcomes) /\ Len(checks) = 0
    BY DEF VettingInit
  <2>2. mode \in [full : BOOLEAN, adversary : BOOLEAN] /\ late \in BOOLEAN
    BY DEF VettingInit
  <2>3. Len(checks) <= Checks
    BY <2>1, LaneAssumption
  <2> QED BY <1>1, <2>1, <2>2, <2>3 DEF VettingInit, VettingTypeOK
<1>3. StageInv /\ GateInv /\ RulingInv /\ EvidenceStands
  BY LaneAssumption DEF VettingInit, StageInv, GateInv, RulingInv, EvidenceStands
<1> QED BY <1>2, <1>3 DEF VettingInv

\* The invariant without the part that follows.
Sound == VettingTypeOK /\ StageInv /\ GateInv /\ RulingInv

LEMMA CheckSteps ==
  ASSUME Sound, RunCheck
  PROVE  Sound'
<1>1. PICK c \in Outcomes :
        LET cs    == Append(checks, c)
            n     == Len(cs)
            fired == IF c.failed THEN Gate("retrieval_unavailable")
                     ELSE IF IsHardFail(n, c) THEN AtCheck(n) ELSE NoGate
            floor == IF fired = NoGate /\ ~mode.full /\ n >= HardGates
                          /\ \A i \in DOMAIN cs : ~cs[i].failed
                       THEN {Gate(f) : f \in PassImpossible(cs)} ELSE {}
            ends  == ~mode.full /\ (fired # NoGate \/ floor # {})
        IN  /\ checks' = cs
            /\ gate' = IF floor # {} THEN CHOOSE g \in floor : TRUE ELSE OrElse(fired)
            /\ stage' = IF ends THEN "file" ELSE IF n = Checks THEN "adversary" ELSE "check"
  BY DEF RunCheck
<1>2. /\ stage = "check" /\ UNCHANGED <<mode, adv, score, ruling, late>>
      /\ Len(checks) \in Nat /\ Len(checks) < Checks /\ checks \in Seq(Outcomes)
      /\ ~late /\ (mode.full \/ gate = NoGate) /\ ruling = NoRuling
  BY LaneAssumption DEF RunCheck, Sound, VettingTypeOK, StageInv, RulingInv
<1> PICK n \in Nat : n = Len(checks) + 1
  BY <1>2
<1> DEFINE cs == Append(checks, c)
           fired == IF c.failed THEN Gate("retrieval_unavailable")
                    ELSE IF IsHardFail(n, c) THEN AtCheck(n) ELSE NoGate
           floor == IF fired = NoGate /\ ~mode.full /\ n >= HardGates
                         /\ \A i \in DOMAIN cs : ~cs[i].failed
                      THEN {Gate(f) : f \in PassImpossible(cs)} ELSE {}
<1>3. /\ cs \in Seq(Outcomes) /\ Len(cs) = n /\ DOMAIN cs = 1..n /\ n \in 1..Checks /\ n <= Checks /\ n \in 1..n
      /\ \A i \in 1..Len(checks) : cs[i] = checks[i]
      /\ cs[n] = c
  BY <1>2, LaneAssumption
<1>4. /\ checks' = cs
      /\ gate' = IF floor # {} THEN CHOOSE g \in floor : TRUE ELSE OrElse(fired)
      /\ stage' = IF ~mode.full /\ (fired # NoGate \/ floor # {}) THEN "file"
                  ELSE IF n = Checks THEN "adversary" ELSE "check"
  BY <1>1, <1>3
<1>5. /\ \A i \in 1..Len(checks) : Fired(i)' <=> Fired(i)
      /\ \A i \in 1..Len(checks) : First(i) => First(i)' /\ FiredGate(i)' = FiredGate(i)
  <2>1. \A i \in 1..Len(checks) : Fired(i)' <=> Fired(i)
    BY <1>3, <1>4 DEF Fired
  <2>2. \A i \in 1..Len(checks) : \A j \in 1..(i - 1) : j \in 1..Len(checks)
    BY <1>2
  <2> QED BY <1>3, <1>4, <2>1, <2>2 DEF First, FiredGate
<1>6. /\ fired = NoGate <=> ~Fired(n)'
      /\ fired # NoGate => fired = FiredGate(n)'
  BY <1>3, <1>4 DEF Fired, FiredGate, Gate, AtCheck, NoGate
<1>7. floor # {} => \E f \in PassImpossible(cs) : gate' = Gate(f)
  BY <1>4
<1>8. floor # {} => fired = NoGate /\ ~mode.full /\ n >= HardGates
  OBVIOUS
<1>9. floor = {} => gate' = IF gate = NoGate THEN fired ELSE gate
  BY <1>4 DEF OrElse
<1> HIDE DEF cs, fired, floor
<1>10. \A f \in PassImpossible(cs) : f \in Floors
  BY DEF PassImpossible, Floors
<1>11. GateInv'
  <2> SUFFICES \/ \E i \in 1..n : First(i)' /\ gate' = FiredGate(i)'
               \/ /\ \A i \in 1..n : ~Fired(i)'
                  /\ gate' = NoGate \/ (stage' = "file" /\ OtherGate')
    BY <1>3, <1>4 DEF GateInv
  <2>1. CASE gate # NoGate
    <3>1. PICK i \in DOMAIN checks : First(i) /\ gate = FiredGate(i)
      BY <1>2, <2>1 DEF Sound, GateInv
    <3>2. gate' = gate
      BY <1>2, <1>8, <1>9, <2>1
    <3>3. i \in 1..Len(checks) /\ i \in 1..n
      BY <1>2, <1>3
    <3> QED BY <3>1, <3>2, <3>3, <1>5
  <2>2. CASE gate = NoGate
    <3>1. \A i \in 1..Len(checks) : ~Fired(i)
      <4>1. \A i \in DOMAIN checks : FiredGate(i) # NoGate
        BY FiredGates
      <4> QED BY <1>2, <2>2, <4>1 DEF Sound, GateInv
    <3>2. \A i \in 1..n : i = n \/ i \in 1..Len(checks)
      BY <1>2
    <3>3. CASE fired # NoGate
      <4>1. gate' = FiredGate(n)'
        BY <3>3, <1>6, <1>8, <1>9, <2>2
      <4>2. First(n)'
        <5>1. n - 1 = Len(checks)
          BY <1>2
        <5> QED BY <5>1, <3>1, <3>3, <1>5, <1>6 DEF First
      <4> QED BY <4>1, <4>2, <1>3
    <3>4. CASE fired = NoGate
      <4>1. \A i \in 1..n : ~Fired(i)'
        BY <3>1, <3>2, <3>4, <1>5, <1>6
      <4>2. CASE floor = {}
        BY <4>1, <4>2, <3>4, <2>2, <1>9
      <4>3. CASE floor # {}
        <5>1. stage' = "file" /\ OtherGate'
          BY <4>3, <1>3, <1>4, <1>7, <1>8 DEF OtherGate
        <5> QED BY <4>1, <5>1
      <4> QED BY <4>2, <4>3
    <3> QED BY <3>3, <3>4
  <2> QED BY <2>1, <2>2
<1>12. fired \in AnyGate /\ gate' \in AnyGate
  <2>1. fired \in AnyGate
    BY <1>3, LaneAssumption DEF fired, AnyGate, GateKind, DeferReasons, Gate, AtCheck, NoGate
  <2>2. floor # {} => gate' \in AnyGate
    BY <1>7, <1>10, LaneAssumption DEF AnyGate, GateKind, Gate
  <2> QED BY <2>1, <2>2, <1>9 DEF Sound, VettingTypeOK
<1>13. floor # {} => gate' # NoGate
  BY <1>7, <1>10 DEF Gate, NoGate, Floors
<1>14. StageInv'
  <2>1. stage' \in {"file", "adversary", "check"}
    BY <1>4
  <2>2. stage' = "check" => n < Checks /\ (mode.full \/ (fired = NoGate /\ floor = {}))
    BY <1>3, <1>4, LaneAssumption
  <2>3. stage' = "adversary" => n = Checks
    BY <1>4
  <2>4. stage' = "file" => gate' # NoGate
    BY <1>2, <1>4, <1>8, <1>9, <1>13
  <2>5. stage' = "check" => Len(checks') < Checks /\ (mode'.full \/ gate' = NoGate)
    BY <1>2, <1>3, <1>4, <1>9, <2>2
  <2> QED BY <1>2, <1>3, <1>4, <2>1, <2>3, <2>4, <2>5 DEF StageInv
<1>15. RulingInv'
  BY <1>2, <1>4 DEF RulingInv
<1>16. VettingTypeOK'
  BY <1>2, <1>3, <1>4, <1>12, LaneAssumption DEF Sound, VettingTypeOK
<1> QED BY <1>11, <1>14, <1>15, <1>16 DEF Sound
\* When the clock runs out.
LEMMA LateSteps ==
  ASSUME Sound, OutOfTime
  PROVE  Sound'
<1>1. /\ stage = "check" /\ UNCHANGED <<mode, adv, score, ruling>>
      /\ checks \in Seq(Outcomes) /\ Len(checks) \in Nat /\ ruling = NoRuling
      /\ gate' = Gate("retrieval_unavailable") /\ late' = TRUE /\ stage' = "file"
      /\ checks' = [i \in 1..Checks |-> IF i <= Len(checks) THEN checks[i] ELSE Unheard(FALSE)]
  BY DEF OutOfTime, Sound, VettingTypeOK, RulingInv
<1>2. checks' \in Seq(Outcomes) /\ Len(checks') = Checks
  <2>1. \A i \in 1..Checks : i <= Len(checks) => checks[i] \in Outcomes
    BY <1>1, LaneAssumption
  <2>2. checks' \in [1..Checks -> Outcomes]
    BY <1>1, <2>1, OutcomesCite
  <2> QED BY <2>2, LaneAssumption
<1>3. gate' \in AnyGate /\ gate' # NoGate
  BY <1>1, LaneAssumption DEF Gate, NoGate, AnyGate, GateKind, DeferReasons
<1>4. VettingTypeOK'
  <2>1. Len(checks') <= Checks
    BY <1>2, LaneAssumption
  <2>2. late' \in BOOLEAN /\ mode' \in [full : BOOLEAN, adversary : BOOLEAN]
    BY <1>1 DEF Sound, VettingTypeOK
  <2> QED BY <1>1, <1>2, <1>3, <2>1, <2>2 DEF Sound, VettingTypeOK
<1>5. StageInv'
  BY <1>1, <1>3 DEF StageInv
<1>6. GateInv' /\ RulingInv'
  BY <1>1 DEF GateInv, RulingInv
<1> QED BY <1>4, <1>5, <1>6 DEF Sound

\* The gates are those of the checks, whatever comes after them.
LEMMA GatesStand ==
  ASSUME UNCHANGED checks
  PROVE  /\ (\A i \in DOMAIN checks : ~Fired(i)) => \A i \in DOMAIN checks' : ~Fired(i)'
         /\ (\E i \in DOMAIN checks : First(i) /\ gate = FiredGate(i)) /\ gate' = gate =>
              \E i \in DOMAIN checks' : First(i)' /\ gate' = FiredGate(i)'
  BY DEF Fired, First, FiredGate

\* A step of the adversarial pass fires a gate only where none has fired.
LEMMA AfterChecks ==
  ASSUME Sound, stage \in {"adversary", "score"}, stage' = "file", adv' \in Objection,
         UNCHANGED <<mode, checks, ruling, late>>, score' \in {"none", "failed", "low", "high"},
         IF gate = NoGate THEN gate' = NoGate \/ OtherGate' ELSE gate' = gate,
         gate' = NoGate => score' # "none" /\ Challenged'
  PROVE  Sound'
<1>1. /\ ~late /\ ruling = NoRuling /\ Len(checks) = Checks
  BY DEF Sound, StageInv, RulingInv
<1>2. GateInv'
  <2>1. CASE gate = NoGate
    <3>1. \A i \in DOMAIN checks : ~Fired(i)
      BY <1>1, <2>1, FiredGates DEF Sound, GateInv
    <3>2. \A i \in DOMAIN checks' : ~Fired(i)'
      BY <3>1, GatesStand
    <3> QED BY <2>1, <3>2 DEF GateInv
  <2>2. CASE gate # NoGate
    <3>1. \E i \in DOMAIN checks : First(i) /\ gate = FiredGate(i)
      BY <1>1, <2>2 DEF Sound, GateInv
    <3>2. \E i \in DOMAIN checks' : First(i)' /\ gate' = FiredGate(i)'
      BY <2>2, <3>1, GatesStand
    <3> QED BY <3>2 DEF GateInv
  <2> QED BY <2>1, <2>2
<1>3. gate' \in AnyGate
  <2>1. OtherGate' => gate' \in AnyGate
    <3>1. \A f \in Floors \cup DeferReasons \cup {"adversarial_decisive"} : Gate(f) \in AnyGate
      BY LaneAssumption DEF Gate, AnyGate, GateKind
    <3>2. PassImpossible(checks') \subseteq Floors
      BY DEF PassImpossible, Floors
    <3> QED BY <3>1, <3>2 DEF OtherGate, DeferReasons
  <2> QED BY <2>1 DEF Sound, VettingTypeOK
<1>4. VettingTypeOK'
  BY <1>3 DEF Sound, VettingTypeOK
<1>5. StageInv'
  BY <1>1 DEF StageInv
<1>6. RulingInv'
  BY <1>1 DEF RulingInv
<1> QED BY <1>2, <1>4, <1>5, <1>6 DEF Sound

LEMMA UnchallengedSteps ==
  ASSUME Sound, Unchallenged
  PROVE  Sound'
<1>1. adv' \in Objection
  BY DEF Unchallenged, Sound, VettingTypeOK, Objection, NoAdv
<1>2. PICK g \in {Gate("moat_exhausted"), Gate("adversarial_unrun")} : gate' = OrElse(g)
  BY DEF Unchallenged
<1>3. g # NoGate
  BY <1>2 DEF Gate, NoGate
<1>4. IF gate = NoGate THEN OtherGate' ELSE gate' = gate
  BY <1>2 DEF OrElse, OtherGate
<1> QED BY <1>1, <1>2, <1>3, <1>4, AfterChecks DEF Unchallenged, OrElse, Sound, VettingTypeOK

LEMMA ChallengeSteps ==
  ASSUME Sound, Challenge
  PROVE  Sound'
<1>1. /\ stage = "adversary" /\ UNCHANGED <<mode, checks, score, ruling, late>>
      /\ adv' \in Objection /\ ~adv'.failed
      /\ gate' = IF mode.adversary /\ adv'.decisive THEN OrElse(Gate("adversarial_decisive"))
                 ELSE gate
      /\ stage' = IF gate' = NoGate THEN "score" ELSE "file"
  BY DEF Challenge, Objection
<1>2. ~late /\ ruling = NoRuling /\ Len(checks) = Checks
  BY <1>1 DEF Sound, StageInv, RulingInv
<1>3. Gate("adversarial_decisive") # NoGate
  BY DEF Gate, NoGate
<1>4. CASE gate' = NoGate
  <2>1. gate = NoGate /\ Challenged'
    BY <1>1, <1>3, <1>4 DEF OrElse, Challenged
  <2>2. \A i \in DOMAIN checks' : ~Fired(i)'
    BY <1>1, <1>2, <2>1, FiredGates, GatesStand DEF Sound, GateInv
  <2>3. GateInv'
    BY <1>4, <2>2 DEF GateInv
  <2>4. StageInv' /\ RulingInv'
    BY <1>1, <1>2, <1>4, <2>1 DEF StageInv, RulingInv
  <2>5. VettingTypeOK'
    BY <1>1, <1>4, <2>1 DEF Sound, VettingTypeOK
  <2> QED BY <2>3, <2>4, <2>5 DEF Sound
<1>5. CASE gate' # NoGate
  <2>1. IF gate = NoGate THEN OtherGate' ELSE gate' = gate
    BY <1>1, <1>2, <1>5 DEF OrElse, OtherGate
  <2> QED BY <1>1, <1>5, <2>1, AfterChecks DEF Sound, VettingTypeOK
<1> QED BY <1>4, <1>5

LEMMA ScoreSteps ==
  ASSUME Sound, Score
  PROVE  Sound'
<1>1. gate = NoGate /\ Challenged
  BY DEF Score, Sound, StageInv
<1>2. Challenged'
  BY <1>1 DEF Score, Challenged
<1> QED BY <1>1, <1>2, AfterChecks DEF Score, Sound, VettingTypeOK

LEMMA FileSteps ==
  ASSUME Sound, File
  PROVE  Sound'
<1>1. /\ stage = "file" /\ stage' = "done" /\ ruling' = Filed
      /\ UNCHANGED <<mode, checks, gate, adv, score, late>>
  BY DEF File
<1>2. gate = NoGate => score \in {"failed", "low", "high"}
  BY <1>1 DEF Sound, StageInv, VettingTypeOK
<1>3. Filed \in Dossier
  <2>1. Decided.decision \in {"PASS", "KILL", "DEFER"} /\ Decided.gate \in AnyGate
    <3>1. NoGate \in AnyGate /\ \A f \in Floors : Gate(f) \in AnyGate
      BY LaneAssumption DEF NoGate, Gate, AnyGate, GateKind
    <3>2. gate \in AnyGate
      BY DEF Sound, VettingTypeOK
    <3> QED BY <1>2, <3>1, <3>2, Decisions DEF Floors
  <2>2. Provisional \in BOOLEAN
    BY DEF Provisional, Sound, VettingTypeOK, Objection
  <2> QED BY <2>1, <2>2 DEF Filed, Dossier
<1>4. VettingTypeOK'
  BY <1>1, <1>3 DEF Sound, VettingTypeOK
<1>5. StageInv'
  BY <1>1 DEF Sound, StageInv, Challenged
<1>6. GateInv'
  <2>1. OtherGate => OtherGate'
    BY <1>1 DEF OtherGate
  <2> QED BY <1>1, <2>1, GatesStand DEF Sound, GateInv
<1>7. RulingInv'
  BY <1>1, FiledStands DEF RulingInv
<1> QED BY <1>4, <1>5, <1>6, <1>7 DEF Sound

LEMMA OtherSteps ==
  ASSUME Sound, Collapse \/ UNCHANGED vettingVars
  PROVE  Sound'
<1>1. UNCHANGED <<mode, checks, gate, adv, score, ruling, late>>
  BY DEF Collapse, vettingVars
<1>2. VettingTypeOK'
  BY <1>1 DEF Sound, VettingTypeOK, Collapse, vettingVars
<1>3. OtherGate => OtherGate'
  BY <1>1 DEF OtherGate
<1>4. CASE Collapse
  <2>1. StageInv' /\ RulingInv'
    BY <1>1, <1>4 DEF Collapse, Sound, StageInv, RulingInv
  <2>2. GateInv'
    BY <1>1, <1>4, GatesStand DEF Collapse, Sound, GateInv
  <2> QED BY <1>2, <2>1, <2>2 DEF Sound
<1>5. CASE UNCHANGED vettingVars
  <2>1. stage' = stage
    BY <1>5 DEF vettingVars
  <2>2. StageInv' /\ RulingInv'
    BY <1>1, <2>1, FiledStands DEF Sound, StageInv, RulingInv, Challenged
  <2>3. GateInv'
    BY <1>1, <2>1, <1>3, GatesStand DEF Sound, GateInv
  <2> QED BY <1>2, <2>2, <2>3 DEF Sound
<1> QED BY <1>4, <1>5

(***************************************************************************)
(* The theorems                                                            *)
(***************************************************************************)
LEMMA VettingSteps == VettingInv /\ [VettingNext]_vettingVars => VettingInv'
<1> SUFFICES ASSUME Sound, [VettingNext]_vettingVars
             PROVE  VettingInv'
  BY DEF VettingInv, Sound
<1>1. Sound'
  BY CheckSteps, LateSteps, UnchallengedSteps, ChallengeSteps, ScoreSteps, FileSteps, OtherSteps
     DEF VettingNext
<1>2. EvidenceStands'
  BY <1>1, Stands, PTL DEF Sound
<1> QED BY <1>1, <1>2 DEF VettingInv, Sound

\* At every point of a vet the gate is that of the first check that fired, or of another cause
\* only if none did, and the stage says what the vet has been through: for any lane
\* (verify and vet_candidate).
THEOREM VettingInvariance == VettingSpec => []VettingInv
<1> QED BY VettingInitially, VettingSteps, PTL DEF VettingSpec
\* Of a vet that is filed: where it ended, and what it was decided from.
LEMMA Filing ==
  ASSUME VettingInv, ruling.decision # "none"
  PROVE  /\ stage = "done" /\ ruling = Filed
         /\ ruling.decision = Decided.decision /\ ruling.gate = Decided.gate
         /\ gate = NoGate => score \in {"failed", "low", "high"}
<1>1. stage = "done" /\ ruling = Filed
  BY DEF VettingInv, RulingInv, NoRuling
<1>2. gate = NoGate => score \in {"failed", "low", "high"}
  BY <1>1 DEF VettingInv, StageInv, VettingTypeOK
<1> QED BY <1>1, <1>2 DEF Filed

\* Where no gate fired, every check was heard and the adversarial pass as well.
LEMMA AllHeard ==
  ASSUME VettingInv, stage = "done", gate = NoGate
  PROVE  /\ \A i \in 1..Checks : Heard(i) /\ ~IsHardFail(i, checks[i])
         /\ Len(checks) = Checks /\ DOMAIN checks = 1..Checks
         /\ ~adv.failed /\ (mode.adversary => ~adv.decisive)
<1>1. Len(checks) = Checks /\ DOMAIN checks = 1..Checks /\ Challenged
  BY DEF VettingInv, StageInv, VettingTypeOK
<1>2. ~late
  BY DEF VettingInv, StageInv, Gate, NoGate
<1>3. \A i \in DOMAIN checks : ~Fired(i)
  BY <1>2, FiredGates DEF VettingInv, GateInv
<1>4. adv.decisive \in BOOLEAN
  BY DEF VettingInv, VettingTypeOK, Objection
<1> QED BY <1>1, <1>3, <1>4 DEF Fired, Heard, Challenged

LEMMA KillsAreEarned == VettingInv => KillEarned
<1> SUFFICES ASSUME VettingInv, ruling.decision = "KILL" PROVE KillEarned
  BY DEF KillEarned
<1>1. /\ stage = "done" /\ ruling.decision = Decided.decision /\ ruling.gate = Decided.gate
      /\ gate = NoGate => score \in {"failed", "low", "high"}
  BY Filing
<1>2. checks \in Seq(Outcomes) /\ Len(checks) \in Nat /\ Len(checks) <= Checks
      /\ DOMAIN checks = 1..Len(checks) /\ \A i \in DOMAIN checks : checks[i] \in Outcomes
  BY DEF VettingInv, VettingTypeOK
<1>3. CASE gate # NoGate /\ gate.kind \notin DeferReasons /\ ruling.gate = gate
  <2>1. ~late
    BY <1>3 DEF VettingInv, StageInv, Gate, DeferReasons
  <2>2. CASE \E i \in DOMAIN checks : First(i) /\ gate = FiredGate(i)
    <3>1. PICK i \in DOMAIN checks : First(i) /\ gate = FiredGate(i)
      BY <2>2
    <3>2. ~checks[i].failed /\ gate = AtCheck(i) /\ IsHardFail(i, checks[i])
      BY <1>3, <3>1 DEF FiredGate, Gate, DeferReasons, First, Fired
    <3>3. checks[i].verdict = "refuted" /\ checks[i].conf >= 3 /\ i <= HardGates
      BY <3>2 DEF IsHardFail, Decisive
    <3>4. checks[i].cites
      <4>1. checks[i].conf \in 0..3
        BY <1>2, OutcomesCite DEF CheckResult
      <4> QED BY <1>2, <3>3, <4>1, OutcomesCite
    <3>5. \A j \in 1..i : Heard(j)
      <4> SUFFICES ASSUME NEW j \in 1..i PROVE Heard(j)
        OBVIOUS
      <4>1. j \in DOMAIN checks /\ (j = i \/ j \in 1..(i - 1))
        BY <1>2
      <4> QED BY <3>1, <3>2, <4>1 DEF First, Fired, Heard
    <3>6. i \in 1..HardGates
      BY <1>2, <3>3, LaneAssumption
    <3> QED BY <1>3, <3>2, <3>3, <3>4, <3>5, <3>6 DEF KillEarned, OnRefutation
  <2>3. CASE ~\E i \in DOMAIN checks : First(i) /\ gate = FiredGate(i)
    <3>1. (\A i \in DOMAIN checks : Heard(i)) /\ OtherGate
      BY <1>3, <2>1, <2>3 DEF VettingInv, GateInv, Fired, Heard
    <3>2. gate \notin {Gate("moat_exhausted"), Gate("adversarial_unrun")}
      BY <1>3 DEF Gate, DeferReasons
    <3>3. CASE Len(checks) >= HardGates /\ \E f \in PassImpossible(checks) : gate = Gate(f)
      <4>1. PICK f \in PassImpossible(checks) : gate = Gate(f)
        BY <3>3
      <4>2. \A i \in 1..HardGates : Heard(i)
        <5>1. \A i \in 1..HardGates : i \in DOMAIN checks
          BY <1>2, <3>3, LaneAssumption
        <5> QED BY <3>1, <5>1
      <4>3. f = "source_or_die" => ~Supported(checks)
        <5>1. ASSUME f = "source_or_die"
              PROVE  Cardinality(Supports(checks)) + (Checks - Len(checks)) < MinSupported
          BY <5>1 DEF PassImpossible
        <5>2. Cardinality(Supports(checks)) \in Nat
          BY <1>2, SupportsCounted
        <5> QED BY <1>2, <5>1, <5>2, LaneAssumption DEF Supported
      <4>4. f \in {"source_or_die", "moat_ungrounded"}
            /\ (f = "moat_ungrounded" => ~MoatGrounded(checks))
        BY DEF PassImpossible
      <4> QED BY <1>3, <3>1, <4>1, <4>2, <4>3, <4>4 DEF KillEarned, OnFloor, Floors
    <3>4. CASE Len(checks) = Checks /\ gate = Gate("adversarial_decisive") /\ adv.decisive
               /\ ~adv.failed
      <4> QED BY <1>2, <1>3, <3>1, <3>4 DEF KillEarned, OnObjection
    <3> QED BY <3>1, <3>2, <3>3, <3>4 DEF OtherGate
  <2> QED BY <2>2, <2>3
<1>4. ASSUME gate = NoGate, NEW f \in Floors, ruling.gate = Gate(f),
             f = "min_composite" => score = "low",
             f = "source_or_die" => ~Supported(checks),
             f = "moat_ungrounded" => ~MoatGrounded(checks)
      PROVE  KillEarned
  <2>1. /\ \A i \in 1..Checks : Heard(i)
        /\ DOMAIN checks = 1..Checks /\ ~adv.failed
    BY <1>1, <1>4, AllHeard
  <2>2. \A i \in 1..HardGates : Heard(i)
    <3>1. \A i \in 1..HardGates : i \in 1..Checks
      BY LaneAssumption
    <3> QED BY <2>1, <3>1
  <2> QED BY <1>4, <2>1, <2>2 DEF KillEarned, OnFloor
<1> QED BY <1>1, <1>3, <1>4, Decisions DEF Floors

LEMMA PassesAreEarned == VettingInv => PassEarned
<1> SUFFICES ASSUME VettingInv PROVE PassEarned
  OBVIOUS
<1>1. checks \in Seq(Outcomes) /\ DOMAIN checks = 1..Len(checks)
      /\ \A i \in DOMAIN checks : checks[i] \in Outcomes
  BY DEF VettingInv, VettingTypeOK
<1>2. ASSUME ruling.decision = "PASS"
      PROVE  /\ gate = NoGate /\ stage = "done" /\ score = "high"
             /\ MoatGrounded(checks) /\ Supported(checks)
  BY <1>2, Filing, Decisions
<1>3. \A i \in Supports(checks) : checks[i].cites
  <2> SUFFICES ASSUME NEW i \in Supports(checks) PROVE checks[i].cites
    OBVIOUS
  <2>1. checks[i] \in Outcomes /\ checks[i].conf >= 2
    BY <1>1 DEF Supports, Grounded, Counted
  <2>2. checks[i].conf \in 0..3
    BY <2>1, OutcomesCite DEF CheckResult
  <2> QED BY <2>1, <2>2, OutcomesCite
<1>4. ASSUME ruling.published
      PROVE  ruling.decision = "PASS" /\ ~adv.tail /\ \A i \in DOMAIN checks : ~checks[i].tail
  <2>1. ruling = Filed
    BY <1>4 DEF VettingInv, RulingInv, NoRuling
  <2> QED BY <1>4, <2>1 DEF Filed, Provisional
<1> QED BY <1>2, <1>3, <1>4, AllHeard DEF PassEarned

\* Nothing is ruled on a failure of the engine's own: a KILL rests on evidence that was found, a
\* PASS on every check having been heard and on pages that were fetched, and only what trusted
\* brains have ruled is published (vet_candidate and build_dossier).
THEOREM RulingsAreEarned == VettingSpec => []RulingIsEarned
<1>1. VettingInv => RulingIsEarned
  BY KillsAreEarned, PassesAreEarned DEF RulingIsEarned
<1> QED BY <1>1, VettingInvariance, PTL

\* The first check that fired decides, whatever fails after it.
THEOREM FirstEvidenceStands == VettingSpec => []EvidenceStands
<1>1. VettingInv => EvidenceStands
  BY DEF VettingInv
<1> QED BY <1>1, VettingInvariance, PTL

(***************************************************************************)
(* The early stop                                                          *)
(***************************************************************************)
\* What is supported in the end was supported when the checks stopped, or is one of the rest.
LEMMA Continuation ==
  ASSUME NEW cs \in Seq(Outcomes), NEW n \in Nat, n = Len(cs), n <= Checks,
         NEW more, more = [i \in 1..Checks |-> IF i <= n THEN cs[i] ELSE more[i]]
  PROVE  /\ Supports(more) \subseteq Supports(cs) \cup ((n + 1)..Checks)
         /\ IsFiniteSet(Supports(more)) /\ Cardinality(Supports(more)) \in Nat
         /\ Cardinality(Supports(more)) <= Cardinality(Supports(cs)) + (Checks - n)
<1>1. Supports(more) \subseteq Supports(cs) \cup ((n + 1)..Checks)
  <2> SUFFICES ASSUME NEW i \in Supports(more), i <= n PROVE i \in Supports(cs)
    BY LaneAssumption DEF Supports
  <2>1. i \in 1..Checks /\ i \in DOMAIN cs /\ more[i] = cs[i]
    BY LaneAssumption DEF Supports
  <2> QED BY <2>1 DEF Supports
<1>2. IsFiniteSet(Supports(cs)) /\ Cardinality(Supports(cs)) \in Nat
  BY SupportsCounted
<1>3. IsFiniteSet((n + 1)..Checks) /\ Cardinality((n + 1)..Checks) = Checks - n
  <2>1. n + 1 \in Int /\ Checks \in Int
    BY LaneAssumption
  <2>2. IsFiniteSet((n + 1)..Checks)
        /\ Cardinality((n + 1)..Checks) = IF n + 1 > Checks THEN 0 ELSE Checks - (n + 1) + 1
    BY <2>1, FS_Interval
  <2> QED BY <2>2, LaneAssumption
<1>4. /\ IsFiniteSet(Supports(cs) \cup ((n + 1)..Checks))
      /\ Cardinality(Supports(cs) \cup ((n + 1)..Checks)) <=
           Cardinality(Supports(cs)) + (Checks - n)
  <2>1. IsFiniteSet(Supports(cs) \cap ((n + 1)..Checks))
    BY <1>2, FS_Intersection
  <2>2. Cardinality(Supports(cs) \cap ((n + 1)..Checks)) \in Nat
    BY <2>1, FS_CardinalityType
  <2>3. IsFiniteSet(Supports(cs) \cup ((n + 1)..Checks))
        /\ Cardinality(Supports(cs) \cup ((n + 1)..Checks)) =
             Cardinality(Supports(cs)) + Cardinality((n + 1)..Checks)
               - Cardinality(Supports(cs) \cap ((n + 1)..Checks))
    BY <1>2, <1>3, FS_Union
  <2> QED BY <1>2, <1>3, <2>2, <2>3, LaneAssumption
<1>5. IsFiniteSet(Supports(more)) /\ Cardinality(Supports(more)) \in Nat
      /\ Cardinality(Supports(more)) <= Cardinality(Supports(cs) \cup ((n + 1)..Checks))
  BY <1>1, <1>4, FS_Subset, FS_CardinalityType
<1>6. Cardinality(Supports(cs) \cup ((n + 1)..Checks)) \in Nat
  BY <1>4, FS_CardinalityType
<1> QED BY <1>1, <1>2, <1>4, <1>5, <1>6, LaneAssumption

LEMMA StopsAreSound == VettingInv => EarlyStopSound
<1> SUFFICES ASSUME VettingInv, ruling.decision = "KILL", ruling.gate.kind \in Floors,
                    Len(checks) < Checks,
                    NEW rest \in [(Len(checks) + 1)..Checks -> Outcomes],
                    NEW more,
                    more = [i \in 1..Checks |-> IF i <= Len(checks) THEN checks[i] ELSE rest[i]],
                    Supported(more), MoatGrounded(more)
             PROVE  FALSE
  BY DEF EarlyStopSound
<1>1. checks \in Seq(Outcomes) /\ Len(checks) \in Nat /\ Len(checks) <= Checks
  BY DEF VettingInv, VettingTypeOK
<1>2. gate # NoGate /\ gate = ruling.gate /\ ~late /\ stage = "done"
  <2>1. /\ stage = "done" /\ ruling.gate = Decided.gate /\ ruling.decision = Decided.decision
        /\ gate = NoGate => score \in {"failed", "low", "high"}
    BY Filing
  <2>2. gate # NoGate
    BY <1>1, <2>1, AllHeard, LaneAssumption
  <2>3. gate = ruling.gate
    BY <2>1, <2>2, Filing, Decisions
  <2>4. ~late
    BY <2>3 DEF VettingInv, StageInv, Gate, Floors
  <2> QED BY <2>1, <2>2, <2>3, <2>4
<1>3. PICK f \in PassImpossible(checks) : gate = Gate(f)
  <2>1. \A i : gate # FiredGate(i)
    BY <1>2 DEF FiredGate, Gate, AtCheck, Floors
  <2>2. OtherGate
    BY <1>2, <2>1 DEF VettingInv, GateInv
  <2> QED BY <1>2, <2>2 DEF OtherGate, Gate, Floors
<1>4. /\ Supports(more) \subseteq Supports(checks) \cup ((Len(checks) + 1)..Checks)
      /\ Cardinality(Supports(more)) \in Nat
      /\ Cardinality(Supports(more)) <= Cardinality(Supports(checks)) + (Checks - Len(checks))
  <2>1. more = [i \in 1..Checks |-> IF i <= Len(checks) THEN checks[i] ELSE more[i]]
    OBVIOUS
  <2> QED BY <1>1, <2>1, Continuation
<1>5. CASE Cardinality(Supports(checks)) + (Checks - Len(checks)) < MinSupported
  <2>1. Cardinality(Supports(checks)) \in Nat
    BY <1>1, SupportsCounted
  <2> QED BY <1>1, <1>4, <1>5, <2>1, LaneAssumption DEF Supported
<1>6. CASE ~MoatGrounded(checks) /\ Critical \subseteq 1..Len(checks)
  <2>1. PICK i \in Critical : i \in Supports(more)
    BY DEF MoatGrounded
  <2>2. i \in 1..Len(checks) /\ i \notin (Len(checks) + 1)..Checks
    BY <1>1, <1>6
  <2> QED BY <1>4, <1>6, <2>1, <2>2 DEF MoatGrounded
<1> QED BY <1>3, <1>5, <1>6 DEF PassImpossible

\* The early stop loses no PASS: whatever the checks it skipped had said, a floor was out of reach
\* (pass_impossible).
THEOREM EarlyStopsAreSound == VettingSpec => []EarlyStopSound
<1> QED BY StopsAreSound, VettingInvariance, PTL

-----------------------------------------------------------------------------
(***************************************************************************)
(* The batch.                                                              *)
(***************************************************************************)

(***************************************************************************)
(* The batch                                                               *)
(***************************************************************************)
\* The batch is finite, and so are the results that have been taken.
LEMMA TakenCounted ==
  ASSUME NEW S, S \subseteq Candidate
  PROVE  IsFiniteSet(S) /\ Cardinality(S) \in Nat /\ Cardinality(S) <= Batch
<1>1. IsFiniteSet(Candidate) /\ Cardinality(Candidate) = Batch
  BY PoolAssumption, FS_Interval DEF Candidate
<1> QED BY <1>1, PoolAssumption, FS_Subset, FS_CardinalityType

\* The invariant without the part that follows.
Accounted == PoolTypeOK /\ FutureInv /\ LoopInv /\ ResultInv /\ CancelInv /\ NothingDiscarded

LEMMA PoolInitially == PoolInit => Accounted
<1> SUFFICES ASSUME PoolInit PROVE Accounted
  OBVIOUS
<1>1. Cardinality(taken) = 0
  BY FS_EmptySet DEF PoolInit
<1>2. PoolTypeOK
  <2>1. {halt, spent, stopped} \subseteq BOOLEAN
    BY DEF PoolInit
  <2>2. cur \in Candidate /\ next \in 1..(Batch + 1) /\ streak \in 0..Batch /\ infra \in 0..Batch
    BY PoolAssumption DEF PoolInit, Candidate
  <2> QED BY <2>1, <2>2 DEF PoolInit, PoolTypeOK
<1>3. FutureInv /\ LoopInv /\ NothingDiscarded
  BY PoolAssumption
     DEF PoolInit, FutureInv, LoopInv, NothingDiscarded, Candidate, Returned, Cancelled,
     LoopEnded, Submitted, Complete, HasReturned, HasRaised
<1>4. ResultInv /\ CancelInv
  BY <1>1 DEF PoolInit, ResultInv, CancelInv, Cancelled, Returned, Looking
<1> QED BY <1>2, <1>3, <1>4 DEF Accounted

(***************************************************************************)
(* The threads of the pool                                                 *)
(***************************************************************************)
LEMMA PopSteps ==
  ASSUME Accounted, Pop
  PROVE  Accounted'
<1>1. PICK c \in Candidate :
        /\ fut[c] \in {"queued", "cancelled"}
        /\ fut' = [fut EXCEPT ![c] = IF fut[c] = "queued" THEN "running" ELSE "notified"]
  BY DEF Pop, Waiting
<1>2. UNCHANGED <<out, rows, railVars, listVars, next, phase>>
  BY DEF Pop
<1>3. PoolTypeOK'
  BY <1>1, <1>2 DEF Accounted, PoolTypeOK, railVars, listVars
<1>4. \A d \in Candidate :
        fut'[d] = IF d = c THEN IF fut[c] = "queued" THEN "running" ELSE "notified" ELSE fut[d]
  BY <1>1 DEF Accounted, PoolTypeOK
<1>5. Cancelled' = Cancelled /\ Submitted' = Submitted
  BY <1>1, <1>4 DEF Cancelled, Submitted
<1>6. FutureInv'
  BY <1>1, <1>2, <1>4, <1>5 DEF Accounted, PoolTypeOK, FutureInv, Complete, listVars, LoopEnded,
     Submitted
<1>7. LoopInv'
  BY <1>1, <1>2, <1>4 DEF Accounted, LoopInv, railVars, Candidate, HasReturned, HasRaised
<1>8. ResultInv'
  BY <1>2 DEF Accounted, ResultInv, railVars, listVars, Looking
<1>9. CancelInv' /\ NothingDiscarded'
  BY <1>2, <1>5 DEF Accounted, CancelInv, NothingDiscarded, railVars, listVars
<1> QED BY <1>3, <1>6, <1>7, <1>8, <1>9 DEF Accounted

LEMMA VetSteps ==
  ASSUME Accounted, NEW c \in Candidate, Vet(c)
  PROVE  Accounted'
<1>1. PICK o \in Returned \cup Raised :
        /\ fut[c] = "running" /\ fut' = [fut EXCEPT ![c] = "finished"]
        /\ out' = [out EXCEPT ![c] = o]
        /\ rows' = IF o \in Returned THEN rows \cup {c} ELSE rows
  BY DEF Vet
<1>2. UNCHANGED <<railVars, listVars, next, phase>>
  BY DEF Vet
<1>3. PoolTypeOK'
  BY <1>1, <1>2 DEF Accounted, PoolTypeOK, railVars, listVars
<1>4. \A d \in Candidate : /\ fut'[d] = IF d = c THEN "finished" ELSE fut[d]
                           /\ out'[d] = IF d = c THEN o ELSE out[d]
  BY <1>1 DEF Accounted, PoolTypeOK
<1>5. Cancelled' = Cancelled /\ Submitted' = Submitted
  BY <1>1, <1>4 DEF Cancelled, Submitted
<1>6. out[c] = "none" /\ c \notin taken /\ c \notin Cancelled
  BY <1>1 DEF Accounted, FutureInv, Complete, Cancelled
<1>7. FutureInv'
  <2>1. \A d \in Candidate : Complete(d) => Complete(d)'
    BY <1>4 DEF Complete
  <2>2. \A d \in Candidate : out'[d] = "none" <=> fut'[d] # "finished"
    BY <1>4 DEF Accounted, FutureInv, Returned, Raised
  <2> QED BY <1>2, <1>5, <2>1, <2>2
          DEF Accounted, FutureInv, LoopEnded, PoolTypeOK, Submitted, railVars, listVars
<1>8. LoopInv'
  BY <1>1, <1>2, <1>4 DEF Accounted, LoopInv, railVars, Candidate, HasReturned, HasRaised
<1>9. ResultInv'
  <2>1. kept' \subseteq {d \in Candidate : out'[d] \in Returned}
    BY <1>2, <1>4, <1>6 DEF Accounted, ResultInv, listVars, Returned
  <2>2. \A d \in taken' : out'[d] \in Returned => d \in kept' \/ (Looking' /\ d = cur')
    BY <1>2, <1>4, <1>6 DEF Accounted, ResultInv, PoolTypeOK, listVars, Looking
  <2> QED BY <1>2, <2>1, <2>2 DEF Accounted, ResultInv, railVars, listVars, Looking
<1>10. {d \in Candidate : out'[d] \in Returned} =
         {d \in Candidate : out[d] \in Returned} \cup (IF o \in Returned THEN {c} ELSE {})
  BY <1>4, <1>6 DEF Returned
<1>11. CancelInv'
  BY <1>1, <1>2, <1>5, <1>10 DEF Accounted, CancelInv, railVars, listVars
<1>12. NothingDiscarded'
  BY <1>1, <1>2, <1>4, <1>5, <1>6 DEF Accounted, NothingDiscarded, listVars
<1> QED BY <1>3, <1>7, <1>8, <1>9, <1>11, <1>12 DEF Accounted

LEMMA ClockSteps ==
  ASSUME Accounted, TimeIsSpent
  PROVE  Accounted'
<1>1. UNCHANGED <<futureVars, limit, streak, halt, stopped, already, infra, listVars, next, phase>>
      /\ spent' = TRUE
  BY DEF TimeIsSpent
<1>2. PoolTypeOK'
  BY <1>1 DEF Accounted, PoolTypeOK, futureVars, listVars
<1>3. FutureInv' /\ LoopInv' /\ ResultInv' /\ CancelInv' /\ NothingDiscarded'
  BY <1>1 DEF Accounted, FutureInv, LoopInv, ResultInv, CancelInv, NothingDiscarded, futureVars,
              listVars, Looking, Cancelled, Submitted, Complete, LoopEnded, HasReturned, HasRaised
<1> QED BY <1>2, <1>3 DEF Accounted

(***************************************************************************)
(* The main thread                                                         *)
(***************************************************************************)
LEMMA SubmitSteps ==
  ASSUME Accounted, Submit
  PROVE  Accounted'
<1>1. /\ phase = "submit" /\ UNCHANGED <<out, rows, railVars, listVars>>
      /\ next \in 1..Batch /\ fut[next] = "new" /\ ~stopped /\ ~halt
      /\ \A c \in next..Batch : fut[c] = "new"
  BY PoolAssumption DEF Submit, Accounted, PoolTypeOK, LoopInv
<1>2. \/ /\ fut' = [fut EXCEPT ![next] = "queued"]
         /\ \/ next = Batch /\ next' = 1 /\ phase' = "wait"
            \/ next # Batch /\ next' = next + 1 /\ phase' = phase
      \/ next' = 1 /\ phase' = "wait" /\ fut' = fut
  BY DEF Submit
<1>3. \A c \in Candidate : fut'[c] = fut[c] \/ (c = next /\ fut[c] = "new" /\ fut'[c] = "queued")
  BY <1>1, <1>2 DEF Accounted, PoolTypeOK, Candidate
<1>4. PoolTypeOK'
  BY <1>1, <1>2, PoolAssumption DEF Accounted, PoolTypeOK, railVars, listVars, Candidate
<1>5. Cancelled' = Cancelled
  BY <1>3 DEF Cancelled
<1>6. FutureInv'
  BY <1>1, <1>2, <1>3 DEF Accounted, PoolTypeOK, FutureInv, Complete, listVars, LoopEnded, Submitted
<1>7. LoopInv'
  <2>1. CASE phase' = "submit"
    <3>1. next' = next + 1 /\ next # Batch
      BY <1>1, <1>2, <2>1
    <3>2. \A c \in next'..Batch : fut'[c] = "new"
      BY <1>1, <1>3, <3>1 DEF Candidate
    <3>3. next' <= Batch
      BY <1>1, <3>1, PoolAssumption
    <3> QED BY <1>1, <2>1, <3>2, <3>3 DEF LoopInv, railVars
  <2>2. CASE phase' # "submit"
    BY <1>1, <1>2, <2>2 DEF LoopInv, railVars
  <2> QED BY <2>1, <2>2
<1>8. ResultInv' /\ CancelInv' /\ NothingDiscarded'
  <2>1. phase' \in {"submit", "wait"}
    BY <1>1, <1>2
  <2> QED BY <1>1, <1>5, <2>1 DEF Accounted, ResultInv, CancelInv, NothingDiscarded, railVars,
                                  listVars, Looking
<1> QED BY <1>4, <1>6, <1>7, <1>8 DEF Accounted

LEMMA TakeSteps ==
  ASSUME Accounted, Take
  PROVE  Accounted'
<1>1. PICK c \in Candidate \ taken :
        Complete(c) /\ taken' = taken \cup {c} /\ cur' = c
  BY DEF Take, Submitted
<1>2. /\ phase = "wait" /\ phase' = "clock"
      /\ UNCHANGED <<futureVars, railVars, kept, parked, dropped, unsaved, next>>
  BY DEF Take
<1>3. PoolTypeOK'
  BY <1>1, <1>2 DEF Accounted, PoolTypeOK, railVars, futureVars
<1>4. FutureInv' /\ LoopInv'
  BY <1>1, <1>2 DEF Accounted, FutureInv, LoopInv, Complete, railVars, futureVars, LoopEnded,
     Submitted, HasReturned, HasRaised
<1>5. ResultInv'
  <2>1. Cardinality(taken) \in Nat /\ Cardinality(taken') = Cardinality(taken) + 1
    BY <1>1, TakenCounted, FS_AddElement DEF Accounted, PoolTypeOK
  <2>2. ~Looking /\ Looking'
    BY <1>2 DEF Looking
  <2>3. streak \in 0..Batch /\ infra \in 0..Batch
    BY DEF Accounted, PoolTypeOK
  <2>4. streak <= Cardinality(taken) /\ infra <= Cardinality(taken)
    BY <2>1, <2>2 DEF Accounted, ResultInv
  <2>5. streak' <= Cardinality(taken') - 1 /\ infra' <= Cardinality(taken') - 1
    BY <1>2, <2>1, <2>3, <2>4, PoolAssumption DEF railVars
  <2> QED BY <1>1, <1>2, <2>2, <2>5 DEF Accounted, ResultInv, futureVars
<1>6. CancelInv' /\ NothingDiscarded'
  BY <1>2 DEF Accounted, CancelInv, NothingDiscarded, Cancelled, railVars, futureVars
<1> QED BY <1>3, <1>4, <1>5, <1>6 DEF Accounted

\* A step of the main thread that changes nothing but where it stands.
LEMMA Settles ==
  ASSUME Accounted, Finish \/ InTime \/ Escape \/ Halted \/ PassOver
  PROVE  Accounted'
<1>1. /\ phase \notin {"submit", "stop"} /\ phase' \notin {"submit", "stop", "halt"}
      /\ phase' \in {"wait", "result", "done", "raised"} /\ next' = 1
      /\ phase = "halt" => next > Batch /\ ~Looking
      /\ phase' \in {"done", "raised"} => \A c \in Submitted : Complete(c)
      /\ LoopEnded' => Submitted \subseteq taken
      /\ Looking' <=> phase' = "result"
      /\ phase' = "result" => Looking
      /\ phase' # "escape" /\ (phase' = "done" => ~halt)
      /\ phase' = "raised" => limit = 0 \/ halt
      /\ phase' # "result" /\ Looking => fut[cur] = "notified" \/ out[cur] = "error"
  BY DEF Accounted, LoopInv, FutureInv, LoopEnded, Finish, InTime, Escape, Halted, PassOver,
         Looking, railVars
<1>2. UNCHANGED <<fut, out, rows, limit, streak, halt, spent, stopped, already, infra,
                  kept, parked, taken, cur, dropped, unsaved>>
  BY DEF Finish, InTime, Escape, Halted, PassOver, futureVars, railVars, listVars
<1>3. PoolTypeOK'
  BY <1>1, <1>2, PoolAssumption DEF Accounted, PoolTypeOK
<1>4. FutureInv'
  BY <1>1, <1>2 DEF Accounted, FutureInv, Submitted, Complete
<1>5. LoopInv'
  <2>1. ASSUME NEW c \in Candidate, fut[c] = "queued", stopped \/ halt
        PROVE  FALSE
    <3>1. phase = "halt" /\ c >= next
      BY <1>1, <2>1 DEF Accounted, LoopInv
    <3> QED BY <1>1, <3>1, PoolAssumption DEF Candidate, Accounted, PoolTypeOK
  <2> QED BY <1>1, <1>2, <2>1 DEF Accounted, LoopInv, HasReturned, HasRaised
<1>6. ResultInv'
  <2>1. \A c \in taken : out[c] \in Returned => c \in kept \/ (phase' = "result" /\ c = cur)
    <3> SUFFICES ASSUME NEW c \in taken, out[c] \in Returned, c \notin kept
                 PROVE  phase' = "result" /\ c = cur
      OBVIOUS
    <3>1. Looking /\ c = cur
      BY DEF Accounted, ResultInv
    <3>2. out[c] # "error" /\ fut[c] # "notified"
      BY DEF Accounted, FutureInv, PoolTypeOK, Returned
    <3> QED BY <1>1, <3>1, <3>2
  <2>2. LET seen == Cardinality(taken) - (IF phase' = "result" THEN 1 ELSE 0)
        IN  streak <= seen /\ infra <= seen
    <3>1. Cardinality(taken) \in Nat /\ streak \in 0..Batch /\ infra \in 0..Batch
      BY TakenCounted DEF Accounted, PoolTypeOK
    <3>2. LET seen == Cardinality(taken) - (IF Looking THEN 1 ELSE 0)
          IN  streak <= seen /\ infra <= seen
      BY DEF Accounted, ResultInv
    <3> QED BY <1>1, <3>1, <3>2, PoolAssumption
  <2> QED BY <1>1, <1>2, <2>1, <2>2 DEF Accounted, ResultInv
<1>7. CancelInv' /\ NothingDiscarded'
  BY <1>1, <1>2 DEF Accounted, CancelInv, NothingDiscarded, Cancelled
<1> QED BY <1>3, <1>4, <1>5, <1>6, <1>7 DEF Accounted

LEMMA BudgetSteps ==
  ASSUME Accounted, BudgetStop
  PROVE  Accounted'
<1>1. /\ phase = "clock" /\ phase' = "stop" /\ ~stopped /\ stopped' = TRUE /\ already' = Cancelled
      /\ UNCHANGED <<fut, out, rows, limit, streak, halt, spent, infra, listVars, next>>
      /\ next = 1 /\ parked = {} /\ unsaved = {} /\ Cancelled \subseteq dropped
  BY DEF BudgetStop, futureVars, Accounted, LoopInv, CancelInv
<1>2. PoolTypeOK'
  BY <1>1 DEF Accounted, PoolTypeOK, listVars, Cancelled
<1>3. FutureInv' /\ ResultInv'
  BY <1>1 DEF Accounted, FutureInv, ResultInv, Looking, Complete, listVars, LoopEnded, Submitted
<1>4. LoopInv'
  BY <1>1 DEF Accounted, LoopInv, Candidate, HasReturned, HasRaised
<1>5. CancelInv' /\ NothingDiscarded'
  BY <1>1 DEF Accounted, CancelInv, NothingDiscarded, Cancelled, listVars
<1> QED BY <1>2, <1>3, <1>4, <1>5 DEF Accounted

LEMMA CancelSteps ==
  ASSUME Accounted, Cancel
  PROVE  Accounted'
<1>1. /\ phase \in {"stop", "halt"} /\ next \in Candidate /\ next' = next + 1
      /\ UNCHANGED <<out, rows, railVars, kept, parked, taken, cur, unsaved, phase>>
      /\ fut' = IF fut[next] = "queued" THEN [fut EXCEPT ![next] = "cancelled"] ELSE fut
      /\ dropped' = IF fut[next] = "queued" /\ phase = "halt" THEN dropped \cup {next} ELSE dropped
  BY PoolAssumption DEF Cancel, Accounted, PoolTypeOK, Candidate
<1>2. \A c \in Candidate :
        fut'[c] = IF c = next /\ fut[c] = "queued" THEN "cancelled" ELSE fut[c]
  BY <1>1 DEF Accounted, PoolTypeOK
<1>3. PoolTypeOK'
  BY <1>1, PoolAssumption DEF Accounted, PoolTypeOK, railVars, Candidate
<1>4. Cancelled' = Cancelled \cup (IF fut[next] = "queued" THEN {next} ELSE {})
  BY <1>1, <1>2 DEF Cancelled
<1>5. FutureInv'
  BY <1>1, <1>2 DEF Accounted, PoolTypeOK, FutureInv, Complete, LoopEnded, Submitted
<1>6. LoopInv'
  <2>1. ASSUME NEW c \in Candidate, fut'[c] = "queued", stopped \/ halt
        PROVE  c >= next'
    <3>1. c # next /\ fut[c] = "queued"
      BY <1>2, <2>1
    <3>2. c >= next
      BY <2>1, <3>1 DEF Accounted, LoopInv
    <3> QED BY <1>1, <3>1, <3>2, PoolAssumption DEF Candidate
  <2>2. (phase = "stop" => stopped) /\ (phase = "halt" => halt) /\ (limit = 0 => ~halt)
    BY DEF Accounted, LoopInv
  <2> QED BY <1>1, <2>1, <2>2 DEF LoopInv, railVars, HasReturned, HasRaised
<1>7. ResultInv'
  BY <1>1 DEF Accounted, ResultInv, Looking, railVars
<1>8. CancelInv'
  BY <1>1, <1>4 DEF Accounted, LoopInv, CancelInv, railVars
<1>9. NothingDiscarded'
  <2>1. fut[next] = "queued" => out[next] = "none"
    BY <1>1 DEF Accounted, FutureInv
  <2> QED BY <1>1, <1>4, <2>1 DEF Accounted, NothingDiscarded
<1> QED BY <1>3, <1>5, <1>6, <1>7, <1>8, <1>9 DEF Accounted

LEMMA ParkSteps ==
  ASSUME Accounted, Park
  PROVE  Accounted'
<1>1. PICK failed \in SUBSET Unstarted :
        /\ parked' = Unstarted \ failed /\ rows' = rows \cup parked' /\ unsaved' = failed
  BY DEF Park
<1>2. /\ phase = "stop" /\ next > Batch /\ next' = 1 /\ phase' = "result"
      /\ UNCHANGED <<fut, out, railVars, kept, taken, cur, dropped>>
      /\ parked = {} /\ unsaved = {}
  BY DEF Park, Accounted, CancelInv
<1>3. Unstarted \subseteq Cancelled /\ Cancelled \subseteq Candidate /\ Cancelled' = Cancelled
  BY <1>2 DEF Unstarted, Cancelled
<1>4. PoolTypeOK'
  BY <1>1, <1>2, <1>3, PoolAssumption DEF Accounted, PoolTypeOK, railVars
<1>5. FutureInv' /\ ResultInv'
  BY <1>2 DEF Accounted, FutureInv, ResultInv, Looking, Complete, railVars, LoopEnded, Submitted
<1>6. LoopInv'
  <2>1. \A c \in Candidate : fut[c] = "queued" => ~(stopped \/ halt)
    <3> SUFFICES ASSUME NEW c \in Candidate, fut[c] = "queued", stopped \/ halt PROVE FALSE
      OBVIOUS
    <3>1. c >= next
      BY DEF Accounted, LoopInv
    <3> QED BY <1>2, <3>1, PoolAssumption DEF Candidate, Accounted, PoolTypeOK
  <2> QED BY <1>2, <2>1 DEF Accounted, LoopInv, railVars, HasReturned, HasRaised
<1>7. CancelInv' /\ NothingDiscarded'
  <2>1. Cancelled \subseteq parked' \cup unsaved' \cup dropped'
    BY <1>1, <1>2 DEF Unstarted, Accounted, CancelInv, railVars
  <2>2. CancelInv'
    <3>1. rows' = {c \in Candidate : out'[c] \in Returned} \cup parked'
      BY <1>1, <1>2 DEF Accounted, CancelInv
    <3>2. stopped /\ stopped' /\ already' \subseteq dropped' /\ (dropped' # {} => halt')
      BY <1>2 DEF Accounted, LoopInv, CancelInv, railVars
    <3> QED BY <1>2, <1>3, <2>1, <3>1, <3>2 DEF CancelInv
  <2>3. \A c \in Cancelled : out[c] \notin Returned
    BY DEF Accounted, NothingDiscarded, Returned
  <2>4. NothingDiscarded'
    BY <1>1, <1>2, <1>3, <2>3 DEF Accounted, NothingDiscarded
  <2> QED BY <2>2, <2>4
<1> QED BY <1>4, <1>5, <1>6, <1>7 DEF Accounted

\* Looking at a result ends it, and may count it.
LEMMA Counting ==
  ASSUME Accounted, phase = "result", phase' \in {"wait", "escape", "halt"}, taken' = taken,
         streak' \in {0, streak, streak + 1}, infra' \in {0, infra, infra + 1}
  PROVE  /\ streak' \in 0..Batch /\ infra' \in 0..Batch
         /\ LET seen == Cardinality(taken') - (IF Looking' THEN 1 ELSE 0)
            IN  streak' <= seen /\ infra' <= seen
<1>1. Cardinality(taken) \in Nat /\ Cardinality(taken) <= Batch
  BY TakenCounted DEF Accounted, PoolTypeOK
<1>2. Looking /\ ~Looking'
  BY DEF Looking
<1>3. streak \in 0..Batch /\ infra \in 0..Batch
  BY DEF Accounted, PoolTypeOK
<1>4. streak <= Cardinality(taken) - 1 /\ infra <= Cardinality(taken) - 1
  BY <1>2 DEF Accounted, ResultInv
<1> QED BY <1>1, <1>2, <1>3, <1>4, PoolAssumption

LEMMA KeepSteps ==
  ASSUME Accounted, Keep
  PROVE  Accounted'
<1>1. /\ phase = "result" /\ phase' = "wait" /\ out[cur] \in Returned /\ kept' = kept \cup {cur}
      /\ streak' = 0 /\ infra' \in {0, infra + 1}
      /\ UNCHANGED <<fut, out, rows, limit, halt, spent, stopped, already, parked, taken, cur,
                     dropped, unsaved, next>>
  BY DEF Keep, futureVars
<1>2. streak' \in 0..Batch /\ infra' \in 0..Batch
      /\ LET seen == Cardinality(taken') - (IF Looking' THEN 1 ELSE 0)
         IN  streak' <= seen /\ infra' <= seen
  BY <1>1, Counting
<1>3. PoolTypeOK'
  BY <1>1, <1>2 DEF Accounted, PoolTypeOK
<1>4. FutureInv' /\ LoopInv'
  BY <1>1 DEF Accounted, FutureInv, LoopInv, Complete, LoopEnded, Submitted, HasReturned, HasRaised
<1>5. ResultInv'
  BY <1>1, <1>2 DEF Accounted, ResultInv, PoolTypeOK, Looking
<1>6. CancelInv' /\ NothingDiscarded'
  BY <1>1 DEF Accounted, CancelInv, NothingDiscarded, Cancelled
<1> QED BY <1>3, <1>4, <1>5, <1>6 DEF Accounted

LEMMA OutageSteps ==
  ASSUME Accounted, Outage
  PROVE  Accounted'
<1>1. /\ phase = "result" /\ phase' \in {"escape", "halt", "wait"} /\ out[cur] = "outage"
      /\ streak' = streak + 1 /\ infra' = infra + 1 /\ halt' \in BOOLEAN
      /\ UNCHANGED <<fut, out, rows, limit, spent, stopped, already, listVars, next>>
      /\ next = 1
  BY DEF Outage, futureVars, Accounted, LoopInv
<1>2. /\ (halt' => halt \/ phase' = "halt") /\ (halt => halt') /\ (phase' = "halt" => halt')
      /\ (phase' = "escape" => limit = 0) /\ (limit = 0 => ~halt')
  BY DEF Outage, Accounted, LoopInv
<1>3. streak' \in 0..Batch /\ infra' \in 0..Batch
      /\ LET seen == Cardinality(taken') - (IF Looking' THEN 1 ELSE 0)
         IN  streak' <= seen /\ infra' <= seen
  BY <1>1, Counting DEF listVars
<1>4. PoolTypeOK'
  BY <1>1, <1>3 DEF Accounted, PoolTypeOK, listVars
<1>5. FutureInv'
  BY <1>1 DEF Accounted, FutureInv, Complete, listVars, LoopEnded, Submitted
<1>6. LoopInv'
  BY <1>1, <1>2 DEF Accounted, LoopInv, Candidate, HasReturned, HasRaised
<1>7. ResultInv'
  BY <1>1, <1>3 DEF Accounted, ResultInv, listVars, Returned, Looking
<1>8. CancelInv' /\ NothingDiscarded'
  BY <1>1, <1>2 DEF Accounted, CancelInv, NothingDiscarded, Cancelled, listVars
<1> QED BY <1>4, <1>5, <1>6, <1>7, <1>8 DEF Accounted

LEMMA PoolSteps == Accounted /\ [PoolNext]_poolVars => Accounted'
<1> SUFFICES ASSUME Accounted, [PoolNext]_poolVars PROVE Accounted'
  OBVIOUS
<1>1. CASE UNCHANGED poolVars
  <2>1. UNCHANGED <<fut, out, rows, limit, streak, halt, spent, stopped, already, infra,
                    kept, parked, taken, cur, dropped, unsaved, next, phase>>
    BY <1>1 DEF poolVars, futureVars, railVars, listVars
  <2>2. PoolTypeOK' /\ FutureInv' /\ LoopInv'
    BY <2>1 DEF Accounted, PoolTypeOK, FutureInv, LoopInv, Submitted, Complete, LoopEnded,
       HasReturned, HasRaised
  <2>3. ResultInv' /\ CancelInv' /\ NothingDiscarded'
    BY <2>1 DEF Accounted, ResultInv, CancelInv, NothingDiscarded, Looking, Cancelled
  <2> QED BY <2>2, <2>3 DEF Accounted
<1>2. CASE PoolNext
  BY <1>2, PopSteps, VetSteps, ClockSteps, SubmitSteps, TakeSteps, Settles, BudgetSteps,
     CancelSteps, ParkSteps, KeepSteps, OutageSteps DEF PoolNext, Main
<1> QED BY <1>1, <1>2

\* When the loops of a stop are over no future is left in the queue.
LEMMA Stopped == Accounted => PoolInv
  BY DEF Accounted, LoopInv, NothingStarts, PoolInv

\* A stop ends at a batch in which no vet can start, and throws nothing away that had begun: for a
\* batch of any size, any number of workers and any limits (run_signal and its two cancelling
\* loops).
THEOREM StopsKeepTheirPromise == PoolSpec => []PoolInv
<1>1. PoolSpec => []Accounted
  BY PoolInitially, PoolSteps, PTL DEF PoolSpec
<1> QED BY <1>1, Stopped, PTL

\* A row stands for a result that was taken or parked, and a future that no worker is to come to
\* any more has an outcome, or was cancelled and is somewhere.
LEMMA EveryoneIsSomewhere == PoolInv => CandidatesAccounted
<1> SUFFICES ASSUME PoolInv PROVE CandidatesAccounted
  OBVIOUS
<1>1. LoopEnded => rows = kept \cup parked
  <2> SUFFICES ASSUME LoopEnded PROVE rows = kept \cup parked
    OBVIOUS
  <2>1. \A c \in Candidate : out[c] \in Returned => c \in taken
    BY DEF PoolInv, FutureInv, Submitted, Returned
  <2>2. \A c \in Candidate : out[c] \in Returned => c \in kept
    BY <2>1 DEF PoolInv, ResultInv, LoopEnded, Looking
  <2> QED BY <2>2 DEF PoolInv, ResultInv, CancelInv
<1>2. ASSUME phase \in {"done", "raised"}, NEW c \in Candidate \ rows
      PROVE  out[c] \in Raised \/ c \in unsaved \cup dropped \/ fut[c] = "new"
  <2>1. out[c] \notin Returned /\ c \notin parked
    BY DEF PoolInv, CancelInv
  <2>2. fut[c] = "new" \/ Complete(c)
    BY <1>2 DEF PoolInv, FutureInv, Submitted
  <2>3. CASE fut[c] = "finished"
    BY <2>1, <2>3 DEF PoolInv, PoolTypeOK, FutureInv
  <2>4. CASE fut[c] = "notified"
    BY <1>2, <2>1, <2>4 DEF PoolInv, CancelInv, Cancelled
  <2> QED BY <2>2, <2>3, <2>4 DEF Complete
<1>3. phase = "done" => dropped = {}
  BY DEF PoolInv, LoopInv, HasReturned, CancelInv
<1> QED BY <1>1, <1>2, <1>3 DEF CandidatesAccounted

\* When the batch is over, by its list or by the exception of an outage, every candidate is
\* somewhere, and the list holds what was written.
THEOREM NobodyIsLost == PoolSpec => []CandidatesAccounted
<1> QED BY EveryoneIsSomewhere, StopsKeepTheirPromise, PTL
-----------------------------------------------------------------------------
(***************************************************************************)
(* Why the batch ends                                                      *)
(***************************************************************************)
\* What is left can be counted.
Measured ==
  /\ Cardinality(Candidate \ taken) \in Nat /\ LoopLeft \in Nat
  /\ Cardinality(Unbegun) \in Nat /\ Cardinality(Incomplete) \in Nat
  /\ Left \in Nat

LEMMA LeftCounted == PoolTypeOK => Measured
<1> SUFFICES ASSUME PoolTypeOK PROVE Measured
  OBVIOUS
<1>1. /\ Cardinality(Candidate \ taken) \in Nat
      /\ Cardinality(Unbegun) \in Nat /\ Cardinality(Incomplete) \in Nat
  <2>1. Candidate \ taken \subseteq Candidate /\ Unbegun \subseteq Candidate
        /\ Incomplete \subseteq Candidate
    BY DEF Unbegun, Incomplete
  <2> QED BY <2>1, TakenCounted
<1>2. LoopLeft \in Nat
  BY PoolAssumption DEF PoolTypeOK, LoopLeft
<1>3. \A k \in Nat : (2 * Batch + 5) * k \in Nat
  BY PoolAssumption
<1> QED BY <1>1, <1>2, <1>3 DEF Left, Measured

\* A turn that takes no result leaves less to do if it shortens a loop or a set, and lengthens
\* none.
LEMMA ShorterTurn ==
  ASSUME PoolTypeOK, PoolTypeOK', taken' = taken, LoopLeft' <= LoopLeft,
         Cardinality(Unbegun') <= Cardinality(Unbegun),
         Cardinality(Incomplete') <= Cardinality(Incomplete), spent' = spent,
         \/ LoopLeft' < LoopLeft
         \/ Cardinality(Unbegun') < Cardinality(Unbegun)
         \/ Cardinality(Incomplete') < Cardinality(Incomplete)
  PROVE  Left' < Left
<1>1. PICK k \in Nat : k = (2 * Batch + 5) * Cardinality(Candidate \ taken)
  <2>1. Cardinality(Candidate \ taken) \in Nat
    BY LeftCounted DEF Measured
  <2> QED BY <2>1, PoolAssumption
<1>2. /\ LoopLeft \in Nat /\ Cardinality(Unbegun) \in Nat /\ Cardinality(Incomplete) \in Nat
  BY LeftCounted DEF Measured
<1>3. /\ LoopLeft' \in Nat /\ Cardinality(Unbegun') \in Nat /\ Cardinality(Incomplete') \in Nat
  <2>1. Measured'
    BY LeftCounted, PTL
  <2> QED BY <2>1 DEF Measured
<1>4. PICK t \in {0, 1} : t = IF spent THEN 0 ELSE 1
  OBVIOUS
<1>5. Left = k + LoopLeft + Cardinality(Unbegun) + Cardinality(Incomplete) + t
  BY <1>1, <1>4 DEF Left
<1>6. Left' = k + LoopLeft' + Cardinality(Unbegun') + Cardinality(Incomplete') + t
  BY <1>1, <1>4 DEF Left
<1> QED BY <1>2, <1>3, <1>5, <1>6

\* Whose future is left alone is where it was.
LEMMA SameFutures ==
  ASSUME UNCHANGED fut
  PROVE  Unbegun' = Unbegun /\ Incomplete' = Incomplete
  BY DEF Unbegun, Incomplete, Complete

\* A set of candidates that loses a member is smaller.
LEMMA Smaller ==
  ASSUME NEW S, S \subseteq Candidate, NEW c \in S
  PROVE  /\ Cardinality(S \ {c}) = Cardinality(S) - 1
         /\ Cardinality(S \ {c}) < Cardinality(S) /\ Cardinality(S \ {c}) <= Cardinality(S)
<1>1. IsFiniteSet(S) /\ Cardinality(S) \in Nat
  BY TakenCounted
<1>2. Cardinality(S \ {c}) = Cardinality(S) - 1
  BY <1>1, FS_RemoveElement
<1> QED BY <1>1, <1>2

LEMMA ThreadsAdvance ==
  ASSUME PoolTypeOK, PoolTypeOK', Pop \/ \E c \in Candidate : Vet(c)
  PROVE  Left' < Left
<1>1. /\ UNCHANGED <<taken, spent>> /\ LoopLeft' = LoopLeft
  BY DEF Pop, Vet, railVars, listVars, LoopLeft
<1>2. LoopLeft \in Nat /\ Cardinality(Unbegun) \in Nat /\ Cardinality(Incomplete) \in Nat
  BY LeftCounted DEF Measured
<1>3. ASSUME NEW c \in Candidate, NEW from, NEW to, fut[c] = from,
             fut' = [fut EXCEPT ![c] = to],
             <<from, to>> \in {<<"queued", "running">>, <<"cancelled", "notified">>,
                               <<"running", "finished">>}
      PROVE  Left' < Left
  <2>1. \A d \in Candidate : fut'[d] = IF d = c THEN to ELSE fut[d]
    BY <1>3 DEF PoolTypeOK
  <2>2. CASE from = "queued" /\ to = "running"
    <3>1. Unbegun' = Unbegun \ {c} /\ c \in Unbegun /\ Incomplete' = Incomplete
      BY <1>3, <2>1, <2>2 DEF Unbegun, Incomplete, Complete
    <3>2. Cardinality(Unbegun') < Cardinality(Unbegun)
          /\ Cardinality(Unbegun') <= Cardinality(Unbegun)
      BY <3>1, Smaller DEF Unbegun
    <3> QED BY <1>1, <1>2, <3>1, <3>2, ShorterTurn
  <2>3. CASE <<from, to>> # <<"queued", "running">>
    <3>1. Incomplete' = Incomplete \ {c} /\ c \in Incomplete /\ Unbegun' = Unbegun
      BY <1>3, <2>1, <2>3 DEF Unbegun, Incomplete, Complete
    <3>2. Cardinality(Incomplete') < Cardinality(Incomplete)
          /\ Cardinality(Incomplete') <= Cardinality(Incomplete)
      BY <3>1, Smaller DEF Incomplete
    <3> QED BY <1>1, <1>2, <3>1, <3>2, ShorterTurn
  <2> QED BY <1>3, <2>2, <2>3
<1>4. CASE Pop
  <2>1. PICK c \in Candidate :
          /\ fut[c] \in {"queued", "cancelled"}
          /\ fut' = [fut EXCEPT ![c] = IF fut[c] = "queued" THEN "running" ELSE "notified"]
    BY <1>4 DEF Pop, Waiting
  <2> QED BY <1>3, <2>1
<1>5. ASSUME NEW c \in Candidate, Vet(c) PROVE Left' < Left
  BY <1>3, <1>5 DEF Vet
<1> QED BY <1>4, <1>5

LEMMA ClockAdvances ==
  ASSUME PoolTypeOK, TimeIsSpent
  PROVE  Left' < Left
<1>1. /\ UNCHANGED <<fut, phase, next, taken>> /\ ~spent /\ spent'
  BY DEF TimeIsSpent, futureVars, listVars
<1>2. Unbegun' = Unbegun /\ Incomplete' = Incomplete /\ LoopLeft' = LoopLeft
  BY <1>1, SameFutures DEF LoopLeft
<1>3. PICK k \in Nat : k = (2 * Batch + 5) * Cardinality(Candidate \ taken)
  <2>1. Cardinality(Candidate \ taken) \in Nat
    BY LeftCounted DEF Measured
  <2> QED BY <2>1, PoolAssumption
<1>4. LoopLeft \in Nat /\ Cardinality(Unbegun) \in Nat /\ Cardinality(Incomplete) \in Nat
  BY LeftCounted DEF Measured
<1>5. Left = k + LoopLeft + Cardinality(Unbegun) + Cardinality(Incomplete) + 1
  BY <1>1, <1>3 DEF Left
<1>6. Left' = k + LoopLeft + Cardinality(Unbegun) + Cardinality(Incomplete) + 0
  BY <1>1, <1>2, <1>3 DEF Left
<1> QED BY <1>4, <1>5, <1>6

LEMMA TakeAdvances ==
  ASSUME Accounted, Take
  PROVE  Left' < Left
<1>1. PICK c \in Candidate \ taken : taken' = taken \cup {c}
  BY DEF Take, Submitted
<1>2. /\ UNCHANGED <<fut, spent>> /\ LoopLeft = 1 /\ LoopLeft' = 2 * Batch + 5
  BY DEF Take, futureVars, railVars, LoopLeft
<1>3. Unbegun' = Unbegun /\ Incomplete' = Incomplete
  BY <1>2, SameFutures
<1>4. PICK m \in Nat : m = Cardinality(Candidate \ taken')
  <2>1. Cardinality(Candidate \ taken') \in Nat
    BY TakenCounted
  <2> QED BY <2>1
<1>5. Cardinality(Candidate \ taken) = m + 1
  <2>1. Candidate \ taken' = (Candidate \ taken) \ {c}
    BY <1>1
  <2>2. Cardinality(Candidate \ taken) \in Nat
    BY TakenCounted
  <2> QED BY <1>1, <1>4, <2>1, <2>2, Smaller
<1>6. (2 * Batch + 5) * (m + 1) = (2 * Batch + 5) * m + (2 * Batch + 5)
      /\ (2 * Batch + 5) * m \in Nat
  BY PoolAssumption
<1>7. PICK k \in Nat : k = (2 * Batch + 5) * m
  BY <1>6
<1>8. PICK t \in {0, 1} : t = IF spent THEN 0 ELSE 1
  OBVIOUS
<1>9. Cardinality(Unbegun) \in Nat /\ Cardinality(Incomplete) \in Nat
  BY LeftCounted DEF Measured, Accounted
<1>10. Left = k + (2 * Batch + 5) + 1 + Cardinality(Unbegun) + Cardinality(Incomplete) + t
  BY <1>2, <1>5, <1>6, <1>7, <1>8 DEF Left
<1>11. Left' = k + (2 * Batch + 5) + Cardinality(Unbegun) + Cardinality(Incomplete) + t
  BY <1>2, <1>3, <1>4, <1>7, <1>8 DEF Left
<1> QED BY <1>9, <1>10, <1>11, PoolAssumption

LEMMA LoopsAdvance ==
  ASSUME Accounted, PoolTypeOK',
         Submit \/ Finish \/ InTime \/ BudgetStop \/ Cancel \/ Park \/ Halted \/ PassOver \/ Keep
           \/ Outage \/ Escape
  PROVE  Left' < Left
<1>1. UNCHANGED <<taken, spent>>
  BY DEF Submit, Finish, InTime, BudgetStop, Cancel, Park, Halted, PassOver, Keep, Outage, Escape,
         listVars, railVars
<1>2. LoopLeft' < LoopLeft
  <2>1. next \in 1..(Batch + 1) /\ (phase = "submit" => next <= Batch)
        /\ (phase \notin {"submit", "stop", "halt"} => next = 1)
    BY DEF Accounted, PoolTypeOK, LoopInv
  <2>2. CASE Submit
    BY <2>1, <2>2, PoolAssumption DEF Submit, LoopLeft
  <2>3. CASE Finish \/ InTime \/ BudgetStop \/ PassOver \/ Keep \/ Outage \/ Escape
    BY <2>1, <2>3, PoolAssumption
       DEF Finish, InTime, BudgetStop, PassOver, Keep, Outage, Escape, LoopLeft
  <2>4. CASE Cancel
    BY <2>1, <2>4, PoolAssumption DEF Cancel, LoopLeft
  <2>5. CASE Park \/ Halted
    BY <2>1, <2>5, PoolAssumption DEF Park, Halted, LoopLeft
  <2> QED BY <2>2, <2>3, <2>4, <2>5
<1>3. /\ LoopLeft' \in Nat /\ LoopLeft \in Nat
      /\ Cardinality(Unbegun) \in Nat /\ Cardinality(Incomplete) \in Nat
  <2>1. Measured
    BY LeftCounted DEF Accounted
  <2>2. Measured'
    BY LeftCounted, PTL
  <2> QED BY <2>1, <2>2 DEF Measured
<1>4. Cardinality(Unbegun') <= Cardinality(Unbegun) /\ Incomplete' = Incomplete
  <2>1. CASE UNCHANGED fut
    BY <1>3, <2>1, SameFutures
  <2>2. ASSUME NEW c \in Candidate, fut[c] = "new", fut' = [fut EXCEPT ![c] = "queued"]
        PROVE  Unbegun' = Unbegun /\ Incomplete' = Incomplete
    BY <2>2 DEF Accounted, PoolTypeOK, Unbegun, Incomplete, Complete
  <2>3. ASSUME NEW c \in Candidate, fut[c] = "queued", fut' = [fut EXCEPT ![c] = "cancelled"]
        PROVE  Unbegun' = Unbegun \ {c} /\ c \in Unbegun /\ Incomplete' = Incomplete
    BY <2>3 DEF Accounted, PoolTypeOK, Unbegun, Incomplete, Complete
  <2>4. CASE Submit
    <3>1. next \in Candidate /\ fut[next] = "new"
      BY <2>4, PoolAssumption DEF Submit, Accounted, PoolTypeOK, LoopInv, Candidate
    <3> QED BY <1>3, <2>1, <2>2, <2>4, <3>1 DEF Submit
  <2>5. CASE Cancel
    <3>1. next \in Candidate
      BY <2>5, PoolAssumption DEF Cancel, Accounted, PoolTypeOK, Candidate
    <3>2. CASE fut[next] = "queued"
      <4>1. Unbegun' = Unbegun \ {next} /\ next \in Unbegun /\ Incomplete' = Incomplete
        BY <2>3, <2>5, <3>1, <3>2 DEF Cancel
      <4> QED BY <1>3, <4>1, Smaller DEF Unbegun
    <3> QED BY <2>1, <2>5, <3>2 DEF Cancel
  <2> QED BY <2>1, <2>4, <2>5
       DEF Finish, InTime, BudgetStop, Park, Halted, PassOver, Keep, Outage, Escape, futureVars
<1> QED BY <1>1, <1>2, <1>3, <1>4, ShorterTurn DEF Accounted

\* Every step of a batch leaves less to do, so that it comes to an end after so many steps: for a
\* batch of any size, any number of workers and any limits, whichever rail stops it.
THEOREM BatchAdvances == PoolSpec => Advances
<1>1. Accounted /\ [PoolNext]_poolVars =>
        [{Left, Left'} \subseteq Nat /\ Left' < Left]_poolVars
  <2> SUFFICES ASSUME Accounted, PoolNext
               PROVE  {Left, Left'} \subseteq Nat /\ Left' < Left
    OBVIOUS
  <2>1. Accounted'
    BY PoolSteps
  <2>2. PoolTypeOK /\ PoolTypeOK'
    BY <2>1 DEF Accounted
  <2>3. Measured /\ Measured'
    BY <2>2, LeftCounted, PTL
  <2>4. Left' < Left
    BY <2>2, ThreadsAdvance, ClockAdvances, TakeAdvances, LoopsAdvance DEF PoolNext, Main
  <2> QED BY <2>3, <2>4 DEF Measured
<1>2. PoolSpec => []Accounted
  BY PoolInitially, PoolSteps, PTL DEF PoolSpec
<1> QED BY <1>1, <1>2, PTL DEF PoolSpec, Advances

\* Somebody can always take a step until the batch is over: the threads never wait for the main
\* thread, nor it for a future that nobody will come to.
LEMMA CanGoOn == PoolInv => NeverStuck
<1> SUFFICES ASSUME PoolInv, phase \notin {"done", "raised"},
                    ~(Idle /\ Waiting # {}), \A c \in Candidate : fut[c] # "running"
             PROVE  MainCanGoOn
  BY DEF NeverStuck, PoolInv, LoopInv
<1>1. Waiting = {}
  <2>1. {c \in Candidate : fut[c] = "running"} = {}
    OBVIOUS
  <2>2. Idle
    BY <2>1, FS_EmptySet, PoolAssumption DEF Idle
  <2> QED BY <2>2
<1>2. \A c \in Submitted : Complete(c)
  BY <1>1 DEF Waiting, Submitted, Complete, PoolInv, PoolTypeOK
<1>3. CASE phase = "result"
  <2>1. Complete(cur) /\ cur \in Candidate
    BY <1>3 DEF PoolInv, PoolTypeOK, ResultInv, FutureInv, Looking
  <2>2. fut[cur] = "finished" => out[cur] \in Returned \cup Raised
    BY <2>1 DEF PoolInv, PoolTypeOK, FutureInv
  <2> QED BY <1>3, <2>1, <2>2 DEF MainCanGoOn, Complete
<1>4. CASE phase = "wait"
  BY <1>2, <1>4 DEF MainCanGoOn
<1>5. CASE phase \in {"submit", "clock", "stop", "halt", "escape"}
  BY <1>2, <1>5 DEF MainCanGoOn
<1> QED BY <1>3, <1>4, <1>5 DEF PoolInv, PoolTypeOK

\* So no batch ever hangs: until it has returned its list or raised the exception of an outage, a
\* worker has a future to pick up, a vet is running, or the main thread's next step is open to it.
THEOREM BatchIsNeverStuck == PoolSpec => []NeverStuck
<1> QED BY CanGoOn, StopsKeepTheirPromise, PTL
=============================================================================
