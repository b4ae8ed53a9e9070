---------------------------- MODULE FailoverProofs ----------------------------
(***************************************************************************)
(* Theorems about the failover of one provider, for any number of threads  *)
(* and processes, any windows and spacings, and any number of kills.       *)
(***************************************************************************)
EXTENDS Failover, TLAPS

-----------------------------------------------------------------------------
(***************************************************************************)
(* The breaker and the marks                                               *)
(***************************************************************************)
\* What the breaker's methods return is a breaker, and none but allow() starts a
\* probe.
LEMMA BreakerSteps ==
  ASSUME NEW b \in Breakers, NEW hard \in BOOLEAN
  PROVE  /\ HalfOpened(b) \in Breakers
         /\ HalfOpened(b).probing => b.probing
         /\ Admitted(b) \in Breakers
         /\ Failed(b, hard) \in Breakers
         /\ ~Failed(b, hard).probing
         /\ Cooled(b) \in Breakers
         /\ Cooled(b).probing = b.probing
         /\ Closed \in Breakers
         /\ ~Closed.probing
  <1>1. HalfOpened(b) \in Breakers /\ (HalfOpened(b).probing => b.probing)
    BY DEF HalfOpened, Breakers
  <1>2. Admitted(b) \in Breakers
    <2>1. (b.probing \/ b.state = "half_open") \in BOOLEAN
      BY DEF Breakers
    <2> QED
      BY <2>1 DEF Admitted, Breakers
  <1>3. Counted(b) \in 0 .. Threshold
    BY BreakerAssumption DEF Counted, Breakers
  <1>4. Failed(b, hard) \in Breakers /\ ~Failed(b, hard).probing
    <2>1. Tripped(b, FALSE) \in Breakers /\ ~Tripped(b, FALSE).probing
      BY <1>3, BreakerAssumption DEF Tripped, Breakers
    <2>2. /\ [b EXCEPT !.failures = Counted(b), !.probing = FALSE] \in Breakers
          /\ ~[b EXCEPT !.failures = Counted(b), !.probing = FALSE].probing
      BY <1>3 DEF Breakers
    <2> QED
      BY <2>1, <2>2 DEF Failed
  <1>5. Cooled(b) \in Breakers /\ Cooled(b).probing = b.probing
    BY BreakerAssumption DEF Cooled, Breakers
  <1>6. Closed \in Breakers /\ ~Closed.probing
    BY BreakerAssumption DEF Closed, Breakers
  <1> QED
    BY <1>1, <1>2, <1>4, <1>5, <1>6

\* What is written to the health file is a mark; a claim's probe is a spacing away.
LEMMA MarkSteps ==
  /\ \A m \in Marks : Claimed(m) \in Marks /\ Claimed(m).probe >= Spacing[1]
  /\ \A m \in Marks \cup {NoMark}, window \in Window : Marked(m, window) \in Marks
  /\ \A m \in Marks : Aged(m) \in Marks /\ Aged(m).probe = Less(m.probe)
  /\ Aged(NoMark) = NoMark
  <1>1. ASSUME NEW m \in Marks
        PROVE  Claimed(m) \in Marks /\ Claimed(m).probe >= Spacing[1]
    BY HealthAssumption DEF Claimed, Marks
  <1>2. ASSUME NEW m \in Marks \cup {NoMark}, NEW window \in Window
        PROVE  Marked(m, window) \in Marks
    <2>1. Strike(m) \in 1 .. Strikes
      BY HealthAssumption DEF Strike, Live, Marks
    <2>2. Smaller(Spacing[Strike(m)], Smaller(window, Gap)) \in Nat
      BY <2>1, HealthAssumption DEF Smaller
    <2> QED
      BY <2>1, <2>2, HealthAssumption DEF Marked, Marks
  <1>3. ASSUME NEW m \in Marks
        PROVE  Aged(m) \in Marks /\ Aged(m).probe = Less(m.probe)
    <2>1. Less(m.dead) \in Nat /\ Less(m.probe) \in Nat
      BY DEF Less, Marks
    <2>2. m # NoMark
      BY HealthAssumption
    <2> QED
      BY <2>1, <2>2 DEF Aged, Marks
  <1> QED
    BY <1>1, <1>2, <1>3 DEF Aged

-----------------------------------------------------------------------------
(***************************************************************************)
(* Types                                                                   *)
(***************************************************************************)
LEMMA LoadsType == TypeOK => Loads \subseteq Marks \cup {NoMark}
  BY DEF TypeOK, Loads

LEMMA InitTypes == Init => TypeOK
  <1> SUFFICES ASSUME Init PROVE TypeOK
    OBVIOUS
  <1>1. Closed \in Breakers
    BY BreakerAssumption DEF Closed, Breakers
  <1>2. breaker \in [Process -> Breakers]
    BY <1>1 DEF Init
  <1>3. pc \in [Worker -> {"idle"}] /\ seen \in [Worker -> {NoMark}]
    BY DEF Init
  <1>4. events \in 0 .. MaxEvents
    BY FailoverAssumption DEF Init
  <1> QED
    BY <1>2, <1>3, <1>4 DEF Init, TypeOK

LEMMA StepTypes ==
  ASSUME TypeOK, NEW w \in Worker, Step(w) \/ Decline(w) \/ ReadOther(w),
         pc[w] = "save_claim" => Due(seen[w])
  PROVE  TypeOK'
  <1> DEFINE p == Own(w)
  <1>0. p \in Process /\ breaker[p] \in Breakers
    BY FailoverAssumption DEF Own, TypeOK
  <1> USE DEF TypeOK, Goto
  <1>1. CASE Ask(w)
    BY <1>1 DEF Ask
  <1>2. CASE Claim(w)
    BY <1>2, LoadsType DEF Claim
  <1>3. CASE SaveClaim(w)
    <2>1. seen[w] \in Marks
      BY <1>3 DEF SaveClaim, Due
    <2> QED
      BY <1>3, <2>1, MarkSteps, HealthAssumption DEF SaveClaim, Save
  <1>4. CASE Allow(w)
    <2> DEFINE b == HalfOpened(breaker[p])
    <2>1. b \in Breakers /\ Admitted(b) \in Breakers
      BY <1>0, BreakerSteps
    <2> QED
      BY <1>4, <1>0, <2>1 DEF Allow
  <1>5. CASE Answer(w)
    BY <1>5, <1>0, BreakerSteps DEF Answer
  <1>6. CASE Clear(w)
    BY <1>6 DEF Clear
  <1>7. CASE SaveClear(w)
    BY <1>7 DEF SaveClear, Save
  <1>8. CASE Miss(w)
    <2>1. HalfOpened(Failed(breaker[p], FALSE)) \in Breakers
      BY <1>0, BreakerSteps
    <2> QED
      BY <1>8, <1>0, <2>1 DEF Miss
  <1>9. CASE Exhaust(w)
    <2>1. Failed(breaker[p], TRUE) \in Breakers
      BY <1>0, BreakerSteps
    <2> QED
      BY <1>9, <1>0, <2>1 DEF Exhaust
  <1>10. CASE Mark(w)
    BY <1>10, LoadsType DEF Mark
  <1>11. CASE SaveMark(w)
    <2>1. HalfOpened(breaker[p]) \in Breakers
      BY <1>0, BreakerSteps
    <2>2. mark' \in Marks
      BY <1>11, MarkSteps DEF SaveMark, Save
    <2> QED
      BY <1>11, <1>0, <2>1, <2>2 DEF SaveMark, Save
  <1>12. CASE Decline(w)
    BY <1>12 DEF Decline
  <1>13. CASE ReadOther(w)
    BY <1>13, LoadsType, FailoverAssumption DEF ReadOther, Event
  <1>14. CASE SaveOther(w)
    BY <1>14 DEF SaveOther, Save
  <1> QED
    BY <1>1, <1>2, <1>3, <1>4, <1>5, <1>6, <1>7, <1>8, <1>9, <1>10, <1>11, <1>12,
       <1>13, <1>14 DEF Step

LEMMA CrashTypes ==
  ASSUME TypeOK, NEW p \in Process, Crash(p)
  PROVE  TypeOK'
  <1>1. Closed \in Breakers
    BY BreakerAssumption DEF Closed, Breakers
  <1>2. mark' \in Marks \cup {NoMark} /\ torn' \in BOOLEAN
    BY DEF TypeOK, Crash, Event
  <1>3. events' \in 0 .. MaxEvents
    BY FailoverAssumption DEF TypeOK, Crash, Event
  <1> QED
    BY <1>1, <1>2, <1>3 DEF TypeOK, Crash

LEMMA TickTypes ==
  ASSUME TypeOK, Tick
  PROVE  TypeOK'
  <1>1. breaker' \in [Process -> Breakers]
    BY BreakerSteps DEF TypeOK, Tick
  <1>2. mark' \in Marks \cup {NoMark}
    BY MarkSteps DEF TypeOK, Tick
  <1>3. spaced' \in Nat
    BY DEF TypeOK, Tick, Less
  <1> QED
    BY <1>1, <1>2, <1>3 DEF TypeOK, Tick

-----------------------------------------------------------------------------
(***************************************************************************)
(* Half-open breakers wait for calls that are under way                    *)
(***************************************************************************)
LEMMA StepProbe ==
  ASSUME TypeOK, ProbeAccounted, NEW w \in Worker, Step(w) \/ Decline(w) \/ ReadOther(w)
  PROVE  ProbeAccounted'
  <1> SUFFICES ASSUME NEW p \in Process \ Grounding, breaker'[p].probing
               PROVE  \E v \in Worker : Own(v) = p /\ pc'[v] = "call"
    BY DEF ProbeAccounted
  <1> USE DEF TypeOK, Goto
  <1>0. breaker[p] \in Breakers /\ breaker[Own(w)] \in Breakers
    BY FailoverAssumption DEF Own
  <1>1. CASE Own(w) # p
    <2>1. breaker'[p] = breaker[p]
      BY <1>1 DEF Step, Ask, Claim, SaveClaim, Allow, Answer, Clear, SaveClear, Miss, Exhaust,
                  Mark, SaveMark, Decline, ReadOther, SaveOther
    <2>2. PICK v \in Worker : Own(v) = p /\ pc[v] = "call"
      BY <2>1 DEF ProbeAccounted
    <2>3. pc'[v] = pc[v]
      BY <1>1, <2>2 DEF Step, Ask, Claim, SaveClaim, Allow, Answer, Clear, SaveClear, Miss,
                        Exhaust, Mark, SaveMark, Decline, ReadOther, SaveOther
    <2> QED
      BY <2>2, <2>3
  <1>2. CASE Own(w) = p /\ pc[w] = "call"
    <2>1. CASE Answer(w)
      BY <1>0, <1>2, <2>1, BreakerSteps DEF Answer
    <2>2. CASE Miss(w)
      <3>1. Failed(breaker[p], FALSE) \in Breakers /\ ~Failed(breaker[p], FALSE).probing
        BY <1>0, BreakerSteps
      <3>2. ~HalfOpened(Failed(breaker[p], FALSE)).probing
        BY <3>1, BreakerSteps
      <3> QED
        BY <1>2, <2>2, <3>2 DEF Miss
    <2>3. CASE Exhaust(w)
      <3>1. ~Failed(breaker[p], TRUE).probing
        BY <1>0, BreakerSteps
      <3> QED
        BY <1>2, <2>3, <3>1 DEF Exhaust
    <2> QED
      BY <1>2, <2>1, <2>2, <2>3
         DEF Step, Ask, Claim, SaveClaim, Allow, Clear, SaveClear, Mark, SaveMark, Decline,
             ReadOther, SaveOther
  <1>3. CASE Own(w) = p /\ pc[w] # "call"
    <2>1. CASE Allow(w) /\ Admits(HalfOpened(breaker[p]))
      BY <1>3, <2>1 DEF Allow
    <2>2. CASE ~(Allow(w) /\ Admits(HalfOpened(breaker[p])))
      <3>1. breaker'[p] = breaker[p] \/ breaker'[p] = HalfOpened(breaker[p])
        BY <1>3, <2>2 DEF Step, Ask, Claim, SaveClaim, Allow, Answer, Clear, SaveClear, Miss,
                          Exhaust, Mark, SaveMark, Decline, ReadOther, SaveOther
      <3>2. PICK v \in Worker : Own(v) = p /\ pc[v] = "call"
        BY <1>0, <3>1, BreakerSteps DEF ProbeAccounted
      <3>3. pc'[v] = pc[v]
        BY <1>3, <3>2 DEF Step, Ask, Claim, SaveClaim, Allow, Answer, Clear, SaveClear, Miss,
                          Exhaust, Mark, SaveMark, Decline, ReadOther, SaveOther
      <3> QED
        BY <3>2, <3>3
    <2> QED
      BY <2>1, <2>2
  <1> QED
    BY <1>1, <1>2, <1>3

LEMMA CrashProbe ==
  ASSUME TypeOK, ProbeAccounted, NEW q \in Process, Crash(q)
  PROVE  ProbeAccounted'
  <1> SUFFICES ASSUME NEW p \in Process \ Grounding, breaker'[p].probing
               PROVE  \E v \in Worker : Own(v) = p /\ pc'[v] = "call"
    BY DEF ProbeAccounted
  <1>1. p # q
    BY DEF TypeOK, Crash, Closed
  <1>2. breaker'[p] = breaker[p]
    BY <1>1 DEF TypeOK, Crash
  <1>3. PICK v \in Worker : Own(v) = p /\ pc[v] = "call"
    BY <1>2 DEF ProbeAccounted
  <1>4. pc'[v] = pc[v]
    BY <1>1, <1>3 DEF Crash
  <1> QED
    BY <1>3, <1>4

LEMMA TickProbe ==
  ASSUME TypeOK, ProbeAccounted, Tick
  PROVE  ProbeAccounted'
  BY BreakerSteps DEF TypeOK, ProbeAccounted, Tick

-----------------------------------------------------------------------------
(***************************************************************************)
(* Probe claims                                                            *)
(***************************************************************************)
LEMMA StepClaims ==
  ASSUME TypeOK, ClaimInv, NEW w \in Worker, Step(w) \/ Decline(w) \/ ReadOther(w)
  PROVE  ClaimInv'
  <1> USE DEF TypeOK, Goto, ClaimInv
  <1>1. CASE Claim(w)
    <2>1. UNCHANGED <<mark, spaced>>
      BY <1>1 DEF Claim
    <2>2. ASSUME pc'[w] = "save_claim"
          PROVE  /\ spaced = 0
                 /\ Due(seen'[w])
                 /\ \A v \in Worker : pc[v] # "save_claim"
      <3>1. PICK m \in Loads : Due(m) /\ seen' = [seen EXCEPT ![w] = m]
        BY <1>1, <2>2 DEF Claim
      <3>2. m = mark
        BY <3>1 DEF Loads, Due
      <3> QED
        BY <1>1, <3>1, <3>2 DEF Claim, Due, Marks
    <2>3. \A v \in Worker \ {w} : pc'[v] = pc[v] /\ seen'[v] = seen[v]
      BY <1>1 DEF Claim
    <2> QED
      BY <2>1, <2>2, <2>3
  <1>2. CASE SaveClaim(w)
    <2>1. \A v \in Worker : pc'[v] # "save_claim"
      BY <1>2 DEF SaveClaim
    <2>2. mark'.probe >= spaced'
      <3>1. seen[w] \in Marks
        BY <1>2 DEF SaveClaim, Due
      <3> QED
        BY <1>2, <3>1, MarkSteps DEF SaveClaim, Save
    <2> QED
      BY <2>1, <2>2
  <1>3. CASE SaveClear(w) \/ SaveMark(w) \/ SaveOther(w)
    <2>1. spaced' = 0
      BY <1>3 DEF SaveClear, SaveMark, SaveOther
    <2>2. \A v \in Worker : pc'[v] = "save_claim" => pc[v] = "save_claim" /\ seen'[v] = seen[v]
      BY <1>3 DEF SaveClear, SaveMark, SaveOther, Save
    <2>3. mark' # NoMark => mark'.probe >= 0
      <3>1. mark' = NoMark \/ mark' \in Marks
        <4>1. SaveClear(w) => mark' = NoMark
          BY DEF SaveClear, Save
        <4>2. SaveMark(w) => \E window \in Window : mark' = Marked(seen[w], window)
          BY DEF SaveMark, Save
        <4>3. seen[w] \in Marks \cup {NoMark}
          OBVIOUS
        <4>4. SaveOther(w) => mark' = seen[w]
          BY DEF SaveOther, Save
        <4> QED
          BY <1>3, <4>1, <4>2, <4>3, <4>4, MarkSteps
      <3> QED
        BY <3>1 DEF Marks
    <2> QED
      BY <2>1, <2>2, <2>3
  <1>4. CASE ~(Claim(w) \/ SaveClaim(w) \/ SaveClear(w) \/ SaveMark(w) \/ SaveOther(w))
    <2>1. UNCHANGED <<mark, spaced>>
      BY <1>4 DEF Step, Ask, Allow, Answer, Clear, Miss, Exhaust, Mark, Decline, ReadOther
    <2>2. \A v \in Worker : pc'[v] = "save_claim" => pc[v] = "save_claim" /\ seen'[v] = seen[v]
      BY <1>4 DEF Step, Ask, Allow, Answer, Clear, Miss, Exhaust, Mark, Decline, ReadOther
    <2> QED
      BY <2>1, <2>2
  <1> QED
    BY <1>1, <1>2, <1>3, <1>4

LEMMA CrashClaims ==
  ASSUME TypeOK, ClaimInv, NEW p \in Process, Crash(p)
  PROVE  ClaimInv'
  <1>1. UNCHANGED spaced /\ mark' \in {mark, NoMark}
    BY DEF Crash
  <1>2. \A v \in Worker : pc'[v] = "save_claim" => pc[v] = "save_claim" /\ seen'[v] = seen[v]
    BY DEF Crash
  <1> QED
    BY <1>1, <1>2 DEF ClaimInv

LEMMA TickClaims ==
  ASSUME TypeOK, ClaimInv, Tick
  PROVE  ClaimInv'
  <1>1. \A w \in Worker : pc'[w] # "save_claim"
    BY DEF Tick, Saving
  <1>2. ASSUME mark' # NoMark
        PROVE  mark'.probe >= spaced'
    <2>1. mark \in Marks /\ mark.probe >= spaced
      BY <1>2, MarkSteps DEF TypeOK, Tick, ClaimInv
    <2>2. mark'.probe = Less(mark.probe) /\ spaced' = Less(spaced)
      BY <2>1, MarkSteps DEF Tick
    <2> QED
      BY <2>1, <2>2 DEF TypeOK, Less, Marks
  <1> QED
    BY <1>1, <1>2 DEF ClaimInv

-----------------------------------------------------------------------------
LEMMA InitInv == Init => FailoverInv
  BY InitTypes DEF Init, FailoverInv, ProbeAccounted, ClaimInv, Closed

LEMMA NextInv == FailoverInv /\ [Next]_vars => FailoverInv'
  <1> SUFFICES ASSUME FailoverInv, [Next]_vars
               PROVE  FailoverInv'
    OBVIOUS
  <1> USE DEF FailoverInv
  <1>1. ASSUME NEW w \in Worker, Step(w) \/ Decline(w) \/ ReadOther(w)
        PROVE  FailoverInv'
    BY <1>1, StepTypes, StepProbe, StepClaims DEF ClaimInv
  <1>2. ASSUME NEW p \in Process, Crash(p)
        PROVE  FailoverInv'
    BY <1>2, CrashTypes, CrashProbe, CrashClaims
  <1>3. CASE Tick
    BY <1>3, TickTypes, TickProbe, TickClaims
  <1>4. CASE Toggle
    BY <1>4 DEF Toggle, TypeOK, ProbeAccounted, ClaimInv
  <1>5. CASE UNCHANGED vars
    BY <1>5 DEF vars, TypeOK, ProbeAccounted, ClaimInv
  <1> QED
    BY <1>1, <1>2, <1>3, <1>4, <1>5 DEF Next

\* Where every admitted call reports, a breaker never refuses everybody on account
\* of a probe that nobody is making (allow, record_failure); and of all processes
\* that find a probe due, one writes its claim at a time (_claim_probe).
THEOREM ProbesAreAccounted == Spec => []FailoverInv
  <1>1. Init => FailoverInv
    BY InitInv
  <1>2. FailoverInv /\ [Next]_vars => FailoverInv'
    BY NextInv
  <1> QED
    BY <1>1, <1>2, PTL DEF Spec

\* Between two probe claims with neither a failure nor a success recorded, a
\* spacing passes, whichever processes claim (_claim_probe).
THEOREM ClaimsAreSpaced == Spec => OneProbePerWindow
  <1>1. FailoverInv
        => \A w \in Worker : pc[w] = "save_claim" /\ pc'[w] = "allow" => spaced = 0
    BY DEF FailoverInv, ClaimInv
  <1> QED
    BY <1>1, ProbesAreAccounted, PTL DEF OneProbePerWindow
=============================================================================
