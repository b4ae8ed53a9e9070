------------------------------- MODULE Vetting -------------------------------
(***************************************************************************)
(* The vet of one candidate: the checks of its lane in their order, each a *)
(* search and the ruling of a brain over the pages found, with the stops   *)
(* that save the rest; then the adversarial pass, the score, and the       *)
(* decision that is filed and may be published.                            *)
(*                                                                         *)
(* What could go wrong is one step of several failing: a search that was   *)
(* down, a reply that could not be read, a clock that ran out.  A failure  *)
(* must end as DEFER, never as a ruling on the idea.                       *)
(***************************************************************************)
EXTENDS Integers, Sequences, FiniteSets

CONSTANTS
  Checks,        \* how many checks the lane runs: they are 1..Checks, in run order
  HardGates,     \* the first so many are hard gates
  Critical,      \* thresholds.moat_critical_checks
  MinSupported   \* thresholds.min_supported_to_pass

ASSUME LaneAssumption ==
  /\ Checks \in Nat \ {0} /\ HardGates \in 0..Checks
  /\ Critical \subseteq 1..Checks /\ Critical # {}
  /\ MinSupported \in Nat \ {0}

VARIABLES
  mode,    \* what the vet was asked: all checks whatever they say, a decisive adversary kills
  checks,  \* the results so far
  gate,    \* first_failing_gate, and the check it names
  adv,     \* the adversarial result
  score,   \* the score
  ruling,  \* the dossier: its decision, gate and provisional mark
  late,    \* ghost: the clock ran out before every check had run
  stage

vettingVars == <<mode, checks, gate, adv, score, ruling, late, stage>>

-----------------------------------------------------------------------------
(***************************************************************************)
(* One check.  A confidence is 0 without a citation, 1 below               *)
(* min_supported_confidence, 2 between that and confidence_floor, 3 above. *)
(***************************************************************************)
Counted == 2
Decisive == 3

Verdicts == {"supported", "refuted", "unverifiable"}

CheckResult ==
  [verdict : Verdicts, conf : 0..3, cites : BOOLEAN, failed : BOOLEAN, tail : BOOLEAN]

\* What a brain may answer: a verdict, whether any of its citations is a page that was fetched,
\* whether those pages may establish the check, a rationale or none; and who served it.
Reply ==
  [says : Verdicts, cites : BOOLEAN, conf : 1..3, fit : BOOLEAN, reasoned : BOOLEAN,
   tail : BOOLEAN]

\* No answer that can be used: every search failed, no brain was left, the call raised.
Unheard(tail) ==
  [verdict |-> "unverifiable", conf |-> 0, cites |-> FALSE, failed |-> TRUE, tail |-> tail]

\* The searches answered and no page was left to rule on.
Silent ==
  [verdict |-> "unverifiable", conf |-> 0, cites |-> FALSE, failed |-> FALSE, tail |-> FALSE]

Demoted(r) == r.says # "unverifiable" /\ r.cites /\ ~r.fit

\* A demotion writes a rationale of its own, so only other replies can lack one.
Ruled(r) ==
  LET kept == IF Demoted(r) \/ (r.says = "supported" /\ ~r.cites) THEN "unverifiable" ELSE r.says
  IN  IF r.reasoned \/ Demoted(r)
        THEN [verdict |-> kept, cites |-> r.cites, failed |-> FALSE, tail |-> r.tail,
              conf |-> IF kept = "unverifiable" \/ ~r.cites THEN 0 ELSE r.conf]
        ELSE Unheard(r.tail)

Outcomes == {Unheard(FALSE), Silent} \cup {Ruled(r) : r \in Reply}

-----------------------------------------------------------------------------
(***************************************************************************)
(* What the results amount to.                                             *)
(***************************************************************************)
Grounded(c) == c.verdict = "supported" /\ c.conf >= Counted

\* Mutant of IsHardFail: the confidence floor left out.
IsHardFailMut(i, c) == ~c.failed /\ i <= HardGates /\ c.verdict = "refuted"

IsHardFail(i, c) ==
  ~c.failed /\ i <= HardGates /\ c.verdict = "refuted" /\ c.conf >= Decisive

Supports(cs) == {i \in DOMAIN cs : Grounded(cs[i])}

Supported(cs) == Cardinality(Supports(cs)) >= MinSupported
MoatGrounded(cs) == Supports(cs) \cap Critical # {}

\* Mutant of PassImpossible: the checks still to run are not counted.
PassImpossibleMut(cs) ==
  IF Cardinality(Supports(cs)) < MinSupported THEN {"source_or_die"} ELSE {}

\* The floor no continuation of cs can clear, if there is one.
PassImpossible(cs) ==
  IF Cardinality(Supports(cs)) + (Checks - Len(cs)) < MinSupported THEN {"source_or_die"}
  ELSE IF ~MoatGrounded(cs) /\ Critical \subseteq 1..Len(cs) THEN {"moat_ungrounded"}
  ELSE {}

-----------------------------------------------------------------------------
Gate(kind) == [kind |-> kind, at |-> 0]
AtCheck(i) == [kind |-> "check", at |-> i]
NoGate == Gate("none")

Floors == {"source_or_die", "moat_ungrounded", "min_composite"}
DeferReasons == {"retrieval_unavailable", "moat_exhausted", "adversarial_unrun", "score_failed"}

\* Mutant of OrElse: the latest gate, not the first.
OrElseMut(g) == g

\* A gate that has fired stays: `first_failing_gate or ...`.
OrElse(g) == IF gate = NoGate THEN g ELSE gate

NoAdv == [failed |-> FALSE, decisive |-> FALSE, tail |-> FALSE, read |-> FALSE]
Objection == [decisive : BOOLEAN, tail : BOOLEAN, read : BOOLEAN, failed : BOOLEAN]
NoRuling == [decision |-> "none", gate |-> NoGate, provisional |-> FALSE, published |-> FALSE]

VettingInit ==
  /\ mode \in [full : BOOLEAN, adversary : BOOLEAN]
  /\ checks = <<>>
  /\ gate = NoGate
  /\ adv = NoAdv
  /\ score = "none"
  /\ ruling = NoRuling
  /\ late = FALSE
  /\ stage = "check"

\* After a check: the gate it fired ends the run, or a floor that is out of reach once no hard
\* gate is left to ask, unless the vet was asked for everything.
RunCheck ==
  /\ stage = "check"
  /\ \E c \in Outcomes :
       LET cs    == Append(checks, c)
           n     == Len(cs)
           fired == IF c.failed THEN Gate("retrieval_unavailable")
                    ELSE IF IsHardFail(n, c) THEN AtCheck(n) ELSE NoGate
           floor == IF fired = NoGate /\ ~mode.full /\ n >= HardGates
                         /\ \A i \in DOMAIN cs : ~cs[i].failed
                      THEN {Gate(f) : f \in PassImpossible(cs)} ELSE {}
           ends  == ~mode.full /\ (fired # NoGate \/ floor # {})
       IN  /\ checks' = cs
           /\ gate' = IF floor # {} THEN CHOOSE g \in floor : TRUE ELSE OrElse(fired)
           /\ stage' = IF ends THEN "file" ELSE IF n = Checks THEN "adversary" ELSE "check"
  /\ UNCHANGED <<mode, adv, score, ruling, late>>

\* The deadline is looked at before each check; the checks that are left count as failed.
OutOfTime ==
  /\ stage = "check"
  /\ checks' = [i \in 1..Checks |-> IF i <= Len(checks) THEN checks[i] ELSE Unheard(FALSE)]
  /\ gate' = Gate("retrieval_unavailable")
  /\ late' = TRUE
  /\ stage' = "file"
  /\ UNCHANGED <<mode, adv, score, ruling>>

\* No search provider is left: the vet raises, at a check or while pricing a survivor, and
\* nothing is filed.
Collapse ==
  /\ stage = "check" \/ (stage = "adversary" /\ gate = NoGate)
  /\ stage' = "raised"
  /\ UNCHANGED <<mode, checks, gate, adv, score, ruling, late>>

\* No brain is left, or the call raises.
Unchallenged ==
  /\ stage = "adversary"
  /\ \/ gate' = OrElse(Gate("moat_exhausted")) /\ UNCHANGED adv
     \/ gate' = OrElse(Gate("adversarial_unrun")) /\ adv' = [NoAdv EXCEPT !.failed = TRUE]
  /\ stage' = "file"
  /\ UNCHANGED <<mode, checks, score, ruling, late>>

\* A brick wall it names is decisive when a page that was fetched backs it.  A reply that is no
\* object counts as an empty one.
Challenge ==
  /\ stage = "adversary"
  /\ \E read, wall, cites, tail \in BOOLEAN :
       adv' = [decisive |-> read /\ wall /\ cites, tail |-> tail, read |-> read,
               failed |-> FALSE]
  /\ gate' = IF mode.adversary /\ adv'.decisive THEN OrElse(Gate("adversarial_decisive"))
             ELSE gate
  /\ stage' = IF gate' = NoGate THEN "score" ELSE "file"
  /\ UNCHANGED <<mode, checks, score, ruling, late>>

\* A reply without scores is a low score; only a call that raises has failed.
Score ==
  /\ stage = "score"
  /\ score' \in {"failed", "low", "high"}
  /\ stage' = "file"
  /\ UNCHANGED <<mode, checks, gate, adv, ruling, late>>

-----------------------------------------------------------------------------
(***************************************************************************)
(* build_dossier, then the two ways out of vet_candidate.                  *)
(***************************************************************************)
Final == IF gate = NoGate /\ score = "failed" THEN Gate("score_failed") ELSE gate

Decided ==
  CASE Final.kind \in DeferReasons -> [decision |-> "DEFER", gate |-> NoGate]
    [] Final # NoGate /\ Final.kind \notin DeferReasons -> [decision |-> "KILL", gate |-> Final]
    [] Final = NoGate /\ score = "low" -> [decision |-> "KILL", gate |-> Gate("min_composite")]
    [] Final = NoGate /\ score = "high" ->
         IF ~MoatGrounded(checks) THEN [decision |-> "KILL", gate |-> Gate("moat_ungrounded")]
         ELSE IF ~Supported(checks) THEN [decision |-> "KILL", gate |-> Gate("source_or_die")]
         ELSE [decision |-> "PASS", gate |-> NoGate]

\* Some ruling that fed the decision came from the emergency tail.
Provisional == (\E i \in DOMAIN checks : checks[i].tail) \/ adv.tail

Filed ==
  [decision |-> Decided.decision, gate |-> Decided.gate, provisional |-> Provisional,
   published |-> Decided.decision = "PASS" /\ ~Provisional]

File ==
  /\ stage = "file"
  /\ ruling' = Filed
  /\ stage' = "done"
  /\ UNCHANGED <<mode, checks, gate, adv, score, late>>

VettingNext == RunCheck \/ OutOfTime \/ Collapse \/ Unchallenged \/ Challenge \/ Score \/ File

VettingSpec == VettingInit /\ [][VettingNext]_vettingVars

-----------------------------------------------------------------------------
(***************************************************************************)
(* Properties.                                                             *)
(***************************************************************************)
GateKind == {"none", "check", "adversarial_decisive"} \cup Floors \cup DeferReasons

AnyGate == [kind : GateKind, at : 0..Checks]

Dossier ==
  [decision : {"none", "PASS", "KILL", "DEFER"}, gate : AnyGate,
   provisional : BOOLEAN, published : BOOLEAN]

VettingTypeOK ==
  /\ mode \in [full : BOOLEAN, adversary : BOOLEAN]
  /\ checks \in Seq(Outcomes) /\ Len(checks) <= Checks
  /\ gate \in AnyGate
  /\ adv \in Objection
  /\ score \in {"none", "failed", "low", "high"}
  /\ ruling \in Dossier
  /\ late \in BOOLEAN
  /\ stage \in {"check", "adversary", "score", "file", "done", "raised"}

Fired(i) == checks[i].failed \/ IsHardFail(i, checks[i])

First(i) == Fired(i) /\ \A j \in 1..(i - 1) : ~Fired(j)

FiredGate(i) == IF checks[i].failed THEN Gate("retrieval_unavailable") ELSE AtCheck(i)

\* The adversarial pass ran, and was heeded if it found a brick wall.
Challenged == ~adv.failed /\ ~(mode.adversary /\ adv.decisive)

\* How far a vet has come at each stage.  Whoever is filed without a gate has been through all
\* of them.
StageInv ==
  /\ stage = "check" => Len(checks) < Checks /\ (mode.full \/ gate = NoGate)
  /\ stage \in {"adversary", "score"} => Len(checks) = Checks
  /\ stage = "score" => gate = NoGate /\ Challenged
  /\ stage \in {"file", "done"} /\ gate = NoGate =>
       Len(checks) = Checks /\ score # "none" /\ Challenged
  /\ late => stage \in {"file", "done"} /\ gate = Gate("retrieval_unavailable")

\* What is left to fire a gate if no check has.
OtherGate ==
  \/ Len(checks) >= HardGates /\ \E f \in PassImpossible(checks) : gate = Gate(f)
  \/ Len(checks) = Checks /\ gate = Gate("adversarial_decisive") /\ adv.decisive /\ ~adv.failed
  \/ gate \in {Gate("moat_exhausted"), Gate("adversarial_unrun")}

\* The gate is that of the first check that fired; of another only if none did, and then the
\* checks are over.
GateInv ==
  ~late =>
    \/ \E i \in DOMAIN checks : First(i) /\ gate = FiredGate(i)
    \/ /\ \A i \in DOMAIN checks : ~Fired(i)
       /\ gate = NoGate \/ (stage \in {"file", "done"} /\ OtherGate)

RulingInv == ruling = IF stage = "done" THEN Filed ELSE NoRuling

\* The first check that fired decides, whatever fails after it: a refutation that was found is
\* filed as one although the adversarial pass or a later check could not run, and an outage
\* before it defers.  (A deadline files DEFER over either.)
EvidenceStands ==
  (stage = "done" /\ ~late) =>
    \A i \in DOMAIN checks :
      First(i) =>
        IF checks[i].failed THEN ruling.decision = "DEFER"
        ELSE ruling.decision = "KILL" /\ ruling.gate = AtCheck(i)

\* The inductive invariant: what the results, the gate and the stage say of each other.  That
\* evidence stands is a part of it.
VettingInv == VettingTypeOK /\ StageInv /\ GateInv /\ RulingInv /\ EvidenceStands

Heard(i) == i \in DOMAIN checks /\ ~checks[i].failed

\* A KILL rests on evidence: a refutation that cites a page and came before any failure; or an
\* adversarial pass that ran and cited one; or a floor, and then every hard gate was asked and
\* answered, no check failed, and whatever the floor is about was really measured.
OnRefutation ==
  \E i \in 1..HardGates :
    /\ ruling.gate = AtCheck(i)
    /\ checks[i].verdict = "refuted" /\ checks[i].cites
    /\ \A j \in 1..i : Heard(j)

OnObjection ==
  /\ ruling.gate = Gate("adversarial_decisive")
  /\ adv.decisive /\ ~adv.failed
  /\ \A i \in 1..Checks : Heard(i)

OnFloor ==
  \E f \in Floors :
    /\ ruling.gate = Gate(f)
    /\ \A i \in 1..HardGates : Heard(i)
    /\ \A i \in DOMAIN checks : Heard(i)
    /\ f = "min_composite" => score = "low" /\ ~adv.failed
    /\ f = "source_or_die" => ~Supported(checks)
    /\ f = "moat_ungrounded" => ~MoatGrounded(checks)

KillEarned == ruling.decision = "KILL" => OnRefutation \/ OnObjection \/ OnFloor

\* A PASS heard every check and the adversarial pass, none of them against it, and stands on
\* pages that were fetched; what is published came from trusted brains only.
PassEarned ==
  /\ ruling.decision = "PASS" =>
       /\ \A i \in 1..Checks : Heard(i) /\ ~IsHardFail(i, checks[i])
       /\ ~adv.failed /\ (mode.adversary => ~adv.decisive)
       /\ score = "high"
       /\ Supported(checks) /\ MoatGrounded(checks)
       /\ \A i \in Supports(checks) : checks[i].cites
  /\ ruling.published =>
       ruling.decision = "PASS" /\ ~adv.tail /\ \A i \in 1..Checks : ~checks[i].tail

\* Nothing is ruled on a failure of the engine's own.
RulingIsEarned == KillEarned /\ PassEarned

\* The early stop loses no PASS: had the checks it skipped been run, whatever they had said, the
\* candidate could not have passed.
EarlyStopSound ==
  (ruling.decision = "KILL" /\ ruling.gate.kind \in Floors /\ Len(checks) < Checks) =>
    \A rest \in [(Len(checks) + 1)..Checks -> Outcomes] :
      LET cs == [i \in 1..Checks |-> IF i <= Len(checks) THEN checks[i] ELSE rest[i]]
      IN  ~(Supported(cs) /\ MoatGrounded(cs))

-----------------------------------------------------------------------------
(***************************************************************************)
(* What the comments say and the code does not do; the README gives the    *)
(* configurations that show it.                                            *)
(***************************************************************************)
\* A PASS was challenged: the adversarial reply was read.
ChallengeRead == ruling.decision = "PASS" => adv.read

\* A DEFER is never provisional.
DeferIsPlain == ruling.decision = "DEFER" => ~ruling.provisional

\* A refutation stands although the clock ran out after it.
EvidenceOutlivesClock ==
  stage = "done" =>
    \A i \in DOMAIN checks :
      IsHardFail(i, checks[i]) /\ (\A j \in 1..(i - 1) : ~Fired(j)) => ruling.decision = "KILL"
=============================================================================
