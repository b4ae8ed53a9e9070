-------------------------------- MODULE Breaker --------------------------------
(***************************************************************************)
(* The circuit breaker of one provider (breaker.py).  Every method holds   *)
(* the breaker's lock from its first statement to its last, so each is a   *)
(* function from the breaker before the call to the breaker after it.      *)
(***************************************************************************)
EXTENDS Naturals

CONSTANTS
  Threshold,   \* failure_threshold
  Cooldown     \* cooldown_s, in clock units

ASSUME BreakerAssumption == Threshold \in Nat \ {0} /\ Cooldown \in Nat \ {0}

\* The failure count stops at the threshold, the one number it is compared with;
\* cool is what is left of the cooldown.
Breakers == [state : {"closed", "open", "half_open"}, failures : 0 .. Threshold,
             cool : 0 .. Cooldown, probing : BOOLEAN]

Closed == [state |-> "closed", failures |-> 0, cool |-> 0, probing |-> FALSE]

\* Mutant of HalfOpened: an open breaker stays open.
HalfOpenedMut(b) == b

\* _maybe_half_open()
HalfOpened(b) ==
  IF b.state = "open" /\ b.cool = 0
  THEN [b EXCEPT !.state = "half_open", !.probing = FALSE] ELSE b

\* What allow() answers, and the breaker it leaves; b has been through HalfOpened.
Admits(b) == b.state = "closed" \/ (b.state = "half_open" /\ ~b.probing)

Admitted(b) == [b EXCEPT !.probing = @ \/ b.state = "half_open"]

\* The count after one more failure.
Counted(b) == IF b.failures < Threshold THEN b.failures + 1 ELSE Threshold

Trips(b, hard) == hard \/ b.state = "half_open" \/ Counted(b) >= Threshold

Tripped(b, probing) ==
  [state |-> "open", failures |-> Counted(b), cool |-> Cooldown, probing |-> probing]

\* Mutant of Failed: the probe is not taken back when a call fails.
FailedMut(b, hard) ==
  IF Trips(b, hard) THEN Tripped(b, b.probing) ELSE [b EXCEPT !.failures = Counted(b)]

\* record_failure()
Failed(b, hard) ==
  IF Trips(b, hard) THEN Tripped(b, FALSE)
  ELSE [b EXCEPT !.failures = Counted(b), !.probing = FALSE]

Cooled(b) == IF b.cool > 0 THEN [b EXCEPT !.cool = @ - 1] ELSE b
=============================================================================
