-------------------------------- MODULE Health --------------------------------
(***************************************************************************)
(* The entry of one provider in provider_health.json (health.py), as the   *)
(* time that is left of its window and until its next probe, and what each *)
(* method of ProviderHealth writes once it has read it.                    *)
(***************************************************************************)
EXTENDS Naturals

CONSTANTS
  NoMark,      \* no entry
  Window,      \* the windows dead_for_s a failure may report, clamped
  Strikes,     \* _MAX_STRIKES
  Spacing,     \* Spacing[s]: _probe_spacing(s)
  Gap          \* _MAX_PROBE_GAP_S

Marks == [dead : Nat, probe : Nat, strikes : 1 .. Strikes]

ASSUME HealthAssumption ==
  /\ NoMark \notin Marks
  /\ Window \subseteq Nat \ {0}
  /\ Strikes \in Nat \ {0}
  /\ Spacing \in [1 .. Strikes -> Nat \ {0}]
  /\ \A s \in 1 .. Strikes : Spacing[s] >= Spacing[1]
  /\ Gap \in Nat \ {0}

\* dead_until(): the window has not run out.
Live(m) == m # NoMark /\ m.dead > 0

\* _claim_probe(): the entry is there and its probe is due.
Due(m) == m # NoMark /\ m.probe = 0

Claimed(m) == [m EXCEPT !.probe = Spacing[m.strikes]]

\* mark_exhausted(): a window over one that has not run out is one more strike.
Strike(m) == IF ~Live(m) THEN 1 ELSE IF m.strikes < Strikes THEN m.strikes + 1 ELSE Strikes

Smaller(a, b) == IF a < b THEN a ELSE b

Marked(m, window) ==
  [dead |-> window, probe |-> Smaller(Spacing[Strike(m)], Smaller(window, Gap)),
   strikes |-> Strike(m)]

Less(n) == IF n > 0 THEN n - 1 ELSE 0

Aged(m) == IF m = NoMark THEN m ELSE [m EXCEPT !.dead = Less(@), !.probe = Less(@)]
=============================================================================
