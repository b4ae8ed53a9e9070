----------------------------- MODULE PricingProofs -----------------------------
(***************************************************************************)
(* Theorems about the price of a pack, for any prices, any drain and any   *)
(* payments whose horizon the drain covers.                                *)
(***************************************************************************)
EXTENDS Pricing, TLAPS

\* The floor of a well-typed row is a GBP price.
LEMMA FloorType ==
  ASSUME NEW row \in PackRow,
         row.price["GBP"] \in Pence, row.min["GBP"] \in Pence
  PROVE  Floor(row, "GBP") \in Pence
  BY DEF Floor

\* What the GBP half makes of a row.
LEMMA PenceMoves ==
  ASSUME NEW row \in PackRow, NEW p \in Pence,
         row.price["GBP"] \in Pence, row.min["GBP"] \in Pence,
         row.price["USD"] \in Cents \cup {None}
  PROVE  LET new == MovePence(row, p)
             floor == Floor(row, "GBP")
         IN  /\ new \in PackRow
             /\ new.price["GBP"] = p
             /\ new.price["USD"] = row.price["USD"]
             /\ new.min["GBP"] = Lower(floor, p)
             /\ new.min["GBP"] \in Pence
             /\ new.drain = IF p > floor THEN Drain ELSE 0
  <1> DEFINE floor == Floor(row, "GBP")
             new == MovePence(row, p)
             min == [row.min EXCEPT !["GBP"] = Lower(floor, p)]
             price == [row.price EXCEPT !["GBP"] = p]
             drain == IF p > floor THEN Drain ELSE 0
  <1>1. floor \in Pence
    BY FloorType
  <1>2. Lower(floor, p) \in Pence
    BY <1>1 DEF Lower
  <1>3. min \in [Currency -> Amount \cup {None}] /\ price \in [Currency -> Amount \cup {None}]
    BY <1>2 DEF PackRow, Amount
  <1>4. drain \in 0 .. Drain
    BY PricingAssumption
  <1>5. new = [price |-> price, min |-> min, drain |-> drain]
    <2>1. new = [row EXCEPT !.min["GBP"] = Lower(floor, p),
                            !.drain = drain,
                            !.price["GBP"] = p]
      BY DEF MovePence
    <2> HIDE DEF floor, new, drain
    <2> QED
      BY <2>1 DEF PackRow
  <1>6. new \in PackRow
    BY <1>3, <1>4, <1>5 DEF PackRow
  <1>7. min["GBP"] = Lower(floor, p) /\ price["GBP"] = p /\ price["USD"] = row.price["USD"]
    BY DEF PackRow, Currency
  <1> QED
    BY <1>2, <1>5, <1>6, <1>7

\* What the USD half makes of it: the GBP columns stay, and a drain that
\* runs goes on.
LEMMA CentsMove ==
  ASSUME NEW row \in PackRow, NEW u \in Cents \cup {None},
         row.price["GBP"] \in Pence, row.min["GBP"] \in Pence,
         row.price["USD"] \in Cents \cup {None}
  PROVE  LET new == MoveCents(row, u)
         IN  /\ new \in PackRow
             /\ new.price["GBP"] = row.price["GBP"]
             /\ new.price["USD"] \in Cents \cup {None}
             /\ new.min["GBP"] = row.min["GBP"]
             /\ new.drain = row.drain \/ (row.drain = 0 /\ new.drain = Drain)
  <1>1. CASE u = None
    BY <1>1 DEF MoveCents
  <1>2. CASE u # None
    <2> DEFINE floor == IF row.price["USD"] = None THEN u ELSE Floor(row, "USD")
               min == [row.min EXCEPT !["USD"] = Lower(floor, u)]
               price == [row.price EXCEPT !["USD"] = u]
               drain == IF u > floor /\ row.drain = 0 THEN Drain ELSE row.drain
               new == MoveCents(row, u)
    <2>1. floor \in Amount \cup {None}
      BY <1>2 DEF Floor, PackRow, Amount, Currency
    <2>2. Lower(floor, u) \in Amount \cup {None}
      BY <1>2, <2>1 DEF Lower, Amount
    <2>3. /\ min \in [Currency -> Amount \cup {None}]
          /\ price \in [Currency -> Amount \cup {None}]
      BY <1>2, <2>2 DEF PackRow, Amount
    <2>4. drain \in 0 .. Drain
      BY PricingAssumption DEF PackRow
    <2>5. new = [price |-> price, min |-> min, drain |-> drain]
      BY <1>2 DEF MoveCents, PackRow
    <2>6. new \in PackRow
      BY <2>3, <2>4, <2>5 DEF PackRow
    <2>7. /\ min["GBP"] = row.min["GBP"]
          /\ price["GBP"] = row.price["GBP"]
          /\ price["USD"] = u
      BY DEF PackRow, Currency
    <2> HIDE DEF floor
    <2> QED
      BY <1>2, <2>5, <2>6, <2>7
  <1> QED
    BY <1>1, <1>2

\* Both halves, as far as the pounds are concerned.
LEMMA RowMoves ==
  ASSUME NEW row \in PackRow, NEW p \in Pence, NEW u \in Cents \cup {None},
         row.price["GBP"] \in Pence, row.min["GBP"] \in Pence,
         row.price["USD"] \in Cents \cup {None}
  PROVE  LET new == MoveCents(MovePence(row, p), u)
             floor == Floor(row, "GBP")
         IN  /\ new \in PackRow
             /\ new.price["GBP"] = p
             /\ new.price["USD"] \in Cents \cup {None}
             /\ new.min["GBP"] = Lower(floor, p)
             /\ new.min["GBP"] \in Pence
             /\ IF p > floor THEN new.drain = Drain ELSE new.drain \in {0, Drain}
  <1> DEFINE half == MovePence(row, p)
             new == MoveCents(half, u)
  <1>1. /\ half \in PackRow /\ half.price["GBP"] = p
        /\ half.price["USD"] \in Cents \cup {None}
        /\ half.min["GBP"] = Lower(Floor(row, "GBP"), p) /\ half.min["GBP"] \in Pence
        /\ half.drain = IF p > Floor(row, "GBP") THEN Drain ELSE 0
    BY PenceMoves
  <1> HIDE DEF half
  <1>2. /\ new \in PackRow
        /\ new.price["GBP"] = half.price["GBP"]
        /\ new.price["USD"] \in Cents \cup {None}
        /\ new.min["GBP"] = half.min["GBP"]
        /\ new.drain = half.drain \/ (half.drain = 0 /\ new.drain = Drain)
    BY <1>1, CentsMove
  <1> QED
    BY <1>1, <1>2, PricingAssumption DEF half

\* A patch that read the row as it still is saves exactly what it computed.
LEMMA SavedWhole ==
  ASSUME pack \in PackRow, NEW new \in PackRow
  PROVE  Saved(pack, new) = new
  BY DEF Saved, PackRow

-----------------------------------------------------------------------------
LEMMA InitInv == Init => PricingInv
  <1> SUFFICES ASSUME Init PROVE PricingInv
    OBVIOUS
  <1>1. PICK p \in Pence, u \in Cents \cup {None} :
          LET prices == [c \in Currency |-> IF c = "GBP" THEN p ELSE u]
          IN  pack = [price |-> prices, min |-> prices, drain |-> 0]
    BY DEF Init
  <1> DEFINE prices == [c \in Currency |-> IF c = "GBP" THEN p ELSE u]
  <1>2. /\ pack.price = prices /\ pack.min = prices /\ pack.drain = 0
        /\ pack = [price |-> prices, min |-> prices, drain |-> 0]
    BY <1>1
  <1>3. prices \in [Currency -> Amount \cup {None}]
    BY DEF Amount
  <1>4. prices["GBP"] = p /\ prices["USD"] = u
    BY DEF Currency
  <1>5. pack \in PackRow
    BY <1>2, <1>3, PricingAssumption DEF PackRow
  <1> HIDE DEF prices
  <1>6. live \in [Currency -> [Amount -> 0 .. Horizon]]
    BY PricingAssumption DEF Init
  <1>7. asked \in [Currency -> SUBSET (Amount \cup {None})] /\ pack.price["GBP"] \in asked["GBP"]
    BY <1>2, <1>3 DEF Init, Currency
  <1>8. TypeOK
    BY <1>2, <1>4, <1>5, <1>6, <1>7 DEF Init, TypeOK
  <1>9. Covered
    BY PricingAssumption DEF Init, Covered, Currency, Amount
  <1>10. Current /\ NoPoundRefused
    BY DEF Init, Current, NoPoundRefused
  <1>11. FloorWasAsked
    BY <1>2, <1>7 DEF FloorWasAsked, Floor
  <1>12. pack.min["GBP"] <= pack.price["GBP"]
    BY <1>2, <1>4, PricingAssumption
  <1> QED
    BY <1>8, <1>9, <1>10, <1>11, <1>12 DEF PricingInv

\* The floor is at most the price, and both are numbers.
LEMMA FloorBounds ==
  ASSUME PricingInv
  PROVE  /\ Floor(pack, "GBP") \in Pence
         /\ Floor(pack, "GBP") <= pack.price["GBP"]
         /\ pack.drain \in 0 .. Drain
  <1>1. /\ pack.price["GBP"] \in Pence /\ pack.min["GBP"] \in Pence
        /\ pack.min["GBP"] <= pack.price["GBP"] /\ pack.drain \in 0 .. Drain
    BY DEF PricingInv, TypeOK, PackRow
  <1>2. pack.price["GBP"] \in Nat /\ pack.min["GBP"] \in Nat
    BY <1>1, PricingAssumption
  <1> QED
    BY <1>1, <1>2 DEF Floor

\* A price patch keeps every payment that may still come in above the floor:
\* a rise keeps the floor, and a cut lowers it.
LEMMA RepriceInv ==
  ASSUME Sequential, PricingInv, NEW w \in Patcher, NEW p \in Pence,
         NEW u \in Cents \cup {None}, Reprice(w, p, u)
  PROVE  PricingInv'
  <1> DEFINE floor == Floor(pack, "GBP")
  <1>1. patch[w] = pack
    BY DEF PricingInv, Current, Reprice
  <1>2. /\ pack \in PackRow /\ pack.price["GBP"] \in Pence /\ pack.min["GBP"] \in Pence
        /\ pack.price["USD"] \in Cents \cup {None}
    BY DEF PricingInv, TypeOK
  <1>3. /\ MoveCents(MovePence(pack, p), u) \in PackRow
        /\ pack' = MoveCents(MovePence(pack, p), u)
    BY <1>1, <1>2, RowMoves, SavedWhole DEF Reprice
  <1>4. /\ pack' \in PackRow
        /\ pack'.price["GBP"] = p
        /\ pack'.price["USD"] \in Cents \cup {None}
        /\ pack'.min["GBP"] = Lower(floor, p)
        /\ pack'.min["GBP"] \in Pence
        /\ IF p > floor THEN pack'.drain = Drain ELSE pack'.drain \in {0, Drain}
    BY <1>2, <1>3, RowMoves
  <1>5. floor \in Pence /\ floor <= pack.price["GBP"] /\ pack.drain \in 0 .. Drain
    BY FloorBounds
  <1>6. /\ \A v \in Patcher : v = w
        /\ patch' = [patch EXCEPT ![w] = Idle]
    BY DEF Sequential, Reprice
  <1>7. asked' = [c \in Currency |-> (IF pack'.drain = 0 THEN {} ELSE asked[c]) \cup {pack'.price[c]}]
    BY DEF Reprice, Asked
  <1>8. TypeOK'
    <2>1. asked' \in [Currency -> SUBSET (Amount \cup {None})]
      BY <1>4, <1>7 DEF PricingInv, TypeOK, PackRow
    <2>2. patch' \in [Patcher -> PackRow \cup {Idle}]
      BY <1>6 DEF PricingInv, TypeOK
    <2> QED
      BY <1>4, <2>1, <2>2 DEF Reprice, PricingInv, TypeOK
  <1>9. Covered'
    <2> SUFFICES ASSUME NEW a \in Amount, live["GBP"][a] > 0
                 PROVE  /\ Floor(pack', "GBP") <= a
                        /\ live["GBP"][a] > pack'.drain => pack'.price["GBP"] <= a
      BY DEF Reprice, Covered
    <2>1. floor <= a /\ live["GBP"][a] \in 0 .. Horizon /\ a \in Nat
      BY PricingAssumption DEF PricingInv, Covered, TypeOK, Currency, Amount
    <2> HIDE DEF floor
    <2>2. CASE p > floor
      BY <1>4, <1>5, <2>1, <2>2, PricingAssumption DEF Floor, Lower
    <2>3. CASE ~(p > floor)
      BY <1>4, <1>5, <2>1, <2>3, PricingAssumption DEF Floor, Lower
    <2> QED
      BY <2>2, <2>3
  <1>10. Current'
    BY <1>6 DEF Current, PricingInv, TypeOK
  <1>11. NoPoundRefused'
    BY DEF Reprice, PricingInv, NoPoundRefused
  <1>12. FloorWasAsked'
    <2>1. floor \in asked["GBP"]
      BY DEF PricingInv, FloorWasAsked
    <2>2. asked'["GBP"] = (IF pack'.drain = 0 THEN {} ELSE asked["GBP"]) \cup {p}
      BY <1>4, <1>7 DEF Currency
    <2> HIDE DEF floor
    <2> QED
      BY <1>4, <2>1, <2>2, PricingAssumption DEF FloorWasAsked, Floor, Lower
  <1>13. pack'.min["GBP"] <= pack'.price["GBP"]
    <2> HIDE DEF floor
    <2> QED
      BY <1>4, <1>5, PricingAssumption DEF Lower
  <1> QED
    BY <1>8, <1>9, <1>10, <1>11, <1>12, <1>13 DEF PricingInv

\* A new checkout pays the price, and the price is above any floor.
LEMMA CheckoutInv ==
  ASSUME PricingInv, NEW c \in Currency, Checkout(c)
  PROVE  PricingInv'
  <1> DEFINE price == pack.price[c]
  <1>1. price \in Amount
    BY DEF PricingInv, TypeOK, PackRow, Checkout, Amount
  <1>2. live' \in [Currency -> [Amount -> 0 .. Horizon]]
    BY <1>1, PricingAssumption DEF PricingInv, TypeOK, Checkout
  <1>3. TypeOK'
    BY <1>2 DEF PricingInv, TypeOK, Checkout
  <1>4. Covered'
    <2> SUFFICES ASSUME NEW a \in Amount, live'["GBP"][a] > 0
                 PROVE  /\ Floor(pack, "GBP") <= a
                        /\ live'["GBP"][a] > pack.drain => pack.price["GBP"] <= a
      BY DEF Checkout, Covered
    <2>1. CASE live'["GBP"][a] = live["GBP"][a]
      BY <2>1 DEF PricingInv, Covered
    <2>2. CASE live'["GBP"][a] # live["GBP"][a]
      <3>1. c = "GBP" /\ a = pack.price["GBP"]
        BY <1>1, <2>2 DEF PricingInv, TypeOK, Checkout, Currency, Amount
      <3>2. pack.price["GBP"] \in Nat
        BY PricingAssumption DEF PricingInv, TypeOK
      <3> QED
        BY <3>1, <3>2, FloorBounds
    <2> QED
      BY <2>1, <2>2
  <1> QED
    BY <1>3, <1>4 DEF Checkout, PricingInv, Current, NoPoundRefused, FloorWasAsked

\* While time passes, the payments run out before the drain does.
LEMMA TickInv ==
  ASSUME PricingInv, Tick
  PROVE  PricingInv'
  <1>1. /\ pack \in PackRow
        /\ pack' = [pack EXCEPT !.drain = Less(@)]
    BY DEF PricingInv, TypeOK, Tick
  <1>2. \A row \in PackRow : [row EXCEPT !.drain = Less(@)] \in PackRow
    BY PricingAssumption DEF PackRow, Less
  <1>3. /\ pack' \in PackRow /\ pack'.price = pack.price /\ pack'.min = pack.min
        /\ pack'.drain = Less(pack.drain)
        /\ pack.drain \in 0 .. Drain
    BY <1>1, <1>2 DEF PackRow
  <1>4. TypeOK'
    <2>1. patch' \in [Patcher -> PackRow \cup {Idle}]
      <3> SUFFICES ASSUME NEW w \in Patcher
                   PROVE  patch'[w] \in PackRow \cup {Idle}
        BY DEF Tick
      <3>1. patch[w] \in PackRow \cup {Idle}
        BY DEF PricingInv, TypeOK
      <3> QED
        BY <1>2, <3>1 DEF Tick
    <2>2. live' \in [Currency -> [Amount -> 0 .. Horizon]]
      <3> SUFFICES ASSUME NEW c \in Currency, NEW a \in Amount
                   PROVE  Less(live[c][a]) \in 0 .. Horizon
        BY DEF Tick
      <3>1. live[c][a] \in 0 .. Horizon
        BY DEF PricingInv, TypeOK
      <3> QED
        BY <3>1, PricingAssumption DEF Less
    <2>3. asked' \in [Currency -> SUBSET (Amount \cup {None})]
      BY <1>3 DEF PricingInv, TypeOK, Tick, Asked, PackRow
    <2> QED
      BY <1>3, <2>1, <2>2, <2>3 DEF PricingInv, TypeOK, Tick
  <1>5. Covered'
    <2> SUFFICES ASSUME NEW a \in Amount, live'["GBP"][a] > 0
                 PROVE  /\ Floor(pack', "GBP") <= a
                        /\ live'["GBP"][a] > pack'.drain => pack'.price["GBP"] <= a
      BY DEF Covered
    <2>1. /\ live'["GBP"][a] = Less(live["GBP"][a]) /\ live["GBP"][a] \in 0 .. Horizon
          /\ a \in Nat
      BY PricingAssumption DEF Tick, PricingInv, TypeOK, Currency, Amount
    <2>2. /\ live["GBP"][a] > 0
          /\ Floor(pack, "GBP") <= a
          /\ live["GBP"][a] > pack.drain => pack.price["GBP"] <= a
      BY <2>1, PricingAssumption DEF Less, PricingInv, Covered
    <2>3. pack.price["GBP"] \in Nat /\ pack.min["GBP"] \in Nat /\ pack.min["GBP"] # None
      BY PricingAssumption DEF PricingInv, TypeOK
    <2> QED
      BY <1>3, <2>1, <2>2, <2>3, PricingAssumption DEF Less, Floor
  <1>6. Current'
    BY <1>1, PricingAssumption DEF PricingInv, Current, TypeOK, Tick
  <1>7. FloorWasAsked'
    <2>1. asked'["GBP"] = (IF pack'.drain = 0 THEN {} ELSE asked["GBP"]) \cup {pack.price["GBP"]}
      BY <1>3 DEF Tick, Asked, Currency
    <2> QED
      BY <1>3, <2>1, PricingAssumption DEF PricingInv, FloorWasAsked, Floor, Less
  <1>8. NoPoundRefused' /\ pack'.min["GBP"] <= pack'.price["GBP"]
    BY <1>3 DEF Tick, PricingInv, NoPoundRefused
  <1> QED
    BY <1>4, <1>5, <1>6, <1>7, <1>8 DEF PricingInv

\* The webhook of a full payment finds it covered.
LEMMA WebhookInv ==
  ASSUME PricingInv, NEW c \in Currency, NEW a \in Amount, Webhook(c, a)
  PROVE  PricingInv'
  <1>1. ASSUME c = "GBP"
        PROVE  refused' = refused
    <2>1. Floor(pack, "GBP") <= a
      BY <1>1 DEF Webhook, PricingInv, Covered
    <2>2. a \in Nat /\ Floor(pack, "GBP") \in Nat
      BY FloorBounds, PricingAssumption DEF Amount
    <2>3. ~(a < Floor(pack, "GBP"))
      BY <2>1, <2>2
    <2> QED
      BY <1>1, <2>3 DEF Webhook
  <1> QED
    BY <1>1 DEF Webhook, PricingInv, TypeOK, Covered, Current, NoPoundRefused, FloorWasAsked

LEMMA NextInv ==
  ASSUME Sequential, PricingInv, [Next]_vars
  PROVE  PricingInv'
  <1>1. ASSUME NEW w \in Patcher, FindPack(w)
        PROVE  PricingInv'
    BY <1>1 DEF FindPack, Sequential, PricingInv, TypeOK, Covered, Current,
                NoPoundRefused, FloorWasAsked
  <1>2. ASSUME NEW w \in Patcher, Reject(w)
        PROVE  PricingInv'
    BY <1>2 DEF Reject, PricingInv, TypeOK, Covered, Current, NoPoundRefused, FloorWasAsked
  <1>3. CASE UNCHANGED vars
    BY <1>3 DEF vars, PricingInv, TypeOK, Covered, Current, NoPoundRefused, FloorWasAsked
  <1> QED
    BY <1>1, <1>2, <1>3, RepriceInv, CheckoutInv, WebhookInv, TickInv DEF Next

\* With one price patch at a time, whatever the prices, the drain and the
\* currencies: what the proofs rest on holds in every state.
THEOREM Invariance ==
  ASSUME Sequential
  PROVE  Spec => []PricingInv
  <1>1. Init => PricingInv
    BY InitInv
  <1>2. PricingInv /\ [Next]_vars => PricingInv'
    BY NextInv
  <1> QED
    BY <1>1, <1>2, PTL DEF Spec

\* No buyer who pays in pounds what the checkout asked is refused.
THEOREM PoundsAreServed ==
  ASSUME Sequential
  PROVE  Spec => []NoPoundRefused
  <1>1. PricingInv => NoPoundRefused
    BY DEF PricingInv
  <1> QED
    BY <1>1, Invariance, PTL

\* The fence is never below every price the pack has carried in the drain.
THEOREM FenceIsReal ==
  ASSUME Sequential
  PROVE  Spec => []FloorWasAsked
  <1>1. PricingInv => FloorWasAsked
    BY DEF PricingInv
  <1> QED
    BY <1>1, Invariance, PTL
=============================================================================
