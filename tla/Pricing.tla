-------------------------------- MODULE Pricing --------------------------------
(***************************************************************************)
(* The price of one pack, the floor a payment must reach to be delivered,  *)
(* and the payments that are still on their way while both move            *)
(* (Pack.cs, PATCH /internal/catalog/{id}/price, CheckoutEndpoints.cs,     *)
(* FulfilmentService.UnderpaymentReason).                                  *)
(*                                                                         *)
(* Instants are kept as the time left until them: `drain` is               *)
(* MinBillableEffectiveAt - now, and 0 once that is past.  A price patch   *)
(* reads the row, asks the payment provider, and saves; what it saves is   *)
(* computed from the row it read.                                          *)
(***************************************************************************)
EXTENDS Naturals

CONSTANTS
  Pence,       \* the GBP prices
  Cents,       \* the USD prices
  None,        \* no USD price
  Patcher,     \* the price patches that may overlap
  Idle,        \* the state of a patch that is not being served
  Drain,       \* CheckoutSessionDrain, in clock units
  Horizon      \* how long after a checkout read the price its payment may
               \* still come in: request, session, payment and webhook

Currency == {"GBP", "USD"}
Amount == Pence \cup Cents

\* A Pack's four price columns and the clock of their drain.
PackRow ==
  [price : [Currency -> Amount \cup {None}],
   min   : [Currency -> Amount \cup {None}],
   drain : 0 .. Drain]

ASSUME PricingAssumption ==
  /\ Pence \subseteq Nat /\ Pence # {}
  /\ Cents \subseteq Nat
  /\ None \notin Nat
  /\ Idle \notin PackRow
  /\ Drain \in Nat
  /\ Horizon \in 1 .. Drain

VARIABLES
  pack,        \* the row in the database
  patch,       \* the row as each patch has read it, or Idle
  live,        \* for how long a payment of an amount may still come in
  refused,     \* currencies in which a full payment has been refused
  asked        \* the prices in force since the last drain ended

vars == <<pack, patch, live, refused, asked>>

Less(t) == IF t = 0 THEN 0 ELSE t - 1

\* EffectiveFloorPence() and EffectiveFloorMinorUnits()
Floor(row, c) ==
  IF row.drain = 0 \/ row.min[c] = None THEN row.price[c] ELSE row.min[c]

Lower(a, b) == IF a <= b THEN a ELSE b

\* A pack as it is published: the floor is the price and nothing drains.
Init ==
  /\ \E p \in Pence, u \in Cents \cup {None} :
       LET prices == [c \in Currency |-> IF c = "GBP" THEN p ELSE u]
       IN  pack = [price |-> prices, min |-> prices, drain |-> 0]
  /\ patch = [w \in Patcher |-> Idle]
  /\ live = [c \in Currency |-> [a \in Amount |-> 0]]
  /\ refused = {}
  /\ asked = [c \in Currency |-> {pack.price[c]}]

-----------------------------------------------------------------------------
(***************************************************************************)
(* PATCH /internal/catalog/{id}/price                                      *)
(***************************************************************************)
\* The pack is found; the provider is asked next.
FindPack(w) ==
  /\ patch[w] = Idle
  /\ patch' = [patch EXCEPT ![w] = pack]
  /\ UNCHANGED <<pack, live, refused, asked>>

\* The provider cannot bill the price, or the request is malformed.
Reject(w) ==
  /\ patch[w] # Idle
  /\ patch' = [patch EXCEPT ![w] = Idle]
  /\ UNCHANGED <<pack, live, refused, asked>>

\* Mutant of MovePence: the floor is taken from the price and not from the floor.
MovePenceMut(row, new) ==
  [row EXCEPT !.min["GBP"] = Lower(row.price["GBP"], new),
              !.drain = IF new > row.price["GBP"] THEN Drain ELSE 0,
              !.price["GBP"] = new]

\* Mutant of MovePence: a rise starts the drain and forgets to note the floor.
MovePenceNoFloor(row, new) ==
  [row EXCEPT !.drain = IF new > Floor(row, "GBP") THEN Drain ELSE 0,
              !.price["GBP"] = new]

\* The GBP half: the floor stays where it is for a rise and drains.
MovePence(row, new) ==
  LET floor == Floor(row, "GBP")
  IN  [row EXCEPT !.min["GBP"] = Lower(floor, new),
                  !.drain = IF new > floor THEN Drain ELSE 0,
                  !.price["GBP"] = new]

\* Mutant of MoveCents: a USD cut ends the drain of the GBP rise it comes with.
MoveCentsMut(row, new) ==
  IF new = None THEN row
  ELSE LET floor == IF row.price["USD"] = None THEN new ELSE Floor(row, "USD")
       IN  [row EXCEPT !.min["USD"] = Lower(floor, new),
                       !.drain = IF new > floor THEN Drain ELSE 0,
                       !.price["USD"] = new]

\* The USD half, which works on the drain clock the GBP half has just set.
MoveCents(row, new) ==
  IF new = None THEN row
  ELSE LET floor == IF row.price["USD"] = None THEN new ELSE Floor(row, "USD")
       IN  [row EXCEPT !.min["USD"] = Lower(floor, new),
                       !.drain = IF new > floor /\ @ = 0 THEN Drain ELSE @,
                       !.price["USD"] = new]

\* SaveChanges() writes the columns that differ from what was read.  The
\* instant of the drain is always a new one.
Saved(read, written) ==
  [price |-> [c \in Currency |-> IF written.price[c] = read.price[c]
                                 THEN pack.price[c] ELSE written.price[c]],
   min   |-> [c \in Currency |-> IF written.min[c] = read.min[c]
                                 THEN pack.min[c] ELSE written.min[c]],
   drain |-> written.drain]

\* The prices in force since the last drain ended, once the row is `row`.
Asked(row, before) ==
  [c \in Currency |->
     (IF row.drain = 0 THEN {} ELSE before[c]) \cup {row.price[c]}]

Reprice(w, p, u) ==
  /\ patch[w] # Idle
  /\ pack' = Saved(patch[w], MoveCents(MovePence(patch[w], p), u))
  /\ patch' = [patch EXCEPT ![w] = Idle]
  /\ asked' = Asked(pack', asked)
  /\ UNCHANGED <<live, refused>>

-----------------------------------------------------------------------------
(***************************************************************************)
(* The buyers                                                              *)
(***************************************************************************)
\* A checkout reads the row; its payment may come in from now on.
Checkout(c) ==
  /\ pack.price[c] # None
  /\ live' = [live EXCEPT ![c][pack.price[c]] = Horizon]
  /\ UNCHANGED <<pack, patch, refused, asked>>

\* The webhook of such a payment is compared with the floor of this moment.
Webhook(c, a) ==
  /\ live[c][a] > 0
  /\ refused' = IF a < Floor(pack, c) THEN refused \cup {c} ELSE refused
  /\ UNCHANGED <<pack, patch, live, asked>>

Tick ==
  /\ pack' = [pack EXCEPT !.drain = Less(@)]
  /\ patch' = [w \in Patcher |->
                 IF patch[w] = Idle THEN Idle
                 ELSE [patch[w] EXCEPT !.drain = Less(@)]]
  /\ live' = [c \in Currency |-> [a \in Amount |-> Less(live[c][a])]]
  /\ asked' = Asked(pack', asked)
  /\ UNCHANGED refused

Next ==
  \/ \E w \in Patcher :
       \/ FindPack(w)
       \/ Reject(w)
       \/ \E p \in Pence, u \in Cents \cup {None} : Reprice(w, p, u)
  \/ \E c \in Currency : Checkout(c)
  \/ \E c \in Currency, a \in Amount : Webhook(c, a)
  \/ Tick

Spec == Init /\ [][Next]_vars

-----------------------------------------------------------------------------
(***************************************************************************)
(* Properties                                                              *)
(***************************************************************************)
\* The columns hold prices of their currency, and GBP is never without one.
TypeOK ==
  /\ pack \in PackRow
  /\ pack.price["GBP"] \in Pence /\ pack.min["GBP"] \in Pence
  /\ pack.price["USD"] \in Cents \cup {None}
  /\ patch \in [Patcher -> PackRow \cup {Idle}]
  /\ live \in [Currency -> [Amount -> 0 .. Horizon]]
  /\ refused \subseteq Currency
  /\ asked \in [Currency -> SUBSET (Amount \cup {None})]

\* At most one price patch is served at a time.
Sequential == \A v, w \in Patcher : v = w

\* A buyer who pays in pounds what the checkout asked is never refused,
\* however often the price moves in between (the fence of Pack.cs:45-47).
NoPoundRefused == "GBP" \notin refused

\* The same of dollars, which "move under exactly the same drain rule".
NoDollarRefused == "USD" \notin refused

\* The fence still fences: the GBP floor is a price the pack has really
\* carried since the last drain ended, never less than all of them.
FloorWasAsked == Floor(pack, "GBP") \in asked["GBP"]

\* Why NoPoundRefused holds: a payment that may still come in reaches the
\* floor, and one that outlives the drain reaches the price as well.
Covered ==
  \A a \in Amount :
    live["GBP"][a] > 0 =>
      /\ Floor(pack, "GBP") <= a
      /\ live["GBP"][a] > pack.drain => pack.price["GBP"] <= a

\* A patch that is being served has read the row as it still is.
Current == \A w \in Patcher : patch[w] # Idle => patch[w] = pack

PricingInv ==
  /\ TypeOK /\ Covered /\ Current /\ NoPoundRefused /\ FloorWasAsked
  /\ pack.min["GBP"] <= pack.price["GBP"]

=============================================================================
