------------------------------- MODULE Licence --------------------------------
(***************************************************************************)
(* What a buyer may count on: a payment is fulfilled once, in one step,    *)
(* and whatever it grants is promised a link; a reversal takes back, in    *)
(* one step, all that its payment has granted.                             *)
(***************************************************************************)
CONSTANTS
  Sale,          \* the payments
  Item,          \* what can be bought with them
  SaleOf         \* the payment an item is bought with

VARIABLES
  order,         \* the state of each payment
  right,         \* the right to download each item
  link           \* the items whose buyer is promised a link

licence == <<order, right, link>>

Init ==
  /\ order = [s \in Sale |-> "none"]
  /\ right = [i \in Item |-> "none"]
  /\ link = {}

\* Content that is missing, or sold below the floor, is not granted.
Fulfil(s) ==
  /\ order[s] = "none"
  /\ order' = [order EXCEPT ![s] = "paid"]
  /\ \E items \in SUBSET {i \in Item : SaleOf[i] = s} :
       /\ right' = [i \in Item |-> IF i \in items THEN "active" ELSE right[i]]
       /\ link' = link \cup items

TakeBack(s) ==
  /\ order[s] # "none"
  /\ order' = [order EXCEPT ![s] = "reversed"]
  /\ right' = [i \in Item |->
                 IF SaleOf[i] = s /\ right[i] = "active" THEN "revoked" ELSE right[i]]
  /\ UNCHANGED link

Next == \E s \in Sale : Fulfil(s) \/ TakeBack(s)

Spec == Init /\ [][Next]_licence
=============================================================================
