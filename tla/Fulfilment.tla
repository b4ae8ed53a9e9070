------------------------------ MODULE Fulfilment ------------------------------
(***************************************************************************)
(* From a payment to a right to download, and back: the webhook endpoint   *)
(* (WebhookEndpoints.cs), FulfilmentService, the tables they write and the *)
(* provider that repeats an event until it is answered 2xx, beside the     *)
(* outbox that mails the links.                                            *)
(*                                                                         *)
(* A request reads, works on what it has read and saves once, in one       *)
(* transaction that the unique indexes may refuse; requests interleave at  *)
(* every await, and the process may die between any two steps.             *)
(***************************************************************************)
EXTENDS Outbox

CONSTANTS
  Sale,          \* the payments
  SaleOf,        \* the payment an item is bought with
  Handler,       \* the webhook requests that may be served at a time
  None,          \* no event
  Ordered,       \* whether the provider reports a reversal only after its
                 \* payment has been acknowledged
  MaxFaults      \* bound: crashes and saves that fail

\* The provider names a payment by its payment intent and a reversal by the
\* id of its own event.
Event == [kind : {"payment", "reversal"}, sale : Sale]
Payment(s) == [kind |-> "payment", sale |-> s]
Reversal(s) == [kind |-> "reversal", sale |-> s]

ItemsOf(s) == {i \in Item : SaleOf[i] = s}

ASSUME FulfilmentAssumption ==
  /\ SaleOf \in [Item -> Sale]
  /\ None \notin Event
  /\ Ordered \in BOOLEAN
  /\ MaxFaults \in Nat
  /\ IsFiniteSet(Item)

VARIABLES
  issued,        \* the events the provider has sent
  owed,          \* those it has no 2xx answer to yet
  recorded,      \* WebhookEvents, and SalesAudits for the payments
  order,         \* the Order rows of each payment
  right,         \* the Entitlement of each item
  grants,        \* how many entitlements each item has been given
  pc,            \* what each request does next
  event,         \* the event it serves
  active,        \* the Active entitlements a reversal has read
  ordered,       \* whether it has read orders as well
  faults         \* the number of crashes and failed saves

webVars == <<issued, owed, recorded, order, right, grants,
             pc, event, active, ordered>>

vars == <<webVars, outboxVars, faults>>

Init ==
  /\ OutboxInit
  /\ issued = {}
  /\ owed = {}
  /\ recorded = {}
  /\ order = [s \in Sale |-> "none"]
  /\ right = [i \in Item |-> "none"]
  /\ grants = [i \in Item |-> 0]
  /\ pc = [h \in Handler |-> "idle"]
  /\ event = [h \in Handler |-> None]
  /\ active = [h \in Handler |-> {}]
  /\ ordered = [h \in Handler |-> FALSE]
  /\ faults = 0

Goto(h, label) == pc' = [pc EXCEPT ![h] = label]

\* The request ends, and is forgotten.
End(h) ==
  /\ Goto(h, "idle")
  /\ event' = [event EXCEPT ![h] = None]
  /\ active' = [active EXCEPT ![h] = {}]
  /\ ordered' = [ordered EXCEPT ![h] = FALSE]

-----------------------------------------------------------------------------
(***************************************************************************)
(* The provider                                                            *)
(***************************************************************************)
Issue(e) ==
  /\ e \notin issued
  /\ issued' = issued \cup {e}
  /\ owed' = owed \cup {e}
  /\ UNCHANGED <<recorded, order, right, grants, pc, event, active, ordered,
                 outboxVars, faults>>

Pay(s) == Issue(Payment(s))

\* A refund or a dispute, of a payment that was made.
Reverse(s) ==
  /\ Payment(s) \in issued
  /\ Ordered => Payment(s) \notin owed
  /\ Issue(Reversal(s))

-----------------------------------------------------------------------------
(***************************************************************************)
(* POST /webhooks/{provider}                                               *)
(***************************************************************************)
\* An event arrives that is not on record.
Receive(h, e) ==
  /\ pc[h] = "idle"
  /\ e \in issued \ recorded
  /\ event' = [event EXCEPT ![h] = e]
  /\ Goto(h, IF e.kind = "payment" THEN "grant" ELSE "rights")
  /\ UNCHANGED <<issued, owed, recorded, order, right, grants, active, ordered,
                 outboxVars, faults>>

\* One that is on record is answered at once.
Repeat(e) ==
  /\ e \in recorded
  /\ owed' = owed \ {e}
  /\ UNCHANGED <<issued, recorded, order, right, grants, pc, event, active, ordered,
                 outboxVars, faults>>

\* The answer is 2xx: the provider is satisfied.
Answer(h) ==
  /\ pc[h] = "answer"
  /\ owed' = owed \ {event[h]}
  /\ End(h)
  /\ UNCHANGED <<issued, recorded, order, right, grants, outboxVars, faults>>

\* The order in which the rows of a save get their ids.
Ids(items) == CHOOSE ids \in Bijection(1 .. Cardinality(items), items) : TRUE

\* The rows a payment commits: its event and audit, its orders and, for the
\* items that have content and reach the floor, an entitlement and a delivery.
Grant(s, items) ==
  /\ recorded' = recorded \cup {Payment(s)}
  /\ order' = [order EXCEPT ![s] = "paid"]
  /\ right' = [i \in Item |-> IF i \in items THEN "active" ELSE right[i]]
  /\ grants' = [i \in Item |-> IF i \in items THEN grants[i] + 1 ELSE grants[i]]
  /\ row' = [i \in Item |-> IF i \in items THEN Fresh ELSE row[i]]
  /\ queue' = queue \o Ids(items)

\* Mutant of Refused: the rows carry no unique index.
RefusedMut(h) == FALSE

\* The unique indexes on the event, the transaction and the delivery.
Refused(h) == event[h] \in recorded

\* CommitAsync() saves, unless a duplicate has won.
CommitPayment(h) ==
  /\ pc[h] = "grant"
  /\ IF Refused(h)
     THEN /\ Goto(h, "recheck")
          /\ UNCHANGED <<recorded, order, right, grants, row, queue>>
     ELSE /\ \E items \in SUBSET ItemsOf(event[h].sale) : Grant(event[h].sale, items)
          /\ Goto(h, "answer")
  /\ UNCHANGED <<issued, owed, event, active, ordered,
                 batch, read, result, sweep, ops, resends, faults>>

\* Mutant of Recheck: a save that failed is answered 2xx all the same.
RecheckMut(h) ==
  /\ pc[h] = "recheck"
  /\ Goto(h, "answer") /\ UNCHANGED <<event, active, ordered>>
  /\ UNCHANGED <<issued, owed, recorded, order, right, grants, outboxVars, faults>>

\* After a refused save: an audit means that a duplicate has done the work,
\* and its absence that the provider must try again.
Recheck(h) ==
  /\ pc[h] = "recheck"
  /\ IF event[h] \in recorded
     THEN Goto(h, "answer") /\ UNCHANGED <<event, active, ordered>>
     ELSE End(h)
  /\ UNCHANGED <<issued, owed, recorded, order, right, grants, outboxVars, faults>>

\* RevokeAsync() reads the entitlements, then the orders, then saves both
\* with the event.
ReadRights(h) ==
  /\ pc[h] = "rights"
  /\ active' = [active EXCEPT ![h] = {i \in ItemsOf(event[h].sale) : right[i] = "active"}]
  /\ Goto(h, "orders")
  /\ UNCHANGED <<issued, owed, recorded, order, right, grants, event, ordered,
                 outboxVars, faults>>

ReadOrders(h) ==
  /\ pc[h] = "orders"
  /\ ordered' = [ordered EXCEPT ![h] = order[event[h].sale] # "none"]
  /\ Goto(h, "revoke")
  /\ UNCHANGED <<issued, owed, recorded, order, right, grants, event, active,
                 outboxVars, faults>>

\* Mutant of Revoked: the rights are left as they are.
RevokedMut(h) == right

Revoked(h) == [i \in Item |-> IF i \in active[h] THEN "revoked" ELSE right[i]]

CommitReversal(h) ==
  /\ pc[h] = "revoke"
  /\ IF Refused(h)
     THEN /\ End(h)
          /\ UNCHANGED <<recorded, order, right>>
     ELSE /\ recorded' = recorded \cup {event[h]}
          /\ right' = Revoked(h)
          /\ order' = IF ordered[h] THEN [order EXCEPT ![event[h].sale] = "reversed"]
                      ELSE order
          /\ Goto(h, "answer")
          /\ active' = [active EXCEPT ![h] = {}]
          /\ ordered' = [ordered EXCEPT ![h] = FALSE]
          /\ UNCHANGED event
  /\ UNCHANGED <<issued, owed, grants, outboxVars, faults>>

-----------------------------------------------------------------------------
(***************************************************************************)
(* Faults                                                                  *)
(***************************************************************************)
Fault == faults < MaxFaults /\ faults' = faults + 1

\* A save fails although no index refuses it; a reversal answers 500.
SaveFails(h) ==
  /\ Fault
  /\ \/ pc[h] = "grant" /\ Goto(h, "recheck") /\ UNCHANGED <<event, active, ordered>>
     \/ pc[h] = "revoke" /\ End(h)
  /\ UNCHANGED <<issued, owed, recorded, order, right, grants, outboxVars>>

\* The process dies: every request, the running pass and the resend with it.
Crash ==
  /\ Fault
  /\ pc' = [h \in Handler |-> "idle"]
  /\ event' = [h \in Handler |-> None]
  /\ active' = [h \in Handler |-> {}]
  /\ ordered' = [h \in Handler |-> FALSE]
  /\ Forget
  /\ ops' = {}
  /\ UNCHANGED <<issued, owed, recorded, order, right, grants, queue, row, resends>>

PassFails == Fault /\ Abort /\ UNCHANGED webVars

-----------------------------------------------------------------------------
Step(h) ==
  \/ Answer(h) \/ CommitPayment(h) \/ Recheck(h)
  \/ ReadRights(h) \/ ReadOrders(h) \/ CommitReversal(h)

Sweep == Load \/ SaveBatch \/ \E o \in Outcome : Send(o)

Resend == Requeue \/ \E i \in Item : right[i] # "revoked" /\ AskResend(i)

Next ==
  \/ \E s \in Sale : Pay(s) \/ Reverse(s)
  \/ \E e \in Event : Repeat(e) \/ \E h \in Handler : Receive(h, e)
  \/ \E h \in Handler : Step(h) \/ SaveFails(h)
  \/ (Sweep \/ Resend) /\ UNCHANGED <<webVars, faults>>
  \/ Crash \/ PassFails

Spec == Init /\ [][Next]_vars

\* The provider repeats an event until it is answered, the server takes a
\* request when it can, and the timer of the sweeper does not stop.
Fairness ==
  /\ \A e \in Event : SF_vars(e \in owed /\ \E h \in Handler : Receive(h, e))
  /\ \A h \in Handler : WF_vars(Step(h))
  /\ WF_vars(Sweep /\ UNCHANGED <<webVars, faults>>)
  /\ WF_vars(Requeue /\ UNCHANGED <<webVars, faults>>)

FairSpec == Spec /\ Fairness

-----------------------------------------------------------------------------
(***************************************************************************)
(* Properties                                                              *)
(***************************************************************************)
TypeOK ==
  /\ OutboxTypeOK
  /\ issued \subseteq Event /\ owed \subseteq issued /\ recorded \subseteq issued
  /\ order \in [Sale -> {"none", "paid", "reversed"}]
  /\ right \in [Item -> {"none", "active", "revoked"}]
  /\ grants \in [Item -> Nat]
  /\ pc \in [Handler -> {"idle", "answer", "grant", "recheck", "rights", "orders", "revoke"}]
  /\ event \in [Handler -> issued \cup {None}]
  /\ active \in [Handler -> SUBSET Item]
  /\ ordered \in [Handler -> BOOLEAN]
  /\ faults \in 0 .. MaxFaults

\* What a request that is under way knows.
Knows(h) ==
  /\ pc[h] = "idle" => event[h] = None
  /\ pc[h] = "answer" => event[h] \in recorded
  /\ pc[h] \in {"grant", "recheck"} => event[h] \in {Payment(s) : s \in Sale}
  /\ pc[h] \in {"rights", "orders", "revoke"} => event[h] \in {Reversal(s) : s \in Sale}
  /\ \A i \in active[h] : right[i] # "none"
  /\ pc[h] \in {"orders", "revoke"} => active[h] \subseteq ItemsOf(event[h].sale)
  /\ pc[h] = "revoke" /\ ordered[h] => order[event[h].sale] # "none"
  /\ Ordered /\ pc[h] = "revoke" => ordered[h]
  /\ Ordered /\ pc[h] \in {"orders", "revoke"} =>
       \A i \in ItemsOf(event[h].sale) : right[i] = "active" => i \in active[h]

HandlerInv == \A h \in Handler : Knows(h)

\* An event is recorded before it is answered and a payment before anything is
\* granted for it; with an ordered provider, before its reversal is reported.
RecordInv ==
  /\ issued \ owed \subseteq recorded
  /\ \A i \in Item :
       grants[i] > 0 \/ right[i] # "none" \/ i \in Range(queue)
         => Payment(SaleOf[i]) \in recorded
  /\ \A s \in Sale : order[s] = "none" <=> Payment(s) \notin recorded
  /\ Ordered => \A s \in Sale : Reversal(s) \in issued => Payment(s) \in recorded

\* However often and however concurrently a payment is reported, an item is
\* granted at most once, and whoever was granted one is owed exactly one link.
SoldOnce ==
  /\ \A i \in Item : grants[i] <= 1 /\ (right[i] # "none" => i \in Range(queue))
  /\ IsInjective(queue)

\* Once a reversal is recorded nothing of its payment can be downloaded, nor
\* ever again, whatever is redelivered and requeued.
RefundHonoured ==
  \A i \in Item : Reversal(SaleOf[i]) \in recorded => right[i] # "active"

\* Orders, rights and links move together: however requests, retries and dead
\* processes interleave, a buyer sees each payment fulfilled in one step, once,
\* and each reversal take back all of it (with an ordered provider).
Abstract == INSTANCE Licence WITH link <- Range(queue)

ImplementsLicence == Abstract!Spec

\* What every request may rely on: together an inductive invariant.
FulfilmentInv ==
  /\ TypeOK
  /\ BatchInv
  /\ HandlerInv
  /\ RecordInv
  /\ SoldOnce
  /\ Ordered => RefundHonoured

\* What is reported is recorded in the end: money is never dropped and a
\* refund never forgotten, however many duplicates, crashes and failures.
EventsSettle == \A e \in Event : (e \in issued) ~> (e \in recorded)

\* A link that is owed is sent in the end, or abandoned after its attempts.
LinksGoOut ==
  \A i \in Item : (right[i] # "none" /\ Due(i)) ~> ~Due(i)
=============================================================================
