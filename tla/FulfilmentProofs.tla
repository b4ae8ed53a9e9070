--------------------------- MODULE FulfilmentProofs ---------------------------
(***************************************************************************)
(* A payment is fulfilled once and a refund stands, for any number of      *)
(* payments, baskets, requests, retries, crashes and failed saves.         *)
(***************************************************************************)
EXTENDS Fulfilment, FiniteSetTheorems, TLAPS

USE FulfilmentAssumption, OutboxAssumption

-----------------------------------------------------------------------------
(***************************************************************************)
(* The queue                                                               *)
(***************************************************************************)
\* Rows that are new are queued once, behind all others.
LEMMA Queued ==
  ASSUME NEW q \in Seq(Item), IsInjective(q),
         NEW items \in SUBSET Item, items \cap Range(q) = {},
         NEW ids \in Bijection(1 .. Cardinality(items), items)
  PROVE  /\ q \o ids \in Seq(Item)
         /\ Range(q \o ids) = Range(q) \cup items
         /\ IsInjective(q \o ids)
<1> DEFINE n == Cardinality(items)
<1>1. n \in Nat
  <2>1. IsFiniteSet(items)
    BY FS_Subset
  <2> QED BY <2>1, FS_CardinalityType
<1>2. /\ ids \in [1 .. n -> items]
      /\ \A a, b \in 1 .. n : ids[a] = ids[b] => a = b
      /\ \A i \in items : \E a \in 1 .. n : ids[a] = i
  BY DEF Bijection, Injection, Surjection, IsInjective
<1> HIDE DEF n
<1>3. ids \in Seq(Item) /\ Len(ids) = n /\ DOMAIN ids = 1 .. n
  BY <1>1, <1>2
<1> DEFINE m == Len(q)
           s == q \o ids
<1>4. /\ s \in Seq(Item)
      /\ DOMAIN s = 1 .. m + n
      /\ \A k \in 1 .. m : s[k] = q[k]
      /\ \A k \in m + 1 .. m + n : s[k] = ids[k - m]
  BY <1>1, <1>3
<1>5. DOMAIN q = 1 .. m /\ m \in Nat
  OBVIOUS
<1> HIDE DEF m, s
<1>6. \A k \in 1 .. m : s[k] \in Range(q)
  BY <1>4, <1>5 DEF Range
<1>7. \A k \in m + 1 .. m + n : k - m \in 1 .. n /\ s[k] \in items
  BY <1>1, <1>2, <1>4, <1>5
<1>8. \A k \in 1 .. m + n : k \in 1 .. m \/ k \in m + 1 .. m + n
  BY <1>1, <1>5
<1>9. Range(s) = Range(q) \cup items
  <2>0. \A k \in 1 .. m + n : s[k] \in Range(s)
    BY <1>4 DEF Range
  <2>1. Range(s) \subseteq Range(q) \cup items
    BY <1>4, <1>6, <1>7, <1>8 DEF Range
  <2>2. Range(q) \subseteq Range(s)
    <3> SUFFICES ASSUME NEW k \in 1 .. m
                 PROVE  q[k] \in Range(s)
      BY <1>5 DEF Range
    <3>1. k \in 1 .. m + n
      BY <1>1, <1>5
    <3>2. s[k] = q[k] /\ s[k] \in Range(s)
      BY <3>1, <2>0, <1>4
    <3> QED BY <3>2
  <2>3. items \subseteq Range(s)
    <3> SUFFICES ASSUME NEW i \in items
                 PROVE  i \in Range(s)
      OBVIOUS
    <3>1. PICK a \in 1 .. n : ids[a] = i
      BY <1>2
    <3>2. m + a \in m + 1 .. m + n /\ (m + a) - m = a /\ m + a \in 1 .. m + n
      BY <1>1, <1>5
    <3>3. s[m + a] = i
      BY <3>1, <3>2, <1>4
    <3> QED BY <3>2, <3>3, <2>0
  <2> QED BY <2>1, <2>2, <2>3
<1>10. IsInjective(s)
  <2> SUFFICES ASSUME NEW a \in 1 .. m + n, NEW b \in 1 .. m + n, s[a] = s[b]
               PROVE  a = b
    BY <1>4 DEF IsInjective
  <2>1. CASE a \in 1 .. m /\ b \in 1 .. m
    BY <2>1, <1>4, <1>5 DEF IsInjective
  <2>2. CASE a \in m + 1 .. m + n /\ b \in m + 1 .. m + n
    <3>1. ids[a - m] = ids[b - m]
      BY <2>2, <1>4
    <3>2. a - m = b - m
      BY <3>1, <2>2, <1>2, <1>7
    <3> QED BY <3>2, <1>1, <1>5
  <2>3. CASE a \in 1 .. m /\ b \in m + 1 .. m + n
    BY <2>3, <1>6, <1>7
  <2>4. CASE a \in m + 1 .. m + n /\ b \in 1 .. m
    BY <2>4, <1>6, <1>7
  <2> QED BY <2>1, <2>2, <2>3, <2>4, <1>8
<1> QED BY <1>4, <1>9, <1>10 DEF s

\* The rows of a save can be numbered.
LEMMA Numbered ==
  ASSUME NEW items \in SUBSET Item
  PROVE  Ids(items) \in Bijection(1 .. Cardinality(items), items)
<1>1. IsFiniteSet(items)
  BY FS_Subset
<1>2. Bijection(1 .. Cardinality(items), items) # {}
  BY <1>1, FS_CardinalityType DEF ExistsBijection
<1> QED BY <1>2 DEF Ids

-----------------------------------------------------------------------------
(***************************************************************************)
(* The inductive invariant                                                 *)
(***************************************************************************)
RequestTypeOK ==
  /\ pc \in [Handler -> {"idle", "answer", "grant", "recheck", "rights", "orders", "revoke"}]
  /\ event \in [Handler -> issued \cup {None}]
  /\ active \in [Handler -> SUBSET Item]
  /\ ordered \in [Handler -> BOOLEAN]

\* What the invariant says of the tables and the requests, the outbox aside.
WebInv ==
  /\ issued \subseteq Event /\ owed \subseteq issued /\ recorded \subseteq issued
  /\ order \in [Sale -> {"none", "paid", "reversed"}]
  /\ right \in [Item -> {"none", "active", "revoked"}]
  /\ grants \in [Item -> Nat]
  /\ RequestTypeOK
  /\ queue \in Seq(Item)
  /\ HandlerInv
  /\ RecordInv
  /\ SoldOnce
  /\ Ordered => RefundHonoured

LEMMA Parts ==
  FulfilmentInv <=> WebInv /\ OutboxTypeOK /\ BatchInv /\ faults \in 0 .. MaxFaults
  BY DEF FulfilmentInv, WebInv, RequestTypeOK, TypeOK, OutboxTypeOK

LEMMA Initially == Init => FulfilmentInv
<1> SUFFICES ASSUME Init PROVE FulfilmentInv
  OBVIOUS
<1>1. queue \in Seq(Item) /\ Range(queue) = {} /\ IsInjective(queue)
  BY DEF Init, OutboxInit, Range, IsInjective
<1>2. OutboxTypeOK
  BY <1>1 DEF Init, OutboxInit, OutboxTypeOK, Row, NoRow, Outcome
<1>3. BatchInv
  BY DEF Init, OutboxInit, BatchInv
<1>4. HandlerInv /\ RecordInv /\ SoldOnce /\ RefundHonoured
  BY <1>1 DEF Init, HandlerInv, Knows, RecordInv, SoldOnce, RefundHonoured
<1> QED BY <1>1, <1>2, <1>3, <1>4, Parts DEF Init, WebInv, RequestTypeOK, Event

\* The sweeper and the operator change rows, and nothing else.
LEMMA WebStands ==
  ASSUME WebInv, UNCHANGED <<webVars, queue>>
  PROVE  WebInv'
  BY DEF WebInv, RequestTypeOK, webVars, HandlerInv, Knows, RecordInv, SoldOnce, RefundHonoured, ItemsOf

\* A request that changes no row leaves the outbox as it is.
LEMMA OutboxStands ==
  ASSUME OutboxTypeOK, BatchInv, UNCHANGED outboxVars
  PROVE  OutboxTypeOK' /\ BatchInv'
  BY DEF OutboxTypeOK, BatchInv, outboxVars

\* Nor does what a pass forgets do any harm.
LEMMA Forgetting ==
  ASSUME OutboxTypeOK, Forget, queue' = queue, row' \in [Item -> Row],
         ops' \in SUBSET [item : Item, row : Row], resends' = resends
  PROVE  OutboxTypeOK' /\ BatchInv'
  BY DEF OutboxTypeOK, BatchInv, Forget, Outcome

LEMMA OutboxSteps ==
  ASSUME OutboxTypeOK, BatchInv, Sweep \/ Resend \/ Abort
  PROVE  OutboxTypeOK' /\ BatchInv' /\ queue' = queue
<1>1. CASE Load
  <2>1. batch' \subseteq Item /\ \A i \in batch' : Due(i)
    <3>1. Range(queue) \subseteq Item
      BY DEF OutboxTypeOK, Range
    <3> QED BY <3>1, <1>1 DEF Load
  <2>2. \A i \in Item : row[i].attempts \in 0 .. MaxAttempts
    BY DEF OutboxTypeOK, Row
  <2>3. \A i \in batch' : row[i].attempts < MaxAttempts
    BY <2>1, <2>2 DEF Due
  <2> QED BY <1>1, <2>1, <2>2, <2>3 DEF Load, OutboxTypeOK, BatchInv
<1>2. CASE \E o \in Outcome : Send(o)
  BY <1>2 DEF Send, OutboxTypeOK, BatchInv, Outcome
<1>3. CASE SaveBatch
  <2>1. ASSUME NEW i \in Item
        PROVE  Written(i) \in Row
    <3>1. row[i] \in Row /\ read[i] \in 0 .. MaxAttempts /\ result[i] \in Outcome
      BY DEF OutboxTypeOK
    <3>2. result[i] = "failed" => read[i] + 1 \in 0 .. MaxAttempts
      BY <3>1 DEF BatchInv
    <3> QED BY <3>1, <3>2 DEF Written, Row, Outcome
  <2> QED BY <1>3, <2>1, Forgetting DEF SaveBatch, OutboxTypeOK
<1>4. CASE Abort
  BY <1>4, Forgetting DEF Abort, OutboxTypeOK
<1>5. CASE Requeue
  <2>1. PICK r \in ops : row' = [row EXCEPT ![r.item] =
                 [sent |-> @.sent /\ ~r.row.sent,
                  attempts |-> IF r.row.attempts = 0 THEN @.attempts ELSE 0]]
    BY <1>5 DEF Requeue
  <2>2. r.item \in Item /\ r.row \in Row /\ row \in [Item -> Row]
    BY DEF OutboxTypeOK
  <2>3. row' \in [Item -> Row]
    BY <2>1, <2>2 DEF Row
  <2> QED BY <1>5, <2>3 DEF Requeue, OutboxTypeOK, BatchInv
<1>6. CASE \E i \in Item : right[i] # "revoked" /\ AskResend(i)
  BY <1>6 DEF AskResend, OutboxTypeOK, BatchInv
<1> QED BY <1>1, <1>2, <1>3, <1>4, <1>5, <1>6 DEF Sweep, Resend

-----------------------------------------------------------------------------
(***************************************************************************)
(* The steps of the provider and the requests                              *)
(***************************************************************************)
LEMMA Events ==
  /\ \A s, t \in Sale : Payment(s) # Reversal(t)
  /\ \A s, t \in Sale : Payment(s) = Payment(t) => s = t
  /\ \A s, t \in Sale : Reversal(s) = Reversal(t) => s = t
  /\ \A s \in Sale : Payment(s).sale = s /\ Reversal(s).sale = s
  /\ \A e \in Event : e.sale \in Sale /\ e \in {Payment(e.sale), Reversal(e.sale)}
  /\ \A s \in Sale : Payment(s) \in Event /\ Reversal(s) \in Event
  /\ \A e \in Event : e # None
  BY DEF Payment, Reversal, Event

\* A step of one request that leaves the tables alone has to look after its
\* own part of the invariant only.
OthersStand(h) ==
  \A k \in Handler \ {h} :
    /\ pc'[k] = pc[k] /\ event'[k] = event[k]
    /\ active'[k] = active[k] /\ ordered'[k] = ordered[k]

LEMMA OneRequest ==
  ASSUME WebInv, NEW h \in Handler,
         UNCHANGED <<issued, recorded, order, right, grants, queue>>,
         owed' \subseteq owed, issued \ owed' \subseteq recorded,
         RequestTypeOK', OthersStand(h), Knows(h)'
  PROVE  WebInv'
<1>1. HandlerInv'
  <2> SUFFICES ASSUME NEW k \in Handler, k # h
               PROVE  Knows(k)'
    BY DEF HandlerInv
  <2>1. /\ pc'[k] = pc[k] /\ event'[k] = event[k]
        /\ active'[k] = active[k] /\ ordered'[k] = ordered[k]
        /\ Knows(k)
    BY DEF OthersStand, WebInv, HandlerInv
  <2> QED BY <2>1 DEF Knows, ItemsOf
<1>2. RecordInv' /\ SoldOnce' /\ (Ordered => RefundHonoured')
  BY DEF WebInv, RecordInv, SoldOnce, RefundHonoured
<1> QED BY <1>1, <1>2 DEF WebInv

LEMMA EndSteps ==
  ASSUME WebInv, NEW h \in Handler, End(h), UNCHANGED issued
  PROVE  RequestTypeOK' /\ OthersStand(h) /\ Knows(h)'
  BY DEF WebInv, RequestTypeOK, End, Goto, OthersStand, Knows

LEMMA ReceiveSteps ==
  ASSUME WebInv, NEW h \in Handler, NEW e \in Event, Receive(h, e)
  PROVE  WebInv'
<1>1. /\ e.kind = "payment" => e \in {Payment(s) : s \in Sale}
      /\ e.kind # "payment" => e \in {Reversal(s) : s \in Sale}
  BY DEF Event, Payment, Reversal
<1>2. RequestTypeOK' /\ OthersStand(h)
  BY DEF WebInv, RequestTypeOK, Receive, Goto, OthersStand
<1>3. Knows(h)'
  BY <1>1 DEF WebInv, RequestTypeOK, Receive, Goto, HandlerInv, Knows
<1> QED
  BY <1>2, <1>3, OneRequest DEF Receive, outboxVars, WebInv, RecordInv

LEMMA RepeatSteps ==
  ASSUME WebInv, NEW e \in Event, Repeat(e)
  PROVE  WebInv'
<1>1. HandlerInv' /\ RequestTypeOK'
  BY DEF Repeat, WebInv, HandlerInv, Knows, RequestTypeOK, ItemsOf
<1>2. RecordInv' /\ SoldOnce' /\ (Ordered => RefundHonoured')
  BY DEF Repeat, WebInv, RecordInv, SoldOnce, RefundHonoured, outboxVars
<1> QED BY <1>1, <1>2 DEF Repeat, WebInv, outboxVars

LEMMA AnswerSteps ==
  ASSUME WebInv, NEW h \in Handler, Answer(h)
  PROVE  WebInv'
<1>1. RequestTypeOK' /\ OthersStand(h) /\ Knows(h)'
  BY EndSteps DEF Answer
<1>2. owed' \subseteq owed /\ issued \ owed' \subseteq recorded
  BY DEF Answer, WebInv, RecordInv, HandlerInv, Knows
<1> QED BY <1>1, <1>2, OneRequest DEF Answer, outboxVars

LEMMA RecheckSteps ==
  ASSUME WebInv, NEW h \in Handler, Recheck(h)
  PROVE  WebInv'
<1>1. RequestTypeOK' /\ OthersStand(h) /\ Knows(h)'
  <2>1. CASE event[h] \in recorded
    BY <2>1 DEF Recheck, Goto, WebInv, RequestTypeOK, OthersStand, HandlerInv, Knows
  <2>2. CASE event[h] \notin recorded
    BY <2>2, EndSteps DEF Recheck
  <2> QED BY <2>1, <2>2
<1> QED BY <1>1, OneRequest DEF Recheck, outboxVars, WebInv, RecordInv

LEMMA ReadSteps ==
  ASSUME WebInv, NEW h \in Handler, ReadRights(h) \/ ReadOrders(h)
  PROVE  WebInv'
<1>1. CASE ReadRights(h)
  <2>1. RequestTypeOK' /\ OthersStand(h)
    BY <1>1 DEF ReadRights, Goto, WebInv, RequestTypeOK, OthersStand, ItemsOf
  <2>2. Knows(h)'
    BY <1>1 DEF ReadRights, Goto, WebInv, RequestTypeOK, HandlerInv, Knows
  <2> QED BY <1>1, <2>1, <2>2, OneRequest DEF ReadRights, outboxVars, WebInv, RecordInv
<1>2. CASE ReadOrders(h)
  <2>0. PICK s \in Sale : event[h] = Reversal(s) /\ event[h] \in issued /\ event[h].sale = s
    BY <1>2, Events DEF ReadOrders, WebInv, RequestTypeOK, HandlerInv, Knows
  <2>3. Ordered => order[s] # "none"
    BY <2>0 DEF WebInv, RecordInv
  <2>4. /\ pc'[h] = "revoke" /\ ordered'[h] = (order[s] # "none")
        /\ pc[h] = "orders" /\ UNCHANGED <<event, active, order, right, recorded>>
    BY <1>2, <2>0 DEF ReadOrders, Goto, WebInv, RequestTypeOK
  <2>1. RequestTypeOK' /\ OthersStand(h) /\ Knows(h)'
    <3>1. RequestTypeOK' /\ OthersStand(h)
      BY <1>2 DEF ReadOrders, Goto, WebInv, RequestTypeOK, OthersStand
    <3>2. Knows(h)'
      BY <2>0, <2>3, <2>4 DEF WebInv, HandlerInv, Knows, ItemsOf
    <3> QED BY <3>1, <3>2
  <2> QED BY <1>2, <2>1, OneRequest DEF ReadOrders, outboxVars, WebInv, RecordInv
<1> QED BY <1>1, <1>2

LEMMA SaveFailsSteps ==
  ASSUME WebInv, NEW h \in Handler, SaveFails(h)
  PROVE  WebInv'
<1>1. RequestTypeOK' /\ OthersStand(h) /\ Knows(h)'
  <2>1. CASE pc[h] = "grant" /\ Goto(h, "recheck") /\ UNCHANGED <<event, active, ordered>>
    BY <2>1 DEF SaveFails, Goto, WebInv, RequestTypeOK, OthersStand, HandlerInv, Knows
  <2>2. CASE pc[h] = "revoke" /\ End(h)
    BY <2>2, EndSteps DEF SaveFails
  <2> QED BY <2>1, <2>2 DEF SaveFails
<1> QED BY <1>1, OneRequest DEF SaveFails, outboxVars, WebInv, RecordInv

LEMMA CrashSteps ==
  ASSUME WebInv, Crash
  PROVE  WebInv'
<1>1. HandlerInv' /\ RequestTypeOK'
  BY DEF Crash, WebInv, HandlerInv, Knows, RequestTypeOK
<1>2. RecordInv' /\ SoldOnce' /\ (Ordered => RefundHonoured')
  BY DEF Crash, WebInv, RecordInv, SoldOnce, RefundHonoured
<1> QED BY <1>1, <1>2 DEF Crash, WebInv

LEMMA IssueSteps ==
  ASSUME WebInv, NEW s \in Sale, Pay(s) \/ Reverse(s)
  PROVE  WebInv'
<1> PICK e \in Event : Issue(e) /\ (e = Payment(s) \/ (e = Reversal(s) /\ Reverse(s)))
  BY Events DEF Pay, Reverse
<1>1. HandlerInv' /\ RequestTypeOK'
  <2>1. \A k \in Handler : Knows(k)'
    BY DEF Issue, WebInv, HandlerInv, Knows, ItemsOf, outboxVars
  <2> QED BY <2>1 DEF Issue, WebInv, HandlerInv, RequestTypeOK
<1>2. SoldOnce' /\ (Ordered => RefundHonoured')
  BY DEF Issue, WebInv, SoldOnce, RefundHonoured, outboxVars
<1>3. RecordInv'
  <2>1. ASSUME Ordered, NEW t \in Sale, Reversal(t) \in issued'
        PROVE  Payment(t) \in recorded'
    <3>1. CASE Reversal(t) \in issued
      BY <2>1, <3>1 DEF WebInv, RecordInv, Issue
    <3>2. CASE Reversal(t) \notin issued
      <4>1. Reversal(t) = e
        BY <2>1, <3>2 DEF Issue
      <4>2. t = s /\ Reverse(s)
        BY <4>1, Events
      <4> QED BY <2>1, <4>2 DEF Reverse, WebInv, RecordInv, Issue
    <3> QED BY <3>1, <3>2
  <2> QED BY <2>1 DEF Issue, WebInv, RecordInv, outboxVars
<1> QED BY <1>1, <1>2, <1>3 DEF Issue, WebInv, outboxVars

\* A payment is committed once: no item of it was granted, queued or paid for.
LEMMA CommitPaymentSteps ==
  ASSUME WebInv, NEW h \in Handler, CommitPayment(h)
  PROVE  WebInv'
<1>1. CASE Refused(h)
  <2>1. RequestTypeOK' /\ OthersStand(h) /\ Knows(h)'
    BY <1>1 DEF CommitPayment, Goto, WebInv, RequestTypeOK, OthersStand, HandlerInv, Knows
  <2> QED BY <1>1, <2>1, OneRequest DEF CommitPayment, WebInv, RecordInv
<1>2. CASE ~Refused(h)
  <2>1. PICK s \in Sale : event[h] = Payment(s)
    BY DEF CommitPayment, WebInv, HandlerInv, Knows
  <2>2. event[h].sale = s /\ Payment(s) \notin recorded /\ Payment(s) \in issued
    BY <1>2, <2>1, Events DEF Refused, WebInv, RequestTypeOK
  <2>3. PICK items \in SUBSET ItemsOf(s) : Grant(s, items)
    BY <1>2, <2>2 DEF CommitPayment
  <2>4. queue' = queue \o Ids(items) /\ Ids(items) \in Bijection(1 .. Cardinality(items), items)
    BY <2>3, Numbered DEF Grant, ItemsOf
  <2>5. \A i \in ItemsOf(s) : grants[i] = 0 /\ right[i] = "none" /\ i \notin Range(queue)
    BY <2>2 DEF WebInv, RecordInv, ItemsOf
  <2>6. /\ queue' \in Seq(Item)
        /\ Range(queue') = Range(queue) \cup items
        /\ IsInjective(queue')
    BY <2>3, <2>4, <2>5, Queued DEF WebInv, SoldOnce, ItemsOf
  <2>7. /\ recorded' = recorded \cup {Payment(s)} /\ issued' = issued /\ owed' = owed
        /\ order' = [order EXCEPT ![s] = "paid"]
        /\ right' = [i \in Item |-> IF i \in items THEN "active" ELSE right[i]]
        /\ grants' = [i \in Item |-> IF i \in items THEN grants[i] + 1 ELSE grants[i]]
        /\ pc' = [pc EXCEPT ![h] = "answer"]
        /\ UNCHANGED <<event, active, ordered>>
    BY <1>2, <2>3 DEF CommitPayment, Grant, Goto
  <2>8. SoldOnce'
    BY <2>3, <2>5, <2>6, <2>7 DEF WebInv, SoldOnce, ItemsOf
  <2>9. RecordInv'
    <3>1. \A t \in Sale : Payment(t) \in recorded' <=> Payment(t) \in recorded \/ t = s
      BY <2>7, Events
    <3>2. \A i \in items : SaleOf[i] = s
      BY <2>3 DEF ItemsOf
    <3>3. \A i \in Item : SaleOf[i] \in Sale
      OBVIOUS
    <3>4. \A i \in Item :
            grants'[i] > 0 \/ right'[i] # "none" \/ i \in Range(queue')
              => Payment(SaleOf[i]) \in recorded'
      BY <2>6, <2>7, <3>1, <3>2, <3>3 DEF WebInv, RecordInv
    <3>5. \A t \in Sale : order'[t] = "none" <=> Payment(t) \notin recorded'
      BY <2>7, <3>1 DEF WebInv, RecordInv
    <3> QED BY <2>7, <3>4, <3>5 DEF WebInv, RecordInv
  <2>10. Ordered => Reversal(s) \notin issued
    BY <2>2 DEF WebInv, RecordInv
  <2>11. Ordered => RefundHonoured'
    BY <2>3, <2>7, <2>10, Events DEF WebInv, RefundHonoured, ItemsOf
  <2>12. HandlerInv'
    <3> SUFFICES ASSUME NEW k \in Handler
                 PROVE  Knows(k)'
      BY DEF HandlerInv
    <3>1. CASE k = h
      <4>1. /\ Knows(h) /\ pc'[h] = "answer" /\ event'[h] \in recorded'
            /\ active'[h] = active[h] /\ active[h] \subseteq Item
        BY <2>1, <2>7 DEF WebInv, RequestTypeOK, HandlerInv
      <4>2. \A i \in active[h] : right'[i] # "none"
        BY <4>1, <2>7 DEF Knows
      <4> QED BY <3>1, <4>1, <4>2 DEF Knows
    <3>2. CASE k # h
      <4>1. Knows(k) /\ pc'[k] = pc[k]
        BY <3>2, <2>7 DEF WebInv, RequestTypeOK, HandlerInv
      <4>2. ASSUME Ordered, pc[k] \in {"orders", "revoke"}
            PROVE  \A i \in ItemsOf(event[k].sale) : right'[i] = right[i]
        <5>1. PICK t \in Sale : event[k] = Reversal(t)
          BY <4>1, <4>2 DEF Knows
        <5>2. t # s /\ event[k].sale = t
          BY <5>1, <2>10, <4>2, Events DEF WebInv, RequestTypeOK
        <5> QED BY <5>2, <2>3, <2>7 DEF ItemsOf
      <4>3. \A i \in Item : right[i] # "none" => right'[i] # "none"
        BY <2>7
      <4>4. \A t \in Sale : order[t] # "none" => order'[t] # "none"
        BY <2>7 DEF WebInv
      <4>5. active[k] \subseteq Item /\ (pc[k] = "revoke" => event[k].sale \in Sale)
        BY <4>1, Events DEF WebInv, RequestTypeOK, Knows
      <4> QED BY <4>1, <4>2, <4>3, <4>4, <4>5, <2>7 DEF Knows, ItemsOf
    <3> QED BY <3>1, <3>2
  <2>13. RequestTypeOK'
    BY <2>7 DEF WebInv, RequestTypeOK
  <2>14. /\ order' \in [Sale -> {"none", "paid", "reversed"}]
         /\ right' \in [Item -> {"none", "active", "revoked"}]
         /\ grants' \in [Item -> Nat]
    BY <2>7 DEF WebInv
  <2> QED
    BY <2>2, <2>6, <2>7, <2>8, <2>9, <2>11, <2>12, <2>13, <2>14 DEF WebInv
<1> QED BY <1>1, <1>2

\* A reversal revokes whatever was granted, provided it knows of it all.
LEMMA CommitReversalSteps ==
  ASSUME WebInv, NEW h \in Handler, CommitReversal(h)
  PROVE  WebInv'
<1>1. CASE Refused(h)
  <2>1. RequestTypeOK' /\ OthersStand(h) /\ Knows(h)'
    BY <1>1, EndSteps DEF CommitReversal
  <2> QED BY <1>1, <2>1, OneRequest DEF CommitReversal, outboxVars, WebInv, RecordInv
<1>2. CASE ~Refused(h)
  <2>1. PICK s \in Sale : event[h] = Reversal(s)
    BY DEF CommitReversal, WebInv, HandlerInv, Knows
  <2>2. event[h].sale = s /\ Reversal(s) \in issued
    BY <2>1, Events DEF WebInv, RequestTypeOK
  <2>3. /\ recorded' = recorded \cup {Reversal(s)} /\ issued' = issued /\ owed' = owed
        /\ order' = IF ordered[h] THEN [order EXCEPT ![s] = "reversed"] ELSE order
        /\ right' = [i \in Item |-> IF i \in active[h] THEN "revoked" ELSE right[i]]
        /\ pc' = [pc EXCEPT ![h] = "answer"]
        /\ active' = [active EXCEPT ![h] = {}] /\ ordered' = [ordered EXCEPT ![h] = FALSE]
        /\ UNCHANGED <<event, grants, queue>>
    BY <1>2, <2>1, <2>2 DEF CommitReversal, Revoked, Goto, outboxVars
  <2>4. /\ Knows(h) /\ pc[h] = "revoke" /\ active[h] \subseteq Item
        /\ \A i \in active[h] : right[i] # "none"
        /\ ordered[h] => order[s] # "none"
    BY <2>2 DEF CommitReversal, WebInv, RequestTypeOK, HandlerInv, Knows
  <2>5. /\ \A i \in Item : right[i] # "none" <=> right'[i] # "none"
        /\ \A i \in Item : right'[i] = "active" => right[i] = "active" /\ i \notin active[h]
        /\ \A t \in Sale : order[t] = "none" <=> order'[t] = "none"
    BY <2>3, <2>4 DEF WebInv
  <2>6. \A t \in Sale : Payment(t) \in recorded' <=> Payment(t) \in recorded
    BY <2>3, Events
  <2>7. SoldOnce'
    BY <2>3, <2>5 DEF WebInv, SoldOnce
  <2>8. RecordInv'
    BY <2>3, <2>5, <2>6 DEF WebInv, RecordInv
  <2>9. Ordered => RefundHonoured'
    <3> SUFFICES ASSUME Ordered, NEW i \in Item, Reversal(SaleOf[i]) \in recorded',
                        right'[i] = "active"
                 PROVE  FALSE
      BY DEF RefundHonoured
    <3>1. CASE SaleOf[i] = s
      BY <3>1, <2>2, <2>4, <2>5 DEF Knows, ItemsOf
    <3>2. CASE SaleOf[i] # s
      BY <3>2, <2>3, <2>5, Events DEF WebInv, RefundHonoured
    <3> QED BY <3>1, <3>2
  <2>10. HandlerInv'
    <3> SUFFICES ASSUME NEW k \in Handler
                 PROVE  Knows(k)'
      BY DEF HandlerInv
    <3>1. CASE k = h
      BY <3>1, <2>1, <2>3, <2>4, <2>5 DEF WebInv, RequestTypeOK, Knows
    <3>2. CASE k # h
      <4>1. Knows(k) /\ pc'[k] = pc[k] /\ active[k] \subseteq Item
        BY <3>2, <2>3 DEF WebInv, RequestTypeOK, HandlerInv
      <4>2. pc[k] = "revoke" => event[k].sale \in Sale
        BY <4>1, Events DEF Knows
      <4>3. event' = event /\ active'[k] = active[k] /\ ordered'[k] = ordered[k]
        BY <3>2, <2>3 DEF WebInv, RequestTypeOK
      <4>4. \A i \in active[k] : right[i] # "none" => right'[i] # "none"
        BY <4>1, <2>5
      <4> QED BY <4>1, <4>2, <4>3, <4>4, <2>3, <2>5 DEF Knows, ItemsOf
    <3> QED BY <3>1, <3>2
  <2>11. RequestTypeOK'
    BY <2>3 DEF WebInv, RequestTypeOK
  <2>12. /\ order' \in [Sale -> {"none", "paid", "reversed"}]
         /\ right' \in [Item -> {"none", "active", "revoked"}]
    BY <2>3 DEF WebInv
  <2> QED
    BY <2>2, <2>3, <2>7, <2>8, <2>9, <2>10, <2>11, <2>12 DEF WebInv
<1> QED BY <1>1, <1>2

-----------------------------------------------------------------------------
(***************************************************************************)
(* What the buyer sees.                                                    *)
(***************************************************************************)
LEMMA InitMaps == Init => Abstract!Init
  BY DEF Init, OutboxInit, Abstract!Init, Range

Seen == <<order, right, Range(queue)>>

LEMMA PaymentMaps ==
  ASSUME WebInv, NEW h \in Handler, CommitPayment(h)
  PROVE  [Abstract!Next]_Seen
<1>1. CASE Refused(h)
  BY <1>1 DEF CommitPayment, Seen
<1>2. CASE ~Refused(h)
  <2>1. PICK s \in Sale : event[h] = Payment(s)
    BY DEF CommitPayment, WebInv, HandlerInv, Knows
  <2>2. event[h].sale = s /\ Payment(s) \notin recorded
    BY <1>2, <2>1, Events DEF Refused
  <2>3. PICK items \in SUBSET ItemsOf(s) : Grant(s, items)
    BY <1>2, <2>2 DEF CommitPayment
  <2>4. order[s] = "none"
    BY <2>2 DEF WebInv, RecordInv
  <2>5. Range(queue') = Range(queue) \cup items
    <3>1. \A i \in ItemsOf(s) : i \notin Range(queue)
      BY <2>2 DEF WebInv, RecordInv, ItemsOf
    <3>2. Ids(items) \in Bijection(1 .. Cardinality(items), items)
      BY <2>3, Numbered DEF ItemsOf
    <3> QED BY <2>3, <3>1, <3>2, Queued DEF Grant, WebInv, SoldOnce, ItemsOf
  <2>6. Abstract!Fulfil(s)
    BY <2>3, <2>4, <2>5 DEF Grant, Abstract!Fulfil, ItemsOf
  <2> QED BY <2>6 DEF Abstract!Next
<1> QED BY <1>1, <1>2

LEMMA ReversalMaps ==
  ASSUME Ordered, WebInv, NEW h \in Handler, CommitReversal(h)
  PROVE  [Abstract!Next]_Seen
<1>0. queue' = queue
  BY DEF CommitReversal, outboxVars
<1>1. CASE Refused(h)
  BY <1>0, <1>1 DEF CommitReversal, Seen
<1>2. CASE ~Refused(h)
  <2>1. PICK s \in Sale : event[h] = Reversal(s) /\ event[h].sale = s /\ event[h] \in issued
    BY Events DEF CommitReversal, WebInv, RequestTypeOK, HandlerInv, Knows
  <2>2. Knows(h) /\ pc[h] = "revoke" /\ ordered[h]
    BY DEF CommitReversal, WebInv, HandlerInv, Knows
  <2>3. order[s] # "none" /\ order' = [order EXCEPT ![s] = "reversed"]
    BY <1>2, <2>1, <2>2 DEF CommitReversal, Knows
  <2>4. \A i \in Item : i \in active[h] => SaleOf[i] = s /\ right[i] # "none"
    BY <2>1, <2>2 DEF Knows, ItemsOf
  <2>5. \A i \in Item : SaleOf[i] = s /\ right[i] = "active" => i \in active[h]
    BY <2>1, <2>2 DEF Knows, ItemsOf
  <2>6. right' = [i \in Item |-> IF i \in active[h] THEN "revoked" ELSE right[i]]
    BY <1>2 DEF CommitReversal, Revoked
  <2>7. \A i \in Item : right[i] \in {"none", "active", "revoked"}
    BY DEF WebInv
  <2>8. \A i \in Item :
          (IF i \in active[h] THEN "revoked" ELSE right[i])
            = IF SaleOf[i] = s /\ right[i] = "active" THEN "revoked" ELSE right[i]
    BY <2>4, <2>5, <2>7
  <2>9. right' = [i \in Item |->
                    IF SaleOf[i] = s /\ right[i] = "active" THEN "revoked" ELSE right[i]]
    BY <2>6, <2>8
  <2>10. Abstract!TakeBack(s)
    BY <1>0, <2>3, <2>9 DEF Abstract!TakeBack
  <2> QED BY <2>10 DEF Abstract!Next
<1> QED BY <1>1, <1>2

\* Only a save that succeeds is seen.
LEMMA StepMaps == Ordered /\ FulfilmentInv /\ [Next]_vars => [Abstract!Next]_Seen
<1> SUFFICES ASSUME Ordered, WebInv, OutboxTypeOK, BatchInv, [Next]_vars
             PROVE  [Abstract!Next]_Seen
  BY Parts
<1>1. ASSUME NEW h \in Handler, CommitPayment(h)
      PROVE  [Abstract!Next]_Seen
  BY <1>1, PaymentMaps
<1>2. ASSUME NEW h \in Handler, CommitReversal(h)
      PROVE  [Abstract!Next]_Seen
  BY <1>2, ReversalMaps
<1>3. CASE (Sweep \/ Resend) /\ UNCHANGED <<webVars, faults>>
  BY <1>3, OutboxSteps DEF webVars, Seen
<1>4. CASE PassFails
  BY <1>4 DEF PassFails, Abort, webVars, Seen
<1>5. CASE Crash \/ UNCHANGED vars
  BY <1>5 DEF Crash, vars, webVars, outboxVars, Seen
<1>6. ASSUME NEW s \in Sale, Pay(s) \/ Reverse(s)
      PROVE  [Abstract!Next]_Seen
  BY <1>6 DEF Pay, Reverse, Issue, outboxVars, Seen
<1>7. ASSUME NEW e \in Event, Repeat(e) \/ \E h \in Handler : Receive(h, e)
      PROVE  [Abstract!Next]_Seen
  BY <1>7 DEF Repeat, Receive, outboxVars, Seen
<1>8. ASSUME NEW h \in Handler,
             Answer(h) \/ Recheck(h) \/ ReadRights(h) \/ ReadOrders(h) \/ SaveFails(h)
      PROVE  [Abstract!Next]_Seen
  BY <1>8 DEF Answer, Recheck, ReadRights, ReadOrders, SaveFails, outboxVars, Seen
<1> QED BY <1>1, <1>2, <1>3, <1>4, <1>5, <1>6, <1>7, <1>8 DEF Next, Step

-----------------------------------------------------------------------------
(***************************************************************************)
(* The theorems                                                            *)
(***************************************************************************)
LEMMA Steps == FulfilmentInv /\ [Next]_vars => FulfilmentInv'
<1> SUFFICES ASSUME WebInv, OutboxTypeOK, BatchInv, faults \in 0 .. MaxFaults, [Next]_vars
             PROVE  FulfilmentInv'
  BY Parts
<1>1. faults' \in 0 .. MaxFaults
  BY DEF Next, Pay, Reverse, Issue, Receive, Repeat, Step, Answer, CommitPayment, Recheck, ReadRights,
         ReadOrders, CommitReversal, SaveFails, Crash, PassFails, Fault, vars
<1> SUFFICES WebInv' /\ OutboxTypeOK' /\ BatchInv'
  BY <1>1, Parts DEF FulfilmentInv, WebInv, RequestTypeOK, TypeOK
<1>2. ASSUME NEW s \in Sale, Pay(s) \/ Reverse(s)
      PROVE  WebInv' /\ OutboxTypeOK' /\ BatchInv'
  BY <1>2, IssueSteps, OutboxStands DEF Pay, Reverse, Issue
<1>3. ASSUME NEW h \in Handler, NEW e \in Event, Receive(h, e)
      PROVE  WebInv' /\ OutboxTypeOK' /\ BatchInv'
  BY <1>3, ReceiveSteps, OutboxStands DEF Receive
<1>10. ASSUME NEW e \in Event, Repeat(e)
      PROVE  WebInv' /\ OutboxTypeOK' /\ BatchInv'
  BY <1>10, RepeatSteps, OutboxStands DEF Repeat
<1>4. ASSUME NEW h \in Handler, Step(h)
      PROVE  WebInv' /\ OutboxTypeOK' /\ BatchInv'
  <2>1. CASE Answer(h)
    BY <2>1, AnswerSteps, OutboxStands DEF Answer
  <2>2. CASE CommitPayment(h)
    <3>1. WebInv'
      BY <2>2, CommitPaymentSteps
    <3>2. row' \in [Item -> Row]
      <4>1. Fresh \in Row
        BY DEF Fresh, Row
      <4>2. CASE Refused(h)
        BY <2>2, <4>2 DEF CommitPayment, OutboxTypeOK
      <4>3. CASE ~Refused(h)
        BY <2>2, <4>1, <4>3 DEF CommitPayment, Grant, OutboxTypeOK
      <4> QED BY <4>2, <4>3
    <3> QED BY <2>2, <3>1, <3>2 DEF CommitPayment, WebInv, OutboxTypeOK, BatchInv
  <2>3. CASE Recheck(h)
    BY <2>3, RecheckSteps, OutboxStands DEF Recheck
  <2>4. CASE ReadRights(h)
    BY <2>4, ReadSteps, OutboxStands DEF ReadRights
  <2>5. CASE ReadOrders(h)
    BY <2>5, ReadSteps, OutboxStands DEF ReadOrders
  <2>6. CASE CommitReversal(h)
    BY <2>6, CommitReversalSteps, OutboxStands DEF CommitReversal
  <2> QED BY <1>4, <2>1, <2>2, <2>3, <2>4, <2>5, <2>6 DEF Step
<1>5. ASSUME NEW h \in Handler, SaveFails(h)
      PROVE  WebInv' /\ OutboxTypeOK' /\ BatchInv'
  BY <1>5, SaveFailsSteps, OutboxStands DEF SaveFails
<1>6. CASE (Sweep \/ Resend) /\ UNCHANGED <<webVars, faults>>
  BY <1>6, OutboxSteps, WebStands
<1>7. CASE Crash
  BY <1>7, CrashSteps, Forgetting DEF Crash, OutboxTypeOK
<1>8. CASE PassFails
  BY <1>8, OutboxSteps, WebStands DEF PassFails
<1>9. CASE UNCHANGED vars
  BY <1>9, WebStands, OutboxStands DEF vars, outboxVars
<1> QED BY <1>2, <1>3, <1>4, <1>5, <1>6, <1>7, <1>8, <1>9, <1>10 DEF Next

\* Every reachable state, whatever the provider repeats and whatever dies, is
\* one the requests may rely on.
THEOREM Invariance == Spec => []FulfilmentInv
<1>1. Init => FulfilmentInv
  BY Initially
<1>2. FulfilmentInv /\ [Next]_vars => FulfilmentInv'
  BY Steps
<1> QED BY <1>1, <1>2, PTL DEF Spec

\* A payment is fulfilled at most once, with one link for each item granted,
\* whether or not the provider's events are in order.
THEOREM FulfilledOnce == Spec => []SoldOnce
<1>1. FulfilmentInv => SoldOnce
  BY DEF FulfilmentInv
<1> QED BY <1>1, Invariance, PTL

\* A refund stands, if the provider reports it only after the payment has been
\* acknowledged.
THEOREM RefundsStand == ASSUME Ordered PROVE Spec => []RefundHonoured
<1>1. FulfilmentInv => RefundHonoured
  BY DEF FulfilmentInv
<1> QED BY <1>1, Invariance, PTL

\* A buyer sees each payment fulfilled once and each reversal take back all of
\* it, in one step each, if the provider's events are in order.
THEOREM Implementation == ASSUME Ordered PROVE Spec => ImplementsLicence
<1>1. Init => Abstract!Init
  BY InitMaps
<1>2. FulfilmentInv /\ [Next]_vars => [Abstract!Next]_Abstract!licence
  BY StepMaps DEF Seen, Abstract!licence
<1> QED BY <1>1, <1>2, Invariance, PTL DEF Spec, ImplementsLicence, Abstract!Spec
=============================================================================
