-------------------------------- MODULE Outbox --------------------------------
(***************************************************************************)
(* The delivery outbox: the rows that say which buyer is owed a download   *)
(* link (PendingDelivery), the sweeper that sends them in batches          *)
(* (DeliverySweeper, DeliveryDrain) and the operator's resend              *)
(* (OpsEndpoints.ResendAsync).                                             *)
(*                                                                         *)
(* The sweeper and the operator each work on copies of rows they have read *)
(* and save the columns they have changed; nothing compares a row with     *)
(* what it was.  Rows are queued by the module that extends this one.      *)
(***************************************************************************)
EXTENDS Naturals, Sequences, FiniteSets, Functions

CONSTANTS
  Item,          \* what can be bought: one pack of one payment
  BatchSize,     \* rows taken per pass
  MaxAttempts,   \* Delivery:MaxAttempts
  MaxResends     \* bound: how many resends the operator asks for

Row == [sent : BOOLEAN, attempts : 0 .. MaxAttempts]
Fresh == [sent |-> FALSE, attempts |-> 0]
NoRow == [sent |-> TRUE, attempts |-> MaxAttempts]

ASSUME OutboxAssumption ==
  /\ BatchSize \in Nat \ {0}
  /\ MaxAttempts \in Nat \ {0}
  /\ MaxResends \in Nat

VARIABLES
  queue,         \* the items that have a row, in the order of their ids
  row,           \* the row of each item (NoRow if it has none)
  batch,         \* what the running pass has still to send
  read,          \* the Attempts of each row as the pass has read it
  result,        \* what the pass has done for each item so far
  sweep,         \* "idle", or "send" while a pass runs
  ops,           \* the resend being served: its item and row, or none
  resends        \* the number of resends asked for

outboxVars == <<queue, row, batch, read, result, sweep, ops, resends>>

Outcome == {"none", "sent", "failed"}

OutboxInit ==
  /\ queue = <<>>
  /\ row = [i \in Item |-> NoRow]
  /\ batch = {}
  /\ read = [i \in Item |-> 0]
  /\ result = [i \in Item |-> "none"]
  /\ sweep = "idle"
  /\ ops = {}
  /\ resends = 0

-----------------------------------------------------------------------------
(***************************************************************************)
(* DeliveryDrain                                                           *)
(***************************************************************************)
\* Mutant of Due: a row that is out of attempts is tried all the same.
DueMut(i) == ~row[i].sent

Due(i) == ~row[i].sent /\ row[i].attempts < MaxAttempts

Id(i) == CHOOSE n \in DOMAIN queue : queue[n] = i

\* A pass takes the first rows that are due.
Load ==
  /\ sweep = "idle"
  /\ LET due == {i \in Range(queue) : Due(i)}
     IN  batch' = {i \in due : Cardinality({j \in due : Id(j) < Id(i)}) < BatchSize}
  /\ batch' # {}
  /\ read' = [i \in Item |-> IF i \in batch' THEN row[i].attempts ELSE 0]
  /\ sweep' = "send"
  /\ UNCHANGED <<queue, row, result, ops, resends>>

\* The sender takes the next link, or refuses it or throws.
Send(outcome) ==
  /\ sweep = "send"
  /\ outcome \in {"sent", "failed"}
  /\ \E i \in batch :
       /\ \A j \in batch : Id(i) <= Id(j)
       /\ result' = [result EXCEPT ![i] = outcome]
       /\ batch' = batch \ {i}
  /\ UNCHANGED <<queue, row, read, sweep, ops, resends>>

\* Mutant of Written: an attempt that failed is not counted.
WrittenMut(i) ==
  CASE result[i] = "none"   -> row[i]
    [] result[i] = "sent"   -> [row[i] EXCEPT !.sent = TRUE]
    [] result[i] = "failed" -> [row[i] EXCEPT !.attempts = read[i]]

\* The columns that the pass has changed in a row.
Written(i) ==
  CASE result[i] = "none"   -> row[i]
    [] result[i] = "sent"   -> [row[i] EXCEPT !.sent = TRUE]
    [] result[i] = "failed" -> [row[i] EXCEPT !.attempts = read[i] + 1]

\* What a pass leaves behind in memory: nothing.
Forget ==
  /\ batch' = {}
  /\ read' = [i \in Item |-> 0]
  /\ result' = [i \in Item |-> "none"]
  /\ sweep' = "idle"

\* One save for the whole batch.
SaveBatch ==
  /\ sweep = "send"
  /\ batch = {}
  /\ row' = [i \in Item |-> Written(i)]
  /\ Forget
  /\ UNCHANGED <<queue, ops, resends>>

\* The pass is cancelled, or its save fails: what it did is not recorded.
Abort ==
  /\ sweep = "send"
  /\ Forget
  /\ UNCHANGED <<queue, row, ops, resends>>

-----------------------------------------------------------------------------
(***************************************************************************)
(* POST /internal/ops/.../resend                                           *)
(***************************************************************************)
\* The row is read; the caller has found its entitlement not revoked.
AskResend(i) ==
  /\ ops = {}
  /\ resends < MaxResends
  /\ i \in Range(queue)
  /\ ops' = {[item |-> i, row |-> row[i]]}
  /\ resends' = resends + 1
  /\ UNCHANGED <<queue, row, batch, read, result, sweep>>

\* The columns of the row that were not those of a fresh one are reset.
Requeue ==
  /\ \E r \in ops :
       row' = [row EXCEPT ![r.item] =
                 [sent |-> @.sent /\ ~r.row.sent,
                  attempts |-> IF r.row.attempts = 0 THEN @.attempts ELSE 0]]
  /\ ops' = {}
  /\ UNCHANGED <<queue, batch, read, result, sweep, resends>>

-----------------------------------------------------------------------------
OutboxTypeOK ==
  /\ queue \in Seq(Item)
  /\ row \in [Item -> Row]
  /\ batch \subseteq Item
  /\ read \in [Item -> 0 .. MaxAttempts]
  /\ result \in [Item -> Outcome]
  /\ sweep \in {"idle", "send"}
  /\ ops \in SUBSET [item : Item, row : Row]
  /\ resends \in 0 .. MaxResends

\* A pass tries nothing that was out of attempts when it read it.
BatchInv ==
  \A i \in Item : i \in batch \/ result[i] = "failed" => read[i] < MaxAttempts
=============================================================================
