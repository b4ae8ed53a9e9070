-------------------------- MODULE WithdrawalProofs --------------------------
(***************************************************************************)
(* No pack that was given up is forgotten, and none is taken off sale that *)
(* was not given up: for any packs, sweeps, retirements, runs and faults.  *)
(***************************************************************************)
EXTENDS Withdrawal, SequenceTheorems, TLAPS

USE WithdrawalAssumption

-----------------------------------------------------------------------------
(***************************************************************************)
(* Sequences and the queue file                                            *)
(***************************************************************************)
\* An entry that is appended is added to what the sequence holds.
LEMMA AppendRange ==
  ASSUME NEW s \in Seq(Pack), NEW p \in Pack
  PROVE  Append(s, p) \in Seq(Pack) /\ Range(Append(s, p)) = Range(s) \cup {p}
<1>1. /\ Append(s, p) \in Seq(Pack)
      /\ DOMAIN Append(s, p) = 1 .. Len(s) + 1
      /\ \A k \in 1 .. Len(s) : Append(s, p)[k] = s[k]
      /\ Append(s, p)[Len(s) + 1] = p
  OBVIOUS
<1>2. DOMAIN s = 1 .. Len(s) /\ Len(s) \in Nat
  OBVIOUS
<1>3. \A k \in 1 .. Len(s) + 1 : k \in 1 .. Len(s) \/ k = Len(s) + 1
  BY <1>2
<1>4. Len(s) + 1 \in 1 .. Len(s) + 1 /\ \A k \in 1 .. Len(s) : k \in 1 .. Len(s) + 1
  BY <1>2
<1> DEFINE t == Append(s, p)
<1> HIDE DEF t
<1>5. Range(t) \subseteq Range(s) \cup {p}
  BY <1>1, <1>2, <1>3 DEF Range, t
<1>6. Range(s) \cup {p} \subseteq Range(t)
  <2>1. \A k \in 1 .. Len(s) : s[k] \in Range(t)
    BY <1>1, <1>4 DEF Range, t
  <2>2. p \in Range(t)
    BY <1>1, <1>4 DEF Range, t
  <2> QED BY <2>1, <2>2, <1>2 DEF Range
<1> QED BY <1>1, <1>5, <1>6 DEF t

\* Its first entry and the rest are all that a sequence holds.
LEMMA HeadTailRange ==
  ASSUME NEW s \in Seq(Pack), s # <<>>
  PROVE  /\ Head(s) \in Pack /\ Tail(s) \in Seq(Pack)
         /\ Range(s) = Range(Tail(s)) \cup {Head(s)}
<1>1. /\ Len(s) \in Nat \ {0}
      /\ DOMAIN s = 1 .. Len(s)
      /\ Head(s) = s[1]
      /\ Tail(s) \in Seq(Pack)
      /\ DOMAIN Tail(s) = 1 .. Len(s) - 1
      /\ \A k \in 1 .. Len(s) - 1 : Tail(s)[k] = s[k + 1]
  OBVIOUS
<1>2. 1 \in 1 .. Len(s) /\ s[1] \in Pack
  BY <1>1
<1> DEFINE t == Tail(s)
           n == Len(s)
<1> HIDE DEF t, n
<1>3. Range(t) \subseteq Range(s)
  <2> SUFFICES ASSUME NEW k \in 1 .. n - 1
               PROVE  t[k] \in Range(s)
    BY <1>1 DEF Range, t, n
  <2>1. k + 1 \in 1 .. n
    BY <1>1 DEF n
  <2> QED BY <2>1, <1>1 DEF Range, t, n
<1>4. Range(s) \subseteq Range(t) \cup {s[1]}
  <2> SUFFICES ASSUME NEW k \in 1 .. n, k # 1
               PROVE  s[k] \in Range(t)
    BY <1>1 DEF Range, n
  <2>1. k - 1 \in 1 .. n - 1 /\ (k - 1) + 1 = k
    BY <1>1 DEF n
  <2>2. t[k - 1] = s[k]
    BY <2>1, <1>1 DEF t, n
  <2> QED BY <2>1, <2>2, <1>1 DEF Range, t, n
<1>5. s[1] \in Range(s)
  BY <1>1, <1>2 DEF Range
<1> QED BY <1>1, <1>2, <1>3, <1>4, <1>5 DEF t

LEMMA EmptyRange == Range(<<>>) = {} /\ <<>> \in Seq(Pack)
  BY DEF Range

\* append_line() adds its record, and at most the one that lacked its newline.
LEMMA AppendedFile ==
  ASSUME NEW f \in T!File, NEW p \in Pack
  PROVE  /\ T!Appended(f, p) \in T!File
         /\ Range(f.lines) \cup {p} \subseteq Range(T!Appended(f, p).lines)
         /\ Range(T!Appended(f, p).lines)
              \subseteq Range(f.lines) \cup {p} \cup ({f.rest} \cap Pack)
         /\ T!Appended(f, p).rest \notin Pack
<1>1. f.lines \in Seq(Pack)
  BY DEF T!File
<1>2. /\ T!Healed(f) \in Seq(Pack)
      /\ Range(T!Healed(f)) = Range(f.lines) \cup ({f.rest} \cap Pack)
  BY <1>1, AppendRange DEF T!Healed
<1>3. /\ Append(T!Healed(f), p) \in Seq(Pack)
      /\ Range(Append(T!Healed(f), p)) = Range(T!Healed(f)) \cup {p}
  BY <1>2, AppendRange
<1>4. /\ T!Appended(f, p).lines = Append(T!Healed(f), p)
      /\ T!Appended(f, p).rest = Nothing
      /\ T!Appended(f, p) = [lines |-> Append(T!Healed(f), p), rest |-> Nothing]
  BY DEF T!Appended
<1>5. T!Appended(f, p) \in T!File
  BY <1>3, <1>4 DEF T!File
<1> QED BY <1>2, <1>3, <1>4, <1>5

\* One that fails takes nothing away.
LEMMA TornFile ==
  ASSUME NEW f \in T!File, NEW p \in Pack, NEW g \in T!Torn(f, p)
  PROVE  /\ g \in T!File
         /\ Range(f.lines) \subseteq Range(g.lines)
         /\ Range(g.lines) \subseteq Range(f.lines) \cup ({f.rest} \cap Pack)
         /\ g.rest \in Pack => g.rest \in {p, f.rest}
<1>1. f.lines \in Seq(Pack)
  BY DEF T!File
<1>2. /\ T!Healed(f) \in Seq(Pack)
      /\ Range(T!Healed(f)) = Range(f.lines) \cup ({f.rest} \cap Pack)
  BY <1>1, AppendRange DEF T!Healed
<1>3. CASE g = f
  BY <1>3
<1>4. CASE \E t \in {Nothing, Fragment, p} : g = [lines |-> T!Healed(f), rest |-> t]
  <2>1. PICK t \in {Nothing, Fragment, p} : g = [lines |-> T!Healed(f), rest |-> t]
    BY <1>4
  <2>2. g.lines = T!Healed(f) /\ g.rest = t
    BY <2>1
  <2>3. g \in T!File
    BY <2>1, <1>2 DEF T!File
  <2> QED BY <2>2, <2>3, <1>2
<1> QED BY <1>3, <1>4 DEF T!Torn

-----------------------------------------------------------------------------
(***************************************************************************)
(* The inductive invariant                                                 *)
(***************************************************************************)
Labels == {"idle", "vet", "check", "move", "append", "drop", "patch", "take", "put"}

\* What the invariant says of the producers and what they keep.
ProducerInv ==
  /\ passing \subseteq Pack
  /\ receipt \subseteq Pack
  /\ condemned \subseteq Pack
  /\ lost \subseteq Pack
  /\ pc \in [Producer \cup Run -> Labels]
  /\ subject \in [Producer -> Pack \cup {None}]
  /\ \A w \in Producer : pc[w] = "idle" <=> subject[w] = None
  /\ \A w \in Producer : Committed(w) => subject[w] \in condemned

\* Of the queue.
QueueInv ==
  /\ queue \in T!File
  /\ Range(queue.lines) \subseteq condemned
  /\ queue.rest \in Pack => queue.rest \in condemned

\* Of the runs, the shop and the log.
RunInv ==
  /\ listed \subseteq Pack
  /\ done \subseteq Pack
  /\ todo \in [Run -> Seq(Pack)]
  /\ off \in [Run -> SUBSET Pack]
  /\ held \in [Run -> Seq(Pack)]
  /\ \A r \in Run : Range(todo[r]) \cup Range(held[r]) \subseteq condemned
  /\ \A r \in Run : off[r] \cap listed = {}
  /\ done \cap listed = {}

LEMMA Parts ==
  CoreInv <=> ProducerInv /\ QueueInv /\ RunInv /\ faults \in 0 .. MaxFaults
  BY DEF CoreInv, TypeOK, DoneMeansGone, ProducerInv, QueueInv, RunInv, Labels

LEMMA PartsNext ==
  (ProducerInv /\ QueueInv /\ RunInv /\ faults \in 0 .. MaxFaults)' => CoreInv'
  BY DEF CoreInv, TypeOK, DoneMeansGone, ProducerInv, QueueInv, RunInv, Labels

LEMMA Initially == Init => CoreInv
<1> SUFFICES ASSUME Init PROVE CoreInv
  OBVIOUS
<1>1. ProducerInv
  BY DEF Committed, Init, ProducerInv, Labels
<1>2. QueueInv
  BY EmptyRange DEF Init, QueueInv, T!Empty, T!File
<1>3. RunInv
  BY EmptyRange DEF Init, RunInv
<1>4. faults \in 0 .. MaxFaults
  BY DEF Init
<1> QED BY <1>1, <1>2, <1>3, <1>4, Parts

\* Faults are counted up to their bound.
LEMMA Bounded ==
  ASSUME faults \in 0 .. MaxFaults, Fault \/ UNCHANGED faults
  PROVE  faults' \in 0 .. MaxFaults
  BY DEF Fault

\* The producers' steps.
LEMMA ProducerStep ==
  ASSUME CoreInv, NEW w \in Producer,
         \/ \E p \in Pack : Sweep(w, p) \/ Retire(w, p)
         \/ Withdraw(w) \/ EnqueueFails(w) \/ Die(w)
  PROVE  CoreInv'
<1>0. ProducerInv /\ QueueInv /\ RunInv /\ faults \in 0 .. MaxFaults
  BY Parts
<1>1. pc[w] # "idle" => subject[w] \in Pack
  BY <1>0 DEF Committed, ProducerInv
<1>2. CASE \E p \in Pack : Sweep(w, p) \/ Retire(w, p)
  <2>1. ProducerInv'
    BY <1>0, <1>2, WithdrawalAssumption
       DEF Committed, ProducerInv, Sweep, Retire, Goto, Labels, Producer
  <2>2. QueueInv' /\ RunInv' /\ UNCHANGED faults
    BY <1>0, <1>2 DEF QueueInv, RunInv, Sweep, Retire, runVars
  <2> QED BY <2>1, <2>2, <1>0, PartsNext
<1>3. CASE Rule(w)
  <2>1. ProducerInv'
    BY <1>0, <1>1, <1>3 DEF Committed, ProducerInv, Rule, Goto, Finish, Labels, Producer
  <2>2. QueueInv' /\ RunInv' /\ UNCHANGED faults
    BY <1>0, <1>3 DEF QueueInv, RunInv, Rule, runVars
  <2> QED BY <2>1, <2>2, <1>0, PartsNext
<1>4. CASE Check(w)
  <2>1. ProducerInv'
    BY <1>0, <1>1, <1>4 DEF Committed, ProducerInv, Check, Queued, Goto, Finish, Labels, Producer
  <2>2. QueueInv' /\ RunInv' /\ UNCHANGED faults
    BY <1>0, <1>4 DEF QueueInv, RunInv, Check, runVars
  <2> QED BY <2>1, <2>2, <1>0, PartsNext
<1>5. CASE Move(w)
  <2>1. ProducerInv'
    BY <1>0, <1>1, <1>5, WithdrawalAssumption DEF Committed, ProducerInv, Move, Goto, Finish, Labels, Producer
  <2>2. QueueInv' /\ RunInv' /\ UNCHANGED faults
    BY <1>0, <1>5 DEF QueueInv, RunInv, Move, runVars
  <2> QED BY <2>1, <2>2, <1>0, PartsNext
<1>6. CASE Enqueue(w)
  <2>1. ProducerInv'
    BY <1>0, <1>1, <1>6 DEF Committed, ProducerInv, Enqueue, Queued, Goto, Finish, Labels, Producer
  <2>2. QueueInv'
    <3>1. subject[w] \in Pack /\ subject[w] \in condemned /\ condemned' = condemned
          /\ queue' = T!Appended(queue, subject[w])
      BY <1>0, <1>1, <1>6 DEF Committed, ProducerInv, Enqueue
    <3>2. /\ queue' \in T!File
          /\ Range(queue'.lines) \subseteq Range(queue.lines) \cup {subject[w]}
                                             \cup ({queue.rest} \cap Pack)
          /\ queue'.rest \notin Pack
      BY <3>1, <1>0, AppendedFile DEF QueueInv
    <3> QED BY <3>1, <3>2, <1>0 DEF QueueInv
  <2>3. RunInv' /\ UNCHANGED faults
    BY <1>0, <1>6 DEF RunInv, Enqueue, runVars
  <2> QED BY <2>1, <2>2, <2>3, <1>0, PartsNext
<1>7. CASE EnqueueFails(w)
  <2>1. ProducerInv'
    BY <1>0, <1>1, <1>7 DEF Committed, ProducerInv, EnqueueFails, Goto, Finish, Labels, Producer
  <2>2. QueueInv'
    <3>1. subject[w] \in Pack /\ subject[w] \in condemned /\ condemned' = condemned
          /\ queue' \in T!Torn(queue, subject[w])
      BY <1>0, <1>1, <1>7 DEF Committed, ProducerInv, EnqueueFails
    <3>2. /\ queue' \in T!File
          /\ Range(queue'.lines) \subseteq Range(queue.lines) \cup ({queue.rest} \cap Pack)
          /\ queue'.rest \in Pack => queue'.rest \in {subject[w], queue.rest}
      BY <3>1, <1>0, TornFile DEF QueueInv
    <3> QED BY <3>1, <3>2, <1>0 DEF QueueInv
  <2>3. RunInv' /\ Fault
    BY <1>0, <1>7 DEF RunInv, EnqueueFails, runVars
  <2> QED BY <2>1, <2>2, <2>3, <1>0, PartsNext, Bounded
<1>8. CASE Drop(w)
  <2>1. ProducerInv'
    BY <1>0, <1>1, <1>8 DEF Committed, ProducerInv, Drop, Goto, Finish, Labels, Producer
  <2>2. QueueInv' /\ RunInv' /\ UNCHANGED faults
    BY <1>0, <1>8 DEF QueueInv, RunInv, Drop, runVars
  <2> QED BY <2>1, <2>2, <1>0, PartsNext
<1>9. CASE Die(w)
  <2>1. ProducerInv'
    BY <1>0, <1>1, <1>9 DEF Committed, ProducerInv, Die, Goto, Finish, Labels, Producer
  <2>2. QueueInv' /\ RunInv' /\ Fault
    BY <1>0, <1>9 DEF QueueInv, RunInv, Die, runVars
  <2> QED BY <2>1, <2>2, <1>0, PartsNext, Bounded
<1> QED BY <1>2, <1>3, <1>4, <1>5, <1>6, <1>7, <1>8, <1>9 DEF Withdraw

\* The runs' steps.
LEMMA RunStep ==
  ASSUME CoreInv, NEW r \in Run,
         \/ Unlist(r)
         \/ Refuse(r) \/ LogFails(r) \/ PutBackFails(r) \/ Kill(r)
  PROVE  CoreInv'
<1>0. ProducerInv /\ QueueInv /\ RunInv /\ faults \in 0 .. MaxFaults
  BY Parts
<1>1. r \notin Producer
  BY DEF Producer
<1>2. todo[r] \in Seq(Pack) /\ held[r] \in Seq(Pack)
  BY <1>0 DEF RunInv
<1>3. todo[r] # <<>> => /\ Head(todo[r]) \in Pack /\ Tail(todo[r]) \in Seq(Pack)
                        /\ Range(todo[r]) = Range(Tail(todo[r])) \cup {Head(todo[r])}
  BY <1>2, HeadTailRange
<1>4. held[r] # <<>> => /\ Head(held[r]) \in Pack /\ Tail(held[r]) \in Seq(Pack)
                        /\ Range(held[r]) = Range(Tail(held[r])) \cup {Head(held[r])}
  BY <1>2, HeadTailRange
<1>5. CASE Start(r)
  <2>1. ProducerInv'
    BY <1>0, <1>1, <1>5, WithdrawalAssumption DEF Committed, ProducerInv, Start, engineVars, Goto, Labels
  <2>2. QueueInv' /\ UNCHANGED faults
    BY <1>0, <1>5 DEF QueueInv, Start, engineVars
  <2>3. queue.lines \in Seq(Pack)
    BY <1>0 DEF QueueInv, T!File
  <2>4. RunInv'
    BY <1>0, <1>5, <2>3 DEF RunInv, QueueInv, Start, engineVars
  <2> QED BY <2>1, <2>2, <2>4, <1>0, PartsNext
<1>6. CASE Patch(r)
  <2>1. ProducerInv' /\ QueueInv' /\ UNCHANGED faults
    BY <1>0, <1>6 DEF Committed, ProducerInv, QueueInv, Patch, engineVars
  <2>2. RunInv'
    BY <1>0, <1>3, <1>6 DEF RunInv, Patch, engineVars
  <2> QED BY <2>1, <2>2, <1>0, PartsNext
<1>7. CASE Refuse(r)
  <2>1. ProducerInv' /\ QueueInv' /\ Fault
    BY <1>0, <1>7 DEF Committed, ProducerInv, QueueInv, Refuse, engineVars
  <2>2. RunInv'
    BY <1>0, <1>3, <1>7 DEF RunInv, Refuse, engineVars
  <2> QED BY <2>1, <2>2, <1>0, PartsNext, Bounded
<1>8. ASSUME Stop(r), UNCHANGED <<passing, receipt, subject, condemned, listed>>,
             Forget(r) \/ UNCHANGED lost, done' \subseteq done \cup off[r]
      PROVE  ProducerInv' /\ RunInv'
  <2>1. lost' \subseteq Pack
    <3>1. Range(held[r]) \subseteq Pack
      BY <1>0 DEF Committed, ProducerInv, RunInv
    <3> QED BY <1>0, <1>8, <3>1 DEF Committed, ProducerInv, Forget
  <2>2. ProducerInv'
    BY <1>0, <1>1, <1>8, <2>1 DEF Committed, ProducerInv, Stop, Goto, Labels
  <2>3. RunInv'
    BY <1>0, <1>8, EmptyRange DEF RunInv, Stop
  <2> QED BY <2>2, <2>3
<1>9. CASE Log(r)
  <2>1. QueueInv' /\ UNCHANGED faults
    BY <1>0, <1>9 DEF QueueInv, Log, engineVars
  <2>2. CASE off[r] = {}
    <3>1. ProducerInv' /\ RunInv'
      BY <1>8, <1>9, <2>2 DEF Log, engineVars
    <3> QED BY <2>1, <3>1, <1>0, PartsNext
  <2>3. CASE off[r] # {}
    <3>1. ProducerInv'
      BY <1>0, <1>1, <1>9, <2>3 DEF Committed, ProducerInv, Log, engineVars, Goto, Labels
    <3>2. RunInv'
      BY <1>0, <1>9, <2>3 DEF RunInv, Log, engineVars, runVars
    <3> QED BY <2>1, <3>1, <3>2, <1>0, PartsNext
  <2> QED BY <2>2, <2>3
<1>10. CASE LogFails(r)
  <2>1. QueueInv' /\ Fault
    BY <1>0, <1>10 DEF QueueInv, LogFails, engineVars
  <2>2. ProducerInv' /\ RunInv'
    BY <1>8, <1>10 DEF LogFails, engineVars
  <2> QED BY <2>1, <2>2, <1>0, PartsNext, Bounded
<1>11. CASE Take(r)
  <2>1. queue.lines \in Seq(Pack) /\ Range(queue.lines) \subseteq condemned
    BY <1>0 DEF QueueInv, T!File
  <2>2. ProducerInv' /\ UNCHANGED faults
    BY <1>0, <1>1, <1>11 DEF Committed, ProducerInv, Take, engineVars, Goto, Labels
  <2>3. QueueInv'
    BY <1>0, <1>11, EmptyRange DEF QueueInv, Take, T!Consumed, T!File, engineVars
  <2>4. RunInv'
    BY <1>0, <1>11, <2>1 DEF RunInv, Take, engineVars
  <2> QED BY <2>2, <2>3, <2>4, <1>0, PartsNext
<1>12. CASE PutBack(r)
  <2>1. ProducerInv' /\ UNCHANGED faults
    BY <1>0, <1>12 DEF Committed, ProducerInv, PutBack, engineVars
  <2>2. Head(held[r]) \in Pack /\ Head(held[r]) \in condemned
    BY <1>0, <1>4, <1>12 DEF RunInv, PutBack
  <2>3. QueueInv'
    <3>1. CASE queue' = queue
      BY <1>0, <1>12, <3>1 DEF QueueInv, PutBack, engineVars
    <3>2. CASE queue' = T!Appended(queue, Head(held[r]))
      <4>1. /\ queue' \in T!File
            /\ Range(queue'.lines) \subseteq Range(queue.lines) \cup {Head(held[r])}
                                               \cup ({queue.rest} \cap Pack)
            /\ queue'.rest \notin Pack
        BY <1>0, <2>2, <3>2, AppendedFile DEF QueueInv
      <4> QED BY <1>0, <1>12, <2>2, <4>1 DEF QueueInv, PutBack, engineVars
    <3> QED BY <1>12, <3>1, <3>2 DEF PutBack
  <2>4. RunInv'
    BY <1>0, <1>4, <1>12 DEF RunInv, PutBack, engineVars
  <2> QED BY <2>1, <2>3, <2>4, <1>0, PartsNext
<1>13. CASE Leave(r)
  <2>1. QueueInv' /\ UNCHANGED faults
    BY <1>0, <1>13 DEF QueueInv, Leave, engineVars
  <2>2. ProducerInv' /\ RunInv'
    BY <1>8, <1>13 DEF Leave, engineVars
  <2> QED BY <2>1, <2>2, <1>0, PartsNext
<1>14. CASE PutBackFails(r)
  <2>1. Head(held[r]) \in Pack /\ Head(held[r]) \in condemned
    BY <1>0, <1>4, <1>14 DEF RunInv, PutBackFails
  <2>2. QueueInv'
    <3>1. /\ queue' \in T!File
          /\ Range(queue'.lines) \subseteq Range(queue.lines) \cup ({queue.rest} \cap Pack)
          /\ queue'.rest \in Pack => queue'.rest \in {Head(held[r]), queue.rest}
      BY <1>0, <1>14, <2>1, TornFile DEF QueueInv, PutBackFails
    <3> QED BY <1>0, <1>14, <2>1, <3>1 DEF QueueInv, PutBackFails, engineVars
  <2>3. ProducerInv' /\ RunInv' /\ Fault
    BY <1>8, <1>14 DEF PutBackFails, Forget
  <2> QED BY <2>2, <2>3, <1>0, PartsNext, Bounded
<1>15. CASE Kill(r)
  <2>1. QueueInv' /\ Fault
    BY <1>0, <1>15 DEF QueueInv, Kill, engineVars
  <2>2. ProducerInv' /\ RunInv'
    BY <1>8, <1>15 DEF Kill, Forget
  <2> QED BY <2>1, <2>2, <1>0, PartsNext, Bounded
<1> QED BY <1>5, <1>6, <1>7, <1>9, <1>10, <1>11, <1>12, <1>13, <1>14, <1>15 DEF Unlist

LEMMA Step ==
  ASSUME CoreInv, [Next]_vars
  PROVE  CoreInv'
<1>1. CASE UNCHANGED vars
  BY <1>1, Parts, PartsNext
     DEF Committed, vars, engineVars, runVars, ProducerInv, QueueInv, RunInv
<1>2. CASE Next
  BY <1>2, ProducerStep, RunStep DEF Next
<1> QED BY <1>1, <1>2

\* What a run holds, and what has no receipt any more.
LEMMA LinkStep ==
  ASSUME CoreInv, LinkInv, [Next]_vars
  PROVE  LinkInv'
<1>0. /\ \A w \in Producer : w \notin Run
      /\ pc \in [Producer \cup Run -> Labels]
      /\ held \in [Run -> Seq(Pack)]
  BY Parts DEF Producer, ProducerInv, RunInv
<1>1. CASE UNCHANGED vars
  BY <1>1 DEF LinkInv, vars, engineVars, runVars
<1>2. ASSUME NEW w \in Producer,
             \/ \E p \in Pack : Sweep(w, p) \/ Retire(w, p)
             \/ Withdraw(w) \/ EnqueueFails(w) \/ Die(w)
      PROVE  LinkInv'
  <2>1. /\ \A r \in Run : pc'[r] = pc[r]
        /\ held' = held /\ listed' = listed
    BY <1>0, <1>2 DEF Sweep, Retire, Withdraw, Rule, Check, Queued, Move, Enqueue, Drop,
                      EnqueueFails, Die, Goto, Finish, runVars
  <2>2. \A x \in Producer : pc'[x] = "vet" => x \in Sweeper
    BY <1>0, <1>2 DEF LinkInv, Sweep, Retire, Withdraw, Rule, Check, Queued, Move, Enqueue, Drop,
                      EnqueueFails, Die, Goto, Finish
  <2>3. receipt \cup condemned \subseteq receipt' \cup condemned'
    <3>1. CASE Move(w)
      <4>1. w \in Sweeper => subject[w] \in condemned
        BY <3>1, Parts DEF ProducerInv, Committed, Move
      <4> QED BY <3>1, <4>1 DEF Move, Producer
    <3>2. CASE ~Move(w)
      BY <1>2, <3>2 DEF Sweep, Retire, Withdraw, Rule, Check, Enqueue, Drop, EnqueueFails, Die
    <3> QED BY <3>1, <3>2
  <2> QED BY <2>1, <2>2, <2>3 DEF LinkInv
<1>3. ASSUME NEW r \in Run,
             Unlist(r) \/ Refuse(r) \/ LogFails(r) \/ PutBackFails(r) \/ Kill(r)
      PROVE  LinkInv'
  <2>1. receipt' = receipt /\ condemned' = condemned /\ listed' \subseteq listed
    BY <1>3 DEF Unlist, Start, Patch, Refuse, Log, LogFails, Take, PutBack, Leave,
                PutBackFails, Kill, Forget, Stop, engineVars
  <2>2. \A x \in Producer : pc'[x] = pc[x]
    BY <1>0, <1>3 DEF Unlist, Start, Patch, Refuse, Log, LogFails, Take, PutBack,
                      Leave, PutBackFails, Kill, Stop, Goto
  <2>3. \A x \in Run : pc'[x] # "put" => held'[x] = <<>>
    BY <1>0, <1>3 DEF LinkInv, Unlist, Start, Patch, Refuse, Log, LogFails, Take, PutBack,
                      Leave, PutBackFails, Kill, Stop, Goto, runVars
  <2> QED BY <2>1, <2>2, <2>3 DEF LinkInv
<1> QED BY <1>1, <1>2, <1>3 DEF Next

\* The invariant holds in every reachable state, in every environment.
THEOREM Invariance == Spec => []WithdrawalInv
<1>1. Init => WithdrawalInv
  <2>1. Init => LinkInv
    BY DEF Init, LinkInv
  <2> QED BY <2>1, Initially DEF WithdrawalInv
<1>2. WithdrawalInv /\ [Next]_vars => WithdrawalInv'
  BY Step, LinkStep DEF WithdrawalInv
<1> QED BY <1>1, <1>2, PTL DEF Spec

-----------------------------------------------------------------------------
(***************************************************************************)
(* What goes off sale                                                      *)
(***************************************************************************)
\* In every environment only a pack that was given up goes off sale: the shop
\* is asked for nothing but entries, and those are written for such packs.
THEOREM NothingElseDelisted == Spec => OnlyCondemned
<1> DEFINE Delisted == \A p \in listed \ listed' : p \in condemned
<1>1. WithdrawalInv /\ [Next]_vars => [Delisted]_vars
  <2> SUFFICES ASSUME WithdrawalInv, Next
               PROVE  Delisted
    OBVIOUS
  <2>1. RunInv
    BY Parts DEF WithdrawalInv
  <2>2. CASE \E r \in Run : Patch(r) \/ Refuse(r)
    <3>1. PICK r \in Run : Patch(r) \/ Refuse(r)
      BY <2>2
    <3>2. todo[r] \in Seq(Pack) /\ todo[r] # <<>> /\ Range(todo[r]) \subseteq condemned
      BY <2>1, <3>1 DEF RunInv, Patch, Refuse
    <3>3. Head(todo[r]) \in condemned
      BY <3>2, HeadTailRange
    <3> QED BY <3>1, <3>3 DEF Patch, Refuse
  <2>3. CASE \E w \in Producer : \/ \E p \in Pack : Sweep(w, p) \/ Retire(w, p)
                                 \/ Withdraw(w) \/ EnqueueFails(w) \/ Die(w)
    BY <2>3 DEF Sweep, Retire, Withdraw, Rule, Check, Move, Enqueue, Drop, EnqueueFails, Die
  <2>4. CASE \E r \in Run : \/ Start(r) \/ Log(r) \/ Take(r) \/ PutBack(r) \/ Leave(r)
                            \/ LogFails(r) \/ PutBackFails(r) \/ Kill(r)
    BY <2>4 DEF Start, Log, Take, PutBack, Leave, LogFails, PutBackFails, Kill
  <2> QED BY <2>2, <2>3, <2>4 DEF Next, Unlist
<1> QED BY <1>1, Invariance, PTL DEF Spec, OnlyCondemned

-----------------------------------------------------------------------------
(***************************************************************************)
(* What is not forgotten                                                   *)
(***************************************************************************)

\* What every step needs of the invariant.
LEMMA Facts ==
  ASSUME WithdrawalInv
  PROVE  /\ \A w \in Producer : w \notin Run
         /\ pc \in [Producer \cup Run -> Labels]
         /\ subject \in [Producer -> Pack \cup {None}]
         /\ \A w \in Producer : pc[w] # "idle" => subject[w] \in Pack
         /\ queue \in T!File /\ queue.lines \in Seq(Pack)
         /\ held \in [Run -> Seq(Pack)]
         /\ receipt \subseteq Pack /\ condemned \subseteq Pack
         /\ \A r \in Run : off[r] \cap listed = {}
         /\ off \in [Run -> SUBSET Pack]
         /\ LinkInv
  BY Parts DEF WithdrawalInv, ProducerInv, QueueInv, RunInv, Producer, T!File

\* What a producer does to the queue takes nothing out of it.
LEMMA QueueGrows ==
  ASSUME WithdrawalInv, NEW w \in Producer,
         \/ \E p \in Pack : Sweep(w, p) \/ Retire(w, p)
         \/ Withdraw(w) \/ EnqueueFails(w) \/ Die(w)
  PROVE  /\ Range(queue.lines) \subseteq Range(queue'.lines)
         /\ Enqueue(w) => subject[w] \in Range(queue'.lines)
<1>1. CASE Enqueue(w)
  <2>1. subject[w] \in Pack /\ queue' = T!Appended(queue, subject[w])
    BY <1>1, Facts DEF Enqueue
  <2> QED BY <2>1, Facts, AppendedFile
<1>2. CASE EnqueueFails(w)
  <2>1. subject[w] \in Pack /\ queue' \in T!Torn(queue, subject[w])
    BY <1>2, Facts DEF EnqueueFails
  <2>2. ~Enqueue(w)
    <3>1. faults \in 0 .. MaxFaults
      BY Parts DEF WithdrawalInv
    <3> QED BY <1>2, <3>1 DEF EnqueueFails, Enqueue, Fault
  <2> QED BY <2>1, <2>2, Facts, TornFile
<1>3. CASE ~Enqueue(w) /\ ~EnqueueFails(w)
  BY <1>3 DEF Sweep, Retire, Withdraw, Rule, Check, Move, Drop, Die
<1> QED BY <1>1, <1>2, <1>3

\* No step of a producer forgets a pack.
LEMMA ProducerKeeps ==
  ASSUME WithdrawalInv, Accounted, NEW w \in Producer,
         \/ \E p \in Pack : Sweep(w, p) \/ Retire(w, p)
         \/ Withdraw(w) \/ EnqueueFails(w) \/ Die(w)
  PROVE  Accounted'
<1> SUFFICES ASSUME NEW p \in condemned', p \in listed', p \notin lost'
             PROVE  Pending(p)'
  BY DEF Accounted
<1>1. /\ listed' = listed /\ held' = held
      /\ lost \subseteq lost' /\ p \in Pack
  BY Facts DEF Sweep, Retire, Withdraw, Rule, Check, Move, Enqueue, Drop, EnqueueFails, Die, runVars
<1>2. \A x \in Producer : x # w => pc'[x] = pc[x] /\ subject'[x] = subject[x]
  BY Facts DEF Sweep, Retire, Withdraw, Rule, Check, Queued, Move, Enqueue, Drop,
               EnqueueFails, Die, Goto, Finish
<1>3. \/ receipt' = receipt
      \/ /\ receipt' = receipt \ {subject[w]}
         /\ pc'[w] = "append" /\ subject'[w] = subject[w]
  BY Facts DEF Sweep, Retire, Withdraw, Rule, Check, Move, Enqueue, Drop, EnqueueFails, Die, Goto
<1>4. CASE InHand(w, p)
  <2>1. /\ subject[w] = p /\ pc[w] \in {"append", "check", "move"}
        /\ pc[w] # "append" => w \in Sweeper /\ p \in receipt
    BY <1>4 DEF InHand
  <2>2. ~EnqueueFails(w) /\ ~Die(w)
    BY <1>1, <1>4, <2>1 DEF EnqueueFails, Die
  <2>3. CASE Enqueue(w)
    BY <2>1, <2>3, QueueGrows DEF Pending
  <2>4. CASE Check(w) \/ Move(w)
    <3>1. InHand(w, p)'
      BY <2>1, <2>4, Facts DEF Check, Move, Goto, InHand
    <3> QED BY <3>1 DEF Pending
  <2> QED BY <2>1, <2>2, <2>3, <2>4 DEF Sweep, Retire, Withdraw, Rule, Drop
<1>5. CASE ~InHand(w, p) /\ p \in condemned
  <2>1. Pending(p)
    BY <1>1, <1>5 DEF Accounted
  <2>2. CASE p \in Range(queue.lines) \/ \E r \in Run : p \in Range(held[r])
    BY <1>1, <2>2, QueueGrows DEF Pending
  <2>3. CASE \E x \in Producer : InHand(x, p)
    <3>1. PICK x \in Producer : x # w /\ InHand(x, p)
      BY <1>5, <2>3
    <3>2. InHand(x, p)' \/ InHand(w, p)'
      BY <1>2, <1>3, <3>1 DEF InHand
    <3> QED BY <3>1, <3>2 DEF Pending
  <2> QED BY <2>1, <2>2, <2>3 DEF Pending
<1>6. CASE ~InHand(w, p) /\ p \notin condemned
  <2>1. p \in receipt
    BY <1>1, <1>6, Facts DEF LinkInv
  <2>2. \/ Rule(w) /\ pc'[w] = "check" /\ subject[w] = p /\ subject'[w] = p
        \/ Move(w) /\ pc'[w] = "append" /\ subject[w] = p /\ subject'[w] = p
    BY <1>6, Facts DEF Sweep, Retire, Withdraw, Rule, Check, Move, Enqueue, Drop,
                       EnqueueFails, Die, Goto
  <2>3. CASE Rule(w) /\ pc'[w] = "check" /\ subject'[w] = p
    <3>1. w \in Sweeper /\ receipt' = receipt
      BY <2>3, Facts DEF LinkInv, Rule
    <3> QED BY <2>1, <2>3, <3>1 DEF Pending, InHand
  <2>4. CASE pc'[w] = "append" /\ subject'[w] = p
    BY <2>4 DEF Pending, InHand
  <2> QED BY <2>2, <2>3, <2>4
<1> QED BY <1>4, <1>5, <1>6

\* No step of a run does: what it takes out it puts back or has seen off sale.
LEMMA RunKeeps ==
  ASSUME WithdrawalInv, Accounted, NEW r \in Run,
         Unlist(r) \/ Refuse(r) \/ LogFails(r) \/ PutBackFails(r) \/ Kill(r)
  PROVE  Accounted'
<1> SUFFICES ASSUME NEW p \in condemned', p \in listed', p \notin lost'
             PROVE  Pending(p)'
  BY DEF Accounted
<1>1. /\ receipt' = receipt /\ subject' = subject /\ condemned' = condemned
      /\ listed' \subseteq listed /\ lost \subseteq lost'
      /\ \A x \in Producer : pc'[x] = pc[x]
      /\ \A x \in Run : x # r => held'[x] = held[x]
  BY Facts DEF Unlist, Start, Patch, Refuse, Log, LogFails, Take, PutBack, Leave,
               PutBackFails, Kill, Forget, Stop, Goto, engineVars, runVars
<1>2. Pending(p) /\ p \in Pack /\ p \in listed
  BY <1>1, Facts DEF Accounted
<1>3. CASE \E x \in Producer : InHand(x, p)
  BY <1>1, <1>3 DEF InHand, Pending
<1>4. CASE \E x \in Run : x # r /\ p \in Range(held[x])
  BY <1>1, <1>4 DEF Pending
<1>5. CASE p \in Range(queue.lines)
  <2>1. CASE Take(r)
    BY <1>5, <2>1, Facts DEF Take, Pending
  <2>2. CASE PutBack(r) /\ queue' # queue
    <3>1. Head(held[r]) \in Pack /\ queue' = T!Appended(queue, Head(held[r]))
      BY <2>2, Facts, HeadTailRange DEF PutBack
    <3> QED BY <1>5, <3>1, Facts, AppendedFile DEF Pending
  <2>3. CASE PutBackFails(r)
    <3>1. Head(held[r]) \in Pack /\ queue' \in T!Torn(queue, Head(held[r]))
      BY <2>3, Facts, HeadTailRange DEF PutBackFails
    <3> QED BY <1>5, <3>1, Facts, TornFile DEF Pending
  <2>4. CASE queue' = queue
    BY <1>5, <2>4 DEF Pending
  <2> QED BY <2>1, <2>2, <2>3, <2>4
          DEF Unlist, Start, Patch, Refuse, Log, LogFails, Leave, Kill
<1>6. CASE p \in Range(held[r])
  <2>1. pc[r] = "put" /\ held[r] # <<>> /\ p \notin off[r]
    BY <1>2, <1>6, Facts, EmptyRange DEF LinkInv
  <2>2. ~PutBackFails(r) /\ ~Kill(r)
    BY <1>6, <2>1 DEF PutBackFails, Kill, Forget
  <2>3. PutBack(r)
    BY <2>1, <2>2 DEF Unlist, Start, Patch, Refuse, Log, LogFails, Take, Leave
  <2>4. CASE p \in Range(Tail(held[r]))
    BY <2>3, <2>4, Facts DEF PutBack, Pending
  <2>5. CASE p = Head(held[r])
    <3>1. queue' = T!Appended(queue, p)
      BY <2>1, <2>3, <2>5 DEF PutBack
    <3> QED BY <1>2, <3>1, Facts, AppendedFile DEF Pending
  <2>6. Range(held[r]) = Range(Tail(held[r])) \cup {Head(held[r])}
    BY <2>1, Facts, HeadTailRange
  <2> QED BY <1>6, <2>4, <2>5, <2>6
<1> QED BY <1>2, <1>3, <1>4, <1>5, <1>6 DEF Pending

\* Whatever fails, overlaps or is killed: a pack that was given up and is on
\* sale has its entry on the way, but for those lost in the two windows.
THEOREM NothingForgotten == Spec => []Accounted
<1>1. Init => Accounted
  BY DEF Init, Accounted
<1>2. WithdrawalInv /\ Accounted /\ [Next]_vars => Accounted'
  <2> SUFFICES ASSUME WithdrawalInv, Accounted, [Next]_vars
               PROVE  Accounted'
    OBVIOUS
  <2>1. CASE UNCHANGED vars
    BY <2>1 DEF Accounted, Pending, InHand, vars, engineVars, runVars
  <2>2. CASE Next
    BY <2>2, ProducerKeeps, RunKeeps DEF Next
  <2> QED BY <2>1, <2>2
<1> QED BY <1>1, <1>2, Invariance, PTL DEF Spec

=============================================================================
