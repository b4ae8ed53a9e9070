------------------------------- MODULE Failover -------------------------------
(***************************************************************************)
(* One provider of the failover chains (FallbackOperator, operator.py, and *)
(* FallbackSearchProvider, retrieval.py), its circuit breaker in each      *)
(* process and its entry in the health file that all processes share.      *)
(*                                                                         *)
(* A read of the health file and the write that follows it are steps of    *)
(* their own.  The threads of a process exclude each other in between; of  *)
(* several processes only the probe claims do.                             *)
(***************************************************************************)
EXTENDS Breaker, Health

CONSTANTS
  Worker,      \* the threads
  Process,
  ProcOf,      \* the process of each thread
  Grounding,   \* the processes whose chain is a search chain
  MaxEvents    \* bound: how many events, and writes for other providers

ASSUME FailoverAssumption ==
  /\ ProcOf \in [Worker -> Process]
  /\ Grounding \subseteq Process
  /\ MaxEvents \in Nat

VARIABLES
  up,        \* whether the provider answers
  mark,      \* its entry in the health file
  torn,      \* whether a reader may find the file half written
  breaker,   \* its breaker in each process
  pc,        \* what each thread does next
  seen,      \* the entry a thread has read and will write back
  spaced,    \* ghost: how long the last probe claim still excludes another one
  events     \* how many events, and writes for other providers, there have been

vars == <<up, mark, torn, breaker, pc, seen, spaced, events>>

Own(w) == ProcOf[w]

Goto(w, label) == pc' = [pc EXCEPT ![w] = label]

\* Between the read and the write of a read-modify-write.
Saving(w) == pc[w] \in {"save_claim", "save_clear", "save_mark", "save_other"}

\* ProviderHealth._lock of the thread's process is free.
Unlocked(w) == \A v \in Worker : Own(v) = Own(w) => ~Saving(v)

\* What _load() may return.
Loads == IF torn THEN {mark, NoMark} ELSE {mark}

\* _save(): all processes use one temporary file, so this rename may publish
\* what another process has only begun to write.
Save(w, m) ==
  /\ mark' = m
  /\ torn' = \E v \in Worker : Own(v) # Own(w) /\ Saving(v)
  /\ seen' = [seen EXCEPT ![w] = NoMark]

Init ==
  /\ up = TRUE
  /\ mark = NoMark
  /\ torn = FALSE
  /\ breaker = [p \in Process |-> Closed]
  /\ pc = [w \in Worker |-> "idle"]
  /\ seen = [w \in Worker |-> NoMark]
  /\ spaced = 0
  /\ events = 0

-----------------------------------------------------------------------------
(***************************************************************************)
(* is_dead(name) or not br.allow()                                         *)
(***************************************************************************)
\* is_dead(): a provider without a live mark is not dead.
Ask(w) ==
  /\ pc[w] = "idle"
  /\ \E m \in Loads : Goto(w, IF Live(m) THEN "claim" ELSE "allow")
  /\ UNCHANGED <<up, mark, torn, breaker, seen, spaced, events>>

\* Mutant of Claim: the lock file is not taken, only the process's own lock.
ClaimMut(w) ==
  /\ pc[w] = "claim"
  /\ Unlocked(w)
  /\ \E m \in Loads :
       IF Due(m) THEN Goto(w, "save_claim") /\ seen' = [seen EXCEPT ![w] = m]
                 ELSE Goto(w, "idle") /\ UNCHANGED seen
  /\ UNCHANGED <<up, mark, torn, breaker, spaced, events>>

\* _claim_probe(), under both locks: one that is not due means the provider is
\* skipped.
Claim(w) ==
  /\ pc[w] = "claim"
  /\ Unlocked(w)
  /\ \A v \in Worker : pc[v] # "save_claim"
  /\ \E m \in Loads :
       IF Due(m) THEN Goto(w, "save_claim") /\ seen' = [seen EXCEPT ![w] = m]
                 ELSE Goto(w, "idle") /\ UNCHANGED seen
  /\ UNCHANGED <<up, mark, torn, breaker, spaced, events>>

SaveClaim(w) ==
  /\ pc[w] = "save_claim"
  /\ Save(w, Claimed(seen[w]))
  /\ spaced' = Spacing[1]
  /\ Goto(w, "allow")
  /\ UNCHANGED <<up, breaker, events>>

\* allow(): a refusal skips the provider, also when its probe was claimed.
Allow(w) ==
  /\ pc[w] = "allow"
  /\ LET b == HalfOpened(breaker[Own(w)]) IN
       IF Admits(b)
       THEN breaker' = [breaker EXCEPT ![Own(w)] = Admitted(b)] /\ Goto(w, "call")
       ELSE breaker' = [breaker EXCEPT ![Own(w)] = b] /\ Goto(w, "idle")
  /\ UNCHANGED <<up, mark, torn, seen, spaced, events>>

-----------------------------------------------------------------------------
(***************************************************************************)
(* The call and its outcome                                                *)
(***************************************************************************)
\* record_success()
Answer(w) ==
  /\ pc[w] = "call"
  /\ up
  /\ breaker' = [breaker EXCEPT ![Own(w)] = Closed]
  /\ Goto(w, "clear")
  /\ UNCHANGED <<up, mark, torn, seen, spaced, events>>

\* clear(): nothing is written if there is no entry.
Clear(w) ==
  /\ pc[w] = "clear"
  /\ Unlocked(w)
  /\ \E m \in Loads : Goto(w, IF m = NoMark THEN "idle" ELSE "save_clear")
  /\ UNCHANGED <<up, mark, torn, breaker, seen, spaced, events>>

SaveClear(w) ==
  /\ pc[w] = "save_clear"
  /\ Save(w, NoMark)
  /\ spaced' = 0
  /\ Goto(w, "idle")
  /\ UNCHANGED <<up, breaker, events>>

\* A transient failure: record_failure(), then br.state for the log.
Miss(w) ==
  /\ pc[w] = "call"
  /\ ~up
  /\ breaker' = [breaker EXCEPT ![Own(w)] = HalfOpened(Failed(@, FALSE))]
  /\ Goto(w, "idle")
  /\ UNCHANGED <<up, mark, torn, seen, spaced, events>>

\* The allowance is spent: record_failure(hard=True).
Exhaust(w) ==
  /\ pc[w] = "call"
  /\ ~up
  /\ breaker' = [breaker EXCEPT ![Own(w)] = Failed(@, TRUE)]
  /\ Goto(w, "mark")
  /\ UNCHANGED <<up, mark, torn, seen, spaced, events>>

\* mark_exhausted()
Mark(w) ==
  /\ pc[w] = "mark"
  /\ Unlocked(w)
  /\ \E m \in Loads : seen' = [seen EXCEPT ![w] = m]
  /\ Goto(w, "save_mark")
  /\ UNCHANGED <<up, mark, torn, breaker, spaced, events>>

SaveMark(w) ==
  /\ pc[w] = "save_mark"
  /\ \E window \in Window : Save(w, Marked(seen[w], window))
  /\ spaced' = 0
  /\ breaker' = [breaker EXCEPT ![Own(w)] = HalfOpened(@)]
  /\ Goto(w, "idle")
  /\ UNCHANGED <<up, events>>

\* A search chain asks both guards and does not call: it only wanted to know
\* whether a later provider is usable, or the provider is a backstop and an
\* earlier one has answered, or the call itself reports nothing.
Decline(w) ==
  /\ pc[w] = "call"
  /\ Own(w) \in Grounding
  /\ Goto(w, "idle")
  /\ UNCHANGED <<up, mark, torn, breaker, seen, spaced, events>>

-----------------------------------------------------------------------------
(***************************************************************************)
(* The environment                                                         *)
(***************************************************************************)
Event == events < MaxEvents /\ events' = events + 1

Toggle ==
  /\ up' = ~up
  /\ UNCHANGED <<mark, torn, breaker, pc, seen, spaced, events>>

\* mark_exhausted() or clear() of another provider: reads the whole file and
\* writes this entry back with it.
ReadOther(w) ==
  /\ Event
  /\ pc[w] = "idle"
  /\ Unlocked(w)
  /\ \E m \in Loads : seen' = [seen EXCEPT ![w] = m]
  /\ Goto(w, "save_other")
  /\ UNCHANGED <<up, mark, torn, breaker, spaced>>

SaveOther(w) ==
  /\ pc[w] = "save_other"
  /\ Save(w, seen[w])
  /\ spaced' = 0
  /\ Goto(w, "idle")
  /\ UNCHANGED <<up, breaker, events>>

\* A process is killed and started again.  A file it was writing in place of its
\* temporary file stays as it is.
Crash(p) ==
  /\ Event
  /\ LET mine == {w \in Worker : Own(w) = p}
         half == torn /\ \E w \in mine : Saving(w)
     IN /\ mark' \in IF half THEN {mark, NoMark} ELSE {mark}
        /\ torn' = (torn /\ \E w \in Worker \ mine : Saving(w))
        /\ pc' = [w \in Worker |-> IF w \in mine THEN "idle" ELSE pc[w]]
        /\ seen' = [w \in Worker |-> IF w \in mine THEN NoMark ELSE seen[w]]
  /\ breaker' = [breaker EXCEPT ![p] = Closed]
  /\ UNCHANGED <<up, spaced>>

\* A read-modify-write takes no time.
Tick ==
  /\ \A w \in Worker : ~Saving(w)
  /\ mark' = Aged(mark)
  /\ breaker' = [p \in Process |-> Cooled(breaker[p])]
  /\ spaced' = Less(spaced)
  /\ UNCHANGED <<up, torn, pc, seen, events>>

-----------------------------------------------------------------------------
\* What a thread does about the provider, a call's end included.
Step(w) ==
  \/ Ask(w) \/ Claim(w) \/ SaveClaim(w) \/ Allow(w)
  \/ Answer(w) \/ Clear(w) \/ SaveClear(w)
  \/ Miss(w) \/ Exhaust(w) \/ Mark(w) \/ SaveMark(w) \/ SaveOther(w)

Next ==
  \/ \E w \in Worker : Step(w) \/ Decline(w) \/ ReadOther(w)
  \/ \E p \in Process : Crash(p)
  \/ Toggle
  \/ Tick

Spec == Init /\ [][Next]_vars

\* Calls end, threads go on and ask again, and time passes.
Fairness == WF_vars(Tick) /\ \A w \in Worker : WF_vars(Step(w))

FairSpec == Spec /\ Fairness

-----------------------------------------------------------------------------
(***************************************************************************)
(* Properties                                                              *)
(***************************************************************************)
TypeOK ==
  /\ up \in BOOLEAN
  /\ mark \in Marks \cup {NoMark}
  /\ torn \in BOOLEAN
  /\ breaker \in [Process -> Breakers]
  /\ pc \in [Worker -> {"idle", "claim", "save_claim", "allow", "call", "clear", "save_clear",
                        "mark", "save_mark", "save_other"}]
  /\ seen \in [Worker -> Marks \cup {NoMark}]
  /\ spaced \in Nat
  /\ events \in 0 .. MaxEvents

\* A half-open breaker refuses everybody "until the probe resolves" (breaker.py):
\* where every admitted call reports, a call is under way that will resolve it.
ProbeAccounted ==
  \A p \in Process \ Grounding :
    breaker[p].probing => \E w \in Worker : Own(w) = p /\ pc[w] = "call"

\* One thread at a time is about to write a claim, and its entry was due.
ClaimInv ==
  /\ \A w \in Worker : pc[w] = "save_claim" => spaced = 0 /\ Due(seen[w])
  /\ \A v, w \in Worker : pc[v] = "save_claim" /\ pc[w] = "save_claim" => v = w
  /\ mark # NoMark => mark.probe >= spaced

\* The inductive invariant: no half-open breaker waits for a call that nobody
\* makes, and no claim comes before its time.
FailoverInv == TypeOK /\ ProbeAccounted /\ ClaimInv

\* "Exactly ONE caller is let through" (health.py): unless a failure or a success
\* is recorded in between, of this provider or of another, probe claims are a
\* spacing apart, whichever processes make them.
OneProbePerWindow ==
  [][\A w \in Worker : pc[w] = "save_claim" /\ pc'[w] = "allow" => spaced = 0]_vars

\* "A provider that recovers mid-run is picked back up" (breaker.py, retrieval.py):
\* once it answers for good, no mark benches it and the breaker of a chain whose
\* calls all report closes.
PickedUp ==
  \A p \in Process \ Grounding :
    <>[]up => <>[](breaker[p].state = "closed" /\ ~Live(mark))

\* The same of every chain.
PickedUpEverywhere ==
  \A p \in Process : <>[]up => <>[](breaker[p].state = "closed" /\ ~Live(mark))
=============================================================================
