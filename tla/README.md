# Verification of prospector: the engine and its shop

The prospector engine generates business ideas, vets each one with language models and web
searches, and publishes the survivors to a shop. It runs as several processes over one directory
(`store/`): a scheduler tick that generates, one or more consumers that drain the backlog,
operators who run `vet --resume` by hand, and publishers. They coordinate through a SQLite index,
lock files, small JSON files and nothing else. The shop (`store_platform/`) is a web service over
one database: it lists packs, sells them through a payment provider, mails download links and takes
packs off sale again when the engine no longer stands by them. This directory holds TLA+ models of
that coordination, TLC runs over small instances of them, and TLAPS proofs for any size.

Paths below are relative to `src/prospector/` for the engine and to
`src/store_platform/src/Store.Api/` for the shop unless they say otherwise.

## 1. Inventory

| Component | State it keeps | Operations | Interacts with | What makes it correct |
|---|---|---|---|---|
| Claim lock (`claim_lock.py`) | a lock file and a `.steal` file per (candidate, purpose); a token per held key | `claim`, `_expire`, `release`, `claiming` | publication, decay re-vets | one holder; an expired claim can be stolen once; a dead holder or thief blocks nobody for ever |
| Queue lease and save (`store.py`) | index row with `lease_owner`, `lease_until`; `<id>.<decision>.json` and its `.tmp` | `claim`, `release`, `leased`, `get`, `save` | drain passes, orphan recovery, decay | one worker per row; a row always has its file; saves do not collide |
| Drain pass (`run.py`: `drain_survey`, `_drop_leased`, `_cmd_resume`) | selection, owner string, completion loop | survey, filter, re-vet, tally | store, attempt ledger, publication | no row vetted twice, none stranded, every workable row returns |
| Recording a publication (`run.py`: `publish_and_record`) | publish claim, dossier status | claim, publish, second save | claim lock, publication | one publisher per candidate |
| Publication (`src/publish/publish.py`, `bridge.py`) | in-flight marker, listing receipt, the provider's price object | mark, gates, price, reuse or mint, post, receipt | the catalogue row, the payment provider | a trace of every publication remains; no second price is charged |
| In-flight ledger (`inflight.py`, `_recover_orphans`) | one record per vet under way, `.recovering` markers | `open_`, `close`, `claim`, `release_claim`, recovery | drain, store | a killed vet is found again, once |
| Attempt ledger (`drain_state.py`) | JSON of counts, `.lock`, `.tmp` | `load`, `record_unresolved`, `forget` | drain survey, backlog brake | no lost increment, no resurrected count |
| Provider health (`health.py`) | JSON of `dead_until`, `probe_at`, `strikes` | `is_dead`, `_claim_probe`, `mark_exhausted`, `clear` | every brain call of every process | one prober per slot; recovery is noticed in bounded time |
| Circuit breaker (`breaker.py`) | state, failure count, probe flag | `allow`, `record_success`, `record_failure` | fallback chain, retrieval | one probe at a time; a tripped provider comes back |
| Fallback chain (`operator.py`), retrieval failover (`retrieval.py`) | chain position, health and breaker of each | `_raw`, `search` | breaker, health | exhausted only when all are; provisional flag is right |
| Consumer loop (`consumer.py`) | stop flag, blocked streak, heartbeat, decay stamp | one pass, sleep, decay | drain pass | stops between rows; never spins; decay runs |
| Scheduler (`scheduler/`) | tick guard, backlog brake | generate, brake | attempt ledger, survey | the brake always releases |
| JSONL files (`jsonl_atomic.py`) | append-only files, flock | `append_line`, `consume_jsonl` | logs, unlist queue | no torn line, no lost record |
| Withdrawal (`decay.py`, `src/tools/retire_rotted_passes.py`, `src/tools/unlist_killed.py`, the tick) | `pending_unlist.jsonl`, its done log, archived receipts | sweep, retire, enqueue, unlist, put back | JSONL files, the catalogue row | a pack that was given up goes off sale; no other does |
| CLI governor (`cli_governor.py`), usage wall | n flock slots, a wall file | acquire, release | brain calls | at most n calls |
| Kill decay (`kill_decay.py`) | decay stamps, re-vet claim | sweep, re-vet | claim lock, store | no re-vet twice |
| Decision logic (`verify.py`, `kill_filter.py`, `pass_ceiling.py`, `score.py`, `dossier.py`) | the results of one vet so far | check, early stop, challenge, score, decide | searches, brains, publication | no KILL or PASS on a failure; the early stop loses no PASS |
| Batch pool (`run.py`: `run_signal`) | one future per candidate, the streak of outages, two rails | submit, take, cancel, park, halt | vets, store, scheduler | no candidate that was paid for is lost or discarded |
| Catalogue row (`Program.cs`: `POST /internal/catalog`, `PATCH .../listing`, `PATCH .../price`) | price, price pointer, content key, listed | upsert, list, re-price | publication, withdrawal, payment provider | what is on sale can be delivered and is charged as shown |
| Pricing (`Pack.cs`, `PATCH .../price`, `CheckoutEndpoints.cs`) | price and floor in two currencies, one drain clock | rise, cut, checkout, floor | buyers, fulfilment | who pays what was asked is never refused |
| Webhooks and fulfilment (`WebhookEndpoints.cs`, `FulfilmentService.cs`) | events, orders, entitlements, audits | grant, revoke | payment provider, outbox | granted exactly once, revoked for good |
| Delivery outbox (`DeliverySweeper`, `DeliveryDrain.cs`, `OpsEndpoints.cs`) | pending deliveries and their attempts | sweep, send, resend | fulfilment, mail | every link goes out or is abandoned |
| Downloads (`DeliveryEndpoints.cs`), accounts, catalogue pages | a count per entitlement | download | entitlements, storage | the cap on downloads |

What is hard: everything is shared by unrelated processes that are killed routinely (the code says
consumers are SIGKILLed because they ignore SIGTERM mid-wave); every protection is a file or a
column that can outlive its owner, so each needs a rule for taking it from the dead, and each rule
is a race with the living; a vet lasts up to an hour, so whatever was read before it is stale
after it. In the shop the same happens at every `await`: a request reads a row, asks a payment
provider, and saves the columns it changed over whatever another request has saved meanwhile, while
the provider repeats its events until they are answered, in no order the shop can count on.

## 2. Plan

Order, the most important behaviour first:

1. `ClaimLock` (done): the lock every paid action relies on, with `Lease` as its specification.
2. `QueueLease` (done): the drain on one row, with saves and publication; implements `Lease` too.
3. `Inflight` (done): records, recovery markers, `_recover_orphans`, with the at-least-once
   `WorkQueue` as its specification.
4. `Breaker`, `Health` and their composition `Failover` (done), for one provider: single prober,
   eventual recovery. Later: several providers, where a chain gives up only when all are spent.
5. `Pricing` (done): the floor of a payment against a price that moves while payments are under way.
6. `Fulfilment` over `Outbox` (done): from a payment to a download link and back, with `Licence` as
   its specification.
7. `Withdrawal` over `Trail` (done): from a ruling to a pack that is off sale.
8. `Publication` (done): from a pack to a row that can be sold, and the doors that change the row.
9. `Vetting` (done): one vet from its first check to the decision that is filed.
10. `VetPool` (done): the pool that vets a batch, and the rails that stop it half way.
11. Left: `DrainLedger` (the read-modify-write of the attempt counts under its lock, and the brake
    that reads them), the consumer loop (stop flag, blocked streak), the governor's slots, a chain
    of several providers, the pool of the drain pass. Section 6 says what keeps each out.

Abstract specifications worth stating: the lease and the work queue (done), an atomic counter map
for the ledger. Theorems worth proving: type correctness and the mutual exclusion of every lock;
that each protocol implements its abstract specification; that a component's invariant survives
every fault it is meant to survive.

## 3. Modules

| Module | Role |
|---|---|
| `Lease` | abstract specification: take, finish, fail, reclaim; a claim is taken only from somebody who has stopped working |
| `ClaimLock` | `claim_lock.py`, one system call per action; `ImplementsLease` maps it to `Lease` |
| `ClaimLockProofs` | its theorems |
| `MCClaimLock` | workers' symmetry for TLC |
| `QueueLease` | one candidate: `Store.claim/release/leased/get/save`, `drain_survey`, `_drop_leased`, `_revet`, `publish_and_record`, the tally; `ImplementsLease` maps it to `Lease` |
| `QueueLeaseProofs` | its theorems |
| `MCQueueLease` | the rulings a vet may end in |
| `WorkQueue` | abstract specification: a recorded candidate stays pending until it is ruled on |
| `Inflight` | one candidate's record and `.recovering` marker: `inflight.py`, `_recover_orphans`, the ends of `vet_candidate`; `ImplementsQueue` maps it to `WorkQueue` |
| `Breaker` | `breaker.py`: each method as a function on the breaker |
| `Health` | `health.py`: what each method writes over the entry of one provider |
| `Failover` | one provider in the chains of several processes: EXTENDS both, one action per step of `_raw` and `search` |
| `FailoverProofs` | its theorems |
| `MCFailover` | threads, processes and spacings for TLC |
| `Pricing` | one pack's prices and floors in two currencies, the patch that moves them, the payments on their way |
| `PricingProofs` | its theorems |
| `Licence` | what a buyer may count on: a payment fulfilled once, all of it taken back, each in one step |
| `Outbox` | the delivery rows, the sweeper's pass and the operator's resend |
| `Fulfilment` | EXTENDS `Outbox`: webhook requests, what they read and save, the provider that repeats itself; `ImplementsLicence` |
| `FulfilmentProofs` | its theorems |
| `MCFulfilment` | which pack belongs to which payment |
| `Trail` | an append-only JSONL file with a torn tail: append, consume, read |
| `Withdrawal` | from a KILL or a retirement through `pending_unlist.jsonl` (a `Trail`) to the shop |
| `WithdrawalProofs` | its theorems |
| `Publication` | one pack: `publish()`, both halves of the shop's upsert, price and listing patches |
| `PublicationProofs` | its theorems |
| `Vetting` | one vet: checks, gates, early stop, adversarial pass, score, decision |
| `VetPool` | one batch in a thread pool: results in any order, two rails that cancel |
| `VetProofs` | the theorems about a vet: its record (`Inflight`), its ruling (`Vetting`), its batch (`VetPool`) |

### ClaimLock

`lock` and `steal` are the two files. A lock holds its token, whether its record has been written
(`os.open` and `os.write` are separate calls, and a reader in between sees a record that does not
parse) and its age; an age stops one past the threshold it is compared with. `by` is a ghost: who
created the file. `pc` says which call a worker makes next. A token is the lowest natural that
nobody remembers, for `uuid4`. `heldFor` is the age of a worker's claim as the worker would see it,
also after the file is gone; `HasClaim` uses it to say that a claim has not expired.

`Env` names what the environment may do. `Calm` is `Env` within `{"io"}`: system calls fail,
workers die anywhere except inside the guarded section of `_expire`. The other four freedoms
(`leak`, `overrun`, `stall`, `blink`, described in the module) each break the lock, and three of
them are in `findings`. `Brisk` leaves out only `leak` and `stall`: then two claims may stand, and
still no two thieves are inside the section.
The files' clocks are taken to agree: one machine, as the engine runs.

### QueueLease

One candidate's row, files and lease, and the passes that work on it. A worker is one pass on one
row; the pool of a pass works on other rows, which share nothing but the index. `Foreign` splits
the workers over two machines, because `_owner_is_gone` refuses to judge another host's pid. A
lease carries `over`, set when the pass that took it ended without giving it back, because the next
pass of the process has a fresh owner string. `attempts` is this row's count in the ledger, held at
the cap since the code only compares it with the cap; the ledger's own races are left for
`DrainLedger`. `save` is four actions (temporary file, rename, sweep, upsert); the upsert clears
the lease, as the `INSERT OR REPLACE` without those columns does. The vet is one step with any
ruling of `Outcome`, or it raises.

`Timely` is the setting in which one row has one worker: nobody publishes and a vet ends before its
lease. Publishing takes it away because the first save drops the lease and the second comes later,
so a publishing pass saves without one. `Plain` adds that no kill lands between the files and the
row of a save, which the row needs to keep its file; the lease does not.

### Inflight

`record` and `marker` are the two files of one candidate, `row` says whether the index holds a
ruling on it (the whole save is one step here; its parts are `QueueLease`'s). A process is a
`Worker`; the one that generates the candidate writes the record under its own pid, and a recovery
overwrites it, since the recovering vet goes through `open_` too. The marker is created (`O_EXCL`)
and written in separate steps, as in the code, and judged and unlinked in separate steps; nothing
ties an unlink to the marker that was judged, so `Drop` and `Release` remove whatever is there.
`recovering` is a ghost: who has had `True` from `claim()` and not yet released. A failure
(`MaxFaults` of them) is a record that cannot be written, a vet that raises, a pass that skips the
candidate because the moat is blind or its limit is spent, or a file call that fails. Liveness of a
pid is certain in the model (`Alive`); the code's third answer, "could not tell", is treated there
as alive and only delays.

### Failover

One provider, as the threads of several processes see it. A `Worker` is a thread (a process vets
with a pool of them), `breaker` the provider's breaker in each process, `mark` its entry in the one
health file. Instants become the time that is left: `dead` and `probe` of a mark and `cool` of a
breaker count down with `Tick`. Every method of the breaker holds the breaker's lock throughout and
is one step. In the health file a read and the write after it are two steps (`Claim` and
`SaveClaim`, `Clear` and `SaveClear`, `Mark` and `SaveMark`), and the entry read is kept in `seen`:
`_lock` keeps the threads of one process apart in between (`Unlocked`), and only `_claim_probe`
takes the lock file, so only claims exclude each other across processes. `ReadOther` and `SaveOther`
are a mark or recovery of another provider, which writes this provider's entry back as it was read.

`_save` of every process writes the same temporary file. A rename can therefore publish what
another process has only begun to write; `torn` says that a reader may find such a file, which
`_load` takes for no marks at all, and a kill of the writer may leave it so.

`Grounding` is the set of processes whose chain is a search chain. A search chain also asks the two
guards without calling (`Decline`): `_usable_after`, the backstop rule, and calls that report
neither success nor failure. An engine process has chains of both kinds; they have breakers of their
own and share only the file, so they are two processes here, which have more freedom than in the
code (their `_lock` is not shared).

`spaced` is a ghost: how long the last probe claim still excludes another. A mark or a clear resets
it, of another provider too, because its write can restore an entry that was read before the claim
(a finding). `Tick` waits while somebody is between a read and its write, milliseconds against
windows of a minute and more; the time spent waiting for the lock file is part of that.
`MaxEvents` bounds the kills and the writes for other providers.

### Pricing

An instant is the time left until it: `drain` for `MinBillableEffectiveAt`, `live` for how long a
payment of an amount may still come in. A patch reads the row, asks the provider, and saves what it
computed from what it read (`FindPack`, `Reprice`), as Entity Framework writes changed columns only.
`Horizon <= Drain` is the assumption the code states for itself: a session lives 24 hours and the
drain is 26. `asked` is a ghost: the prices that have been in force since the last drain ended.
Currencies are tracked apart because they share one clock: that is where the dollar half breaks.

### Fulfilment

A request is a `Handler`; each `await` between a read and the one save is a step, and the save is
one transaction that the unique indexes may refuse. The provider (`issued`, `owed`) sends an event
any number of times until it has a 2xx for it, and again afterwards. `Ordered` is the assumption
that a reversal is only reported once its payment was acknowledged; without it a refund can be lost
(a finding). A payment has one reversal. In `Outbox` the sweeper takes rows in the order of their
ids, works on what it read, and saves once; the operator's resend reads its row in `AskResend` and
saves what it changed in `Requeue`, over whatever the sweeper has saved in between.

`Licence` is what is left for the buyer to see: the order, the rights and who is promised a link.
The mapping is direct (`link` is the range of `queue`), so only the saves that succeed are steps of
it, and requests, retries, sweeps and crashes are stutters. Orders and entitlements are read by two
queries and written by one save; `ImplementsLicence` says that they never part.

### Withdrawal

`queue` is `pending_unlist.jsonl`, a `Trail` whose records are packs: an entry is written once per
pack because its receipt is archived once. Corrupt lines are skipped by every reader and dropped by
the consumer, so they are not kept. A producer is a decay sweep or an operator; a run is one process
of `unlist_killed.py`, which reads without the lock, asks the shop pack by pack, logs, empties the
file into memory and puts the rest back. `lost` is a ghost for the two windows in which an entry is
gone: a producer that has ruled and not appended, and a run between taking and putting back. At the
start the packs with a receipt are those on sale. A sweep that was vetting a pack when an operator
retired it may write the index row again; the receipt stays archived. An operator may name a pack
that is no PASS any more, as the ids he gives are not looked up.

### Publication

A price object is known by the amount it charges, so what a buyer pays is `row.pointer` and what the
shelf shows is `row.price`. `publish()` runs from the marker to the receipt; the content gates are
one choice (`fit`), the upload and the figure fence another (`clear`). The shop's `POST` is `Find`
and `Save` with the question to the provider between them, and writes the columns that differ from
those it read; a publisher that never hears of its save leaves. The provider may refuse or be down
whenever it is asked (`Bills`), and never vouches for a stub. `GET` of the listing sees
only listed packs, which decides between reusing a price object and minting one. The price and
listing patches are atomic here, their overlap being `Pricing`'s subject. `Publisher` calls take no
claim, as the tools do not. `Freedom` names three things beyond the care the code counts on: the
ladder moves while the row has no price object, an unlisted pack is re-priced without one, and a
pack is re-priced while a publication is being served. `Traced` excepts a pack whose receipt was
archived and a publisher that could not write its marker. `reprice_live_packs.py` raises before it
changes anything (a finding) and has no action.

### Vetting

A result is what `CheckResult` carries that a decision reads: verdict, confidence, whether it cites
a fetched page, whether it failed, whether the emergency tail ruled. A confidence has four levels,
told apart by the two thresholds: none, below `min_supported_confidence`, below `confidence_floor`,
above. `Outcomes` is everything a check can come back with, through the demotions of `verdict_for`
and the failures of `run_check`. The lane is a number of checks of which the first are hard gates;
lanes list them in that order. `mode.full` is the vet that goes on after a gate, one in ten;
`mode.adversary` is `adversarial_decisive_kills`. `late` and `adv.read` are ghosts: the clock ran
out, and the adversarial reply was an object. How a query is written, a confidence computed, a
source admitted or a score given is a choice. The advisory board and the shadow brain only log. The
clause of `vet_candidate` that catches `ProviderExhaustedError` has no action: `verify` lets none
escape. The third arm of `pass_impossible_reason` needs a composite bar above the best score there
is and is left out; so is the golden harness, which skips the adversarial pass.

### VetPool

A future is new, queued, running, finished, cancelled, or cancelled and notified. A worker takes the
oldest entry of the queue, also a cancelled one, and only then does `as_completed` yield it; a
cancelling loop takes one future a step, so workers may take the next one under it. The budget stop
notes who was cancelled before it, cancels, and parks the rest as DEFER rows, of which any may fail
to be saved. `Keep` resets the streak whatever was returned, as `gate_fired` is empty on a DEFER (a
finding). `Limits` holds 0, which switches the rail off and makes the first outage raise. `dropped`,
`unsaved` and `infra` are ghosts. A batch is over when it has returned its list, or raised: at once
with the rail off, and once the loop has taken every result and the summary is written if the rail
has halted it (`HasReturned`, `HasRaised`). A vet is one step with any result; its parts are
`Vetting`'s.

## 4. Runs

| Run | Shows | Bounds and why they suffice |
|---|---|---|
| `claim_lock` | the inductive invariant (typing and one thief included), one holder, nobody's live claim removed, `Lease` implemented | 4 workers: a holder, a thief, a rival and an heir; 9 tokens are never exhausted (4 held, 4 remembered, 1 on disk); ages to 3; 2 failing calls |
| `claim_lock_live` | `OrphanClears` under every freedom | 2 workers, since a third only adds more takers; 2 failing calls |
| `queue_lease` | the inductive invariant, one vet per row, the row keeps its file, saves do not collide, `Lease` implemented | 3 passes over 2 machines, a lease of 2 units (fresh, at the limit, expired), a cap of 1, one failing statement, all six rulings |
| `queue_publish` | one publisher; a workable row is always taken up again | 2 publishing passes on 2 machines, overruns, torn saves, one failing statement |
| `inflight` | the inductive invariant, `WorkQueue` implemented, every recorded candidate is ruled on | 3 processes, two of which may die: the generator, a recoverer and its rival or heir; markers expire (1) before records go stale (2), both reached; 2 failures |
| `failover` | the inductive invariant (a probe is always somebody's call), one probe per window, a provider that answers for good is used again | 3 threads of two processes, so that a thread has a rival inside and outside; a breaker that trips on the first failure, a window of 2 with the ceiling of 1 below it, one kill or foreign write; 0.35 M states |
| `pricing` | the inductive invariant, no payment in pounds refused, the floor is a real price | 3 GBP prices (a rise, a second rise, a cut between), 2 USD prices, a drain of 3 units with payments up to its last, one patch at a time |
| `fulfilment` | the inductive invariant (one grant per item included), `Licence` implemented, refunds revoke for good, every event settles, every link goes out or is given up | one payment for 2 packs and its reversal, 2 requests at once, a pass of one row (so that rows wait behind others), 2 attempts, one resend, one crash or failed save |
| `withdrawal` | the inductive invariant, entries lost in two windows only, nothing else delisted, what is kept is carried out | 2 packs, a sweep, an operator, 2 overlapping runs, one fault of any kind; 0.4 M states |
| `publication` | the inductive invariant, what is on sale can be delivered and is charged as shown, a trace remains | 2 prices, 2 overlapping publishers, any number of crashes, refusals and patches, `Freedom` empty; 0.37 M states |
| `vetting` | the inductive invariant, rulings rest on evidence and never on a failure, the early stop loses no PASS | 3 checks, 2 of them hard gates, the first critical, 2 supported needed: a stop can come with one check left or none, for either floor; every outcome of every check; 0.55 M states |
| `vet_pool` | the inductive invariant (nothing starts after a stop, nothing ruled is discarded), every candidate is somewhere, the batch ends by its list or by the exception of an outage | 4 candidates on 2 threads, so that a stop meets running, queued, cancelled and finished ones; rail off and at 2; 0.5 M states |

In `claim_lock`, `queue_lease` and `inflight` crashes are permanent: a restarted process is another
worker, and one worker always survives, so the number of kills is bounded by the workers. In
`failover`, `fulfilment` and `publication` whoever is killed starts again. `CHECK_DEADLOCK FALSE` on
the queue, in-flight, fulfilment, vetting and pool runs: once everything is settled
nobody has anything to do, and everything stops.

Larger instances and the traces of findings are configurations to run by hand.
`FailoverTwo.cfg` is `failover` without liveness for a threshold of 2 and two spacings, and
`VettingFour.cfg` is `vetting` with a fourth check, the second being critical (10.5 M states).
`QueueLease.cfg` with `Env = {"db", "torn"}` passes for `TimelyInv`, `SingleVet` and `RenameFinds`,
and `VetPool.cfg` also for `NeverStuck` and `Advances`. A finding
that names a configuration is shown by it as a violation: `ClaimLockOverrun` (on `MCClaimLock`),
`QueueSettled` and `QueueStranded` (on `MCQueueLease`), `InflightTwice`, `FailoverWedged` (on
`MCFailover`), `PricingUsd`, `RefundFirst` (on `MCFulfilment`), `WithdrawalLost`,
`PublicationDrift`, `VettingUnread`, `VettingDefer`, `VettingClock`, `PoolDropped`, `PoolStreak` and
`PoolEscape` (the last three on `VetPool`). With every freedom of `Publication` (4.9 M states)
`PublicationInv`, `Sellable` and `Traced` still hold, and `ChargedAsShown` is violated with any one.

Every property of a passing run is violated by a mutant named beside its definition (`...Mut`),
a mistake somebody could make in that code.

Fairness. `ClaimLock`: a call that is under way goes on, bodies end, time passes, and live workers
keep asking, because every drain pass asks again for every candidate. `QueueLease`: time passes, a
pass under way goes on (a vet has a deadline), and the consumer starts passes as long as there is
work (`consumer.py` loops for ever). `Inflight`: a vet or recovery under way goes on, and passes
that survey the records are started again and again (every `vet --resume` and daemon tick starts
with one). `Failover`: calls end (they have timeouts), a thread goes on and asks again, as every vet
asks the chain for every ruling, and time passes. That a provider answers, or ceases to, is never
fair: `PickedUp` is about those that answer from some time on. `Fulfilment`: a request under way
goes on, a pass of the sweeper and a resend are carried out and the sweeper's timer fires again and
again (weak), and an event without a 2xx answer is delivered again while a request can be served
(strong, for a handler may be busy whenever the provider comes). `Withdrawal`: producers finish what
they have begun, and every tick starts a run. `VetPool`: vets end (each call in them has a timeout),
workers take what is queued, and the main thread goes on; that the budget runs out is not fair.
Nothing is assumed of failures: they are never fair. `Pricing`, `Publication` and `Vetting` state no
liveness.

## 5. Proofs

The `...Proofs` modules prove, for any number of workers, tokens, machines, rulings, prices, packs
and failures and any thresholds:

* `TypeCorrect` of ClaimLock and QueueLease, in every environment.
* ClaimLock under `Brisk`: `ThiefExclusion`. Under `Calm`: `LockInvariant`, then `MutualExclusion`,
  `ClaimsNotStolen` and `Implementation` (`ImplementsLease`).
* QueueLease in every environment: `PublishingIsExclusive`, from `PublishInv`: who publishes holds
  the publish claim. Under `Timely`: `TimelyInvariant`, then `OneVetPerRow`, `SavesDoNotCollide`
  and `Implementation`. Under `Plain`: `QueueInvariant` and `RowKeepsItsFile`.
* Inflight, with every crash, failure and overrun the model has: `RecordsOutliveVets`, and
  `Implementation` (`ImplementsQueue`). Recovery may happen twice (a finding), and still nothing is
  lost.
* Failover, for any threads, processes, windows and spacings and with every kill, torn file and
  foreign write: `ProbesAreAccounted` (`FailoverInv`) and `ClaimsAreSpaced`
  (`OneProbePerWindow`).
* Pricing, one patch at a time: `Invariance` (`PricingInv`), then `PoundsAreServed` and
  `FenceIsReal`.
* Fulfilment, for any payments, requests and crashes: `Invariance` (`FulfilmentInv`),
  `FulfilledOnce`, and under `Ordered` `RefundsStand` and `Implementation` (`ImplementsLicence`).
* Withdrawal, for any packs, producers, runs and faults: `Invariance` (`WithdrawalInv`),
  `NothingElseDelisted`, and `NothingForgotten` (`Accounted`).
* Publication, for any prices and publishers: `Invariance` (`PublicationInv`), `TracesStay` and
  `OnSaleIsSellable` with every freedom, `ShelfIsTrue` with none.
* Vetting, for any number of checks and hard gates, any critical ones and any number of supports
  asked for: `VettingInvariance` (`VettingInv`), then `RulingsAreEarned`, `FirstEvidenceStands` and
  `EarlyStopsAreSound`.
* VetPool, for any batch, number of threads and limits: `StopsKeepTheirPromise` (`PoolInv`), then
  `NobodyIsLost`; and why a batch ends, `BatchAdvances` (`Advances`) and `BatchIsNeverStuck`
  (`NeverStuck`).

Why strengthen. `SingleHolder` says nothing of thieves. `LockInv` adds that the steal file exists
exactly while one thief is inside (`GuardInv`), that the file of each working worker is on disk, is
its own and has not expired (`HolderInv`), and that what a thief is about to remove has expired
(`ThiefInv`); since an unexpired holder's file has its holder's age, the two cannot be the same.
`QueueInv` adds to `SingleVet` that whoever is between claim and upsert owns a lease that is still
live (`LeaseInv`), so that the compare-and-swap must refuse everybody else, and how far the save
under way has come (`SaveInv`). `InflightInv` adds to the type invariant that a process which is
about to remove the record has seen a ruling. `FailoverInv` adds to `ProbeAccounted` that one thread
at a time is about to write a claim, that what it read was due, and that no entry's probe is due
before `spaced` has run out: a file in which every claim respects the last.

`PricingInv` says of every payment on its way that it is at least the price if it outlives the
drain, and at least the floor if not: that is what a patch must keep while it moves both and starts
the clock again. `FulfilmentInv` relates what a request has read to what is saved: an event is
recorded before it is answered, and with an ordered provider what a reversal has read as active is
all that it has to revoke, and the orders it is about to mark are there.
`WithdrawalInv` says that everything on its way to a request was condemned and that what a run has
seen confirmed is off sale; `Accounted` is inductive on top of it, an entry being followed through
the producer's hand, the file, a run's memory and the file again. `PublicationInv` says what a
publisher's request and the row the shop has read for it imply about the row now; `Sellable` is
inductive on top. `ChargedAsShown` needs `RailInv`: without the freedoms, every request under way
agrees with the row, or with the ladder if the row has no price object.

`VettingInv` says what the results, the gate and the stage imply of each other: how far a vet has
come at each stage and what it went through on the way (`StageInv`), and that the gate is that of
the first check that fired, or of something else if none did (`GateInv`). Without `GateInv` nothing
ties the gate that is filed to the results behind it. `RulingsAreEarned` then goes through the
gates; `EarlyStopsAreSound` counts the supports of any continuation, which are at most those there
are and one for each check left.

`PoolInv` needs the place of the main thread in each of its loops. While a loop cancels, whatever
is still queued lies ahead of it (`LoopInv`), so that nothing is queued behind it when workers have
taken what they liked meanwhile; what was cancelled is parked, could not be, or was dropped, except
while the budget stop is still cancelling (`CancelInv`). For the end of a batch, `Left` counts what
can still happen: per result that has not been taken one turn of the main thread with both loops,
what is left of the turn it is in, the futures that nobody has begun and those that are not
complete. Every step but a stutter makes it smaller, and until the batch is over there is a worker
with a future to take, a vet that runs, or a step of the main thread. What `BatchEnds` adds, and
only TLC checks, is that under the fairness of the run somebody who can go on does.

`LockInv`, `QueueInv`, `InflightInv`, `FailoverInv`, `PricingInv`, `FulfilmentInv`, `WithdrawalInv`,
`PublicationInv`, `VettingInv` and `PoolInv` are invariants of a run as well as of a proof.

Only model-checked: the liveness properties `OrphanClears`, `RowReturns`, `BatchEnds` and their
like, which rest on fairness and `ENABLED`, and the behaviour outside the settings named above
except for typing, `SinglePublisher` and `SingleThief`. Every invariant and every action property of
a run is stated by a theorem too.

## 6. What the models do not say

Two keys or two candidates at once, except in the pool; generation; the text of dossiers;
tombstones; clock jumps (every age advances together); a pid reused by another program (which the
code treats as alive, and which only delays); two providers in one chain, and the order in which a
chain tries them; a health file that cannot be written; a record that is corrupt for another reason
than being half written; a second reversal of one payment; prices in a third currency.

Where the code does not keep a promise the passing runs leave the case out by name, and a
configuration of section 4 shows it: claims that expire under their holder (`Env` without
`overrun`), saves torn between sweep and upsert (without `torn`), a reversal before its payment
(`Ordered`), re-pricings that overlap a publication (`Freedom` empty), search chains that ask
without calling. The hazards of `PROJECT.json` say for each which half is checked.

Components of section 1 without a module, and why (`PROJECT.json` lists each):

* The attempt ledger, the brake that reads it and the consumer loop are the next of the plan. Their
  state is one JSON map and two counters, and `QueueLease` has one row's count as an atomic counter
  meanwhile; what is not checked is that `forget` (no lock) and `record_unresolved` (under the lock)
  lose no count, and that the brake releases.
* The pool of the drain pass is built like that of `VetPool`, with its claims in `QueueLease`; what
  is missing is their composition: the time wall of a pass and its tally over many rows.
* A chain of several providers: `Failover` follows one. Whether a chain gives up only when all are
  spent follows from each provider's admission, which is modelled, and the loop over them, which is
  not.
* The governor's slots and the usage wall guard money, not state; a slot is a `flock` that the
  kernel releases with its owner.
* Downloads: one request on one row; the lost count is a finding, and the cap has no other state.
* Content generation, linting, packs and pages produce text without shared state; the Rust engine,
  the UI and deployment are ports and presentation; the failover and migration scripts are operated
  by hand, one at a time.
