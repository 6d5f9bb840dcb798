# der-flex in TLA+

A model of [der-flex](../src/README.md): resources (batteries, chargers, heat pumps)
offer flexibility, the service publishes anonymous aggregates, and buyers reserve and
activate capacity. The program is `src/src/der_flex/` (34 files, 5 282 lines); paths below
are relative to it, ADRs are in `src/docs/adr/`.

Run a model check with `tlc -config X.cfg MCModule.tla`, a proof with `tlapm XProofs.tla`.

- [1. The system](#1-the-system)
- [2. Modules](#2-modules)
- [3. Model checking](#3-model-checking)
- [4. Proofs](#4-proofs)
- [5. What the code does not keep](#5-what-the-code-does-not-keep)
- [6. Left out, and the plan](#6-left-out-and-the-plan)

## 1. The system

### Components, their state and operations

| Component | State | Operations | What makes it correct |
|---|---|---|---|
| Reservation ledger, `reservations/service.py` over `backend.py` | reservations, allocations, idempotency keys, activations; published residuals | `create`, `get`, `cancel`, `activate`, expiry sweep, `public_residual_capacity` | no capacity sold twice; one life cycle; a key is one reservation; records agree |
| The same on PostgreSQL, `reservations/postgres.py` | tables `der_flex_reservations`, `_allocations`, `_activations`, `_instructions`, `_public_residuals` | the same, as READ COMMITTED transactions under advisory locks | the same, for every interleaving of statements |
| Activation outbox, `outbox.py`, `reservations/postgres.py:632-839` | `der_flex_outbox` rows with status, attempts, lease | enqueue, `claim_outbox`, deliver, `resolve_outbox`, `_finalize_activation` | at-least-once delivery counted once; reservation, activation and outbox settle together; every activation settles |
| Offer store, `domain/store.py`, `domain/postgres.py` | offers, source positions, disconnected sources, published cohorts, suppressed cells | `upsert`, `remove_resource`, `query`, `eligible_offers`, `zones` | late and withdrawn offers stay out; a published sum never changes; neighbours have one cohort |
| Resource registry, `domain/resources.py`, `domain/postgres.py:221-316` | physical envelope and version per resource | `register`, `require` | a version names one record for ever; on PostgreSQL a new version withdraws the offers made under the old one |
| Privacy policy and publication, `privacy.py`, `api/app.py:275-306` | query budget per epoch, snapshots per epoch | `publication_epoch`, `sanitize`, `consume_privacy_query`, `publish_privacy_snapshot` | one public value per cell; changed cells disappear; the budget is kept |
| S2 PEBC normalization, `adapters/s2/pebc.py` | none between messages | `normalize_pebc_offer`: limits and forecast to offers per interval | whatever is activated, the resource stays within its envelope; an interval is offered exactly if it is covered |
| S2 dispatch, webhooks, `adapters/s2/dispatch.py`, `adapters/webhooks.py` | none | one delivery | success means that the destination acted |
| OpenADR adapter, `adapters/openadr/` | none; the ledger remembers events by their keys | `handle_event`: `create`, `activate` and a report per interval | an interval is executed at most once, and its reports have one status |
| HTTP API, access control, `api/app.py`, `security*.py` | none of its own | routing, tokens, error mapping | every call is checked first |
| Admission and metrics, `observability.py` | requests in flight, counters | three middlewares around every request | the limits hold; slots and gauges come back on every way out |
| Simulators, demo, release tooling | synthetic | seed data | not part of the running system |

### How they interact

The API calls the ledger and the offer store; `create` reads eligible offers from the
store, `get_flexibility` chains offer store, ledger and snapshots. There are no callbacks
between components; they meet in shared state:

- *In memory* each component has one `RLock`. A call of the ledger is atomic, but reads the
  clock before it gets the lock.
- *On PostgreSQL* every call is one transaction. Advisory locks are taken in sorted order:
  `tenant:…:product`, `idempotency:…` and `reservation:…` for the ledger, `offer-store` plus
  product locks for the store. Offers are read by `create` through **another connection**.
- *Outbox workers* are processes of their own. They share rows through
  `FOR UPDATE SKIP LOCKED`, leases and attempt numbers.
- *Sources* call registry, normalization and `upsert` one after the other (`demo.py`,
  `simulators/fleet.py`); nothing ties the three together but the provisioning version and the
  source position.
- *The OpenADR adapter* is a client of the ledger: one event is a sequence of `create` and
  `activate`, between which every other call may come.
- *Middlewares* are coroutines: every `await` lets other requests on, and may be the last of its own.

### What is hard

Reads and writes of one transaction with commits of another in between
(`service.py:124-202, 288-326`); writes into products whose lock is not held
(`domain/postgres.py:466-484`); clocks read before a lock; retries whose original is still
under way, expired or settled; events redelivered while an earlier delivery is handled or after it
broke off in the middle; a registration between the reading of an envelope and the storing of the
offers made from it; stored energy that several intervals, and the baseline, must share; clients
that hold a slot and never send their body; deliveries repeated after a lost answer, a lease that runs out
while its worker is alive, crashes between claim and resolution; the last two instructions
resolved at once; a request for aggregates that is overtaken by offers, reservations and the
turn of the epoch. `PROJECT.json` lists the hazards at their lines with the properties that
cover them.

## 2. Modules

```
Capacity ──┬─ CapacityLedger  (abstract ledger)        ActivationOutcome (abstract activation)
           │      ▲      ▲                                    ▲
           ├─ ReservationLedger        in memory           Outbox
           ├─ ReservationTransactions  on PostgreSQL
           └─ AllocationLoop           the loop of create  PublicCells (abstract publication)
                 └─ OpenAdrAdapter     its caller             ▲       ▲ (used)
                                                           OfferStore  Publication
PebcNormalization ── Provisioning
                     registry and stored offers around it  HttpAdmission
```

`▲` is "implements", checked by TLC as a `PROPERTY` and proved. A line means that the lower or
right module extends the other. `XProofs` holds the theorems about `X` and the modules it extends, `ApiProofs` those
about `Publication` and `HttpAdmission`; `MCX` instantiates `X`.

**Capacity** — what active reservations hold of a resource, and when an assignment is an
allocation. Sums are written as cardinalities of sets of units, so that they need no
recursion. kW are whole units; the 1e-9 tolerance of `service.py:172` is left out.

**CapacityLedger** — the promise of any ledger: reservations live once through
CONFIRMED → CANCELLED, EXPIRED, or (ACTIVATED →) COMPLETED or FAILED; a claim is confirmed
within what is offered and unsold at that moment and only shrinks afterwards. No clock, keys
or outbox.

**ReservationLedger** — `ReservationService` over `InMemoryReservationBackend`. One action per
call (`Create`, `Get`, `Cancel`, `Activate`), each starting with the sweep of `expire`.
`Create` is the disjunction of its ways out: known key (`CreateOnUsedKey`, replay or
`IdempotencyConflict`), `CreateRejected`, `CreateConfirmed`. Every call has an instant `now` of
the past: the code reads the clock before it takes the lock. `Market` is what
`reserved_for_offer` matches on; in memory it ignores the tenant, so two products may share one
market. Allocation is stated (`IsAllocation`) and not computed. Offers change freely.

**AllocationLoop** — the loop itself (`service.py:152-175`), one turn per offer in resource order.
`LoopDecides` and `OnlyAllocation` justify `IsAllocation` in the ledgers.

**OpenAdrAdapter** — `OpenADRAdapter.handle_event` over the in-memory ledger: handlers that each deal with
a delivery of one event, interval by interval. It composes with `AllocationLoop`: `SeekCapacity` enters the
loop under the lock of the backend with any offers and any prior claims, `Turn` is one turn of it,
`Confirm` and `RunShort` leave it. `activate` is taken apart as well: `Instruct` asks one acceptor,
which takes or refuses, `InstructRaises` is an acceptor that raises, after which nothing is recorded
(`service.py:241-257`), and `Conclude` is `save_activation` with the report. Between two calls `Die`
cancels or expires a reservation. Offers and the claims of other buyers are not carried from call to
call: each `create` sees arbitrary ones, a superset of what the ledger modules allow. Only
allocations of this event's reservations are state. Ghost `reported`: the reports built so far.

**ReservationTransactions** — the same service on PostgreSQL. A session's call is split at its
statements: `Begin`, `Acquire` (advisory locks), `Sweep`, then `ReadConfirmed`/`Write` for
`cancel` and `activate`, or `KeyKnown`/`ReadOffers`/`VisitOffer`…/`Save` for `create`. `View(c)`
is what a statement of session `c` sees under READ COMMITTED: what is committed, and its own
sweep marks. `RowFree` is the wait for row locks. `Upsert` and `RemoveResource` write the offer
table under the product locks they really take. `Abort` is a lost connection or a deadlock.
`Settle` is the end of an activation by an outbox worker.

**Outbox** — the rows of one activation and its workers: `Activate` enqueues, `Claim` takes a
batch with its order, limit and lease, `Deliver` may act at the destination and still fail,
`ResolveStale`, `ResolveRow` and `ResolveInstruction` are `resolve_outbox` by outcome,
`LockActivation` and `Finalize` are `_finalize_activation` around its row lock, and `Crash` drops what
is not committed. Time is one bit per row (`due`). Ghosts `took` and `declined` record what
destinations did.

**ActivationOutcome** — the promise: one verdict per instruction, never revised, and the result
in the same step as the last verdict.

**OfferStore** — `InMemoryOfferStore` and `PostgresOfferStore`, told apart by `Durable`.
`Upsert` (stale positions, obsolete offers, suppression, same position again), `Withdraw`
(`remove_resource`, and the withdrawal made by `register` with a new version), `Query` and one
`Visit` per cell. A query reads the clock before it has the lock, so its instant, `past`, is one
of any order: a later query may still count what an earlier one took for expired. In memory a visit sees the cohorts published by earlier visits; on PostgreSQL it
sees those read at the start (`known`), and can suppress only rows that exist. `Slot` is the key of
`_offers`, which lacks `interval_end`. Ghosts: `returned`, the last aggregate of a cell, and
`retired`, the last position of which an offer was taken away.

**PublicCells** — the promise of publication: a cell is shown with one value until it is hidden, then
never again.

**Publication** — `GET /api/v1/flexibility` as its four transactions `Admit`, `Query`, `Reduce`,
`Publish`, with other requests, `OffersChange`, `ReservationsChange`, `NextEpoch` and `Abort` in
between. A request may count in an epoch that is over: it reads the clock before its first
transaction (`app.py:150`). The offer store is taken at its promise, `PublicCells`. Ghost `gone`: the epoch in
which a cell was hidden or closed.

**PebcNormalization** — `normalize_pebc_offer` step by step: `Begin` (clock, limits, usability), `Read` per element of
the forecast, `AddBaseline` and `Allocate` for the two energy loops, `NextBucket` per publication
interval, and every way to refuse or to return nothing. Time is an integer step; power and energy are
multiples of `Unit`, which every duration but 0 divides, so that the divisions of the code stay exact and its
1e-9 tolerances have nothing to forgive. An element of no length that is kept is divided by: `Allocate` then refuses the
message (`adapters/s2/pebc.py:259-260`). The sums of the code over lists are `SumUpTo`, a recursive function. `PowerAt` and `StoredAt` are what a resource that follows
`build_pebc_instruction` draws and stores: the reference the offers are checked against.

**Provisioning** — `ResourceRegistry.register` and `require` of one resource around that normalization: `Register` at any
step, `Receive` (`require`, then `Begin`), `Step`, `Upsert` per offer, `Return`. With `Durable` a
registration takes the stored offers away and marks the source disconnected if there were any. Ghosts:
`registered`, all records that were ever current, and `overtaken`, a registration between `require` and the first upsert.

**HttpAdmission** — the three middlewares of `observability.py` around an endpoint: `Arrive` and `Observe` of the logging
middleware, `Bypass`, `Enter`, `Shed` and `Leave` of the concurrency limit, `CheckLength`,
`ReceiveChunk` and `Disconnect` of the body limit, `Handle` for endpoint and exception handlers, and
`Break` for an exception or a cancellation while the body is read or the endpoint runs.

## 3. Model checking

| Run | Instance | Shows |
|---|---|---|
| `ledger` | 3 reservations, 3 keys of 2 tenants in one market, 2 resources of up to 2 units, clock 0..2, hold 1 | any sequence of calls, stale clocks and retries: `KeysNameOneReservation`, `RecordsAgree`, `SoldWithinOffer`, implements `CapacityLedger` |
| `transactions` | 2 sessions, 2 reservations, 2 keys, 2 resources, clock 0..1 | `NoUniqueViolation`, `ActivatedStaysActivated`; implements `CapacityLedger` except for revived reservations (section 5) |
| `outbox` | 2 instructions, 2 workers, 2 attempts, 3 claims, 1 crash, fair | fencing, budget, nothing accepted that was not taken, everything settles together, implements `ActivationOutcome`; every activation settles |
| `outbox_notices` | 1 instruction with callback: 4 rows; 2 workers, 1 attempt, 1 crash, fair | every webhook that is enqueued ends; that the final one appears with the result is `OutboxSettlesTogether` (section 4) |
| `offer_store` | 2 resources, 3 cells (two in one slot, two that touch), 2 contents that expire one after the other, 2 positions, in memory | `SourceOrder`, `AdjacentCohortsAgree`, implements `PublicCells` |
| `publication` | 2 requests, 2 cells, 2 epochs, capacities 0 and 2, sold 0 or 1 | `OneValuePerCell`, `GoneFromLaterEpochs` |
| `provisioning` | 4 records of a battery and a charger, 7 messages (aligned, misaligned, and five that are refused or empty), elements of 1 to 3 steps with 3 powers or none, one of no length, 2 messages in a row, PostgreSQL | `BudgetsHold`, `ActivationsStayInside`, `OffersEveryCoveredBucket`, `VersionNamesOneRecord`, `StaleOffersWereOvertaken` |
| `openadr` | 2 handlers, 2 intervals asking 3 and 1 of 2 resources with up to 2 units each, fair | `LoopDecides`, `OnlyAllocation`, `ReplayAgrees`, `ReportsCoverDelivery`, `ReplayNeverFails`; the event settles |
| `http` | 4 requests, 2 slots, one request for health, limit 1 byte, chunks of 1 and 2 | `RequestsAccounted` on every way out: slots, gauge, statuses and the count of shed requests; diligent clients are answered |
| `double_sale`, `obsolete_offer`, `adjacent_cohorts` | as above | counterexamples, section 5 |

What the properties are about, where the name does not say it:

- `ActivationsStayInside` enumerates every choice of offers and directions, lets the resource follow all its instructions and
  looks at power and stored energy at every moment of the forecast: shares of one budget, resampling of
  partly overlapping elements and gaps would each break it if they were wrong by one step.
- `StaleOffersWereOvertaken`: a message is normalized against the envelope of one moment and stored later. If the record was
  replaced after the first upsert, the offers are gone and the rest of the message is refused; if it was
  replaced **before** it, offers of the old envelope are stored and stay (section 5, observations).
- `ReplayAgrees` compares the **status** of the reports of one interval; their figures may differ (section 5, observations).
- `SettledTogether` says that the final webhook is there exactly when the result is. In `outbox` there is no callback, so that part of it
  says nothing there, and `outbox_notices` checks only that webhooks end: for activations with a callback it is proved, not checked.
- `EveryNoticeEnds` is checked with one attempt, so that two workers and a crash fit a run. A retry of a webhook is not exercised; it is
  `ResolveRow` with a later `TimePasses`, as the retry of an instruction in `outbox`. The property was also found to hold with one worker,
  2 attempts, 2 claims and a crash.
- `RequestsAccounted` counts as shed exactly the requests answered 503 if no endpoint answers 503, as in the run; else at most those.
- `ReportsCoverDelivery`: the report contains `allocated_power_kw` read before the activation (`adapter.py:84`, `:126`). It equals what
  the resources took if the activation completed; if it failed it may be more.
- `DiligentAnswered`: clients that end their body are answered although others hold slots without ever
  sending theirs, by being shed if necessary; health and metrics are never shed.

**Bounds.** Three reservations let one expire, one replace it and a third compete; two do in
`transactions`, where two sessions interleave. `MaxTime` leaves a hold time to run out in the
middle. Powers 2 and 3 against 2 + 2 units use up one resource or need both. `MaxClaims = 3` allows
one lost lease beyond two attempts. Two positions and two contents are enough for a late, a
repeated and a superseding offer, and content x expires before y, so that one instant takes a part of a cohort away; three cells for a slot that two intervals share and for
neighbours. Capacity 2, sold 1 and resolution 2 give residuals that round differently;
capacity 0 with something sold is an offer that shrank below it. In `provisioning` elements of 1, 2 and 3
steps against intervals of 2 fall on, before and after their borders, and ±6 per step against 12 of 24
units stored makes budgets run out in both directions; Every element starts before
`Horizon`, four steps, and no more than four are kept (those of no length would go on for ever).
Two records share version 1, so that the conflict happens, and one is disabled. In `openadr` an
interval of 3 needs both resources and one of 1 needs one, with two handlers one can find the
reservation or the activation of the other at every step. In `http` two slots and three requests
that need one make shedding and stalling possible at once. Symmetry is used for safety
only, over sets whose members are interchangeable (in `ledger` the two keys of one tenant). All runs but
`openadr` set `CHECK_DEADLOCK FALSE`: a bounded system stops when its ids, clock, messages or
attempts are spent. In `openadr` an event can always be delivered again, and TLC checks that no state is stuck.

**Fairness.**

- `Outbox` (`FairSpec`): weak fairness of each worker's steps and of time for each row. Workers
  are loops (`outbox.py:94-103`) that the operating system keeps running and a supervisor
  restarts; crashes are bounded by `MaxCrashes`, and a live worker loses its lease only until a row
  has had `MaxClaims` claims: a worker that is always slower than its lease would be
  redelivered for ever, and nothing settles. Nothing is assumed of destinations.
- `OpenAdrAdapter` (`FairAdapterSpec`): weak fairness of the loop and of each handler. A handler is a thread that goes on, also
  with the lock, and a VTN delivers an event until it is answered; strong fairness of
  `Instruct` says that no acceptor raises for ever. `EventSettles` leaves two ways out, both real:
  capacity stays short, or a reservation dies before it is activated, which uses up the key of its
  interval for good.
- `HttpAdmission` (`FairAdmissionSpec`): weak fairness of the server's own steps, and strong fairness of the last chunk for diligent clients only. The
  code has no timeout for a body, so nothing is assumed of the others; they may hold their slots for ever.

## 4. Proofs

For all values of the constants, from the assumptions stated with them (finite sets,
natural bounds, sentinels that are not values):

| Module | Theorems | Argument |
|---|---|---|
| `CapacityProofs` | lemmas on sums | a new claim adds exactly its own units, a set of pairs disjoint from the others'; two allocations in resource order that sum to the same power are equal |
| `ReservationLedgerProofs` | `LedgerTypes`, `LedgerRecords`, `LedgerKeys`, `LedgerSellsOnce`, `LedgerImplementsCapacity` | `RecordsAgree` is inductive with the types; keys and answers strengthen each other; the step of `CreateConfirmed` uses `ReservedAfterConfirm` |
| `ReservationTransactionsProofs` | `TransactionsTypes`, `TransactionsInsertOnce`, `TransactionsActivateOnce`; `TransactionsImplementCapacity` for one product | `TransactionsInv`: no two sessions hold the same advisory lock (`LocksExclude`), and a row marked by a sweep is CONFIRMED and marked by that sweep alone (`MarksHold`). For the refinement `LedgerInv` adds that what a loop has given still fits the offers it saw (`LoopFits`), because nobody else holds the lock of its product |
| `OpenAdrProofs` | `AllocationLoopTypes`, `AllocationLoopDecides`, `AllocationLoopIsForced`; `AdapterTypes`, `AdapterLoopDecides`, `AdapterReplayAgrees`, `AdapterReportsCover`, `AdapterReplayNeverFails` | `LoopInv`: given + missing = power, visited resources are exhausted and precede pending ones. `AInv` adds the lock: its one holder is the handler in the loop or among the acceptors; a reservation is what its interval asked for until an activation fails (`ReservationsMatch`), handlers hold the power from before a refusal (`Holds`), and the status of every report agrees with the activation (`Fits`) |
| `ProvisioningProofs` | `PebcTypes`, `BudgetsAlwaysHold`; `ProvisioningTypes`, `ProvisionedBudgetsHold`, `VersionsNameOneRecord`, `OnlyOvertakenOffersAreStale` | `IInv`: the baseline stays in the envelope and what was given up to a segment is within the **least** headroom of all later ones (`WithinBudget`), which `BudgetsHold` alone does not say. `PInv` adds that the record a running message has read is current, or the message is marked, or refused (`MessageIsCurrent`) |
| | `PebcActivationsStayInside`, `PebcOffersCovered`; `ProvisionedActivationsStayInside`, `ProvisionedOffersCovered` | `RInv`, below |
| `OutboxProofs` | `OutboxTypes`, `OutboxFences`, `OutboxSpendsItsBudget`, `OutboxAcceptsWhatWasTaken`, `OutboxSettlesTogether`, `OutboxKeepsItsPromise` | `OutboxInv`: a worker in a transaction owns its row (`Working`), one worker holds the activation (`OneFinalizer`), and what it counted is still true (`CountedBy`), since every other decision needs that lock. Without the last part the result could be wrong though all rows are right |
| `OfferStoreProofs` | `StoreTypes`, `StoreKeepsOrder`, `StorePublishesOnce`, for both stores; `MemoryCohortsAgree` | `StoreInv`: what was taken away is behind its source's position, strictly while it is connected (`TakenIsBehind`); a cell that is not suppressed still has the offers it was published with (`Shown`), so an unchanged cohort means an unchanged sum; what a query read of a cell is right until it visits it (`KnownIsFresh`) |
| `ApiProofs` | `PublicationTypes`, `PublicationIsUnique`, `PublicationForgets` | `PublicationInv`: all that is in a snapshot, or on its way, comes from the one residual of its cell (`FromResidual`); whoever still carries the value of a gone cell was admitted by the epoch it went in (`Departed`) |
| | `AdmissionTypes`, `RequestsAreAccounted` | `AdmissionInv`: the counters are the cardinalities of the sets of requests in the stages they stand for, and every step moves one request from one set to another. Nothing that was passed on is above the limit (`BodiesBounded`). A request that is not yet answered carries 500 (`Unanswered`), so that a 503 is the answer of `Shed` or of an endpoint |

**The offers of a forecast.** `RInv` adds to `IInv` what each loop of the normalization keeps: segments do not overlap and
their power and room are within the limits (`SegmentsFit`), the baseline is the running sum of their energy (`EnergiesAdd`), a
segment is given at most its room for its duration (`SharesFit`), and the third loop has offered exactly those
buckets it passed that are covered, none of which reaches beyond the final end (`BucketsFollow`). The two
properties follow from it in five steps:

1. `SumUpTo` is a function defined by recursion on its place. Its one recurrence, `SumRecurrence`, is proved with
   set induction: the least number outside the set of those the claim holds for cannot exist
   (`MinOfNaturals`, from the library's `WFMin`, which takes a set and no operator).
2. `At(v)` unrolls the forecast into steps of time, 0 in gaps. `Resampled`: what the code adds over the overlaps of a bucket with the
   segments is the difference of two sums over steps. Hence a bucket is covered exactly if each of its moments is in
   a segment (`CoveredMeans`), which is `OffersEveryCoveredBucket`.
3. `EnvelopeKept`: the baseline plus all of `Left("DOWNWARD")`, or less all of `Left("UPWARD")`, stays in the envelope up to any
   moment. At the end of a segment this is `WithinBudget`; within one, energies are straight lines (`TwoLines`).
4. `DeviationBound`: at every moment that is not amid an activated bucket, what the resource has drawn differs from the forecast
   by at most what was left to the segments until then, whichever offers were activated. A bucket adds its capacity for
   its duration, and that is no more than what the segments in it have left (`CapacityIsLeft`), since the capacity is their worst.
5. Amid an activated bucket the power is constant, so the stored energy is between its values at the two edges (`Line`), and
   both are within the envelope by 3 and 4.

Step 5 is why the property holds although the forecast inside a bucket may bend: the instruction replaces it by its average.

`TransactionsImplementCapacity` assumes `OneProduct`. With several products the refinement fails, as in the
code: obsolete offers of other products are deleted without their locks, while a create may be selling
them (`obsolete_offer`).

Every safety property that a passing run checks is a theorem, `LedgerSpec` of the transactions for one product (as the run has
it) and `AdjacentCohortsAgree` for the store in memory (for PostgreSQL it is false, section 5). Only
model-checked: liveness (`EveryActivationSettles`, `EveryNoticeEnds`, `EventSettles`, `DiligentAnswered`), which needs
ENABLED and is out of the prover's reach.

## 5. What the code does not keep

Three runs expect a counterexample.

- **`double_sale`** (`NoDoubleSale`). `cancel` and `activate` read CONFIRMED under the lock of their
  reservation; a call that holds other locks sweeps it to EXPIRED and commits, a `create` sells the
  capacity again, and then the first transaction writes over the expiry: `UPDATE …
  SET status` (`reservations/postgres.py:404-412`) does not look at the old status. ADR-008:29: *"Dos procesos con la
  misma instantánea de ofertas no pueden vender dos veces una celda."* The ghost `revived`
  marks those reservations; `LedgerSpec` of `transactions` shows that they are the only deviation.
- **`obsolete_offer`** (`SoldWhatIsOffered`). `upsert` locks the products of the cell it writes, and deletes
  the source's obsolete offers in all others (`domain/postgres.py:466-484`). A `create` between its
  read of such an offer and its commit sells what is gone. ADR-009:19-21: *"una actualización o
  retirada de oferta no puede intercalarse con la decisión transaccional de reservar ese
  producto."*
- **`adjacent_cohorts`** (`AdjacentCohortsAgree` with `Durable`). `PostgresOfferStore.query` reads the
  published cohorts once (`domain/postgres.py:667-683`); the first query for two touching cells publishes both,
  whatever their cohorts. ADR-004:18: *"No se publica un intervalo adyacente cuya cohorte difiera de
  otra ya publicada."* The in-memory store is right, which `offer_store` checks and
  `MemoryCohortsAgree` proves.

Observations made while modelling, where no sentence of the repository is plainly contradicted:

- An envelope read by `require` may be replaced before the first upsert of its offers. `upsert` does not compare versions, and
  offers made under the old envelope are stored (`StaleOffersWereOvertaken`, ghost `overtaken`), although ADR-009:25-28 wants
  a new version to revoke what was offered before. The registry in memory does not withdraw offers at all.
- The key of an interval is used up by a reservation that expired or was cancelled: every later delivery of the event
  finds it and fails (`EventSettles`).
- The report of a FAILED activation carries the full allocated power under `DER_FLEX_ACCEPTED_KW` (with confidence 0) when it is built by the delivery
  that activated, and only the accepted power when a later delivery builds it.
- An interval that is malformed or finds no capacity fails the event after earlier intervals were activated.
- The energy of forecast elements before the validity of the limits, or without a supported value, is not counted, although the budgets are
  said to be shared "across the complete forecast" (`adapters/s2/pebc.py:80`).
- An element of no length is not refused where elements are read (`adapters/s2/pebc.py:165-167`). It raises `ZeroDivisionError` in the
  loop of the budgets, and the whole message is lost.
- `PEBC.EnergyConstraint` of `docs/hito-0-investigacion.md:38` has no counterpart in the normalization.

## 6. Left out, and the plan

Abstracted throughout: fingerprints are equality of requests, floats are units, payloads,
signatures and logging are absent. `Publication` takes one figure for the four of an aggregate,
leaves out the seven-day clean-up of budgets and snapshots, and takes what the store returns as
eligible (`privacy.eligible` repeats the threshold with which the store is built,
`demo.py:40-44`; a cohort is fixed once published, so a higher threshold drops the same cells
always). In-line webhooks of the in-memory activation are not in `ReservationLedger`, and an acceptor
that raises after another has acted is in `OpenAdrAdapter` only. `PebcNormalization` takes an S2 message as its limits
and its forecast: schema, units, phases and confidence are left out. `Provisioning` has one resource.
`HttpAdmission` leaves out latency histograms and the text of `/metrics`.

Not modelled:

- *Access control and audit* (`security.py`, `security_audit.py`): every decision is a function of one token or one
  principal; there is no state between requests, and what remains is cryptography and parsing.
- *Simulators and demo*: synthetic devices and seed data, not part of the service.
- *Release, pilot and container tooling* (`src/scripts/`): verification scripts that run once over files or a
  deployment; they are a third of the lines the map does not cover.
- *Validation* of requests and models, event parsing, DDL, and read-only listings such as `zones`.

| | Module | Question | Proof |
|---|---|---|---|
| A | ReservationLedger, AllocationLoop | sold once, keys, records | done |
| B | ReservationTransactions | interleaved statements | done; `LedgerSpec` for one product |
| C | Outbox, ActivationOutcome | settled together, once | done |
| D | OfferStore, PublicCells | order of sources, one sum | done |
| F | Publication | one value per cell over all transactions | done |
| G | PebcNormalization | energy and resampling | done, energy and coverage of the offers included |
| H | HttpAdmission | limits and release on every way out | done |
| I | Provisioning | versions, withdrawal, envelopes read before a registration | done |
| J | OpenAdrAdapter | redelivery, dead reservations, reports | done |

What would come next: several products in `TransactionsImplementCapacity`, with an abstract ledger in which an offer may be
withdrawn under a pending sale; in-line webhooks of the in-memory activation; two resources in
`Provisioning` with the cells of `OfferStore`.
