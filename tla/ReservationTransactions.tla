----------------------- MODULE ReservationTransactions -----------------------
(***************************************************************************)
(* ReservationService over PostgresReservationBackend: API calls of        *)
(* several processes, each one READ COMMITTED transaction.                 *)
(*                                                                         *)
(* A call is split at its SQL statements, because each of them sees what   *)
(* other transactions have committed in the meantime.  Advisory locks are  *)
(* held from Acquire to the end; they are taken in sorted order, so taking *)
(* them one by one only adds waiting.  The only writes a transaction makes *)
(* before its last statement are the EXPIRED marks of its sweep: until it  *)
(* commits they are visible to itself alone, and the marked rows are       *)
(* locked.  The last write and the commit are one step.                    *)
(*                                                                         *)
(* Offers live in tables of their own, read through their own connection;  *)
(* their writers take the product locks of the cell they write.            *)
(***************************************************************************)
EXTENDS Capacity

CONSTANTS
  Sessions,             \* connections with a call in progress
  Keys,                 \* tenant-qualified idempotency keys
  Start,                \* Start[p]: interval_start of a product
  HoldTime,             \* timedelta(minutes=5)
  MinimumParticipants,  \* k, the privacy threshold
  Powers,               \* bound: requested powers that are enumerated
  OfferLevels,          \* bound: capacities an upsert may bring
  InitialOffers,        \* the offer table at the start
  MaxTime,              \* bound on the clock
  NoProduct, NoKey, NoCall

ASSUME TransactionsAssumption ==
  /\ Start \in [Products -> Nat]
  /\ HoldTime \in Nat \ {0}
  /\ MinimumParticipants \in Nat \ {0}
  /\ Powers \subseteq Nat \ {0}
  /\ OfferLevels \subseteq 0..MaxOffer
  /\ InitialOffers \in [Products -> [Resources -> (0..MaxOffer) \cup {NoOffer}]]
  /\ MaxTime \in Nat
  /\ NoProduct \notin Products /\ NoKey \notin Keys

Requests == [product : Products, power : Powers]

Calls ==
  [op : {"create"}, key : Keys, request : Requests]
    \cup [op : {"get", "cancel", "activate"}, reservation : Reservations]

ASSUME CallAssumption == NoCall \notin Calls

VARIABLES
  clock,
  offers,      \* der_flex_offers
  status,      \* der_flex_reservations: status, "NONE" before the row exists
  key,         \*   idempotency_key
  product,     \*   zone, interval, consequence, direction, tenant
  requested,   \*   requested_power_kw; with product the fingerprint
  expires,     \*   expires_at
  claim,       \* der_flex_allocations
  activated,   \* reservations with a row in der_flex_activations
  pc,          \* where the call of a session is
  call,        \* the call
  now,         \* the instant the call works with
  marked,      \* rows the session's sweep has set to EXPIRED
  pending,     \* create: resources whose offer is still to be looked at
  seen,        \* create: the offers it read
  remaining,   \* create: power still missing
  given,       \* create: allocations so far
  granted,     \* ghost: the claim a reservation was confirmed with
  revived      \* ghost: reservations written over after they had expired

rows == <<status, key, product, requested, expires, claim, activated>>
local == <<pending, seen, remaining, given>>
ghosts == <<granted, revived>>
session == <<pc, call, now, marked, local>>
vars == <<clock, offers, rows, session, ghosts>>

Statuses == {"NONE", "CONFIRMED", "CANCELLED", "EXPIRED", "ACTIVATED",
             "COMPLETED", "FAILED"}

Init ==
  /\ clock = 0
  /\ offers = InitialOffers
  /\ status = [r \in Reservations |-> "NONE"]
  /\ key = [r \in Reservations |-> NoKey]
  /\ product = [r \in Reservations |-> NoProduct]
  /\ requested = [r \in Reservations |-> 0]
  /\ expires = [r \in Reservations |-> 0]
  /\ claim = [r \in Reservations |-> NoClaim]
  /\ activated = {}
  /\ pc = [c \in Sessions |-> "idle"]
  /\ call = [c \in Sessions |-> NoCall]
  /\ now = [c \in Sessions |-> 0]
  /\ marked = [c \in Sessions |-> {}]
  /\ pending = [c \in Sessions |-> {}]
  /\ seen = [c \in Sessions |-> NoClaim]
  /\ remaining = [c \in Sessions |-> 0]
  /\ given = [c \in Sessions |-> NoClaim]
  /\ granted = [r \in Reservations |-> NoClaim]
  /\ revived = {}

-----------------------------------------------------------------------------
(* Locks and visibility *)

(* Mutant of Locks: get, cancel and activate take no lock. *)
LocksOfCreate(x) ==
  IF x.op = "create"
    THEN {<<"idempotency", x.key>>, <<"product", x.request.product>>}
    ELSE {}

(* Mutant of Locks: create does not lock its product. *)
LocksWithoutProduct(x) ==
  IF x.op = "create" THEN {<<"idempotency", x.key>>}
  ELSE {<<"reservation", x.reservation>>}

Locks(x) ==
  IF x.op = "create"
    THEN {<<"idempotency", x.key>>, <<"product", x.request.product>>}
    ELSE {<<"reservation", x.reservation>>}

Held(c) == IF pc[c] \in {"idle", "waiting"} THEN {} ELSE Locks(call[c])

LockedByOther(c, l) == \E d \in Sessions \ {c} : l \in Held(d)

(* Mutant of RowFree: an UPDATE does not wait for the row lock. *)
RowAlwaysFree(c, r) == r \in Reservations

RowFree(c, r) == \A d \in Sessions \ {c} : r \notin marked[d]

(* What session c sees: committed rows and its own marks. *)
View(c) ==
  [r \in Reservations |-> IF r \in marked[c] THEN "EXPIRED" ELSE status[r]]

(* The transaction of c ends; its locks go. *)
Finish(c) ==
  /\ pc' = [pc EXCEPT ![c] = "idle"]
  /\ call' = [call EXCEPT ![c] = NoCall]
  /\ now' = [now EXCEPT ![c] = 0]
  /\ marked' = [marked EXCEPT ![c] = {}]
  /\ pending' = [pending EXCEPT ![c] = {}]
  /\ seen' = [seen EXCEPT ![c] = NoClaim]
  /\ remaining' = [remaining EXCEPT ![c] = 0]
  /\ given' = [given EXCEPT ![c] = NoClaim]

(* Only the sweep is committed. *)
CommitSweep(c) ==
  /\ status' = View(c)
  /\ Finish(c)
  /\ UNCHANGED <<clock, offers, key, product, requested, expires, claim,
                 activated, ghosts>>

Rollback(c) ==
  /\ Finish(c)
  /\ UNCHANGED <<clock, offers, rows, ghosts>>

-----------------------------------------------------------------------------
(* Every call: its locks, then the sweep *)

(* create reads the clock before it asks for its locks. *)
Begin(c, x) ==
  /\ pc[c] = "idle"
  /\ x.op # "create" => status[x.reservation] # "NONE"
  /\ pc' = [pc EXCEPT ![c] = "waiting"]
  /\ call' = [call EXCEPT ![c] = x]
  /\ now' = [now EXCEPT ![c] = clock]
  /\ UNCHANGED <<clock, offers, rows, marked, local, ghosts>>

Acquire(c) ==
  /\ pc[c] = "waiting"
  /\ \A l \in Locks(call[c]) : ~LockedByOther(c, l)
  /\ pc' = [pc EXCEPT ![c] = "locked"]
  /\ UNCHANGED <<clock, offers, rows, call, now, marked, local, ghosts>>

(* activate finds an activation and returns it. *)
AlreadyActivated(c) ==
  /\ pc[c] = "locked"
  /\ call[c].op = "activate" /\ call[c].reservation \in activated
  /\ Rollback(c)

Overdue(at) ==
  {r \in Reservations : status[r] = "CONFIRMED" /\ expires[r] <= at}

(* expire: waits for rows another sweep has marked, and marks those that   *)
(* are still CONFIRMED then.  get, cancel and activate read the clock now. *)
Sweep(c) ==
  /\ pc[c] = "locked"
  /\ ~(call[c].op = "activate" /\ call[c].reservation \in activated)
  /\ LET at == IF call[c].op = "create" THEN now[c] ELSE clock IN
     /\ \A r \in Overdue(at) : RowFree(c, r)
     /\ now' = [now EXCEPT ![c] = at]
     /\ marked' = [marked EXCEPT ![c] = Overdue(at)]
  /\ pc' = [pc EXCEPT ![c] = "swept"]
  /\ UNCHANGED <<clock, offers, rows, call, local, ghosts>>

-----------------------------------------------------------------------------
(* get, cancel, activate *)

Get(c) ==
  /\ pc[c] = "swept" /\ call[c].op = "get"
  /\ CommitSweep(c)

(* The status is read here, and written by a later statement that does not *)
(* look at it again. *)
ReadConfirmed(c) ==
  /\ pc[c] = "swept" /\ call[c].op \in {"cancel", "activate"}
  /\ View(c)[call[c].reservation] = "CONFIRMED"
  /\ pc' = [pc EXCEPT ![c] = "writing"]
  /\ UNCHANGED <<clock, offers, rows, call, now, marked, local, ghosts>>

(* ReservationStateConflict: even the sweep is rolled back. *)
ReadOther(c) ==
  /\ pc[c] = "swept" /\ call[c].op \in {"cancel", "activate"}
  /\ View(c)[call[c].reservation] # "CONFIRMED"
  /\ Rollback(c)

(* update_reservation, for activate after save_activation; commit. *)
Write(c) ==
  LET r == call[c].reservation
      cancelled == call[c].op = "cancel"
  IN
  /\ pc[c] = "writing"
  /\ RowFree(c, r)
  /\ status' =
       [View(c) EXCEPT ![r] = IF cancelled THEN "CANCELLED" ELSE "ACTIVATED"]
  /\ activated' = IF cancelled THEN activated ELSE activated \cup {r}
  /\ revived' = IF status[r] = "EXPIRED" THEN revived \cup {r} ELSE revived
  /\ Finish(c)
  /\ UNCHANGED <<clock, offers, key, product, requested, expires, claim,
                 granted>>

-----------------------------------------------------------------------------
(* create *)

WithKey(k) == {r \in Reservations : status[r] # "NONE" /\ key[r] = k}

(* The key is known: its reservation is returned and the sweep committed,  *)
(* or IdempotencyConflict rolls everything back. *)
KeyKnown(c) ==
  /\ pc[c] = "swept" /\ call[c].op = "create"
  /\ \E r \in WithKey(call[c].key) :
       IF call[c].request = [product |-> product[r], power |-> requested[r]]
         THEN CommitSweep(c)
         ELSE Rollback(c)

ReadOffers(c) ==
  LET q == call[c].request
      row == offers[q.product]
  IN
  /\ pc[c] = "swept" /\ call[c].op = "create"
  /\ WithKey(call[c].key) = {}
  /\ IF Cardinality(Participants(row)) >= MinimumParticipants
     THEN /\ pc' = [pc EXCEPT ![c] = "looping"]
          /\ seen' = [seen EXCEPT ![c] = row]
          /\ pending' = [pending EXCEPT ![c] = Participants(row)]
          /\ remaining' = [remaining EXCEPT ![c] = q.power]
          /\ UNCHANGED <<clock, offers, rows, call, now, marked, given, ghosts>>
     ELSE Rollback(c)

(* reserved_for_offer and the arithmetic for the next resource.            *)
Available(c, s) ==
  LET reserved == Reserved(View(c), product, claim,
                           Market[call[c].request.product], s)
  IN  IF seen[c][s] > reserved THEN seen[c][s] - reserved ELSE 0

VisitOffer(c, s) ==
  /\ pc[c] = "looping"
  /\ remaining[c] > 0
  /\ s \in pending[c] /\ \A t \in pending[c] : s <= t
  /\ LET x == IF Available(c, s) < remaining[c]
                THEN Available(c, s) ELSE remaining[c]
     IN  /\ given' = [given EXCEPT ![c][s] = x]
         /\ remaining' = [remaining EXCEPT ![c] = @ - x]
  /\ pending' = [pending EXCEPT ![c] = @ \ {s}]
  /\ UNCHANGED <<clock, offers, rows, pc, call, now, marked, seen, ghosts>>

(* InsufficientCapacity. *)
NothingLeft(c) ==
  /\ pc[c] = "looping"
  /\ remaining[c] > 0 /\ pending[c] = {}
  /\ Rollback(c)

(* Mutant of ExpiresAt: the hold time has the wrong sign. *)
HoldSubtracted(p, at) ==
  IF Start[p] < at - HoldTime THEN Start[p] ELSE at - HoldTime

ExpiresAt(p, at) ==
  IF Start[p] < at + HoldTime THEN Start[p] ELSE at + HoldTime

(* save_reservation; commit. *)
Save(c, r) ==
  LET q == call[c].request IN
  /\ pc[c] = "looping" /\ remaining[c] = 0
  /\ status[r] = "NONE"
  /\ status' = [View(c) EXCEPT ![r] = "CONFIRMED"]
  /\ key' = [key EXCEPT ![r] = call[c].key]
  /\ product' = [product EXCEPT ![r] = q.product]
  /\ requested' = [requested EXCEPT ![r] = q.power]
  /\ expires' = [expires EXCEPT ![r] = ExpiresAt(q.product, now[c])]
  /\ claim' = [claim EXCEPT ![r] = given[c]]
  /\ granted' = [granted EXCEPT ![r] = given[c]]
  /\ Finish(c)
  /\ UNCHANGED <<clock, offers, activated, revived>>

-----------------------------------------------------------------------------
(* The surroundings *)

(* The connection breaks, the process dies, or PostgreSQL picks the        *)
(* transaction to resolve a deadlock between row locks. *)
Abort(c) ==
  /\ pc[c] # "idle"
  /\ Rollback(c)

(* The outbox worker's _finalize_activation, one transaction. *)
Settle(r, accepted) ==
  /\ status[r] = "ACTIVATED"
  /\ accepted \subseteq {s \in Resources : claim[r][s] > 0}
  /\ claim' = [claim EXCEPT ![r] =
                 [s \in Resources |-> IF s \in accepted THEN @[s] ELSE 0]]
  /\ status' = [status EXCEPT ![r] =
                  IF claim'[r] = claim[r] THEN "COMPLETED" ELSE "FAILED"]
  /\ UNCHANGED <<clock, offers, key, product, requested, expires, activated,
                 session, ghosts>>

(* PostgresOfferStore.upsert of resource s into product p, with the lock   *)
(* of that product.  If the position of the source moves on, the offers    *)
(* the resource has elsewhere are obsolete and are deleted too. *)
Upsert(p, s) ==
  /\ \A c \in Sessions : <<"product", p>> \notin Held(c)
  /\ \E level \in OfferLevels, newer \in BOOLEAN :
       offers' = [x \in Products |->
                    IF x = p THEN [offers[x] EXCEPT ![s] = level]
                    ELSE IF newer THEN [offers[x] EXCEPT ![s] = NoOffer]
                    ELSE offers[x]]
  /\ UNCHANGED <<clock, rows, session, ghosts>>

(* remove_resource, with the locks of every product the resource is in. *)
RemoveResource(s) ==
  /\ \A c \in Sessions, p \in Products :
       offers[p][s] # NoOffer => <<"product", p>> \notin Held(c)
  /\ offers' = [p \in Products |-> [offers[p] EXCEPT ![s] = NoOffer]]
  /\ UNCHANGED <<clock, rows, session, ghosts>>

Tick ==
  /\ clock < MaxTime
  /\ clock' = clock + 1
  /\ UNCHANGED <<offers, rows, session, ghosts>>

Step(c) ==
  \/ \E x \in Calls : Begin(c, x)
  \/ Acquire(c) \/ AlreadyActivated(c) \/ Sweep(c)
  \/ Get(c) \/ ReadConfirmed(c) \/ ReadOther(c) \/ Write(c)
  \/ KeyKnown(c) \/ ReadOffers(c)
  \/ \E s \in Resources : VisitOffer(c, s)
  \/ NothingLeft(c)
  \/ \E r \in Reservations : Save(c, r)
  \/ Abort(c)

Next ==
  \/ \E c \in Sessions : Step(c)
  \/ \E r \in Reservations, accepted \in SUBSET Resources : Settle(r, accepted)
  \/ \E p \in Products, s \in Resources : Upsert(p, s)
  \/ \E s \in Resources : RemoveResource(s)
  \/ Tick

Spec == Init /\ [][Next]_vars

-----------------------------------------------------------------------------
(* Types of the state. *)
TypeOK ==
  /\ clock \in 0..MaxTime
  /\ offers \in [Products -> [Resources -> (0..MaxOffer) \cup {NoOffer}]]
  /\ status \in [Reservations -> Statuses]
  /\ key \in [Reservations -> Keys \cup {NoKey}]
  /\ product \in [Reservations -> Products \cup {NoProduct}]
  /\ requested \in [Reservations -> Nat]
  /\ expires \in [Reservations -> Nat]
  /\ claim \in [Reservations -> Claims] /\ granted \in [Reservations -> Claims]
  /\ activated \subseteq Reservations /\ revived \subseteq Reservations
  /\ pc \in [Sessions -> {"idle", "waiting", "locked", "swept", "writing",
                          "looping"}]
  /\ call \in [Sessions -> Calls \cup {NoCall}]
  /\ now \in [Sessions -> 0..MaxTime]
  /\ marked \in [Sessions -> SUBSET Reservations]
  /\ pending \in [Sessions -> SUBSET Resources]
  /\ seen \in [Sessions -> [Resources -> (0..MaxOffer) \cup {NoOffer}]]
  /\ remaining \in [Sessions -> Nat]
  /\ given \in [Sessions -> Claims]

(* The locks keep every INSERT clear of the unique constraints: a retry    *)
(* that races its original waits and finds its reservation, a second       *)
(* activate finds the activation (service.py:124-139, 288-296;             *)
(* postgres.py:620-630).                                                   *)
NoUniqueViolation ==
  \A c \in Sessions :
    /\ pc[c] = "looping" => WithKey(call[c].key) = {}
    /\ pc[c] = "writing" => call[c].reservation \notin activated

(* An activation never loses its reservation: whatever sweeps, cancels and *)
(* activates interleave, there is an activation exactly for the            *)
(* reservations that are ACTIVATED or settled (service.py:288-326,         *)
(* postgres.py:263-271, 404-412, 435-461).                                 *)
ActivatedStaysActivated ==
  \A r \in Reservations :
    r \in activated <=> status[r] \in {"ACTIVATED", "COMPLETED", "FAILED"}

(* Apart from reservations that were written over after their expiry, the  *)
(* committed ledger implements CapacityLedger: one life cycle, and every   *)
(* claim within the offers that are current when it commits                *)
(* (service.py:124-202, postgres.py:303-331, 620-630).                     *)
Ledger == INSTANCE CapacityLedger WITH
  status <- [r \in Reservations |->
               IF r \in revived THEN "EXPIRED" ELSE status[r]],
  claim <- [r \in Reservations |->
               IF r \in revived THEN granted[r] ELSE claim[r]]
LedgerSpec == Ledger!Spec

(* "No two reservations sell the same capacity": what active reservations  *)
(* hold of a resource is within its offer, as long as offers stand still   *)
(* (docs/adr/008-ledger-postgresql-reservas.md:29).                        *)
NoDoubleSale ==
  \A p \in Products, s \in Resources :
    offers[p][s] # NoOffer =>
      Reserved(status, product, claim, Market[p], s) <= offers[p][s]

(* "An update or withdrawal of an offer cannot come between the decision   *)
(* to reserve its product": what a reservation commits to is on offer      *)
(* (docs/adr/009-ofertas-y-registro-postgresql.md:19-21).                  *)
SellsWhatIsOffered ==
  \A r \in Reservations :
    status[r] = "NONE" /\ status'[r] # "NONE" =>
      \A s \in Resources :
        claim'[r][s] > 0 =>
          /\ offers[product'[r]][s] # NoOffer
          /\ claim'[r][s] <= offers[product'[r]][s]

SoldWhatIsOffered == [][SellsWhatIsOffered]_vars

=============================================================================
