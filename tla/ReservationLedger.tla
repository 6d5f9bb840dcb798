-------------------------- MODULE ReservationLedger --------------------------
(***************************************************************************)
(* ReservationService over InMemoryReservationBackend.                     *)
(*                                                                         *)
(* The backend's transaction() is one process-wide RLock, so every service *)
(* call is one atomic action here.  Nothing is rolled back when a call     *)
(* raises: the expiry sweep it started with stays.                         *)
(***************************************************************************)
EXTENDS Capacity

CONSTANTS
  Keys,                 \* tenant-qualified idempotency keys
  ProductsOf,           \* ProductsOf[k]: the products of the tenant of key k
  Start,                \* Start[p]: interval_start of a product
  HoldTime,             \* timedelta(minutes=5)
  MinimumParticipants,  \* k, the privacy threshold
  Powers,               \* bound: requested powers that are enumerated
  OfferLevels,          \* bound: capacities an offer may take
  InitialOffers,        \* the offer table when the service starts
  MaxTime,              \* bound on the clock
  NoProduct, NoEntry, NoActivation

ASSUME LedgerAssumption ==
  /\ ProductsOf \in [Keys -> SUBSET Products]
  /\ Start \in [Products -> Nat]
  /\ HoldTime \in Nat \ {0}
  /\ MinimumParticipants \in Nat \ {0}
  /\ Powers \subseteq Nat \ {0}
  /\ OfferLevels \subseteq 0..MaxOffer
  /\ InitialOffers \in [Products -> [Resources -> 0..MaxOffer]]
  /\ MaxTime \in Nat
  /\ NoProduct \notin Products

(* The request payload; its SHA-256 fingerprint is taken to be injective.  *)
Requests == [product : Products, power : Powers]

ASSUME SentinelAssumption ==
  /\ NoEntry \notin [request : Requests, reservation : Reservations]
  /\ NoActivation \notin
       [status : {"COMPLETED", "FAILED"}, decided : 0..MaxTime,
        instructions : Nat, accepted : Nat, rejected : Nat]

VARIABLES
  clock,        \* datetime.now(UTC)
  offers,       \* eligible offers, as offer_store.eligible_offers sees them
  idempotency,  \* _idempotency: key -> (request, reservation)
  status,       \* Reservation.status, "NONE" before the reservation exists
  product,      \* the product of the reservation
  requested,    \* Reservation.requested_power_kw
  allocated,    \* Reservation.allocated_power_kw
  expires,      \* Reservation.expires_at
  claim,        \* _allocations
  activation,   \* _activations via _activation_by_reservation
  answers       \* history: (request, reservation) answered per key

reservationVars == <<product, requested, allocated, expires, claim>>
vars == <<clock, offers, idempotency, status, reservationVars, activation,
          answers>>

Statuses == {"NONE", "CONFIRMED", "CANCELLED", "EXPIRED", "COMPLETED", "FAILED"}

Activations ==
  [status : {"COMPLETED", "FAILED"}, decided : 0..MaxTime,
   instructions : Nat, accepted : Nat, rejected : Nat]

Entries == [request : Requests, reservation : Reservations]

-----------------------------------------------------------------------------
(* expire(now): the sweep every call starts with. *)

(* Mutant of Overdue: the sweep does not look at the status. *)
OverdueWhateverStatus(now) ==
  {r \in Reservations : status[r] # "NONE" /\ expires[r] <= now}

Overdue(now) ==
  {r \in Reservations : status[r] = "CONFIRMED" /\ expires[r] <= now}

AfterExpiry(now) ==
  [r \in Reservations |-> IF r \in Overdue(now) THEN "EXPIRED" ELSE status[r]]

-----------------------------------------------------------------------------
(* create *)

(* Mutant of Free: forgets what is already sold. *)
FreeIgnoringReservations(st, p) ==
  [s \in Resources |-> IF offers[p][s] # NoOffer THEN offers[p][s] ELSE 0]

(* max(0, capacity - already_reserved), where reserved is what active      *)
(* reservations hold in the market of p once the sweep has produced st.    *)
Free(st, p) ==
  [s \in Resources |->
     LET reserved == Reserved(st, product, claim, Market[p], s) IN
     IF offers[p][s] # NoOffer /\ offers[p][s] > reserved
       THEN offers[p][s] - reserved
       ELSE 0]

Allocations(st, q) ==
  {a \in Claims : IsAllocation(a, Free(st, q.product), q.power)}

EnoughParticipants(p) ==
  Cardinality(Participants(offers[p])) >= MinimumParticipants

(* Mutant of CreateOnUsedKey: the fingerprint is not compared.             *)
ReplayUnchecked(k, q, now) ==
  /\ idempotency[k] # NoEntry
  /\ status' = AfterExpiry(now)
  /\ answers' = [answers EXCEPT ![k] =
                   @ \cup {<<q, idempotency[k].reservation>>}]
  /\ UNCHANGED <<clock, offers, idempotency, reservationVars, activation>>

(* The key is known: the stored reservation is returned, or the request    *)
(* differs and IdempotencyConflict is raised.                              *)
CreateOnUsedKey(k, q, now) ==
  /\ idempotency[k] # NoEntry
  /\ status' = AfterExpiry(now)
  /\ answers' =
       IF idempotency[k].request = q
         THEN [answers EXCEPT ![k] =
                 @ \cup {<<q, idempotency[k].reservation>>}]
         ELSE answers
  /\ UNCHANGED <<clock, offers, idempotency, reservationVars, activation>>

(* InsufficientCapacity. *)
CreateRejected(k, q, now) ==
  /\ idempotency[k] = NoEntry
  /\ ~EnoughParticipants(q.product) \/ Allocations(AfterExpiry(now), q) = {}
  /\ status' = AfterExpiry(now)
  /\ UNCHANGED <<clock, offers, idempotency, reservationVars, activation,
                 answers>>

(* Mutant of ExpiresAt: the hold time has the wrong sign. *)
HoldSubtracted(p, now) ==
  IF Start[p] < now - HoldTime THEN Start[p] ELSE now - HoldTime

ExpiresAt(p, now) ==
  IF Start[p] < now + HoldTime THEN Start[p] ELSE now + HoldTime

CreateConfirmed(k, q, now) ==
  /\ idempotency[k] = NoEntry
  /\ EnoughParticipants(q.product)
  /\ \E r \in Reservations, a \in Allocations(AfterExpiry(now), q) :
       /\ status[r] = "NONE"
       /\ status' = [AfterExpiry(now) EXCEPT ![r] = "CONFIRMED"]
       /\ product' = [product EXCEPT ![r] = q.product]
       /\ requested' = [requested EXCEPT ![r] = q.power]
       /\ allocated' = [allocated EXCEPT ![r] = Total(a)]
       /\ expires' = [expires EXCEPT ![r] = ExpiresAt(q.product, now)]
       /\ claim' = [claim EXCEPT ![r] = a]
       /\ idempotency' =
            [idempotency EXCEPT ![k] = [request |-> q, reservation |-> r]]
       /\ answers' = [answers EXCEPT ![k] = @ \cup {<<q, r>>}]
  /\ UNCHANGED <<clock, offers, activation>>

(* create reads the clock before it waits for the lock, so the instant it  *)
(* works with may lie in the past when its turn comes.                     *)
Create(k, q) ==
  \E now \in 0..clock :
    \/ CreateOnUsedKey(k, q, now)
    \/ CreateRejected(k, q, now)
    \/ CreateConfirmed(k, q, now)

-----------------------------------------------------------------------------
(* get, cancel, activate: these read the clock while they hold the lock.   *)

(* get; likewise a cancel or an activate that finds the reservation gone   *)
(* from CONFIRMED and raises, and an activate during which a resource      *)
(* acceptor raises.  Only the sweep stays.  (An activation that already    *)
(* exists is returned before the sweep and changes nothing.)               *)
Get ==
  /\ status' = AfterExpiry(clock)
  /\ UNCHANGED <<clock, offers, idempotency, reservationVars, activation,
                 answers>>

(* Mutant of Cancel: the status is not checked. *)
CancelUnchecked(r) ==
  /\ status[r] # "NONE"
  /\ status' = [AfterExpiry(clock) EXCEPT ![r] = "CANCELLED"]
  /\ UNCHANGED <<clock, offers, idempotency, reservationVars, activation,
                 answers>>

Cancel(r) ==
  /\ AfterExpiry(clock)[r] = "CONFIRMED"
  /\ status' = [AfterExpiry(clock) EXCEPT ![r] = "CANCELLED"]
  /\ UNCHANGED <<clock, offers, idempotency, reservationVars, activation,
                 answers>>

(* Resources an instruction is built for, one per stored allocation. *)
Instructed(r) == {s \in Resources : claim[r][s] > 0}

Kept(r, accepted) ==
  [s \in Resources |-> IF s \in accepted THEN claim[r][s] ELSE 0]

(* The instructions go out inside the transaction; accepted are the        *)
(* resources that took theirs.  The rest loses its allocation.  decided is *)
(* a ghost field, the instant the call was decided at: created_at is read  *)
(* once the resources have answered, and may lie later.                    *)
Activate(r, accepted) ==
  /\ activation[r] = NoActivation
  /\ AfterExpiry(clock)[r] = "CONFIRMED"
  /\ accepted \subseteq Instructed(r)
  /\ LET result == IF accepted = Instructed(r) THEN "COMPLETED" ELSE "FAILED"
     IN  /\ status' = [AfterExpiry(clock) EXCEPT ![r] = result]
         /\ activation' = [activation EXCEPT ![r] =
              [status |-> result,
               decided |-> clock,
               instructions |-> Cardinality(Instructed(r)),
               accepted |-> Cardinality(accepted),
               rejected |-> Cardinality(Instructed(r))
                              - Cardinality(accepted)]]
  /\ claim' = [claim EXCEPT ![r] = Kept(r, accepted)]
  /\ allocated' = [allocated EXCEPT ![r] = Total(Kept(r, accepted))]
  /\ UNCHANGED <<clock, offers, idempotency, product, requested, expires,
                 answers>>

-----------------------------------------------------------------------------
(* The surroundings. *)

Tick ==
  /\ clock < MaxTime
  /\ clock' = clock + 1
  /\ UNCHANGED <<offers, idempotency, status, reservationVars, activation,
                 answers>>

(* The offer store: an upsert, a withdrawal or the end of an offer's life  *)
(* changes what resource s offers for p.                                   *)
OfferChanges(p, s) ==
  /\ \E level \in OfferLevels \cup {NoOffer} :
       offers' = [offers EXCEPT ![p][s] = level]
  /\ UNCHANGED <<clock, idempotency, status, reservationVars, activation,
                 answers>>

-----------------------------------------------------------------------------
Init ==
  /\ clock = 0
  /\ offers = InitialOffers
  /\ idempotency = [k \in Keys |-> NoEntry]
  /\ status = [r \in Reservations |-> "NONE"]
  /\ product = [r \in Reservations |-> NoProduct]
  /\ requested = [r \in Reservations |-> 0]
  /\ allocated = [r \in Reservations |-> 0]
  /\ expires = [r \in Reservations |-> 0]
  /\ claim = [r \in Reservations |-> NoClaim]
  /\ activation = [r \in Reservations |-> NoActivation]
  /\ answers = [k \in Keys |-> {}]

Next ==
  \/ \E k \in Keys, q \in Requests : q.product \in ProductsOf[k] /\ Create(k, q)
  \/ Get
  \/ \E r \in Reservations :
       \/ Cancel(r)
       \/ \E accepted \in SUBSET Resources : Activate(r, accepted)
  \/ Tick
  \/ \E p \in Products, s \in Resources : OfferChanges(p, s)

Spec == Init /\ [][Next]_vars

-----------------------------------------------------------------------------
(* Types of the state. *)
TypeOK ==
  /\ clock \in 0..MaxTime
  /\ offers \in [Products -> [Resources -> (0..MaxOffer) \cup {NoOffer}]]
  /\ idempotency \in [Keys -> Entries \cup {NoEntry}]
  /\ status \in [Reservations -> Statuses]
  /\ product \in [Reservations -> Products \cup {NoProduct}]
  /\ requested \in [Reservations -> Nat]
  /\ allocated \in [Reservations -> Nat]
  /\ expires \in [Reservations -> Nat]
  /\ claim \in [Reservations -> Claims]
  /\ activation \in [Reservations -> Activations \cup {NoActivation}]
  /\ answers \in [Keys -> SUBSET (Requests \X Reservations)]

(* An idempotency key stands for one request and one reservation for ever: *)
(* whatever is retried, expired or cancelled in between, every success     *)
(* under a key named the pair stored with it, no two keys share a          *)
(* reservation, and no reservation exists without a key that asked for     *)
(* exactly it (service.py:131-139, 195-201).                               *)
Used(k) == idempotency[k] # NoEntry

KeysNameOneReservation ==
  /\ \A k \in Keys : \A x \in answers[k] :
       /\ Used(k)
       /\ x = <<idempotency[k].request, idempotency[k].reservation>>
  /\ \A k \in Keys : Used(k) =>
       LET r == idempotency[k].reservation IN
       /\ status[r] # "NONE"
       /\ idempotency[k].request =
            [product |-> product[r], power |-> requested[r]]
  /\ \A k, l \in Keys :
       /\ Used(k) /\ Used(l)
       /\ idempotency[k].reservation = idempotency[l].reservation
       => k = l
  /\ \A r \in Reservations : status[r] # "NONE" =>
       \E k \in Keys : Used(k) /\ idempotency[k].reservation = r

(* The three views of a reservation agree: its record, its allocations and *)
(* its activation.  The recorded power is what the allocations add up to;  *)
(* before an activation that is the whole request, afterwards an           *)
(* activation exists that was decided before the hold ran out, its         *)
(* counts balance, and COMPLETED means that nothing was rejected           *)
(* (service.py:231-278).                                                   *)
RecordAgrees(r) ==
  /\ allocated[r] = Total(claim[r])
  /\ status[r] \in {"CONFIRMED", "CANCELLED", "EXPIRED"} =>
       allocated[r] = requested[r]
  /\ activation[r] = NoActivation <=> status[r] \notin {"COMPLETED", "FAILED"}
  /\ activation[r] # NoActivation =>
       /\ activation[r].status = status[r]
       /\ activation[r].accepted = Cardinality(Instructed(r))
       /\ activation[r].instructions =
            activation[r].accepted + activation[r].rejected
       /\ status[r] = "COMPLETED" <=> activation[r].rejected = 0
       /\ activation[r].decided < expires[r]

RecordsAgree == \A r \in Reservations : RecordAgrees(r)

(* Capacity is sold once: whenever a step raises what active reservations  *)
(* hold of a resource in a market, the new total is within the offer the   *)
(* buyer's product has from that resource at that moment, even if the      *)
(* offer shrank below older claims meanwhile (service.py:152-175).         *)
SellsWithinOffer ==
  \A r \in Reservations :
    status[r] = "NONE" /\ status'[r] # "NONE" =>
      \A s \in Resources :
        claim'[r][s] > 0 =>
          /\ offers[product'[r]][s] # NoOffer
          /\ Reserved(status', product', claim', Market[product'[r]], s)
               <= offers[product'[r]][s]

SoldWithinOffer == [][SellsWithinOffer]_vars

(* The ledger implements the promise of CapacityLedger: single life cycle, *)
(* claims confirmed within the offer and never enlarged.                   *)
Ledger == INSTANCE CapacityLedger
LedgerSpec == Ledger!Spec

=============================================================================
