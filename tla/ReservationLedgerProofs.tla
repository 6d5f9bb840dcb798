----------------------- MODULE ReservationLedgerProofs -----------------------
(***************************************************************************)
(* Theorems about ReservationLedger, for every number of reservations,     *)
(* keys, products and resources, every capacity and every clock bound.     *)
(***************************************************************************)
EXTENDS ReservationLedger, CapacityProofs, TLAPS

(* The sweep yields a status for every reservation. *)
LEMMA AfterExpiryType ==
  ASSUME TypeOK, NEW now
  PROVE  AfterExpiry(now) \in [Reservations -> Statuses]
BY DEF AfterExpiry, TypeOK, Statuses

(* Activation records have their declared fields, with natural counts. *)
LEMMA ActivationCounts ==
  ASSUME TypeOK, NEW r \in Reservations, NEW accepted \in SUBSET Instructed(r)
  PROVE  /\ IsFiniteSet(Instructed(r)) /\ IsFiniteSet(accepted)
         /\ Cardinality(Instructed(r)) \in Nat
         /\ Cardinality(accepted) \in Nat
         /\ Cardinality(Instructed(r)) - Cardinality(accepted) \in Nat
         /\ Cardinality(accepted) = Cardinality(Instructed(r))
              <=> accepted = Instructed(r)
<1>1. IsFiniteSet(Instructed(r))
  BY FS_Subset, CapacityAssumption DEF Instructed
<1>2. /\ IsFiniteSet(accepted)
      /\ Cardinality(accepted) <= Cardinality(Instructed(r))
      /\ Cardinality(Instructed(r)) = Cardinality(accepted)
           => Instructed(r) = accepted
  BY <1>1, FS_Subset
<1>3. Cardinality(Instructed(r)) \in Nat /\ Cardinality(accepted) \in Nat
  BY <1>1, <1>2, FS_CardinalityType
<1> QED
  BY <1>1, <1>2, <1>3

(* What an activation keeps of a claim is a claim. *)
LEMMA KeptType ==
  ASSUME TypeOK, NEW r \in Reservations, NEW accepted
  PROVE  Kept(r, accepted) \in Claims
BY CapacityAssumption DEF Kept, TypeOK, Claims

(* Every variable keeps its type, whatever calls, clock ticks and offer    *)
(* changes occur.                                                          *)
THEOREM LedgerTypes == Spec => []TypeOK
<1>1. Init => TypeOK
  BY CapacityAssumption, LedgerAssumption
  DEF Init, TypeOK, Statuses, Claims, NoClaim
<1>2. TypeOK /\ [Next]_vars => TypeOK'
  <2> SUFFICES ASSUME TypeOK, [Next]_vars PROVE TypeOK'
    OBVIOUS
  <2>1. ASSUME NEW k \in Keys, NEW q \in Requests, NEW now \in 0..clock,
               CreateOnUsedKey(k, q, now)
        PROVE  TypeOK'
    <3>1. idempotency[k] \in Entries
      BY <2>1 DEF CreateOnUsedKey, TypeOK
    <3>2. answers' \in [Keys -> SUBSET (Requests \X Reservations)]
      BY <2>1, <3>1 DEF CreateOnUsedKey, TypeOK, Entries
    <3> QED
      BY <2>1, <3>2, AfterExpiryType
      DEF CreateOnUsedKey, TypeOK, reservationVars
  <2>2. ASSUME NEW k \in Keys, NEW q \in Requests, NEW now \in 0..clock,
               CreateRejected(k, q, now)
        PROVE  TypeOK'
    BY <2>2, AfterExpiryType DEF CreateRejected, TypeOK, reservationVars
  <2>3. ASSUME NEW k \in Keys, NEW q \in Requests, NEW now \in 0..clock,
               CreateConfirmed(k, q, now)
        PROVE  TypeOK'
    <3>1. PICK r \in Reservations, a \in Allocations(AfterExpiry(now), q) :
            /\ status' = [AfterExpiry(now) EXCEPT ![r] = "CONFIRMED"]
            /\ product' = [product EXCEPT ![r] = q.product]
            /\ requested' = [requested EXCEPT ![r] = q.power]
            /\ allocated' = [allocated EXCEPT ![r] = Total(a)]
            /\ expires' = [expires EXCEPT ![r] = ExpiresAt(q.product, now)]
            /\ claim' = [claim EXCEPT ![r] = a]
            /\ idempotency' =
                 [idempotency EXCEPT ![k] = [request |-> q, reservation |-> r]]
            /\ answers' = [answers EXCEPT ![k] = @ \cup {<<q, r>>}]
      BY <2>3 DEF CreateConfirmed
    <3>2. a \in Claims /\ Total(a) \in Nat
      BY TotalType DEF Allocations
    <3>3. q.product \in Products /\ q.power \in Nat
      BY LedgerAssumption DEF Requests
    <3>4. ExpiresAt(q.product, now) \in Nat
      BY <3>3, LedgerAssumption DEF ExpiresAt, TypeOK
    <3>5. status' \in [Reservations -> Statuses]
      BY <3>1, AfterExpiryType DEF Statuses
    <3>6. answers' \in [Keys -> SUBSET (Requests \X Reservations)]
      BY <3>1 DEF TypeOK
    <3>7. idempotency' \in [Keys -> Entries \cup {NoEntry}]
      BY <3>1 DEF TypeOK, Entries
    <3>8. /\ product' \in [Reservations -> Products \cup {NoProduct}]
          /\ requested' \in [Reservations -> Nat]
          /\ allocated' \in [Reservations -> Nat]
          /\ expires' \in [Reservations -> Nat]
          /\ claim' \in [Reservations -> Claims]
      BY <3>1, <3>2, <3>3, <3>4 DEF TypeOK
    <3> QED
      BY <2>3, <3>5, <3>6, <3>7, <3>8 DEF CreateConfirmed, TypeOK
  <2>4. CASE Get
    BY <2>4, AfterExpiryType DEF Get, TypeOK, reservationVars
  <2>5. ASSUME NEW r \in Reservations, Cancel(r)
        PROVE  TypeOK'
    <3>1. status' \in [Reservations -> Statuses]
      BY <2>5, AfterExpiryType DEF Cancel, Statuses
    <3> QED
      BY <2>5, <3>1 DEF Cancel, TypeOK, reservationVars
  <2>6. ASSUME NEW r \in Reservations, NEW accepted \in SUBSET Resources,
               Activate(r, accepted)
        PROVE  TypeOK'
    <3>1. /\ Cardinality(Instructed(r)) \in Nat
          /\ Cardinality(accepted) \in Nat
          /\ Cardinality(Instructed(r)) - Cardinality(accepted) \in Nat
      BY <2>6, ActivationCounts DEF Activate
    <3>2. Kept(r, accepted) \in Claims /\ Total(Kept(r, accepted)) \in Nat
      BY KeptType, TotalType
    <3>3. status' \in [Reservations -> Statuses]
      BY <2>6, AfterExpiryType DEF Activate, Statuses
    <3>4. activation' \in [Reservations -> Activations \cup {NoActivation}]
      BY <2>6, <3>1 DEF Activate, TypeOK, Activations
    <3> QED
      BY <2>6, <3>2, <3>3, <3>4 DEF Activate, TypeOK
  <2>8. CASE Tick
    BY <2>8, LedgerAssumption DEF Tick, TypeOK, reservationVars
  <2>9. ASSUME NEW p \in Products, NEW s \in Resources, OfferChanges(p, s)
        PROVE  TypeOK'
    BY <2>9, LedgerAssumption DEF OfferChanges, TypeOK, reservationVars
  <2>10. CASE UNCHANGED vars
    BY <2>10 DEF vars, TypeOK, reservationVars
  <2> QED
    BY <2>1, <2>2, <2>3, <2>4, <2>5, <2>6, <2>8, <2>9, <2>10
    DEF Next, Create
<1> QED
  BY <1>1, <1>2, PTL DEF Spec

-----------------------------------------------------------------------------
(* The sweep only turns CONFIRMED into EXPIRED, and only when it is due. *)
LEMMA Sweep ==
  ASSUME NEW now, NEW r \in Reservations
  PROVE  \/ AfterExpiry(now)[r] = status[r]
         \/ status[r] = "CONFIRMED" /\ AfterExpiry(now)[r] = "EXPIRED"
BY DEF AfterExpiry, Overdue

(* A reservation that survives the sweep has time left. *)
LEMMA Survives ==
  ASSUME TypeOK, NEW now \in Nat, NEW r \in Reservations,
         AfterExpiry(now)[r] = "CONFIRMED"
  PROVE  status[r] = "CONFIRMED" /\ now < expires[r]
BY DEF AfterExpiry, Overdue, TypeOK

(* A sweep leaves the records of a reservation in agreement. *)
LEMMA SweepAgrees ==
  ASSUME NEW now, NEW r \in Reservations, RecordAgrees(r),
         status'[r] = AfterExpiry(now)[r],
         allocated'[r] = allocated[r], requested'[r] = requested[r],
         claim'[r] = claim[r], expires'[r] = expires[r],
         activation'[r] = activation[r]
  PROVE  RecordAgrees(r)'
BY Sweep DEF RecordAgrees, Instructed

(* Record, allocations and activation of a reservation always agree.       *)
THEOREM LedgerRecords == Spec => []RecordsAgree
<1>1. Init => RecordsAgree
  BY TotalOfNothing DEF Init, RecordsAgree, RecordAgrees
<1>2. TypeOK /\ RecordsAgree /\ [Next]_vars => RecordsAgree'
  <2> SUFFICES ASSUME TypeOK, RecordsAgree, [Next]_vars,
                      NEW z \in Reservations
               PROVE  RecordAgrees(z)'
    BY DEF RecordsAgree
  <2>0. RecordAgrees(z) /\ clock \in Nat
    BY LedgerAssumption DEF RecordsAgree, TypeOK
  <2>1. ASSUME NEW k \in Keys, NEW q \in Requests, NEW now \in 0..clock,
               CreateOnUsedKey(k, q, now) \/ CreateRejected(k, q, now)
        PROVE  RecordAgrees(z)'
    BY <2>0, <2>1, SweepAgrees
    DEF CreateOnUsedKey, CreateRejected, reservationVars
  <2>2. ASSUME NEW k \in Keys, NEW q \in Requests, NEW now \in 0..clock,
               CreateConfirmed(k, q, now)
        PROVE  RecordAgrees(z)'
    <3>1. PICK r \in Reservations, a \in Allocations(AfterExpiry(now), q) :
            /\ status[r] = "NONE"
            /\ status' = [AfterExpiry(now) EXCEPT ![r] = "CONFIRMED"]
            /\ requested' = [requested EXCEPT ![r] = q.power]
            /\ allocated' = [allocated EXCEPT ![r] = Total(a)]
            /\ expires' = [expires EXCEPT ![r] = ExpiresAt(q.product, now)]
            /\ claim' = [claim EXCEPT ![r] = a]
            /\ activation' = activation
      BY <2>2 DEF CreateConfirmed
    <3>2. CASE z = r
      <4>1. Total(a) = q.power
        BY DEF Allocations, IsAllocation
      <4>2. activation[z] = NoActivation
        BY <2>0, <3>1, <3>2 DEF RecordAgrees
      <4>3. /\ status'[z] = "CONFIRMED" /\ requested'[z] = q.power
            /\ allocated'[z] = Total(a) /\ claim'[z] = a
        BY <3>1, <3>2 DEF TypeOK, AfterExpiry
      <4> QED
        BY <3>1, <4>1, <4>2, <4>3 DEF RecordAgrees
    <3>3. CASE z # r
      BY <2>0, <3>1, <3>3, SweepAgrees DEF TypeOK, AfterExpiry
    <3> QED
      BY <3>2, <3>3
  <2>3. CASE Get
    BY <2>0, <2>3, SweepAgrees DEF Get, reservationVars
  <2>4. ASSUME NEW r \in Reservations, Cancel(r)
        PROVE  RecordAgrees(z)'
    <3>1. CASE z = r
      <4>1. status[z] = "CONFIRMED" /\ status'[z] = "CANCELLED"
        BY <2>0, <2>4, <3>1, Survives DEF Cancel, AfterExpiry
      <4> QED
        BY <2>0, <2>4, <4>1 DEF Cancel, RecordAgrees, reservationVars
    <3>2. CASE z # r
      BY <2>0, <2>4, <3>2, SweepAgrees DEF Cancel, reservationVars, AfterExpiry
    <3> QED
      BY <3>1, <3>2
  <2>5. ASSUME NEW r \in Reservations, NEW accepted \in SUBSET Resources,
               Activate(r, accepted)
        PROVE  RecordAgrees(z)'
    <3>1. CASE z = r
      <4> DEFINE result ==
                   IF accepted = Instructed(r) THEN "COMPLETED" ELSE "FAILED"
                 record ==
                   [status |-> result,
                    decided |-> clock,
                    instructions |-> Cardinality(Instructed(r)),
                    accepted |-> Cardinality(accepted),
                    rejected |-> Cardinality(Instructed(r))
                                   - Cardinality(accepted)]
      <4>1. clock < expires[r]
        BY <2>0, <2>5, Survives DEF Activate
      <4>2. /\ status'[z] = result
            /\ activation'[z] = record
            /\ claim'[z] = Kept(r, accepted)
            /\ allocated'[z] = Total(Kept(r, accepted))
            /\ expires'[z] = expires[r]
        BY <2>5, <3>1 DEF Activate, TypeOK, AfterExpiry
      <4>3. Instructed(r)' = accepted
        <5>1. accepted \subseteq Instructed(r)
          BY <2>5 DEF Activate
        <5>2. claim'[r] = Kept(r, accepted)
          BY <3>1, <4>2
        <5>3. \A s \in Resources : Kept(r, accepted)[s] > 0 <=> s \in accepted
          BY <5>1 DEF Kept, Instructed
        <5> QED
          BY <5>2, <5>3 DEF Instructed
      <4>4. record # NoActivation
        <5>1. record \in Activations
          BY <2>5, ActivationCounts DEF Activate, Activations, TypeOK
        <5> QED
          BY <5>1, SentinelAssumption DEF Activations
      <4>5. Cardinality(Instructed(r)) - Cardinality(accepted) = 0
              <=> accepted = Instructed(r)
        BY <2>5, ActivationCounts DEF Activate
      <4>6. Cardinality(Instructed(r)) = Cardinality(accepted)
              + (Cardinality(Instructed(r)) - Cardinality(accepted))
        BY <2>5, ActivationCounts DEF Activate
      <4>7. /\ activation'[z] # NoActivation
            /\ activation'[z].status = status'[z]
            /\ activation'[z].decided < expires'[z]
            /\ activation'[z].accepted = Cardinality(Instructed(z)')
            /\ activation'[z].instructions =
                 activation'[z].accepted + activation'[z].rejected
        BY <3>1, <4>1, <4>2, <4>3, <4>4, <4>6
      <4>8. status'[z] = "COMPLETED" <=> activation'[z].rejected = 0
        BY <4>2, <4>5
      <4>9. status'[z] \in {"COMPLETED", "FAILED"}
        BY <4>2
      <4>10. allocated'[z] = Total(claim'[z])
        BY <4>2
      <4> HIDE DEF record, result
      <4> QED
        BY <4>7, <4>8, <4>9, <4>10 DEF RecordAgrees
    <3>2. CASE z # r
      BY <2>0, <2>5, <3>2, SweepAgrees DEF Activate, TypeOK, AfterExpiry
    <3> QED
      BY <3>1, <3>2
  <2>7. CASE Tick \/ UNCHANGED vars
    BY <2>0, <2>7
    DEF Tick, vars, reservationVars, RecordAgrees, Instructed
  <2>8. ASSUME NEW p \in Products, NEW s \in Resources, OfferChanges(p, s)
        PROVE  RecordAgrees(z)'
    BY <2>0, <2>8
    DEF OfferChanges, reservationVars, RecordAgrees, Instructed
  <2> QED
    BY <2>1, <2>2, <2>3, <2>4, <2>5, <2>7, <2>8 DEF Next, Create
<1> QED
  BY <1>1, <1>2, LedgerTypes, PTL DEF Spec

-----------------------------------------------------------------------------
(* A call that touches neither keys nor answers leaves KeysNameOne-        *)
(* Reservation alone as long as no reservation comes into being.           *)
LEMMA KeysStable ==
  ASSUME KeysNameOneReservation, TypeOK,
         UNCHANGED <<idempotency, answers, product, requested>>,
         \A r \in Reservations : status'[r] = "NONE" <=> status[r] = "NONE"
  PROVE  KeysNameOneReservation'
<1>1. \A k \in Keys : Used(k) => idempotency[k].reservation \in Reservations
  BY DEF TypeOK, Used, Entries
<1> QED
  BY <1>1 DEF KeysNameOneReservation, Used

(* A key names one request and one reservation for ever, and every         *)
(* reservation has its key.                                                *)
THEOREM LedgerKeys == Spec => []KeysNameOneReservation
<1>1. Init => KeysNameOneReservation
  BY DEF Init, KeysNameOneReservation, Used
<1>2. TypeOK /\ KeysNameOneReservation /\ [Next]_vars
        => KeysNameOneReservation'
  <2> SUFFICES ASSUME TypeOK, KeysNameOneReservation, [Next]_vars
               PROVE  KeysNameOneReservation'
    OBVIOUS
  <2>0. \A now : \A r \in Reservations :
          AfterExpiry(now)[r] = "NONE" <=> status[r] = "NONE"
    BY Sweep
  <2>1. ASSUME NEW k \in Keys, NEW q \in Requests, NEW now \in 0..clock,
               CreateOnUsedKey(k, q, now)
        PROVE  KeysNameOneReservation'
    <3>1. \A x \in answers'[k] :
            \/ x \in answers[k]
            \/ x = <<idempotency[k].request, idempotency[k].reservation>>
      BY <2>1 DEF CreateOnUsedKey, TypeOK
    <3>2. \A l \in Keys \ {k} : answers'[l] = answers[l]
      BY <2>1 DEF CreateOnUsedKey, TypeOK
    <3>3. Used(k)
      BY <2>1 DEF CreateOnUsedKey, Used
    <3>4. \A l \in Keys : Used(l) => idempotency[l].reservation \in Reservations
      BY DEF TypeOK, Used, Entries
    <3>5. UNCHANGED <<idempotency, product, requested>>
      BY <2>1 DEF CreateOnUsedKey, reservationVars
    <3>6. \A r \in Reservations : status'[r] = "NONE" <=> status[r] = "NONE"
      BY <2>0, <2>1 DEF CreateOnUsedKey
    <3>7. \A l \in Keys : \A x \in answers'[l] :
            Used(l) /\ x = <<idempotency[l].request, idempotency[l].reservation>>
      BY <3>1, <3>2, <3>3 DEF KeysNameOneReservation
    <3> QED
      BY <3>4, <3>5, <3>6, <3>7 DEF KeysNameOneReservation, Used
  <2>2. ASSUME NEW k \in Keys, NEW q \in Requests, NEW now \in 0..clock,
               CreateRejected(k, q, now)
        PROVE  KeysNameOneReservation'
    BY <2>0, <2>2, KeysStable DEF CreateRejected, reservationVars
  <2>3. ASSUME NEW k \in Keys, NEW q \in Requests, NEW now \in 0..clock,
               CreateConfirmed(k, q, now)
        PROVE  KeysNameOneReservation'
    <3>1. PICK r \in Reservations, a \in Allocations(AfterExpiry(now), q) :
            /\ status[r] = "NONE"
            /\ status' = [AfterExpiry(now) EXCEPT ![r] = "CONFIRMED"]
            /\ product' = [product EXCEPT ![r] = q.product]
            /\ requested' = [requested EXCEPT ![r] = q.power]
            /\ idempotency' =
                 [idempotency EXCEPT ![k] = [request |-> q, reservation |-> r]]
            /\ answers' = [answers EXCEPT ![k] = @ \cup {<<q, r>>}]
      BY <2>3 DEF CreateConfirmed
    <3>2. ~Used(k) /\ answers[k] = {}
      BY <2>3 DEF CreateConfirmed, Used, KeysNameOneReservation
    <3>3. /\ idempotency'[k].request = q /\ idempotency'[k].reservation = r
          /\ answers'[k] = {<<q, r>>}
      BY <3>1, <3>2 DEF TypeOK
    <3>4. Used(k)'
      <4>1. idempotency'[k] = [request |-> q, reservation |-> r]
        BY <3>1 DEF TypeOK
      <4> QED
        BY <4>1, SentinelAssumption DEF Used
    <3>5. ASSUME NEW l \in Keys, l # k
          PROVE  /\ idempotency'[l] = idempotency[l]
                 /\ answers'[l] = answers[l]
                 /\ Used(l)' = Used(l)
      BY <3>1, <3>5 DEF TypeOK, Used
    <3>6. ASSUME NEW l \in Keys, Used(l)
          PROVE  /\ l # k
                 /\ idempotency[l].reservation \in Reservations
                 /\ idempotency[l].reservation # r
      <4>1. l # k
        BY <3>2, <3>6
      <4>2. idempotency[l] \in Entries
        BY <3>6 DEF TypeOK, Used
      <4>3. idempotency[l].reservation \in Reservations
        BY <4>2 DEF Entries
      <4>4. status[idempotency[l].reservation] # "NONE"
        BY <3>6 DEF KeysNameOneReservation
      <4> QED
        BY <3>1, <4>1, <4>3, <4>4
    <3>7. q = [product |-> q.product, power |-> q.power]
      BY DEF Requests
    <3>8. /\ status'[r] = "CONFIRMED"
          /\ product'[r] = q.product /\ requested'[r] = q.power
      BY <3>1, AfterExpiryType DEF TypeOK
    <3>9. ASSUME NEW z \in Reservations, z # r
          PROVE  /\ status'[z] = "NONE" <=> status[z] = "NONE"
                 /\ product'[z] = product[z] /\ requested'[z] = requested[z]
      <4>1. status'[z] = AfterExpiry(now)[z]
        BY <3>1, <3>9, AfterExpiryType
      <4> QED
        BY <2>0, <3>1, <3>9, <4>1 DEF TypeOK
    <3>10. \A l \in Keys : \A x \in answers'[l] :
             /\ Used(l)'
             /\ x = <<idempotency'[l].request, idempotency'[l].reservation>>
      BY <3>3, <3>4, <3>5 DEF KeysNameOneReservation
    <3>11. \A l \in Keys : Used(l)' =>
             LET z == idempotency'[l].reservation IN
             /\ status'[z] # "NONE"
             /\ idempotency'[l].request =
                  [product |-> product'[z], power |-> requested'[z]]
      <4> SUFFICES ASSUME NEW l \in Keys, Used(l)'
                   PROVE  LET z == idempotency'[l].reservation IN
                          /\ status'[z] # "NONE"
                          /\ idempotency'[l].request =
                               [product |-> product'[z],
                                power |-> requested'[z]]
        OBVIOUS
      <4>1. CASE l = k
        BY <3>3, <3>7, <3>8, <4>1
      <4>2. CASE l # k
        <5>1. Used(l) /\ idempotency'[l] = idempotency[l]
          BY <3>5, <4>2
        <5>2. /\ idempotency[l].reservation \in Reservations
              /\ idempotency[l].reservation # r
          BY <3>6, <5>1
        <5> QED
          BY <3>9, <5>1, <5>2 DEF KeysNameOneReservation
      <4> QED
        BY <4>1, <4>2
    <3>12. \A l, m \in Keys :
             /\ Used(l)' /\ Used(m)'
             /\ idempotency'[l].reservation = idempotency'[m].reservation
             => l = m
      <4>1. ASSUME NEW l \in Keys, Used(l)', l # k
            PROVE  Used(l) /\ idempotency'[l] = idempotency[l]
        BY <3>5, <4>1
      <4>2. ASSUME NEW l \in Keys, Used(l)', l # k
            PROVE  idempotency'[l].reservation # r
        BY <3>6, <4>1, <4>2
      <4>3. ASSUME NEW l \in Keys, NEW m \in Keys, Used(l)', Used(m)',
                   idempotency'[l].reservation = idempotency'[m].reservation,
                   l # k, m # k
            PROVE  l = m
        BY <4>1, <4>3 DEF KeysNameOneReservation
      <4> QED
        BY <3>3, <4>2, <4>3
    <3>13. \A z \in Reservations : status'[z] # "NONE" =>
             \E l \in Keys : Used(l)' /\ idempotency'[l].reservation = z
      <4> SUFFICES ASSUME NEW z \in Reservations, status'[z] # "NONE"
                   PROVE  \E l \in Keys :
                            Used(l)' /\ idempotency'[l].reservation = z
        OBVIOUS
      <4>1. CASE z = r
        BY <3>3, <3>4, <4>1
      <4>2. CASE z # r
        <5>1. PICK l \in Keys : Used(l) /\ idempotency[l].reservation = z
          BY <3>9, <4>2 DEF KeysNameOneReservation
        <5> QED
          BY <3>5, <3>6, <5>1
      <4> QED
        BY <4>1, <4>2
    <3> QED
      BY <3>10, <3>11, <3>12, <3>13 DEF KeysNameOneReservation
  <2>4. CASE Get
    BY <2>0, <2>4, KeysStable DEF Get, reservationVars
  <2>5. ASSUME NEW r \in Reservations, Cancel(r)
        PROVE  KeysNameOneReservation'
    <3>1. \A z \in Reservations : status'[z] = "NONE" <=> status[z] = "NONE"
      BY <2>0, <2>5, AfterExpiryType DEF Cancel
    <3> QED
      BY <2>5, <3>1, KeysStable DEF Cancel, reservationVars
  <2>6. ASSUME NEW r \in Reservations, NEW accepted \in SUBSET Resources,
               Activate(r, accepted)
        PROVE  KeysNameOneReservation'
    <3>1. \A z \in Reservations : status'[z] = "NONE" <=> status[z] = "NONE"
      BY <2>0, <2>6, AfterExpiryType DEF Activate
    <3> QED
      BY <2>6, <3>1, KeysStable DEF Activate
  <2>7. CASE Tick \/ UNCHANGED vars
    BY <2>7, KeysStable DEF Tick, vars, reservationVars
  <2>8. ASSUME NEW p \in Products, NEW s \in Resources, OfferChanges(p, s)
        PROVE  KeysNameOneReservation'
    BY <2>8, KeysStable DEF OfferChanges, reservationVars
  <2> QED
    BY <2>1, <2>2, <2>3, <2>4, <2>5, <2>6, <2>7, <2>8 DEF Next, Create
<1> QED
  BY <1>1, <1>2, LedgerTypes, PTL DEF Spec

-----------------------------------------------------------------------------
(* What create allocates of a resource fits beside everything active.      *)
LEMMA AllocationFits ==
  ASSUME TypeOK, NEW q \in Requests, NEW st,
         NEW a \in Allocations(st, q), NEW s \in Resources, a[s] > 0
  PROVE  /\ offers[q.product][s] # NoOffer
         /\ Reserved(st, product, claim, Market[q.product], s) + a[s]
              <= offers[q.product][s]
<1> DEFINE reserved == Reserved(st, product, claim, Market[q.product], s)
           offer == offers[q.product][s]
<1>1. a[s] \in Nat /\ a[s] <= Free(st, q.product)[s]
  BY CapacityAssumption DEF Allocations, IsAllocation, Claims
<1>2. reserved \in Nat
  BY ReservedType
<1>3. offer \in (0..MaxOffer) \cup {NoOffer}
  BY DEF TypeOK, Requests
<1>4. Free(st, q.product)[s]
        = IF offer # NoOffer /\ offer > reserved THEN offer - reserved ELSE 0
  BY DEF Free
<1> HIDE DEF reserved, offer
<1>5. offer # NoOffer /\ offer > reserved
  BY <1>1, <1>4
<1>6. reserved + a[s] <= offer
  BY <1>1, <1>2, <1>3, <1>4, <1>5, CapacityAssumption
<1> QED
  BY <1>5, <1>6 DEF reserved, offer

(* Capacity is sold once, whatever the history.                            *)
THEOREM LedgerSellsOnce == Spec => SoldWithinOffer
<1>1. TypeOK /\ [Next]_vars => [SellsWithinOffer]_vars
  <2> SUFFICES ASSUME TypeOK, Next, NEW z \in Reservations,
                      status[z] = "NONE", status'[z] # "NONE",
                      NEW s \in Resources, claim'[z][s] > 0
               PROVE  /\ offers[product'[z]][s] # NoOffer
                      /\ Reserved(status', product', claim',
                                  Market[product'[z]], s)
                           <= offers[product'[z]][s]
    BY DEF SellsWithinOffer
  <2>1. \A now : AfterExpiry(now)[z] = "NONE"
    BY Sweep
  <2>2. PICK k \in Keys, q \in Requests, now \in 0..clock :
          CreateConfirmed(k, q, now)
    <3>1. ~Get /\ ~Tick
      BY <2>1 DEF Get, Tick
    <3>2. \A k \in Keys, q \in Requests, now \in 0..clock :
            ~CreateOnUsedKey(k, q, now) /\ ~CreateRejected(k, q, now)
      BY <2>1 DEF CreateOnUsedKey, CreateRejected
    <3>3. \A r \in Reservations : ~Cancel(r)
      BY <2>1, AfterExpiryType DEF Cancel
    <3>4. \A r \in Reservations, accepted \in SUBSET Resources :
            ~Activate(r, accepted)
      BY <2>1, AfterExpiryType DEF Activate
    <3>5. \A p \in Products, t \in Resources : ~OfferChanges(p, t)
      BY DEF OfferChanges
    <3> QED
      BY <3>1, <3>2, <3>3, <3>4, <3>5 DEF Next, Create
  <2>3. PICK r \in Reservations, a \in Allocations(AfterExpiry(now), q) :
          /\ status[r] = "NONE"
          /\ status' = [AfterExpiry(now) EXCEPT ![r] = "CONFIRMED"]
          /\ product' = [product EXCEPT ![r] = q.product]
          /\ claim' = [claim EXCEPT ![r] = a]
    BY <2>2 DEF CreateConfirmed
  <2>4. z = r
    BY <2>1, <2>3, AfterExpiryType
  <2>5. product'[z] = q.product /\ claim'[z] = a
    BY <2>3, <2>4 DEF TypeOK
  <2>6. Reserved(status', product', claim', Market[q.product], s)
          = Reserved(AfterExpiry(now), product, claim, Market[q.product], s)
              + a[s]
    <3>1. BecameActive(AfterExpiry(now), product, claim, status', product',
                       claim', r, q.product, a)
      BY <2>1, <2>3, <2>4, AfterExpiryType
      DEF BecameActive, ActiveStatuses, TypeOK
    <3> QED
      BY <3>1, ReservedAfterConfirm DEF Allocations
  <2> QED
    BY <2>5, <2>6, AllocationFits
<1> QED
  BY <1>1, LedgerTypes, PTL DEF Spec, SoldWithinOffer

-----------------------------------------------------------------------------
(* The sums of the instantiated CapacityLedger are the sums used here.     *)
LEMMA SameReserved ==
  ASSUME NEW st, NEW pr, NEW cl, NEW m, NEW s
  PROVE  Ledger!Reserved(st, pr, cl, m, s) = Reserved(st, pr, cl, m, s)
<1>1. Ledger!ActiveStatuses = ActiveStatuses
  BY DEF Ledger!ActiveStatuses, ActiveStatuses
<1>2. Ledger!ClaimUnits(st, pr, cl, m, s) = ClaimUnits(st, pr, cl, m, s)
  BY <1>1 DEF Ledger!ClaimUnits, ClaimUnits
<1> QED
  BY <1>2 DEF Ledger!Reserved, Reserved, Ledger!Cardinality, Cardinality

(* The sweep lapses a set of reservations that may lapse. *)
LEMMA SweepLapses ==
  ASSUME NEW now
  PROVE  /\ Overdue(now) \in SUBSET Reservations
         /\ Ledger!MayLapse(Overdue(now))
         /\ Ledger!Lapsed(Overdue(now)) = AfterExpiry(now)
BY DEF Ledger!MayLapse, Ledger!Lapsed, AfterExpiry, Overdue

(* The in-memory ledger keeps the promise of CapacityLedger.               *)
THEOREM LedgerImplementsCapacity == Spec => LedgerSpec
<1>1. Init => Ledger!Init
  BY DEF Init, Ledger!Init, Ledger!NoClaim, NoClaim
<1>2. TypeOK /\ [Next]_vars => [Ledger!Next]_Ledger!vars
  <2> SUFFICES ASSUME TypeOK, [Next]_vars
               PROVE  [Ledger!Next]_Ledger!vars
    OBVIOUS
  <2>1. ASSUME NEW now, status' = AfterExpiry(now),
               UNCHANGED <<product, claim, offers>>
        PROVE  Ledger!Next
    BY <2>1, SweepLapses DEF Ledger!Next, Ledger!Lapse
  <2>2. ASSUME NEW k \in Keys, NEW q \in Requests, NEW now \in 0..clock,
               CreateOnUsedKey(k, q, now) \/ CreateRejected(k, q, now)
        PROVE  Ledger!Next
    BY <2>1, <2>2 DEF CreateOnUsedKey, CreateRejected, reservationVars
  <2>3. ASSUME NEW k \in Keys, NEW q \in Requests, NEW now \in 0..clock,
               CreateConfirmed(k, q, now)
        PROVE  Ledger!Next
    <3>1. PICK r \in Reservations, a \in Allocations(AfterExpiry(now), q) :
            /\ status[r] = "NONE"
            /\ status' = [AfterExpiry(now) EXCEPT ![r] = "CONFIRMED"]
            /\ product' = [product EXCEPT ![r] = q.product]
            /\ claim' = [claim EXCEPT ![r] = a]
            /\ offers' = offers
      BY <2>3 DEF CreateConfirmed
    <3>2. q.product \in Products /\ a \in Ledger!Claims
      BY DEF Requests, Allocations, Claims, Ledger!Claims
    <3>3. \A s \in Resources :
            a[s] > 0 =>
              /\ offers[q.product][s] # NoOffer
              /\ Ledger!Reserved(Ledger!Lapsed(Overdue(now)), product, claim,
                                 Market[q.product], s) + a[s]
                   <= offers[q.product][s]
      BY AllocationFits, SameReserved, SweepLapses
    <3>4. Ledger!Confirm(Overdue(now), r, q.product, a)
      BY <3>1, <3>3, SweepLapses DEF Ledger!Confirm
    <3> QED
      BY <3>2, <3>4, SweepLapses DEF Ledger!Next
  <2>4. CASE Get
    BY <2>1, <2>4 DEF Get, reservationVars
  <2>5. ASSUME NEW r \in Reservations, Cancel(r)
        PROVE  Ledger!Next
    <3>1. Ledger!Cancel(Overdue(clock), r)
      BY <2>5, SweepLapses DEF Cancel, Ledger!Cancel, reservationVars
    <3> QED
      BY <3>1, SweepLapses DEF Ledger!Next
  <2>6. ASSUME NEW r \in Reservations, NEW accepted \in SUBSET Resources,
               Activate(r, accepted)
        PROVE  Ledger!Next
    <3>1. claim[r] \in Claims
      BY DEF TypeOK
    <3>2. Kept(r, accepted) = claim[r] <=> accepted = Instructed(r)
      <4>1. accepted \subseteq Instructed(r)
        BY <2>6 DEF Activate
      <4>2. \A s \in Resources : Kept(r, accepted)[s] = claim[r][s]
              <=> (s \in Instructed(r) => s \in accepted)
        BY <3>1, CapacityAssumption DEF Kept, Instructed, Claims
      <4>3. /\ Instructed(r) \subseteq Resources
            /\ DOMAIN claim[r] = Resources
            /\ claim[r] = [s \in Resources |-> claim[r][s]]
        BY <3>1 DEF Instructed, Claims
      <4>4. Kept(r, accepted) = [s \in Resources |-> Kept(r, accepted)[s]]
        BY DEF Kept
      <4> QED
        BY <4>1, <4>2, <4>3, <4>4
    <3>3. claim' = [claim EXCEPT ![r] =
                      [s \in Resources |-> IF s \in accepted THEN @[s] ELSE 0]]
      BY <2>6 DEF Activate, Kept
    <3>4. claim'[r] = Kept(r, accepted)
      BY <2>6 DEF Activate, TypeOK
    <3>5. status' = [AfterExpiry(clock) EXCEPT ![r] =
                       IF claim'[r] = claim[r] THEN "COMPLETED" ELSE "FAILED"]
      BY <2>6, <3>2, <3>4 DEF Activate
    <3>6. Ledger!Settle(Overdue(clock), r, accepted)
      BY <2>6, <3>3, <3>5, SweepLapses DEF Activate, Ledger!Settle
    <3> QED
      BY <3>6, SweepLapses DEF Ledger!Next
  <2>7. CASE Tick
    BY <2>7 DEF Tick, reservationVars, Ledger!vars
  <2>8. ASSUME NEW p \in Products, NEW s \in Resources, OfferChanges(p, s)
        PROVE  Ledger!Next
    BY <2>8 DEF OfferChanges, reservationVars, Ledger!Next, Ledger!OffersMove
  <2>9. CASE UNCHANGED vars
    BY <2>9 DEF vars, reservationVars, Ledger!vars
  <2> QED
    BY <2>2, <2>3, <2>4, <2>5, <2>6, <2>7, <2>8, <2>9 DEF Next, Create
<1> QED
  BY <1>1, <1>2, LedgerTypes, PTL DEF Spec, LedgerSpec, Ledger!Spec

=============================================================================
