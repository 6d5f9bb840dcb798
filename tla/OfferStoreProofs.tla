-------------------------- MODULE OfferStoreProofs --------------------------
(***************************************************************************)
(* Source order and one public sum per cell, for any number of resources,  *)
(* cells, contents and positions, in memory and on PostgreSQL; agreement   *)
(* of neighbours in memory.                                                *)
(***************************************************************************)
EXTENDS OfferStore, TLAPS, FiniteSetTheorems

(* What was taken away is behind the position of its source, and strictly  *)
(* so while the source is connected: only then may it repeat its position. *)
TakenIsBehind ==
  \A r \in Resources :
    /\ retired[r] <= position[r]
    /\ r \notin disconnected /\ position[r] > 0 => retired[r] < position[r]

(* A cell that may still be shown has the offers its cohort had when it    *)
(* was published.                                                          *)
CohortStands(c) ==
  /\ returned[c] \in [published[c] -> Contents]
  /\ \A r \in published[c] :
       /\ offers[r][Slot[c]] # NoOffer
       /\ offers[r][Slot[c]].cell = c
       /\ offers[r][Slot[c]].content = returned[c][r]

Shown ==
  \A c \in Cells :
    /\ published[c] = {} => returned[c] = NoAggregate
    /\ published[c] # {} /\ c \notin suppressed => CohortStands(c)

(* What a query has read of a cell is right until it visits the cell. *)
KnownIsFresh == Durable => \A c \in pending : known[c] = published[c]

StoreInv == TypeOK /\ SourceOrder /\ TakenIsBehind /\ Shown /\ KnownIsFresh

USE DEF stored, running

-----------------------------------------------------------------------------
(* The parts of StoreInv a step leaves alone. *)

LEMMA SlotOfCell == \A c \in Cells : Slot[c] \in Slots
BY DEF Slots

LEMMA SourcesKept ==
  ASSUME SourceOrder, TakenIsBehind, UNCHANGED stored
  PROVE  SourceOrder' /\ TakenIsBehind'
BY DEF SourceOrder, TakenIsBehind

LEMMA ShownKept ==
  ASSUME Shown, UNCHANGED <<offers, published, returned>>,
         suppressed \subseteq suppressed'
  PROVE  Shown'
BY DEF Shown, CohortStands

LEMMA InvInit == Init => StoreInv
<1> SUFFICES ASSUME Init PROVE StoreInv
  OBVIOUS
<1>1. TypeOK
  BY StoreAssumption DEF Init, TypeOK, NoOffers, NoCohorts
<1>2. SourceOrder /\ TakenIsBehind
  BY DEF Init, SourceOrder, TakenIsBehind, NoOffers
<1>3. Shown /\ KnownIsFresh
  BY DEF Init, Shown, KnownIsFresh, NoCohorts
<1> QED
  BY <1>1, <1>2, <1>3 DEF StoreInv

-----------------------------------------------------------------------------
(* upsert *)

(* Whatever is left of a source's offers has the incoming position. *)
LEMMA RemainingIsCurrent ==
  ASSUME StoreInv, NEW r \in Resources, NEW p \in Positions, ~Stale(r, p),
         NEW s \in Slots, Remaining(r, p)[s] # NoOffer
  PROVE  /\ Remaining(r, p)[s] = offers[r][s]
         /\ s \notin Obsolete(r, p)
         /\ offers[r][s].position = p
         /\ p = position[r]
<1>1. /\ Remaining(r, p)[s] = offers[r][s]
      /\ s \notin Obsolete(r, p) /\ offers[r][s] # NoOffer
  BY DEF Remaining
<1>2. offers[r][s] \in Offers /\ offers[r][s].position = position[r]
  BY <1>1 DEF StoreInv, TypeOK, SourceOrder
<1>3. /\ offers[r][s].position \in Nat /\ p \in Nat
      /\ position[r] <= p
      /\ ~(offers[r][s].position < p)
  BY <1>1, <1>2, StoreAssumption DEF Offers, Positions, Obsolete, Stale
<1> QED
  BY <1>1, <1>2, <1>3

LEMMA RetiredIsBehind ==
  ASSUME StoreInv, NEW r \in Resources, NEW p \in Positions, ~Stale(r, p),
         Retire(r, Obsolete(r, p))
  PROVE  /\ retired' \in [Resources -> 0..MaxPosition]
         /\ retired'[r] < p
         /\ \A q \in Resources : q # r => retired'[q] = retired[q]
<1>1. /\ position[r] \in Nat /\ retired[r] \in Nat /\ p \in Nat /\ p >= 1
      /\ position[r] \in 0..MaxPosition
      /\ retired \in [Resources -> 0..MaxPosition]
  BY StoreAssumption DEF StoreInv, TypeOK, Positions
<1>2. CASE Obsolete(r, p) = {}
  <2>1. retired' = retired
    BY <1>2 DEF Retire
  <2>2. retired[r] < p
    BY <1>1 DEF StoreInv, TakenIsBehind, Stale
  <2> QED
    BY <2>1, <2>2, <1>1
<1>3. CASE Obsolete(r, p) # {}
  <2>1. retired' = [retired EXCEPT ![r] = position[r]]
    BY <1>3 DEF Retire
  <2>2. PICK s \in Slots : offers[r][s] # NoOffer /\ offers[r][s].position < p
    BY <1>3 DEF Obsolete
  <2>3. position[r] < p
    BY <2>2 DEF StoreInv, SourceOrder
  <2> QED
    BY <2>1, <2>3, <1>1
<1> QED
  BY <1>2, <1>3

LEMMA InvUpsert ==
  ASSUME StoreInv, NEW r \in Resources, NEW c \in Cells, NEW p \in Positions,
         NEW x \in Contents, Upsert(r, c, p, x)
  PROVE  StoreInv'
<1> DEFINE new == [cell |-> c, position |-> p, content |-> x]
           left == Remaining(r, p)
<1>t. TypeOK
  BY DEF StoreInv
<1>1. /\ Idle /\ ~Stale(r, p) /\ ~AlreadyAt(r, c, p)
      /\ position' = [position EXCEPT ![r] = p]
      /\ disconnected' = disconnected \ {r}
      /\ suppressed' = suppressed \cup Published(Touched(r, c, p))
      /\ Retire(r, Obsolete(r, p))
      /\ UNCHANGED <<published, running, returned>>
  BY DEF Upsert
<1>2. Slot[c] \in Slots
  BY SlotOfCell
<1>3. left \in [Slots -> Offers \cup {NoOffer}]
  BY <1>t DEF Remaining, TypeOK
<1>4. new \in Offers /\ new # NoOffer
  BY NoneAssumption DEF Offers
<1>5. /\ offers' \in [Resources -> [Slots -> Offers \cup {NoOffer}]]
      /\ offers'[r][Slot[c]] = new
      /\ \A s \in Slots : s # Slot[c] => offers'[r][s] = left[s]
      /\ \A q \in Resources : q # r => offers'[q] = offers[q]
  <2>1. offers' = [offers EXCEPT ![r] = [left EXCEPT ![Slot[c]] = new]]
    BY DEF Upsert
  <2>2. [left EXCEPT ![Slot[c]] = new] \in [Slots -> Offers \cup {NoOffer}]
    BY <1>3, <1>4
  <2> HIDE DEF left, new
  <2> QED
    BY <2>1, <2>2, <1>t, <1>2, <1>3 DEF TypeOK
<1>6. /\ retired' \in [Resources -> 0..MaxPosition]
      /\ retired'[r] < p
      /\ \A q \in Resources : q # r => retired'[q] = retired[q]
  BY <1>1, RetiredIsBehind
<1>7. /\ position' \in [Resources -> 0..MaxPosition]
      /\ position'[r] = p
      /\ \A q \in Resources : q # r => position'[q] = position[q]
  BY <1>t, <1>1, StoreAssumption DEF TypeOK, Positions
<1>8. CellsOf(r, Obsolete(r, p)) \subseteq Cells
  BY <1>t DEF CellsOf, Obsolete, TypeOK, Offers
<1>9. TypeOK'
  BY <1>t, <1>1, <1>5, <1>6, <1>7, <1>8 DEF TypeOK, Published, Touched
<1>10. SourceOrder'
  <2> SUFFICES ASSUME NEW q \in Resources, NEW s \in Slots, offers'[q][s] # NoOffer
               PROVE  /\ offers'[q][s].position = position'[q]
                      /\ position'[q] > retired'[q]
                      /\ q \notin disconnected'
    BY DEF SourceOrder
  <2>1. CASE q # r
    BY <2>1, <1>1, <1>5, <1>6, <1>7 DEF StoreInv, SourceOrder
  <2>2. CASE q = r
    <3>1. position'[q] > retired'[q] /\ q \notin disconnected'
      BY <2>2, <1>1, <1>6, <1>7, StoreAssumption DEF Positions
    <3>2. CASE s = Slot[c]
      BY <2>2, <3>1, <3>2, <1>5, <1>7
    <3>3. CASE s # Slot[c]
      BY <2>2, <3>1, <3>3, <1>1, <1>5, <1>7, RemainingIsCurrent
    <3> QED
      BY <3>2, <3>3
  <2> QED
    BY <2>1, <2>2
<1>11. TakenIsBehind'
  <2> SUFFICES ASSUME NEW q \in Resources
               PROVE  /\ retired'[q] <= position'[q]
                      /\ q \notin disconnected' /\ position'[q] > 0
                           => retired'[q] < position'[q]
    BY DEF TakenIsBehind
  <2>1. CASE q = r
    BY <2>1, <1>6, <1>7, StoreAssumption DEF Positions
  <2>2. CASE q # r
    BY <2>2, <1>1, <1>6, <1>7 DEF StoreInv, TakenIsBehind
  <2> QED
    BY <2>1, <2>2
<1>12. Shown'
  <2>1. ASSUME NEW d \in Cells, published[d] # {}, d \notin suppressed'
        PROVE  CohortStands(d)'
    <3>1. CohortStands(d) /\ d \notin Touched(r, c, p)
      BY <2>1, <1>1 DEF StoreInv, Shown, Published
    <3>2. ASSUME NEW q \in published[d]
          PROVE  offers'[q][Slot[d]] = offers[q][Slot[d]]
      <4>1. Slot[d] \in Slots /\ q \in Resources
        BY SlotOfCell, <1>t DEF TypeOK
      <4>2. CASE q # r
        BY <4>2, <1>5, <4>1
      <4>3. CASE q = r
        <5>1. offers[r][Slot[d]] # NoOffer /\ offers[r][Slot[d]].cell = d
          BY <3>1, <3>2, <4>3 DEF CohortStands
        <5>2. Slot[d] \notin Obsolete(r, p)
          BY <3>1, <5>1 DEF Touched, CellsOf
        <5>3. left[Slot[d]] = offers[r][Slot[d]] /\ left[Slot[d]] # NoOffer
          BY <4>1, <5>1, <5>2 DEF Remaining
        <5>4. left[Slot[d]].position = p
          BY <4>1, <5>3, <1>1, RemainingIsCurrent
        <5>5. Slot[d] # Slot[c]
          BY <5>3, <5>4, <1>1 DEF AlreadyAt
        <5> QED
          BY <4>1, <4>3, <5>3, <5>5, <1>5
      <4> QED
        BY <4>2, <4>3
    <3> QED
      BY <3>1, <3>2, <1>1 DEF CohortStands
  <2> QED
    BY <2>1, <1>1 DEF StoreInv, Shown
<1>13. KnownIsFresh'
  BY <1>1 DEF StoreInv, KnownIsFresh
<1> QED
  BY <1>9, <1>10, <1>11, <1>12, <1>13 DEF StoreInv

-----------------------------------------------------------------------------
(* remove_resource *)

LEMMA InvWithdraw ==
  ASSUME StoreInv, NEW r \in Resources, Withdraw(r)
  PROVE  StoreInv'
<1>t. TypeOK
  BY DEF StoreInv
<1>1. /\ suppressed' = suppressed \cup Published(CellsOf(r, Occupied(r)))
      /\ disconnected' = disconnected \cup {r}
      /\ retired' = [retired EXCEPT ![r] = position[r]]
      /\ UNCHANGED <<position, published, running, returned>>
  BY DEF Withdraw, Retire
<1>2. /\ offers' \in [Resources -> [Slots -> Offers \cup {NoOffer}]]
      /\ offers'[r] = NoOffers
      /\ \A q \in Resources : q # r => offers'[q] = offers[q]
  BY <1>t DEF Withdraw, TypeOK, NoOffers
<1>3. /\ retired' \in [Resources -> 0..MaxPosition]
      /\ retired'[r] = position[r]
      /\ \A q \in Resources : q # r => retired'[q] = retired[q]
  BY <1>t, <1>1 DEF TypeOK
<1>4. CellsOf(r, Occupied(r)) \subseteq Cells
  BY <1>t DEF CellsOf, Occupied, TypeOK, Offers
<1>5. TypeOK'
  BY <1>t, <1>1, <1>2, <1>3, <1>4 DEF TypeOK, Published
<1>6. SourceOrder'
  <2> SUFFICES ASSUME NEW q \in Resources, NEW s \in Slots, offers'[q][s] # NoOffer
               PROVE  /\ offers'[q][s].position = position'[q]
                      /\ position'[q] > retired'[q]
                      /\ q \notin disconnected'
    BY DEF SourceOrder
  <2>1. q # r
    BY <1>2 DEF NoOffers
  <2> QED
    BY <2>1, <1>1, <1>2, <1>3 DEF StoreInv, SourceOrder
<1>7. TakenIsBehind'
  <2>1. position[r] \in Nat
    BY <1>t DEF TypeOK
  <2> QED
    BY <2>1, <1>1, <1>3 DEF StoreInv, TakenIsBehind
<1>8. Shown'
  <2>1. ASSUME NEW d \in Cells, published[d] # {}, d \notin suppressed'
        PROVE  CohortStands(d)'
    <3>1. CohortStands(d) /\ d \notin CellsOf(r, Occupied(r))
      BY <2>1, <1>1 DEF StoreInv, Shown, Published
    <3>2. r \notin published[d]
      BY <3>1, SlotOfCell DEF CohortStands, CellsOf, Occupied
    <3>3. \A q \in published[d] : offers'[q] = offers[q]
      BY <3>2, <1>t, <1>2 DEF TypeOK
    <3> QED
      BY <3>1, <3>3, <1>1 DEF CohortStands
  <2> QED
    BY <2>1, <1>1 DEF StoreInv, Shown
<1>9. KnownIsFresh'
  BY <1>1 DEF StoreInv, KnownIsFresh
<1> QED
  BY <1>5, <1>6, <1>7, <1>8, <1>9 DEF StoreInv

-----------------------------------------------------------------------------
(* query *)

LEMMA InvQuery ==
  ASSUME StoreInv, NEW window \in Windows, NEW past \in Pasts,
         Query(window, past)
  PROVE  StoreInv'
<1>1. /\ pending' \subseteq Cells /\ expired' \subseteq Contents
      /\ known' \in [Cells -> SUBSET Resources]
      /\ UNCHANGED <<stored, published, suppressed, returned>>
  BY StoreAssumption DEF Query, StoreInv, TypeOK, NoCohorts
<1>2. TypeOK'
  BY <1>1 DEF StoreInv, TypeOK
<1>3. SourceOrder' /\ TakenIsBehind' /\ Shown'
  BY <1>1, SourcesKept, ShownKept DEF StoreInv
<1>4. KnownIsFresh'
  BY DEF Query, KnownIsFresh
<1> QED
  BY <1>2, <1>3, <1>4 DEF StoreInv

LEMMA AggregateType ==
  ASSUME TypeOK, NEW c \in Cells
  PROVE  /\ Live(c) \subseteq Resources
         /\ Aggregate(c) \in [Live(c) -> Contents]
         /\ Aggregate(c) \in Aggregates
<1>1. Live(c) \subseteq Resources
  BY DEF Live, LiveAt
<1>2. \A r \in Live(c) : offers[r][Slot[c]].content \in Contents
  BY SlotOfCell DEF Live, LiveAt, TypeOK, Offers
<1> QED
  BY <1>1, <1>2 DEF Aggregate, Aggregates

LEMMA PublicIsLive ==
  ASSUME NEW c \in Cells, IsPublic(c)
  PROVE  Live(c) # {}
<1>1. Cardinality({}) = 0
  BY FS_EmptySet
<1>2. Cardinality(Live(c)) # 0
  BY StoreAssumption DEF IsPublic
<1> QED
  BY <1>1, <1>2

(* A query returns what it has returned before. *)
LEMMA ReturnsTheSame ==
  ASSUME StoreInv, NEW c \in pending, IsPublic(c)
  PROVE  returned[c] \in {NoAggregate, Aggregate(c)}
<1>1. c \in Cells
  BY DEF StoreInv, TypeOK
<1>2. Cohorts[c] = published[c]
  BY DEF StoreInv, KnownIsFresh, Cohorts
<1>3. CASE published[c] = {}
  BY <1>1, <1>3 DEF StoreInv, Shown
<1>4. CASE published[c] # {}
  <2>1. published[c] = Live(c)
    BY <1>2, <1>4 DEF IsPublic, Changed
  <2>2. CohortStands(c)
    BY <1>1, <1>4 DEF StoreInv, Shown, IsPublic
  <2> QED
    BY <2>1, <2>2 DEF CohortStands, Aggregate
<1> QED
  BY <1>3, <1>4

LEMMA InvVisit ==
  ASSUME StoreInv, NEW c \in Cells, Visit(c)
  PROVE  StoreInv'
<1>t. TypeOK
  BY DEF StoreInv
<1>1. /\ suppressed' \in {suppressed, suppressed \cup {c}}
      /\ pending' = pending \ {c}
      /\ expired' \in {expired, {}} /\ known' \in {known, NoCohorts}
      /\ pending' # {} => known' = known
      /\ UNCHANGED stored
  BY DEF Visit
<1>2. \/ UNCHANGED <<published, returned>>
      \/ /\ IsPublic(c)
         /\ published' = [published EXCEPT ![c] = Live(c)]
         /\ returned' = [returned EXCEPT ![c] = Aggregate(c)]
  BY DEF Visit
<1>3. /\ published' \in [Cells -> SUBSET Resources]
      /\ returned' \in [Cells -> Aggregates \cup {NoAggregate}]
  BY <1>t, <1>2, AggregateType DEF TypeOK
<1>4. TypeOK'
  BY <1>t, <1>1, <1>3 DEF TypeOK, NoCohorts
<1>5. SourceOrder' /\ TakenIsBehind'
  BY <1>1, SourcesKept DEF StoreInv
<1>6. Shown'
  <2>1. CASE UNCHANGED <<published, returned>>
    BY <2>1, <1>1, ShownKept DEF StoreInv
  <2>2. CASE /\ IsPublic(c)
             /\ published' = [published EXCEPT ![c] = Live(c)]
             /\ returned' = [returned EXCEPT ![c] = Aggregate(c)]
    <3>1. /\ published'[c] = Live(c) /\ returned'[c] = Aggregate(c)
          /\ Live(c) # {}
      BY <2>2, <1>t, PublicIsLive DEF TypeOK
    <3>2. CohortStands(c)'
      <4>1. /\ Aggregate(c) \in [Live(c) -> Contents]
            /\ \A r \in Live(c) :
                 /\ offers[r][Slot[c]] # NoOffer
                 /\ offers[r][Slot[c]].cell = c
                 /\ offers[r][Slot[c]].content = Aggregate(c)[r]
        BY <1>t, AggregateType DEF Aggregate, Live, LiveAt
      <4> QED
        BY <3>1, <4>1, <1>1 DEF CohortStands
    <3>3. ASSUME NEW d \in Cells, d # c
          PROVE  published'[d] = published[d] /\ returned'[d] = returned[d]
      BY <2>2, <3>3, <1>t DEF TypeOK
    <3>4. ASSUME NEW d \in Cells
          PROVE  /\ published'[d] = {} => returned'[d] = NoAggregate
                 /\ published'[d] # {} /\ d \notin suppressed' => CohortStands(d)'
      <4>1. CASE d = c
        BY <4>1, <3>1, <3>2
      <4>2. CASE d # c
        BY <4>2, <3>3, <1>1 DEF StoreInv, Shown, CohortStands
      <4> QED
        BY <4>1, <4>2
    <3> QED
      BY <3>4 DEF Shown
  <2> QED
    BY <1>2, <2>1, <2>2
<1>7. KnownIsFresh'
  BY <1>t, <1>1, <1>2 DEF StoreInv, KnownIsFresh, TypeOK
<1> QED
  BY <1>4, <1>5, <1>6, <1>7 DEF StoreInv

LEMMA InvStutter ==
  ASSUME StoreInv, UNCHANGED vars
  PROVE  StoreInv'
<1>1. UNCHANGED <<stored, published, suppressed, running, returned>>
  BY DEF vars
<1>2. TypeOK'
  BY <1>1 DEF StoreInv, TypeOK
<1>3. SourceOrder' /\ TakenIsBehind' /\ Shown' /\ KnownIsFresh'
  BY <1>1, SourcesKept, ShownKept DEF StoreInv, KnownIsFresh
<1> QED
  BY <1>2, <1>3 DEF StoreInv

LEMMA InvNext == StoreInv /\ [Next]_vars => StoreInv'
<1> SUFFICES ASSUME StoreInv, [Next]_vars PROVE StoreInv'
  OBVIOUS
<1>1. ASSUME NEW r \in Resources, NEW c \in Cells, NEW p \in Positions,
             NEW x \in Contents, Upsert(r, c, p, x)
      PROVE  StoreInv'
  BY <1>1, InvUpsert
<1>2. ASSUME NEW r \in Resources, Withdraw(r) PROVE StoreInv'
  BY <1>2, InvWithdraw
<1>3. ASSUME NEW window \in Windows, NEW past \in Pasts, Query(window, past)
      PROVE  StoreInv'
  BY <1>3, InvQuery
<1>4. ASSUME NEW c \in Cells, Visit(c) PROVE StoreInv'
  BY <1>4, InvVisit
<1>5. CASE UNCHANGED vars
  BY <1>5, InvStutter
<1> QED
  BY <1>1, <1>2, <1>3, <1>4, <1>5 DEF Next

LEMMA StoreInvariant == Spec => []StoreInv
BY InvInit, InvNext, PTL DEF Spec

(* Types hold in every reachable state. *)
THEOREM StoreTypes == Spec => []TypeOK
BY StoreInvariant, PTL DEF StoreInv

(* Late, repeated and withdrawn offers do not come back                    *)
(* (store.py:158-201, 205-226).                                            *)
THEOREM StoreKeepsOrder == Spec => []SourceOrder
BY StoreInvariant, PTL DEF StoreInv

-----------------------------------------------------------------------------
(* The store implements PublicCells: a cell is returned with one sum, until *)
(* it is suppressed (store.py:305-368, postgres.py:689-766).                *)
THEOREM StorePublishesOnce == Spec => PublicSpec
<1>1. Init => Public!Init
  BY DEF Init, Public!Init
<1>2. StoreInv /\ [Next]_vars => [Public!Next]_(Public!vars)
  <2> SUFFICES ASSUME StoreInv, [Next]_vars
               PROVE  Public!Next \/ UNCHANGED Public!vars
    BY DEF Public!vars
  <2>1. ASSUME NEW cells \in SUBSET Cells,
               suppressed' = suppressed \cup cells, UNCHANGED returned
        PROVE  Public!Next
    BY <2>1 DEF Public!Next, Public!Hide
  <2>2. ASSUME NEW r \in Resources, NEW c \in Cells, NEW p \in Positions,
               NEW x \in Contents, Upsert(r, c, p, x)
        PROVE  Public!Next
    <3>1. Published(Touched(r, c, p)) \subseteq Cells
      BY DEF Published, Touched, CellsOf, Obsolete, StoreInv, TypeOK, Offers
    <3> QED
      BY <2>1, <2>2, <3>1 DEF Upsert
  <2>3. ASSUME NEW r \in Resources, Withdraw(r) PROVE Public!Next
    <3>1. Published(CellsOf(r, Occupied(r))) \subseteq Cells
      BY DEF Published, CellsOf, Occupied, StoreInv, TypeOK, Offers
    <3> QED
      BY <2>1, <2>3, <3>1 DEF Withdraw
  <2>4. ASSUME NEW window \in Windows, NEW past \in Pasts,
               Query(window, past)
        PROVE  UNCHANGED Public!vars
    BY <2>4 DEF Query, Public!vars
  <2>5. ASSUME NEW c \in Cells, Visit(c) PROVE Public!Next
    <3>1. CASE IsPublic(c)
      <4>1. /\ c \in pending /\ ~Suppresses(c)
            /\ returned' = [returned EXCEPT ![c] = Aggregate(c)]
            /\ UNCHANGED suppressed
        BY <2>5, <3>1 DEF Visit, IsPublic, Suppresses
      <4>2. /\ c \notin suppressed /\ Aggregate(c) \in Aggregates
            /\ returned[c] \in {NoAggregate, Aggregate(c)}
        BY <3>1, <4>1, AggregateType, ReturnsTheSame DEF StoreInv, IsPublic
      <4> QED
        BY <4>1, <4>2 DEF Public!Next, Public!Show
    <3>2. CASE ~IsPublic(c)
      <4>1. UNCHANGED returned /\ suppressed' \in {suppressed, suppressed \cup {c}}
        BY <2>5, <3>2 DEF Visit
      <4>2. CASE suppressed' = suppressed
        <5>1. suppressed' = suppressed \cup {} /\ {} \in SUBSET Cells
          BY <4>2
        <5> QED
          BY <2>1, <4>1, <5>1
      <4>3. CASE suppressed' = suppressed \cup {c}
        <5>1. {c} \in SUBSET Cells
          OBVIOUS
        <5> QED
          BY <2>1, <4>1, <4>3, <5>1
      <4> QED
        BY <4>1, <4>2, <4>3
    <3> QED
      BY <3>1, <3>2
  <2>6. CASE UNCHANGED vars
    BY <2>6 DEF vars, Public!vars
  <2> QED
    BY <2>2, <2>3, <2>4, <2>5, <2>6 DEF Next
<1> QED
  BY <1>1, <1>2, StoreInvariant, PTL DEF Spec, PublicSpec, Public!Spec

(* In memory, a query looks up what it has itself published before it      *)
(* publishes a neighbour (store.py:312-322).                               *)
THEOREM MemoryCohortsAgree ==
  ASSUME ~Durable
  PROVE  Spec => []AdjacentCohortsAgree
<1>1. Init => AdjacentCohortsAgree
  BY DEF Init, AdjacentCohortsAgree, NoCohorts
<1>2. TypeOK /\ AdjacentCohortsAgree /\ [Next]_vars => AdjacentCohortsAgree'
  <2> SUFFICES ASSUME TypeOK, AdjacentCohortsAgree, [Next]_vars
               PROVE  AdjacentCohortsAgree'
    OBVIOUS
  <2>1. CASE UNCHANGED published
    BY <2>1 DEF AdjacentCohortsAgree
  <2>2. ASSUME NEW c \in Cells, Visit(c), IsPublic(c)
        PROVE  AdjacentCohortsAgree'
    <3>1. published' = [published EXCEPT ![c] = Live(c)]
      BY <2>2 DEF Visit
    <3>2. \A d \in Cells : <<c, d>> \in Adjacent => published[d] \in {{}, Live(c)}
      BY <2>2 DEF IsPublic, Clashes, Cohorts
    <3> QED
      BY <3>1, <3>2, StoreAssumption DEF AdjacentCohortsAgree, TypeOK
  <2>3. ASSUME NEW c \in Cells, Visit(c), ~IsPublic(c)
        PROVE  UNCHANGED published
    BY <2>3 DEF Visit
  <2>4. ASSUME Next, ~ \E c \in Cells : Visit(c)
        PROVE  UNCHANGED published
    BY <2>4 DEF Next, Upsert, Withdraw, Query
  <2> QED
    BY <2>1, <2>2, <2>3, <2>4 DEF vars
<1> QED
  BY <1>1, <1>2, StoreTypes, PTL DEF Spec

=============================================================================
