----------------------------- MODULE OfferStore -----------------------------
(***************************************************************************)
(* The offer store of one tenant: what every resource offers, the position *)
(* of its source, and the cells that have been published or suppressed.    *)
(* InMemoryOfferStore and PostgresOfferStore differ in what a query knows: *)
(* the first looks up published cohorts cell by cell, the second reads     *)
(* them once when it starts, and can suppress only cells it has published. *)
(*                                                                         *)
(* Every operation runs under one lock (_lock, or the advisory lock        *)
(* "offer-store").  A query is split into one step per cell all the same,  *)
(* and everything else waits until its last cell.  It reads the clock      *)
(* before it asks for the lock: the instants of the queries need not come  *)
(* in the order in which they run, and each sees other offers expired.     *)
(***************************************************************************)
EXTENDS Integers, FiniteSets

CONSTANTS
  Durable,   \* PostgresOfferStore and PostgresResourceRegistry
  Resources,
  Cells,     \* zone, interval, consequence; numbered in the order of query
  Slot,      \* Slot[c]: the cell without its interval_end, the key of offers
  Adjacent,  \* pairs of cells of one zone and consequence that touch
  Windows,   \* the cells within the from and to of a query
  Contents,  \* everything else an offer says, its expires_at included
  Pasts,     \* for each instant: the contents whose expires_at is over
  MinimumParticipants,
  MaxPosition,  \* bound on (source_epoch, source_sequence), numbered from 1
  NoOffer, NoAggregate

ASSUME StoreAssumption ==
  /\ Durable \in BOOLEAN
  /\ IsFiniteSet(Resources)
  /\ Cells \subseteq Nat
  /\ Adjacent \subseteq Cells \X Cells
  /\ \A c, d \in Cells : <<c, d>> \in Adjacent => <<d, c>> \in Adjacent
  /\ Windows \subseteq SUBSET Cells
  /\ Pasts \subseteq SUBSET Contents
  /\ \A g, h \in Pasts : g \subseteq h \/ h \subseteq g
  /\ MinimumParticipants \in Nat \ {0}
  /\ MaxPosition \in Nat

Slots == {Slot[c] : c \in Cells}
Positions == 1..MaxPosition

Offers == [cell : Cells, position : Positions, content : Contents]

(* An aggregate is as good as the offers it sums up. *)
Aggregates == UNION {[cohort -> Contents] : cohort \in SUBSET Resources}

ASSUME NoneAssumption == NoOffer \notin Offers /\ NoAggregate \notin Aggregates

VARIABLES
  offers,       \* _offers, der_flex_offers
  position,     \* _source_positions, 0 before the first offer
  disconnected, \* _disconnected_resources
  published,    \* _published_cohorts; {} for cells that are not published
  suppressed,   \* _suppressed_cells, der_flex_published_cohorts.suppressed
  pending,      \* cells the running query has still to visit
  expired,      \* generated_at: what has expired for it
  known,        \* the published cohorts it has read, if Durable
  returned,     \* ghost: the aggregate a query returned last for a cell
  retired       \* ghost: the latest position of which an offer was taken away

stored == <<offers, position, disconnected, retired>>
running == <<pending, expired, known>>
vars == <<stored, published, suppressed, running, returned>>

NoOffers == [s \in Slots |-> NoOffer]
NoCohorts == [c \in Cells |-> {}]

Init ==
  /\ offers = [r \in Resources |-> NoOffers]
  /\ position = [r \in Resources |-> 0]
  /\ disconnected = {}
  /\ published = NoCohorts
  /\ suppressed = {}
  /\ pending = {}
  /\ expired = {}
  /\ known = NoCohorts
  /\ returned = [c \in Cells |-> NoAggregate]
  /\ retired = [r \in Resources |-> 0]

Idle == pending = {}

Published(cells) == {c \in cells : published[c] # {}}

-----------------------------------------------------------------------------
(* upsert *)

(* Mutant of Stale: a disconnected resource may repeat its position. *)
StaleIfOlder(r, p) == p < position[r]

Stale(r, p) == p < position[r] \/ (r \in disconnected /\ p <= position[r])

(* Slots whose offer the incoming position makes obsolete. *)
Obsolete(r, p) ==
  {s \in Slots : offers[r][s] # NoOffer /\ offers[r][s].position < p}

Remaining(r, p) ==
  [s \in Slots |-> IF s \in Obsolete(r, p) THEN NoOffer ELSE offers[r][s]]

CellsOf(r, slots) == {offers[r][s].cell : s \in slots}

(* Cells whose sum changes when r comes with an offer for c. *)
Touched(r, c, p) == CellsOf(r, Obsolete(r, p)) \cup {c}

(* A position that is known already brings nothing new: either it is the   *)
(* same offer again, or OfferVersionConflict. *)
AlreadyAt(r, c, p) ==
  LET previous == Remaining(r, p)[Slot[c]]
  IN  previous # NoOffer /\ previous.position = p

Retire(r, slots) ==
  retired' = IF slots = {} THEN retired ELSE [retired EXCEPT ![r] = position[r]]

Upsert(r, c, p, x) ==
  /\ Idle
  /\ ~Stale(r, p) /\ ~AlreadyAt(r, c, p)
  /\ position' = [position EXCEPT ![r] = p]
  /\ disconnected' = disconnected \ {r}
  /\ offers' = [offers EXCEPT ![r] =
       [Remaining(r, p) EXCEPT ![Slot[c]] =
          [cell |-> c, position |-> p, content |-> x]]]
  /\ suppressed' = suppressed \cup Published(Touched(r, c, p))
  /\ Retire(r, Obsolete(r, p))
  /\ UNCHANGED <<published, running, returned>>

-----------------------------------------------------------------------------
(* remove_resource; a new version in PostgresResourceRegistry.register *)

Occupied(r) == {s \in Slots : offers[r][s] # NoOffer}

Withdraw(r) ==
  /\ Idle
  /\ Occupied(r) # {}
  /\ offers' = [offers EXCEPT ![r] = NoOffers]
  /\ suppressed' = suppressed \cup Published(CellsOf(r, Occupied(r)))
  /\ disconnected' = disconnected \cup {r}
  /\ Retire(r, Occupied(r))
  /\ UNCHANGED <<position, published, running, returned>>

-----------------------------------------------------------------------------
(* query *)

LiveAt(c, past) ==
  {r \in Resources : LET offer == offers[r][Slot[c]]
                     IN  /\ offer # NoOffer
                         /\ offer.cell = c
                         /\ offer.content \notin past}

Live(c) == LiveAt(c, expired)

(* Mutant of Aggregate: the offers themselves are returned. *)
AggregateOfOffers(c) == [r \in Live(c) |-> offers[r][Slot[c]]]

Aggregate(c) == [r \in Live(c) |-> offers[r][Slot[c]].content]

(* The instant of the query, past, was read before the lock was taken. *)
Query(window, past) ==
  /\ Idle
  /\ pending' = {c \in window : LiveAt(c, past) # {}}
  /\ expired' = IF pending' = {} THEN {} ELSE past
  /\ known' = IF Durable /\ pending' # {} THEN published ELSE NoCohorts
  /\ UNCHANGED <<stored, published, suppressed, returned>>

Cohorts == IF Durable THEN known ELSE published

(* Mutant of Changed: the cohort of an earlier publication is not compared.*)
NeverChanged(c) == c \notin Cells

Changed(c) == Cohorts[c] \notin {{}, Live(c)}

(* Mutant of Clashes: neighbours are not compared. *)
NeverClashes(c) == c \notin Cells

Clashes(c) ==
  \E d \in Cells : <<c, d>> \in Adjacent /\ Cohorts[d] \notin {{}, Live(c)}

(* PostgreSQL has no row to mark for a cell it has never published. *)
Suppresses(c) ==
  Changed(c) \/ (Clashes(c) /\ (~Durable \/ Cohorts[c] # {}))

IsPublic(c) ==
  /\ c \notin suppressed /\ ~Changed(c) /\ ~Clashes(c)
  /\ Cardinality(Live(c)) >= MinimumParticipants

Visit(c) ==
  /\ c \in pending /\ \A d \in pending : c <= d
  /\ suppressed' = IF Suppresses(c) THEN suppressed \cup {c} ELSE suppressed
  /\ IF IsPublic(c)
       THEN /\ published' = [published EXCEPT ![c] = Live(c)]
            /\ returned' = [returned EXCEPT ![c] = Aggregate(c)]
       ELSE UNCHANGED <<published, returned>>
  /\ pending' = pending \ {c}
  /\ expired' = IF pending' = {} THEN {} ELSE expired
  /\ known' = IF pending' = {} THEN NoCohorts ELSE known
  /\ UNCHANGED stored

-----------------------------------------------------------------------------
Next ==
  \/ \E r \in Resources, c \in Cells, p \in Positions, x \in Contents :
       Upsert(r, c, p, x)
  \/ \E r \in Resources : Withdraw(r)
  \/ \E window \in Windows, past \in Pasts : Query(window, past)
  \/ \E c \in Cells : Visit(c)

Spec == Init /\ [][Next]_vars

-----------------------------------------------------------------------------
(* Types of the state. *)
TypeOK ==
  /\ offers \in [Resources -> [Slots -> Offers \cup {NoOffer}]]
  /\ position \in [Resources -> 0..MaxPosition]
  /\ disconnected \subseteq Resources
  /\ published \in [Cells -> SUBSET Resources]
  /\ suppressed \subseteq Cells
  /\ pending \subseteq Cells /\ expired \subseteq Contents
  /\ known \in [Cells -> SUBSET Resources]
  /\ returned \in [Cells -> Aggregates \cup {NoAggregate}]
  /\ retired \in [Resources -> 0..MaxPosition]

(* Messages of a source may come late, twice, or after it was withdrawn:   *)
(* what is stored of a resource is always from one position, its latest,   *)
(* and nothing that was superseded or withdrawn comes back                 *)
(* (store.py:158-201, 205-226; postgres.py:442-500, 570-591).              *)
SourceOrder ==
  \A r \in Resources, s \in Slots :
    offers[r][s] # NoOffer =>
      /\ offers[r][s].position = position[r]
      /\ position[r] > retired[r]
      /\ r \notin disconnected

(* A cell is returned with one sum for ever: once an offer in it changes,  *)
(* expires, comes or goes, no query returns it again, so that no two       *)
(* answers differ by the offer of one resource (store.py:175-201, 217-221, *)
(* 305-368; postgres.py:341-351, 465-500, 689-766).                        *)
Public == INSTANCE PublicCells WITH
  Values <- Aggregates, NoValue <- NoAggregate,
  value <- returned, hidden <- suppressed
PublicSpec == Public!Spec

(* Cells that touch are published with the same cohort: their difference   *)
(* is nobody's contribution (docs/adr/004-privacidad-agregados.md:18).     *)
AdjacentCohortsAgree ==
  \A c, d \in Cells :
    /\ <<c, d>> \in Adjacent
    /\ published[c] # {} /\ published[d] # {}
    => published[c] = published[d]

=============================================================================
