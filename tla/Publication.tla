---------------------------- MODULE Publication ----------------------------
(***************************************************************************)
(* GET /api/v1/flexibility: what the public sees of a tenant's cells.  A   *)
(* request goes through four transactions, of the query budget, the offer  *)
(* store, the reservations and the snapshots, and offers and reservations  *)
(* change between them.                                                    *)
(*                                                                         *)
(* The offer store is taken at its word, PublicCells, which OfferStore     *)
(* keeps.  One capacity stands for the four figures of an aggregate that   *)
(* reservations reduce.                                                    *)
(***************************************************************************)
EXTENDS Integers

CONSTANTS
  Handlers,    \* requests in progress
  Cells,
  Windows,     \* the cells within the from and to of a request
  Capacities,  \* bound: capacities an aggregate may have
  MaxSold,     \* bound: what reservations may take of a cell
  Resolution,  \* power_resolution_kw
  Limit,       \* queries_per_interval
  MaxEpoch,    \* bound on the epochs, numbered from 1
  NoValue

Epochs == 1..MaxEpoch

ASSUME PublicationAssumption ==
  /\ Windows \subseteq SUBSET Cells
  /\ Capacities \subseteq Nat
  /\ MaxSold \in Nat /\ Resolution \in Nat \ {0}
  /\ Limit \in Nat /\ MaxEpoch \in Nat \ {0}
  /\ NoValue \notin Nat

VARIABLES
  epoch,     \* publication_epoch(now)
  used,      \* _privacy_query_counts, der_flex_privacy_query_budgets
  value,     \* of the offer store: the aggregate of a cell, or NoValue
  hidden,    \* of the offer store: suppressed cells
  sold,      \* allocated_power_kw of the active reservations of a cell
  residual,  \* der_flex_public_residuals, or NoValue
  closed,    \* der_flex_public_residuals.suppressed
  snapshot,  \* snapshot[e][c]: der_flex_privacy_snapshots, or NoValue
  pc,        \* where a request is
  at,        \* the epoch it was admitted in
  window,    \* the cells it asks for
  got,       \* got[h][c]: its aggregates, or NoValue
  gone       \* ghost: the epoch in which a cell was hidden or closed, or 0

store == <<value, hidden>>
ledger == <<sold, residual, closed>>
request == <<pc, at, window, got>>
vars == <<epoch, used, store, ledger, snapshot, request, gone>>

Nothing == [c \in Cells |-> NoValue]

Offers == INSTANCE PublicCells WITH Values <- Capacities

Init ==
  /\ epoch = 1
  /\ used = [e \in Epochs |-> 0]
  /\ Offers!Init
  /\ sold = [c \in Cells |-> 0]
  /\ residual = Nothing /\ closed = {}
  /\ snapshot = [e \in Epochs |-> Nothing]
  /\ pc = [h \in Handlers |-> "idle"]
  /\ at = [h \in Handlers |-> 1]
  /\ window = [h \in Handlers |-> {}]
  /\ got = [h \in Handlers |-> Nothing]
  /\ gone = [c \in Cells |-> 0]

(* The cells that go in this step. *)
Goes(cells) ==
  gone' = [c \in Cells |-> IF c \in cells /\ gone[c] = 0 THEN epoch ELSE gone[c]]

-----------------------------------------------------------------------------
(* consume_privacy_budget: e is the epoch when the request read the clock. *)

Admit(h, w, e) ==
  /\ pc[h] = "idle"
  /\ used[e] < Limit
  /\ used' = [used EXCEPT ![e] = @ + 1]
  /\ pc' = [pc EXCEPT ![h] = "admitted"]
  /\ at' = [at EXCEPT ![h] = e]
  /\ window' = [window EXCEPT ![h] = w]
  /\ UNCHANGED <<epoch, store, ledger, snapshot, got, gone>>

(* Mutant of MayReturn: suppressed cells are returned. *)
MayReturnHidden(c, v) == value[c] \in {NoValue, v}

MayReturn(c, v) == c \notin hidden /\ value[c] \in {NoValue, v}

(* query *)
Query(h) ==
  /\ pc[h] = "admitted"
  /\ \E found \in SUBSET window[h] :
       \E answer \in [found -> Capacities] :
         /\ \A c \in found : MayReturn(c, answer[c])
         /\ value' = [c \in Cells |-> IF c \in found THEN answer[c] ELSE value[c]]
         /\ got' = [got EXCEPT ![h] =
              [c \in Cells |-> IF c \in found THEN answer[c] ELSE NoValue]]
  /\ pc' = [pc EXCEPT ![h] = "aggregated"]
  /\ UNCHANGED <<epoch, used, hidden, ledger, snapshot, at, window, gone>>

-----------------------------------------------------------------------------
(* public_residual_capacity *)

(* Mutant of Rest: a cell sold beyond its aggregate has a negative rest. *)
RestUnbounded(h, c) == got[h][c] - sold[c]

Rest(h, c) == IF got[h][c] > sold[c] THEN got[h][c] - sold[c] ELSE 0

(* Mutant of Differs: the residual published before is overwritten. *)
DiffersNever(h, c) == FALSE

Differs(h, c) == residual[c] \notin {NoValue, Rest(h, c)}

Reduce(h) ==
  LET found == {c \in Cells : got[h][c] # NoValue}
      shut == closed \cup {c \in found : Differs(h, c)}
      left == [c \in Cells |-> IF c \in found \ shut THEN Rest(h, c) ELSE NoValue]
  IN
  /\ pc[h] = "aggregated"
  /\ closed' = shut
  /\ residual' = [c \in Cells |-> IF left[c] # NoValue THEN left[c] ELSE residual[c]]
  /\ got' = [got EXCEPT ![h] = left]
  /\ Goes(shut \ closed)
  /\ pc' = [pc EXCEPT ![h] = "reduced"]
  /\ UNCHANGED <<epoch, used, store, sold, snapshot, at, window>>

-----------------------------------------------------------------------------
(* sanitize, publish_privacy_snapshot; the answer is the snapshot of the   *)
(* window. *)

Floor(v) == (v \div Resolution) * Resolution

(* setdefault, ON CONFLICT DO NOTHING *)
Keeps(h, c) == snapshot[at[h]][c] # NoValue \/ got[h][c] = NoValue

Publish(h) ==
  /\ pc[h] = "reduced"
  /\ snapshot' = [snapshot EXCEPT ![at[h]] =
       [c \in Cells |-> IF Keeps(h, c) THEN @[c] ELSE Floor(got[h][c])]]
  /\ pc' = [pc EXCEPT ![h] = "idle"]
  /\ at' = [at EXCEPT ![h] = 1]
  /\ window' = [window EXCEPT ![h] = {}]
  /\ got' = [got EXCEPT ![h] = Nothing]
  /\ UNCHANGED <<epoch, used, store, ledger, gone>>

-----------------------------------------------------------------------------
(* The request fails between two transactions. *)
Abort(h) ==
  /\ pc[h] # "idle"
  /\ pc' = [pc EXCEPT ![h] = "idle"]
  /\ at' = [at EXCEPT ![h] = 1]
  /\ window' = [window EXCEPT ![h] = {}]
  /\ got' = [got EXCEPT ![h] = Nothing]
  /\ UNCHANGED <<epoch, used, store, ledger, snapshot, gone>>

(* Offers change: upserts, withdrawals, expiry. *)
OffersChange(cells) ==
  /\ cells # {}
  /\ Offers!Hide(cells)
  /\ Goes(cells)
  /\ UNCHANGED <<epoch, used, ledger, snapshot, request>>

(* Reservations come, end, expire or settle. *)
ReservationsChange(c) ==
  /\ \E x \in 0..MaxSold : sold' = [sold EXCEPT ![c] = x]
  /\ UNCHANGED <<epoch, used, store, residual, closed, snapshot, request, gone>>

NextEpoch ==
  /\ epoch < MaxEpoch
  /\ epoch' = epoch + 1
  /\ UNCHANGED <<used, store, ledger, snapshot, request, gone>>

Next ==
  \/ \E h \in Handlers :
       \/ \E w \in Windows, e \in 1..epoch : Admit(h, w, e)
       \/ Query(h) \/ Reduce(h) \/ Publish(h) \/ Abort(h)
  \/ \E cells \in SUBSET Cells : OffersChange(cells)
  \/ \E c \in Cells : ReservationsChange(c)
  \/ NextEpoch

Spec == Init /\ [][Next]_vars

-----------------------------------------------------------------------------
Figures == Nat \cup {NoValue}

(* Types of the state. *)
TypeOK ==
  /\ epoch \in Epochs
  /\ used \in [Epochs -> 0..Limit]
  /\ value \in [Cells -> Capacities \cup {NoValue}] /\ hidden \subseteq Cells
  /\ sold \in [Cells -> 0..MaxSold]
  /\ residual \in [Cells -> Figures] /\ closed \subseteq Cells
  /\ snapshot \in [Epochs -> [Cells -> Figures]]
  /\ pc \in [Handlers -> {"idle", "admitted", "aggregated", "reduced"}]
  /\ at \in [Handlers -> Epochs]
  /\ window \in [Handlers -> SUBSET Cells]
  /\ got \in [Handlers -> [Cells -> Figures]]
  /\ gone \in [Cells -> 0..MaxEpoch]

(* Whoever asks, when, for whatever window: a cell has one public value in *)
(* all epochs, so that no difference of two answers shows what a resource  *)
(* or a reservation changed (app.py:289-306, service.py:426-468,           *)
(* store.py:95-138).                                                       *)
OneValuePerCell ==
  \A d, e \in Epochs, c \in Cells :
    snapshot[d][c] # NoValue /\ snapshot[e][c] # NoValue
      => snapshot[d][c] = snapshot[e][c]

(* A cell whose offers changed, or whose residual was seen to change, is   *)
(* not shown in any later epoch, however long requests are under way       *)
(* (docs/adr/004-privacidad-agregados.md:17; app.py:289-306).              *)
GoneFromLaterEpochs ==
  \A e \in Epochs, c \in Cells :
    gone[c] > 0 /\ e > gone[c] => snapshot[e][c] = NoValue

=============================================================================
