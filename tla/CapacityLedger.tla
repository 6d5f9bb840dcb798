--------------------------- MODULE CapacityLedger ---------------------------
(***************************************************************************)
(* What any reservation ledger of der-flex promises, whatever stores it:   *)
(* a reservation runs once through its life cycle, a claim is taken only   *)
(* within the capacity its resource offers at that moment, and it never    *)
(* grows afterwards.  There is no clock, no key and no outbox here.        *)
(*                                                                         *)
(* Every call of the service starts by expiring overdue holds, so each     *)
(* step first lets a set W of confirmed reservations lapse.                *)
(***************************************************************************)
EXTENDS Capacity

VARIABLES
  status,    \* status[r], "NONE" before r exists
  product,   \* the product r reserves
  claim,     \* units of each resource r holds
  offers     \* offers[p][s]: units on offer, or NoOffer

vars == <<status, product, claim, offers>>

Lapsed(W) ==
  [r \in Reservations |-> IF r \in W THEN "EXPIRED" ELSE status[r]]

MayLapse(W) == \A r \in W : status[r] = "CONFIRMED"

Init ==
  /\ status = [r \in Reservations |-> "NONE"]
  /\ claim = [r \in Reservations |-> NoClaim]

Lapse(W) ==
  /\ MayLapse(W)
  /\ status' = Lapsed(W)
  /\ UNCHANGED <<product, claim, offers>>

(* A new reservation fits, resource by resource, in what is on offer and   *)
(* not yet held by an active reservation of the same market.               *)
Confirm(W, r, p, a) ==
  /\ MayLapse(W)
  /\ status[r] = "NONE"
  /\ \A s \in Resources :
       a[s] > 0 =>
         /\ offers[p][s] # NoOffer
         /\ Reserved(Lapsed(W), product, claim, Market[p], s) + a[s]
              <= offers[p][s]
  /\ status' = [Lapsed(W) EXCEPT ![r] = "CONFIRMED"]
  /\ product' = [product EXCEPT ![r] = p]
  /\ claim' = [claim EXCEPT ![r] = a]
  /\ UNCHANGED offers

Cancel(W, r) ==
  /\ MayLapse(W)
  /\ Lapsed(W)[r] = "CONFIRMED"
  /\ status' = [Lapsed(W) EXCEPT ![r] = "CANCELLED"]
  /\ UNCHANGED <<product, claim, offers>>

(* Activation accepted, instructions under way.                            *)
Activate(W, r) ==
  /\ MayLapse(W)
  /\ Lapsed(W)[r] = "CONFIRMED"
  /\ status' = [Lapsed(W) EXCEPT ![r] = "ACTIVATED"]
  /\ UNCHANGED <<product, claim, offers>>

(* The resources answered: kept are those whose instruction succeeded.     *)
Settle(W, r, kept) ==
  /\ MayLapse(W)
  /\ Lapsed(W)[r] \in {"CONFIRMED", "ACTIVATED"}
  /\ claim' = [claim EXCEPT ![r] =
                 [s \in Resources |-> IF s \in kept THEN @[s] ELSE 0]]
  /\ status' = [Lapsed(W) EXCEPT ![r] =
                  IF claim'[r] = claim[r] THEN "COMPLETED" ELSE "FAILED"]
  /\ UNCHANGED <<product, offers>>

(* Resources publish, replace and withdraw offers at any time.             *)
OffersMove == UNCHANGED <<status, product, claim>>

Next ==
  \/ \E W \in SUBSET Reservations :
       \/ Lapse(W)
       \/ \E r \in Reservations :
            \/ \E p \in Products, a \in Claims : Confirm(W, r, p, a)
            \/ Cancel(W, r)
            \/ Activate(W, r)
            \/ \E kept \in SUBSET Resources : Settle(W, r, kept)
  \/ OffersMove

Spec == Init /\ [][Next]_vars

=============================================================================
