------------------------------ MODULE Capacity ------------------------------
(***************************************************************************)
(* The arithmetic of sold capacity, shared by every module that talks      *)
(* about reservations.                                                     *)
(*                                                                         *)
(* Power is counted in indivisible units (the code uses floats in kW with  *)
(* a 1e-9 tolerance).  A reservation r claims alloc[r][s] units of every   *)
(* resource s.  The code adds these claims up with sum() or SQL SUM(); the *)
(* sums are written here as the cardinality of the set of units they       *)
(* count, which is the same number and needs no recursion.                 *)
(***************************************************************************)
EXTENDS Integers, FiniteSets

CONSTANTS
  Reservations,   \* reservation ids (uuid4 in the code)
  Products,       \* tenant x zone x interval x consequence x direction
  Market,         \* Market[p]: the part of p a backend matches claims on
  Resources,      \* resource ids, ordered as the offers are sorted
  MaxOffer,       \* bound: the largest capacity one resource offers
  NoOffer         \* a resource with no eligible offer for a product

ASSUME CapacityAssumption ==
  /\ IsFiniteSet(Reservations)
  /\ Resources \subseteq Nat /\ IsFiniteSet(Resources)
  /\ MaxOffer \in Nat
  /\ NoOffer \notin Nat

ActiveStatuses == {"CONFIRMED", "ACTIVATED", "COMPLETED", "FAILED"}

Claims == [Resources -> 0..MaxOffer]
NoClaim == [s \in Resources |-> 0]

(* sum(item.power_kw for item in allocations). *)
Total(a) ==
  Cardinality({x \in Resources \X (1..MaxOffer) : x[2] <= a[x[1]]})

ClaimUnits(st, pr, cl, m, s) ==
  {x \in Reservations \X (1..MaxOffer) :
     /\ st[x[1]] \in ActiveStatuses
     /\ Market[pr[x[1]]] = m
     /\ x[2] <= cl[x[1]][s]}

(* What active reservations hold of resource s in market m, when st, pr    *)
(* and cl give the status, product and claim of every reservation.         *)
Reserved(st, pr, cl, m, s) == Cardinality(ClaimUnits(st, pr, cl, m, s))

(* The outcome of the loop in create over the offers sorted by             *)
(* resource_id, when free[s] is what resource s has left: a resource gives *)
(* what is still missing, once every earlier one has given all it had.     *)
IsAllocation(a, free, power) ==
  /\ Total(a) = power
  /\ \A s \in Resources :
       /\ a[s] <= free[s]
       /\ a[s] > 0 => \A t \in Resources : t < s => a[t] = free[t]

(* Participants with an eligible offer in the row o of the offer table.    *)
Participants(o) == {s \in Resources : o[s] # NoOffer}

=============================================================================
