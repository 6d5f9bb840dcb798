--------------------------- MODULE AllocationLoop ---------------------------
(***************************************************************************)
(* The loop in ReservationService.create that spreads the requested power  *)
(* over the eligible offers in resource order.  ReservationLedger and      *)
(* ReservationTransactions take its outcome from IsAllocation; this module *)
(* shows that the loop computes just that.                                 *)
(*                                                                         *)
(* Power is in whole units, so the 1e-9 tolerance of the code reads as     *)
(* "nothing is missing".                                                   *)
(***************************************************************************)
EXTENDS Capacity

CONSTANTS
  MinimumParticipants,  \* below it the loop is not entered
  Powers                \* bound: requested powers that are enumerated

ASSUME LoopAssumption ==
  /\ MinimumParticipants \in Nat \ {0}
  /\ Powers \subseteq Nat \ {0}

VARIABLES
  offer,       \* offer[s]: capacity offered in the direction, or NoOffer
  reserved,    \* reserved[s]: already_reserved; may exceed a shrunken offer
  power,       \* power_kw
  pending,     \* resources whose offer is still to be looked at
  remaining,   \* remaining
  allocations, \* allocations; a resource without an entry has 0
  outcome      \* "none" outside of the loop

inputs == <<offer, reserved, power>>
vars == <<inputs, pending, remaining, allocations, outcome>>

Init ==
  /\ offer \in [Resources -> (0..MaxOffer) \cup {NoOffer}]
  /\ Cardinality(Participants(offer)) >= MinimumParticipants
  /\ reserved \in [Resources -> 0..MaxOffer]
  /\ power \in Powers
  /\ pending = Participants(offer)
  /\ remaining = power
  /\ allocations = NoClaim
  /\ outcome = "looping"

(* max(0.0, capacity - already_reserved). *)
Free ==
  [s \in Resources |->
     IF offer[s] # NoOffer /\ offer[s] > reserved[s]
       THEN offer[s] - reserved[s]
       ELSE 0]

Given(s) == IF Free[s] < remaining THEN Free[s] ELSE remaining

(* Mutant of Outcome: an exhausted list counts as failure before the       *)
(* remainder is looked at.                                                 *)
OutcomeExhaustedFirst(left, rest) ==
  IF rest = {} THEN "insufficient"
  ELSE IF left = 0 THEN "confirmed" ELSE "looping"

Outcome(left, rest) ==
  IF left = 0 THEN "confirmed"
  ELSE IF rest = {} THEN "insufficient" ELSE "looping"

(* Mutant of ComesNext: offers are not sorted. *)
ComesNextUnsorted(s) == s \in pending

ComesNext(s) == s \in pending /\ \A t \in pending : s <= t

(* One turn of the loop. *)
Visit(s) ==
  /\ outcome = "looping"
  /\ ComesNext(s)
  /\ allocations' = [allocations EXCEPT ![s] = Given(s)]
  /\ remaining' = remaining - Given(s)
  /\ pending' = pending \ {s}
  /\ outcome' = Outcome(remaining', pending')
  /\ UNCHANGED inputs

Next == \E s \in Resources : Visit(s)

Spec == Init /\ [][Next]_vars

-----------------------------------------------------------------------------
TypeOK ==
  /\ offer \in [Resources -> (0..MaxOffer) \cup {NoOffer}]
  /\ reserved \in [Resources -> 0..MaxOffer]
  /\ power \in Nat
  /\ pending \subseteq Participants(offer)
  /\ remaining \in 0..power
  /\ allocations \in Claims
  /\ outcome \in {"none", "looping", "confirmed", "insufficient"}

(* The loop gives an allocation exactly when one exists: confirmed with    *)
(* one that fits every offer and takes resources in order, insufficient    *)
(* only when no claim at all could have satisfied the request              *)
(* (service.py:152-175).                                                   *)
LoopDecides ==
  /\ outcome = "confirmed" => IsAllocation(allocations, Free, power)
  /\ outcome = "insufficient" =>
       \A a \in Claims : ~IsAllocation(a, Free, power)

(* There is never a choice: the allocation the loop returns is the only    *)
(* one, so two services that see the same offers decide alike.             *)
OnlyAllocation ==
  outcome = "confirmed" =>
    \A a \in Claims : IsAllocation(a, Free, power) => a = allocations

=============================================================================
