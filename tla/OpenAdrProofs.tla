-------------------------- MODULE OpenAdrProofs --------------------------
(***************************************************************************)
(* The allocation loop decides every request rightly, for any number of    *)
(* resources, any offers and any requested power; and the adapter that     *)
(* calls it through create reports one result for every interval, for any  *)
(* number of handlers and intervals.                                       *)
(***************************************************************************)
EXTENDS OpenAdrAdapter, CapacityProofs

(* What the loop keeps true while it runs: nothing is given beyond what is *)
(* free, given and missing add up to the request, the offers still to come *)
(* are later in the order, and every earlier one has given all it had.     *)
LoopInv ==
  /\ TypeOK
  /\ Total(allocations) + remaining = power
  /\ \A s \in Resources : allocations[s] <= Free[s]
  /\ \A s \in pending : allocations[s] = 0
  /\ \A s \in Resources \ pending, t \in pending :
       s < t \/ Free[s] = 0
  /\ outcome = "looping" =>
       /\ remaining > 0
       /\ \A s \in Resources \ pending : allocations[s] = Free[s]
  /\ outcome = "insufficient" =>
       /\ remaining > 0
       /\ \A s \in Resources : allocations[s] = Free[s]
  /\ outcome = "confirmed" =>
       /\ remaining = 0
       /\ \A s, t \in Resources :
            allocations[s] > 0 /\ t < s => allocations[t] = Free[t]

LEMMA FreeType ==
  ASSUME TypeOK, NEW s \in Resources
  PROVE  Free[s] \in 0..MaxOffer
BY CapacityAssumption DEF TypeOK, Free

LEMMA NothingFree ==
  ASSUME NEW s \in Resources \ Participants(offer)
  PROVE  Free[s] = 0
BY DEF Participants, Free

LEMMA LoopInvInit == Init => LoopInv
<1> SUFFICES ASSUME Init PROVE LoopInv
  OBVIOUS
<1>1. power \in Nat /\ power > 0
  BY LoopAssumption DEF Init
<1>2. NoClaim \in Claims
  BY CapacityAssumption DEF NoClaim, Claims
<1>3. TypeOK
  BY <1>1, <1>2 DEF Init, TypeOK
<1>4. Total(allocations) + remaining = power
  BY <1>1, TotalOfNothing DEF Init
<1>5. \A s \in Resources : allocations[s] = 0 /\ 0 <= Free[s]
  BY <1>3, FreeType, CapacityAssumption DEF Init, NoClaim
<1>6. \A s \in Resources \ pending : Free[s] = 0
  BY NothingFree DEF Init
<1>7. pending \subseteq Resources
  BY DEF Init, Participants
<1> QED
  BY <1>1, <1>3, <1>4, <1>5, <1>6, <1>7 DEF LoopInv, Init

LEMMA LoopInvNext == LoopInv /\ [Next]_vars => LoopInv'
<1> SUFFICES ASSUME LoopInv, [Next]_vars PROVE LoopInv'
  OBVIOUS
<1>1. CASE UNCHANGED vars
  BY <1>1 DEF LoopInv, vars, inputs, TypeOK, Free
<1>2. ASSUME NEW s \in Resources, Visit(s)
      PROVE  LoopInv'
  <2> DEFINE g == Given(s)
  <2>1. /\ outcome = "looping" /\ s \in pending
        /\ \A t \in pending : s <= t
        /\ allocations' = [allocations EXCEPT ![s] = g]
        /\ remaining' = remaining - g
        /\ pending' = pending \ {s}
        /\ outcome' = IF remaining' = 0 THEN "confirmed"
                      ELSE IF pending' = {} THEN "insufficient" ELSE "looping"
        /\ UNCHANGED <<offer, reserved, power>>
    BY <1>2 DEF Visit, ComesNext, Outcome, inputs
  <2>2. /\ power \in Nat \ {0} /\ remaining \in 0..power /\ remaining > 0
        /\ allocations \in Claims /\ allocations[s] = 0
        /\ pending \subseteq Resources
    BY <2>1 DEF LoopInv, TypeOK, Participants
  <2>3. Free' = Free
    BY <2>1 DEF Free
  <2>4. Free[s] \in 0..MaxOffer
    BY FreeType DEF LoopInv
  <2>5. /\ g \in 0..MaxOffer /\ g <= Free[s] /\ g <= remaining
        /\ g = Free[s] \/ g = remaining
    BY <2>2, <2>4, CapacityAssumption DEF Given
  <2> HIDE DEF g
  <2>6. /\ allocations' \in Claims
        /\ Total(allocations') = Total(allocations) + g
    BY <2>1, <2>2, <2>5, TotalAfterGive
  <2>7. remaining' \in 0..power
    BY <2>1, <2>2, <2>5, CapacityAssumption
  <2>8. TypeOK'
    BY <2>1, <2>6, <2>7 DEF LoopInv, TypeOK, Participants
  <2>9. Total(allocations') + remaining' = power'
    <3>1. Total(allocations) \in Nat
      BY <2>2, TotalType
    <3>2. g \in Int
      BY <2>5, CapacityAssumption
    <3> QED
      BY <2>1, <2>2, <2>6, <3>1, <3>2 DEF LoopInv
  <2>10. /\ allocations'[s] = g
         /\ \A t \in Resources \ {s} : allocations'[t] = allocations[t]
    BY <2>1, <2>2 DEF Claims
  <2>11. \A t \in Resources : allocations'[t] <= Free'[t]
    BY <2>3, <2>5, <2>10 DEF LoopInv
  <2>12. \A t \in pending' : allocations'[t] = 0
    BY <2>1, <2>2, <2>10 DEF LoopInv
  <2>13. \A t \in Resources \ pending', u \in pending' :
           t < u \/ Free'[t] = 0
    <3> SUFFICES ASSUME NEW t \in Resources \ pending', NEW u \in pending'
                 PROVE  t < u \/ Free[t] = 0
      BY <2>3
    <3>1. CASE t = s
      BY <2>1, <2>2, <3>1, CapacityAssumption
    <3>2. CASE t # s
      BY <2>1, <3>2 DEF LoopInv
    <3> QED
      BY <3>1, <3>2
  <2>14. ASSUME remaining' # 0
         PROVE  /\ remaining' > 0
                /\ \A t \in Resources \ pending' : allocations'[t] = Free'[t]
    <3>1. g = Free[s]
      BY <2>1, <2>2, <2>5, <2>14
    <3>2. remaining' > 0
      BY <2>2, <2>7, <2>14
    <3> QED
      BY <2>1, <2>3, <2>10, <3>1, <3>2 DEF LoopInv
  <2>15. ASSUME remaining' = 0, NEW t \in Resources, NEW u \in Resources,
                allocations'[t] > 0, u < t
         PROVE  allocations'[u] = Free'[u]
    <3>1. CASE u \in pending
      <4>1. t # s /\ t \notin pending
        BY <2>1, <2>2, <2>10, <2>12, <2>15, <3>1, CapacityAssumption
      <4>2. t < u \/ Free[t] = 0
        BY <3>1, <4>1 DEF LoopInv
      <4>3. allocations'[t] <= Free[t]
        BY <2>3, <2>11
      <4>4. t \in Nat /\ u \in Nat /\ allocations'[t] \in Nat
        BY <2>6, CapacityAssumption DEF Claims
      <4> QED
        BY <2>15, <4>2, <4>3, <4>4
    <3>2. CASE u \notin pending
      BY <2>1, <2>3, <2>10, <3>2 DEF LoopInv
    <3> QED
      BY <3>1, <3>2
  <2> QED
    BY <2>1, <2>8, <2>9, <2>11, <2>12, <2>13, <2>14, <2>15 DEF LoopInv
<1> QED
  BY <1>1, <1>2 DEF Next

LEMMA LoopInvariant == Spec => []LoopInv
BY LoopInvInit, LoopInvNext, PTL DEF Spec

(* The loop stays within its types; what is missing never turns negative.  *)
THEOREM AllocationLoopTypes == Spec => []TypeOK
BY LoopInvariant, PTL DEF LoopInv

LEMMA LoopInvDecides == LoopInv => LoopDecides
<1> SUFFICES ASSUME LoopInv PROVE LoopDecides
  OBVIOUS
<1>1. /\ power \in Nat /\ remaining \in 0..power /\ allocations \in Claims
      /\ Total(allocations) \in Nat
  BY TotalType DEF LoopInv, TypeOK
<1>2. ASSUME outcome = "confirmed"
      PROVE  IsAllocation(allocations, Free, power)
  BY <1>1, <1>2 DEF LoopInv, IsAllocation
<1>3. ASSUME outcome = "insufficient", NEW a \in Claims,
             IsAllocation(a, Free, power)
      PROVE  FALSE
  <2>1. \A s \in Resources : a[s] <= allocations[s]
    BY <1>3 DEF LoopInv, IsAllocation
  <2>2. Total(a) <= Total(allocations)
    BY <1>1, <2>1, TotalMonotone
  <2> QED
    BY <1>1, <1>3, <2>2 DEF LoopInv, IsAllocation
<1> QED
  BY <1>2, <1>3 DEF LoopDecides

LEMMA LoopInvForces == LoopInv /\ LoopDecides => OnlyAllocation
<1> SUFFICES ASSUME LoopInv, LoopDecides, outcome = "confirmed",
                    NEW a \in Claims, IsAllocation(a, Free, power)
             PROVE  a = allocations
  BY DEF OnlyAllocation
<1>1. allocations \in Claims /\ IsAllocation(allocations, Free, power)
  BY DEF LoopInv, TypeOK, LoopDecides
<1>2. Free \in [Resources -> 0..MaxOffer]
  <2>1. \A s \in Resources : Free[s] \in 0..MaxOffer
    BY FreeType DEF LoopInv
  <2> QED
    BY <2>1 DEF Free
<1> QED
  BY <1>1, <1>2, OneAllocation

(* The loop confirms with a right allocation, and gives up only when there *)
(* is none.                                                                *)
THEOREM AllocationLoopDecides == Spec => []LoopDecides
BY LoopInvDecides, LoopInvariant, PTL

(* No other allocation would have done: two services that see the same     *)
(* offers and the same reservations decide alike.                          *)
THEOREM AllocationLoopIsForced == Spec => []OnlyAllocation
BY LoopInvDecides, LoopInvForces, LoopInvariant, PTL

-----------------------------------------------------------------------------
(* The adapter. *)

(* A reservation is what its interval asked for, until an activation fails *)
(* and takes away what was refused.                                        *)
ReservationsMatch ==
  \A i \in Intervals :
    /\ Total(claim[i]) <= Requested[i]
    /\ status[i] # "NONE" /\ activation[i] # "FAILED" =>
         Total(claim[i]) = Requested[i]
    /\ activation[i] # "NONE" => status[i] # "NONE"

(* A report agrees with the activation and covers what is still claimed.   *)
Fits(i, x) ==
  /\ x.status = activation[i]
  /\ Total(claim[i]) <= x.kw /\ x.kw <= Requested[i]
  /\ x.status = "COMPLETED" => x.kw = Total(claim[i]) /\ x.kw = Requested[i]

ReportsMatch == \A i \in Intervals : \A x \in reported[i] : Fits(i, x)

(* The handler in the loop has no reservation yet, and the loop works for  *)
(* it; the others hold the power of theirs before a refusal.               *)
Holds(h) ==
  /\ status[at[h]] # "NONE"
  /\ Total(claim[at[h]]) <= held[h] /\ held[h] <= Requested[at[h]]
  /\ activation[at[h]] # "FAILED" => held[h] = Total(claim[at[h]])

HandlersMatch ==
  \A h \in Handlers :
    /\ stage[h] = "allocating" =>
         status[at[h]] = "NONE" /\ power = Requested[at[h]]
    /\ stage[h] \in {"activating", "instructing"} => Holds(h)
    /\ stage[h] = "instructing" =>
         /\ activation[at[h]] = "NONE"
         /\ unasked \cup accepted \subseteq Asked(at[h])

AInv ==
  /\ LoopInv /\ AdapterTypeOK
  /\ ReservationsMatch /\ ReportsMatch /\ HandlersMatch

LEMMA RequestedType == \A i \in Intervals : Requested[i] \in Nat \ {0}
BY EventAssumption, LoopAssumption

LEMMA ClaimType ==
  ASSUME AdapterTypeOK, NEW i \in Intervals
  PROVE  claim[i] \in Claims /\ Total(claim[i]) \in Nat
<1>1. claim[i] \in Claims
  BY DEF AdapterTypeOK
<1> QED
  BY <1>1, TotalType

LEMMA NoLoopInv == NoLoop => LoopInv
<1> SUFFICES ASSUME NoLoop PROVE LoopInv
  OBVIOUS
<1>1. NoClaim \in Claims
  BY CapacityAssumption DEF NoClaim, Claims
<1>2. /\ power = 0 /\ pending = {} /\ remaining = 0
      /\ allocations = NoClaim /\ outcome = "none"
      /\ offer = [s \in Resources |-> NoOffer] /\ reserved = NoClaim
  BY DEF NoLoop
<1>3. TypeOK
  BY <1>1, <1>2 DEF TypeOK, Claims
<1>4. \A s \in Resources : allocations[s] = 0 /\ Free[s] = 0
  BY <1>2 DEF NoClaim, Free
<1>5. Total(allocations) + remaining = power
  BY <1>2, TotalOfNothing
<1> QED
  BY <1>2, <1>3, <1>4, <1>5 DEF LoopInv

LEMMA LeaveLoopInv == LeaveLoop => LoopInv'
<1>1. NoLoop' => LoopInv'
  BY NoLoopInv, PTL
<1>2. LeaveLoop => NoLoop'
  BY DEF LeaveLoop, NoLoop, NoClaim
<1> QED
  BY <1>1, <1>2

LEMMA LoopStays ==
  ASSUME LoopInv, UNCHANGED loop
  PROVE  /\ LoopInv' /\ TypeOK'
         /\ UNCHANGED <<outcome, power, allocations, remaining>>
<1>1. UNCHANGED vars
  BY DEF loop
<1>2. LoopInv'
  BY <1>1, LoopInvNext
<1> QED
  BY <1>1, <1>2 DEF LoopInv, vars, inputs

LEMMA AdapterInitInv == AdapterInit => AInv
<1> SUFFICES ASSUME AdapterInit PROVE AInv
  OBVIOUS
<1>1. LoopInv /\ TypeOK /\ outcome = "none"
  <2>1. NoLoop
    BY DEF AdapterInit
  <2>2. LoopInv
    BY <2>1, NoLoopInv
  <2> QED
    BY <2>1, <2>2 DEF NoLoop, LoopInv
<1>2. NoClaim \in Claims /\ 1 \in Intervals
  BY CapacityAssumption, EventAssumption DEF NoClaim, Claims, Intervals
<1>3. /\ \A h \in Handlers : stage[h] = "idle"
      /\ \A i \in Intervals : status[i] = "NONE" /\ claim[i] = NoClaim
                           /\ activation[i] = "NONE" /\ reported[i] = {}
  BY DEF AdapterInit
<1>4. AdapterTypeOK
  <2>1. /\ stage \in [Handlers -> Left] /\ at \in [Handlers -> Intervals]
        /\ held \in [Handlers -> Nat]
        /\ status \in [Intervals -> {"NONE"}]
        /\ claim \in [Intervals -> Claims]
        /\ activation \in [Intervals -> {"NONE"}]
        /\ unasked = {} /\ accepted = {}
        /\ reported \in
             [Intervals -> SUBSET [kw : Nat, status : {"COMPLETED", "FAILED"}]]
    BY <1>2 DEF AdapterInit, Left
  <2> QED
    BY <1>1, <1>3, <2>1 DEF AdapterTypeOK, Inside
<1>5. ReservationsMatch
  BY <1>3, TotalOfNothing, RequestedType DEF ReservationsMatch
<1> QED
  BY <1>1, <1>3, <1>4, <1>5 DEF AInv, ReportsMatch, HandlersMatch

(* What follows from the lock being free, or held by one handler.          *)
LEMMA OneInside ==
  ASSUME AdapterTypeOK, NEW h \in Handlers, NEW k \in Handlers,
         stage[h] \in Inside \/ Unlocked, stage[k] \in Inside
  PROVE  k = h
BY DEF AdapterTypeOK, Unlocked

LEMMA Gone ==
  ASSUME AdapterTypeOK, NEW h \in Handlers, NEW x, Go(h, x)
  PROVE  /\ stage'[h] = x
         /\ \A k \in Handlers : k # h => stage'[k] = stage[k]
         /\ stage' = [stage EXCEPT ![h] = x]
BY DEF AdapterTypeOK, Go

(* A step that leaves reservations, reports and loop alone: only h has to  *)
(* be looked at.                                                           *)
LEMMA QuietInv ==
  ASSUME AInv, NEW h \in Handlers, NEW x, Go(h, x),
         x \in Left \cup {"creating", "activating"},
         stage[h] \notin Inside,
         UNCHANGED <<loop, reservations, asking, reported>>,
         at' \in [Handlers -> Intervals], held' \in [Handlers -> Nat],
         \A k \in Handlers : k # h => at'[k] = at[k] /\ held'[k] = held[k],
         x = "activating" => Holds(h)'
  PROVE  AInv'
<1>1. LoopInv' /\ TypeOK' /\ UNCHANGED <<outcome, power>>
  BY LoopStays DEF AInv
<1>2. /\ stage'[h] = x
      /\ \A k \in Handlers : k # h => stage'[k] = stage[k]
      /\ stage' = [stage EXCEPT ![h] = x]
  BY Gone DEF AInv
<1>3. UNCHANGED <<status, claim, activation, unasked, accepted, reported>>
  BY DEF reservations, asking
<1>4. AdapterTypeOK'
  <2>1. stage' \in [Handlers -> {"creating", "activating"} \cup Inside \cup Left]
    BY <1>2 DEF AInv, AdapterTypeOK
  <2>2. \A k \in Handlers : /\ stage'[k] \in Inside => stage'[k] = stage[k]
                            /\ stage[k] \in Inside => stage'[k] = stage[k]
    BY <1>2 DEF Inside, Left
  <2>3. \A k, l \in Handlers :
          stage'[k] \in Inside /\ stage'[l] \in Inside => k = l
    BY <2>2 DEF AInv, AdapterTypeOK
  <2>4. (outcome' # "none") = (\E k \in Handlers : stage'[k] = "allocating")
    BY <1>1, <2>2 DEF AInv, AdapterTypeOK, Inside
  <2>5. (\A k \in Handlers : stage'[k] # "instructing") =>
          unasked' \cup accepted' = {}
    BY <1>3, <2>2 DEF AInv, AdapterTypeOK, Inside
  <2> QED
    BY <1>1, <1>3, <2>1, <2>3, <2>4, <2>5 DEF AInv, AdapterTypeOK
<1>5. ReservationsMatch' /\ ReportsMatch'
  BY <1>3 DEF AInv, ReservationsMatch, ReportsMatch, Fits
<1>6. HandlersMatch'
  <2> SUFFICES ASSUME NEW k \in Handlers
               PROVE  /\ stage'[k] = "allocating" =>
                           status'[at'[k]] = "NONE" /\ power' = Requested[at'[k]]
                      /\ stage'[k] \in {"activating", "instructing"} => Holds(k)'
                      /\ stage'[k] = "instructing" =>
                           /\ activation'[at'[k]] = "NONE"
                           /\ unasked' \cup accepted' \subseteq Asked(at[k])'
    BY DEF HandlersMatch
  <2>1. CASE k = h
    BY <1>2, <2>1 DEF Left
  <2>2. CASE k # h
    BY <1>1, <1>2, <1>3, <2>2 DEF AInv, HandlersMatch, Holds, Asked
  <2> QED
    BY <2>1, <2>2
<1> QED
  BY <1>1, <1>4, <1>5, <1>6 DEF AInv

LEMMA DeliverInv ==
  ASSUME AInv, NEW h \in Handlers, Deliver(h)
  PROVE  AInv'
<1>1. 1 \in Intervals
  BY EventAssumption DEF Intervals
<1>2. /\ Go(h, "creating") /\ stage[h] \notin Inside
      /\ at' = [at EXCEPT ![h] = 1] /\ UNCHANGED held
      /\ UNCHANGED <<loop, reservations, asking, reported>>
  BY DEF Deliver, Left, Inside
<1>3. /\ at' \in [Handlers -> Intervals] /\ held' \in [Handlers -> Nat]
      /\ \A k \in Handlers : k # h => at'[k] = at[k] /\ held'[k] = held[k]
  BY <1>1, <1>2 DEF AInv, AdapterTypeOK
<1> QED
  BY <1>2, <1>3, QuietInv

LEMMA FindReservationInv ==
  ASSUME AInv, NEW h \in Handlers, FindReservation(h)
  PROVE  AInv'
<1>1. /\ Go(h, "activating") /\ stage[h] \notin Inside
      /\ held' = [held EXCEPT ![h] = Total(claim[at[h]])] /\ UNCHANGED at
      /\ status[at[h]] # "NONE"
      /\ UNCHANGED <<loop, reservations, asking, reported>>
  BY DEF FindReservation, Known, Inside
<1>2. at[h] \in Intervals /\ Total(claim[at[h]]) \in Nat
  BY ClaimType DEF AInv, AdapterTypeOK
<1>3. /\ at' \in [Handlers -> Intervals] /\ held' \in [Handlers -> Nat]
      /\ \A k \in Handlers : k # h => at'[k] = at[k] /\ held'[k] = held[k]
      /\ held'[h] = Total(claim[at[h]])
  BY <1>1, <1>2 DEF AInv, AdapterTypeOK
<1>4. Holds(h)'
  BY <1>1, <1>2, <1>3 DEF AInv, ReservationsMatch, Holds, reservations
<1> QED
  BY <1>1, <1>3, <1>4, QuietInv

LEMMA RefuseActivationInv ==
  ASSUME AInv, NEW h \in Handlers, RefuseActivation(h)
  PROVE  AInv'
<1>1. /\ Go(h, "raised") /\ stage[h] \notin Inside /\ "raised" \in Left
      /\ held' = [held EXCEPT ![h] = 0] /\ UNCHANGED at
      /\ UNCHANGED <<loop, reservations, asking, reported>>
  BY DEF RefuseActivation, Fail, Inside, Left
<1>2. /\ at' \in [Handlers -> Intervals] /\ held' \in [Handlers -> Nat]
      /\ \A k \in Handlers : k # h => at'[k] = at[k] /\ held'[k] = held[k]
  BY <1>1 DEF AInv, AdapterTypeOK
<1> QED
  BY <1>1, <1>2, QuietInv

LEMMA SeekCapacityInv ==
  ASSUME AInv, NEW h \in Handlers,
         NEW o \in [Resources -> (0..MaxOffer) \cup {NoOffer}],
         NEW c \in [Resources -> 0..MaxOffer], SeekCapacity(h, o, c)
  PROVE  AInv'
<1>1. /\ stage[h] = "creating" /\ Unlocked /\ status[at[h]] = "NONE"
      /\ UNCHANGED <<at, status, claim, activation, unasked, accepted, reported>>
  BY DEF SeekCapacity, Known, reservations, asking
<1>2. CASE Cardinality(Participants(o)) < MinimumParticipants
  <2>1. /\ Go(h, "short") /\ stage[h] \notin Inside /\ "short" \in Left
        /\ held' = [held EXCEPT ![h] = 0]
        /\ UNCHANGED <<loop, reservations, asking, reported>>
    BY <1>1, <1>2 DEF SeekCapacity, Fail, Inside, Left, loop
  <2>2. /\ at' \in [Handlers -> Intervals] /\ held' \in [Handlers -> Nat]
        /\ \A k \in Handlers : k # h => at'[k] = at[k] /\ held'[k] = held[k]
    BY <1>1, <2>1 DEF AInv, AdapterTypeOK
  <2> QED
    BY <2>1, <2>2, QuietInv
<1>3. CASE ~(Cardinality(Participants(o)) < MinimumParticipants)
  <2>1. /\ offer' = o /\ reserved' = c
        /\ power' = Requested[at[h]] /\ remaining' = power'
        /\ pending' = Participants(o)
        /\ allocations' = NoClaim /\ outcome' = "looping"
        /\ Go(h, "allocating") /\ UNCHANGED held
    BY <1>3 DEF SeekCapacity
  <2>2. at[h] \in Intervals /\ Requested[at[h]] \in Powers
    BY EventAssumption DEF AInv, AdapterTypeOK
  <2>3. LoopInv'
    <3>1. Cardinality(Participants(o)) \in Nat
      <4>1. IsFiniteSet(Participants(o))
        BY CapacityAssumption, FS_Subset DEF Participants
      <4> QED
        BY <4>1, FS_CardinalityType
    <3>2. Cardinality(Participants(o)) >= MinimumParticipants
      BY <1>3, <3>1, LoopAssumption
    <3>3. Init'
      BY <2>1, <2>2, <3>2 DEF Init, Participants, NoClaim
    <3>4. Init' => LoopInv'
      BY LoopInvInit, PTL
    <3> QED
      BY <3>3, <3>4
  <2>4. /\ stage'[h] = "allocating"
        /\ \A k \in Handlers : k # h => stage'[k] = stage[k]
        /\ stage' = [stage EXCEPT ![h] = "allocating"]
    BY <2>1, Gone DEF AInv
  <2>5. \A k \in Handlers : stage'[k] \in Inside <=> k = h
    BY <1>1, <2>4 DEF Unlocked, Inside
  <2>6. AdapterTypeOK'
    <3>1. stage' \in [Handlers -> {"creating", "activating"} \cup Inside \cup Left]
      BY <2>4 DEF AInv, AdapterTypeOK, Inside
    <3>2. TypeOK' /\ unasked' \cup accepted' = {}
      BY <1>1, <2>3 DEF LoopInv, AInv, AdapterTypeOK, Unlocked, Inside
    <3>3. (outcome' # "none") = (\E k \in Handlers : stage'[k] = "allocating")
      BY <2>1, <2>4
    <3> QED
      BY <1>1, <2>1, <2>5, <3>1, <3>2, <3>3 DEF AInv, AdapterTypeOK
  <2>7. ReservationsMatch' /\ ReportsMatch'
    BY <1>1 DEF AInv, ReservationsMatch, ReportsMatch, Fits
  <2>8. HandlersMatch'
    BY <1>1, <2>1, <2>4, <2>5 DEF AInv, HandlersMatch, Holds, Inside
  <2> QED
    BY <2>3, <2>6, <2>7, <2>8 DEF AInv
<1> QED
  BY <1>2, <1>3

LEMMA TurnInv ==
  ASSUME AInv, Turn
  PROVE  AInv'
<1>1. /\ Next
      /\ UNCHANGED <<stage, at, held, status, claim, activation, unasked,
                     accepted, reported>>
  BY DEF Turn, handlers, reservations, asking
<1>2. LoopInv'
  BY <1>1, LoopInvNext DEF AInv
<1>3. outcome = "looping" /\ outcome' # "none" /\ power' = power
  BY <1>1 DEF Next, Visit, Outcome, inputs
<1>4. AdapterTypeOK'
  <2>1. TypeOK' /\ (outcome # "none") = (outcome' # "none")
    BY <1>2, <1>3 DEF LoopInv
  <2> QED
    BY <1>1, <2>1 DEF AInv, AdapterTypeOK
<1>5. ReservationsMatch' /\ ReportsMatch' /\ HandlersMatch'
  BY <1>1, <1>3
  DEF AInv, ReservationsMatch, ReportsMatch, Fits, HandlersMatch, Holds, Asked
<1> QED
  BY <1>2, <1>4, <1>5 DEF AInv

(* Whoever leaves the loop leaves it empty.                                *)
LEMMA LockReleased ==
  ASSUME AInv, NEW h \in Handlers, stage[h] = "allocating", LeaveLoop,
         NEW x \in Left \cup {"creating", "activating"}, Go(h, x)
  PROVE  /\ LoopInv' /\ TypeOK' /\ outcome' = "none"
         /\ stage'[h] = x
         /\ \A k \in Handlers : k # h => stage'[k] = stage[k]
         /\ stage' \in [Handlers -> {"creating", "activating"} \cup Inside \cup Left]
         /\ \A k \in Handlers : stage'[k] \notin Inside
         /\ unasked \cup accepted = {}
<1>1. LoopInv' /\ TypeOK' /\ outcome' = "none"
  BY LeaveLoopInv DEF LoopInv, LeaveLoop
<1>2. /\ stage'[h] = x
      /\ \A k \in Handlers : k # h => stage'[k] = stage[k]
      /\ stage' = [stage EXCEPT ![h] = x]
  BY Gone DEF AInv
<1>3. \A k \in Handlers : stage[k] \in Inside => k = h
  BY OneInside DEF AInv, Inside
<1>4. \A k \in Handlers : stage'[k] \notin Inside
  BY <1>2, <1>3 DEF Inside, Left
<1>5. unasked \cup accepted = {}
  BY <1>3 DEF AInv, AdapterTypeOK, Inside
<1> QED
  BY <1>1, <1>2, <1>4, <1>5 DEF AInv, AdapterTypeOK

LEMMA RunShortInv ==
  ASSUME AInv, NEW h \in Handlers, RunShort(h)
  PROVE  AInv'
<1>1. /\ stage[h] = "allocating" /\ LeaveLoop
      /\ Go(h, "short") /\ "short" \in Left \cup {"creating", "activating"}
      /\ held' = [held EXCEPT ![h] = 0]
      /\ UNCHANGED <<at, status, claim, activation, unasked, accepted, reported>>
  BY DEF RunShort, Fail, Left, reservations, asking
<1>2. /\ LoopInv' /\ TypeOK' /\ outcome' = "none"
      /\ stage'[h] = "short"
      /\ \A k \in Handlers : k # h => stage'[k] = stage[k]
      /\ stage' \in [Handlers -> {"creating", "activating"} \cup Inside \cup Left]
      /\ \A k \in Handlers : stage'[k] \notin Inside
      /\ unasked \cup accepted = {}
  BY <1>1, LockReleased
<1>3. AdapterTypeOK'
  <2>1. /\ held' \in [Handlers -> Nat]
        /\ (outcome' # "none") = (\E k \in Handlers : stage'[k] = "allocating")
    BY <1>1, <1>2 DEF AInv, AdapterTypeOK, Inside
  <2> QED
    BY <1>1, <1>2, <2>1 DEF AInv, AdapterTypeOK
<1>4. ReservationsMatch' /\ ReportsMatch'
  BY <1>1 DEF AInv, ReservationsMatch, ReportsMatch, Fits
<1>5. HandlersMatch'
  BY <1>1, <1>2 DEF AInv, HandlersMatch, Holds, Inside, AdapterTypeOK
<1> QED
  BY <1>2, <1>3, <1>4, <1>5 DEF AInv

LEMMA ConfirmInv ==
  ASSUME AInv, NEW h \in Handlers, Confirm(h)
  PROVE  AInv'
<1> DEFINE i == at[h]
<1>1. /\ stage[h] = "allocating" /\ outcome = "confirmed" /\ LeaveLoop
      /\ Go(h, "activating")
      /\ "activating" \in Left \cup {"creating", "activating"}
      /\ status' = [status EXCEPT ![i] = "CONFIRMED"]
      /\ claim' = [claim EXCEPT ![i] = allocations]
      /\ activation' = [activation EXCEPT ![i] = "NONE"]
      /\ held' = [held EXCEPT ![h] = Total(allocations)]
      /\ UNCHANGED <<at, unasked, accepted, reported>>
  BY DEF Confirm, asking
<1>2. /\ LoopInv' /\ TypeOK' /\ outcome' = "none"
      /\ stage'[h] = "activating"
      /\ \A k \in Handlers : k # h => stage'[k] = stage[k]
      /\ stage' \in [Handlers -> {"creating", "activating"} \cup Inside \cup Left]
      /\ \A k \in Handlers : stage'[k] \notin Inside
      /\ unasked \cup accepted = {}
  BY <1>1, LockReleased
<1>3. /\ i \in Intervals /\ status[i] = "NONE" /\ activation[i] = "NONE"
      /\ power = Requested[i]
  BY <1>1 DEF AInv, AdapterTypeOK, HandlersMatch, ReservationsMatch
<1>4. /\ allocations \in Claims /\ Total(allocations) \in Nat
      /\ Total(allocations) = Requested[i]
  <2>1. allocations \in Claims /\ Total(allocations) \in Nat
    BY TotalType DEF AInv, LoopInv, TypeOK
  <2>2. remaining = 0 /\ Total(allocations) + remaining = power
    BY <1>1 DEF AInv, LoopInv
  <2> QED
    BY <1>3, <2>1, <2>2
<1>5. reported[i] = {}
  <2>1. ASSUME NEW x \in reported[i]
        PROVE  FALSE
    BY <1>3, <2>1 DEF AInv, AdapterTypeOK, ReportsMatch, Fits
  <2> QED
    BY <2>1
<1>6. /\ status'[i] = "CONFIRMED" /\ claim'[i] = allocations
      /\ activation' = activation /\ held'[h] = Total(allocations)
      /\ \A j \in Intervals : j # i => status'[j] = status[j] /\ claim'[j] = claim[j]
      /\ \A k \in Handlers : k # h => held'[k] = held[k]
  BY <1>1, <1>3 DEF AInv, AdapterTypeOK
<1>7. AdapterTypeOK'
  <2>1. /\ held' \in [Handlers -> Nat]
        /\ status' \in [Intervals -> {"NONE", "CONFIRMED", "COMPLETED", "FAILED",
                                      "CANCELLED", "EXPIRED"}]
        /\ claim' \in [Intervals -> Claims]
        /\ (outcome' # "none") = (\E k \in Handlers : stage'[k] = "allocating")
    BY <1>1, <1>2, <1>4 DEF AInv, AdapterTypeOK, Inside
  <2> QED
    BY <1>1, <1>2, <1>6, <2>1 DEF AInv, AdapterTypeOK
<1> HIDE DEF i
<1>8. ReservationsMatch'
  <2> SUFFICES ASSUME NEW j \in Intervals
               PROVE  /\ Total(claim'[j]) <= Requested[j]
                      /\ status'[j] # "NONE" /\ activation'[j] # "FAILED" =>
                           Total(claim'[j]) = Requested[j]
                      /\ activation'[j] # "NONE" => status'[j] # "NONE"
    BY DEF ReservationsMatch
  <2>1. CASE j = i
    BY <1>4, <1>6, <2>1, RequestedType
  <2>2. CASE j # i
    BY <1>6, <2>2 DEF AInv, ReservationsMatch
  <2> QED
    BY <2>1, <2>2
<1>9. ReportsMatch'
  <2> SUFFICES ASSUME NEW j \in Intervals, NEW x \in reported[j]
               PROVE  Fits(j, x)'
    BY <1>1 DEF ReportsMatch
  <2>1. j # i
    BY <1>5
  <2> QED
    BY <1>6, <2>1 DEF AInv, ReportsMatch, Fits
<1>10. HandlersMatch'
  <2> SUFFICES ASSUME NEW k \in Handlers, stage'[k] = "activating"
               PROVE  Holds(k)'
    BY <1>2 DEF HandlersMatch, Inside
  <2>1. CASE k = h
    BY <1>1, <1>3, <1>4, <1>6, <2>1, RequestedType DEF Holds, i
  <2>2. CASE k # h
    <3>1. Holds(k)
      BY <1>2, <2>2 DEF AInv, HandlersMatch
    <3>2. at[k] \in Intervals /\ at[k] # i
      BY <1>3, <3>1 DEF Holds, AInv, AdapterTypeOK
    <3> QED
      BY <1>1, <1>6, <2>2, <3>1, <3>2 DEF Holds
  <2> QED
    BY <2>1, <2>2
<1> QED
  BY <1>2, <1>7, <1>8, <1>9, <1>10 DEF AInv

LEMMA ActivateInv ==
  ASSUME AInv, NEW h \in Handlers, Activate(h)
  PROVE  AInv'
<1>1. /\ stage[h] = "activating" /\ Unlocked
      /\ activation[at[h]] = "NONE"
      /\ unasked' = Asked(at[h])
      /\ Go(h, "instructing")
      /\ UNCHANGED <<loop, at, held, status, claim, activation, accepted, reported>>
  BY DEF Activate, Concluded, Asked, reservations
<1>2. LoopInv' /\ TypeOK' /\ UNCHANGED <<outcome, power>>
  BY <1>1, LoopStays DEF AInv
<1>3. /\ stage'[h] = "instructing"
      /\ \A k \in Handlers : k # h => stage'[k] = stage[k]
      /\ stage' = [stage EXCEPT ![h] = "instructing"]
  BY <1>1, Gone DEF AInv
<1>4. \A k \in Handlers : stage'[k] \in Inside <=> k = h
  BY <1>1, <1>3 DEF Unlocked, Inside
<1>5. AdapterTypeOK'
  <2>1. stage' \in [Handlers -> {"creating", "activating"} \cup Inside \cup Left]
    BY <1>3 DEF AInv, AdapterTypeOK, Inside
  <2>2. (outcome' # "none") = (\E k \in Handlers : stage'[k] = "allocating")
    BY <1>1, <1>2, <1>3 DEF AInv, AdapterTypeOK
  <2> QED
    BY <1>1, <1>2, <1>3, <1>4, <2>1, <2>2 DEF AInv, AdapterTypeOK
<1>6. ReservationsMatch' /\ ReportsMatch'
  BY <1>1 DEF AInv, ReservationsMatch, ReportsMatch, Fits
<1>7. accepted = {}
  BY <1>1 DEF AInv, AdapterTypeOK, Unlocked, Inside
<1>8. HandlersMatch'
  BY <1>1, <1>2, <1>3, <1>4, <1>7
  DEF AInv, HandlersMatch, Holds, Asked, Inside
<1> QED
  BY <1>2, <1>5, <1>6, <1>8 DEF AInv

LEMMA InstructInv ==
  ASSUME AInv, NEW h \in Handlers, NEW s \in Resources, NEW takes \in BOOLEAN,
         Instruct(h, s, takes)
  PROVE  AInv'
<1>1. /\ stage[h] = "instructing"
      /\ unasked' \cup accepted' \subseteq unasked \cup accepted
      /\ UNCHANGED <<loop, stage, at, held, status, claim, activation, reported>>
  BY DEF Instruct, handlers, reservations
<1>2. LoopInv' /\ TypeOK' /\ UNCHANGED <<outcome, power>>
  BY <1>1, LoopStays DEF AInv
<1>3. AdapterTypeOK'
  BY <1>1, <1>2 DEF AInv, AdapterTypeOK
<1>4. ReservationsMatch' /\ ReportsMatch'
  BY <1>1 DEF AInv, ReservationsMatch, ReportsMatch, Fits
<1>5. HandlersMatch'
  <2>1. \A k \in Handlers : stage[k] = "instructing" => k = h
    BY <1>1, OneInside DEF AInv, Inside
  <2> QED
    BY <1>1, <1>2, <2>1 DEF AInv, HandlersMatch, Holds, Asked
<1> QED
  BY <1>2, <1>3, <1>4, <1>5 DEF AInv

LEMMA InstructRaisesInv ==
  ASSUME AInv, NEW h \in Handlers, NEW s \in Resources, InstructRaises(h, s)
  PROVE  AInv'
<1>1. /\ stage[h] = "instructing" /\ Go(h, "raised")
      /\ unasked' = {} /\ accepted' = {}
      /\ held' = [held EXCEPT ![h] = 0]
      /\ UNCHANGED <<loop, at, status, claim, activation, reported>>
  BY DEF InstructRaises, Fail, reservations
<1>2. LoopInv' /\ TypeOK' /\ UNCHANGED <<outcome, power>>
  BY <1>1, LoopStays DEF AInv
<1>3. /\ stage'[h] = "raised"
      /\ \A k \in Handlers : k # h => stage'[k] = stage[k]
      /\ stage' = [stage EXCEPT ![h] = "raised"]
  BY <1>1, Gone DEF AInv
<1>4. \A k \in Handlers : stage'[k] \notin Inside
  <2>1. \A k \in Handlers : stage[k] \in Inside => k = h
    BY <1>1, OneInside DEF AInv, Inside
  <2> QED
    BY <1>3, <2>1 DEF Inside
<1>5. AdapterTypeOK'
  <2>1. stage' \in [Handlers -> {"creating", "activating"} \cup Inside \cup Left]
    BY <1>3 DEF AInv, AdapterTypeOK, Left
  <2>2. (outcome' # "none") = (\E k \in Handlers : stage'[k] = "allocating")
    BY <1>1, <1>2, <1>3 DEF AInv, AdapterTypeOK
  <2>3. held' \in [Handlers -> Nat]
    BY <1>1 DEF AInv, AdapterTypeOK
  <2> QED
    BY <1>1, <1>2, <1>4, <2>1, <2>2, <2>3 DEF AInv, AdapterTypeOK
<1>6. ReservationsMatch' /\ ReportsMatch'
  BY <1>1 DEF AInv, ReservationsMatch, ReportsMatch, Fits
<1>7. HandlersMatch'
  <2>1. \A k \in Handlers : k # h => held'[k] = held[k]
    BY <1>1 DEF AInv, AdapterTypeOK
  <2> QED
    BY <1>1, <1>2, <1>3, <1>4, <2>1 DEF AInv, HandlersMatch, Holds, Inside
<1> QED
  BY <1>2, <1>5, <1>6, <1>7 DEF AInv

(* What a report changes: its own interval gets one more, and its handler  *)
(* leaves the lock and the interval.                                       *)
LEMMA Reported ==
  ASSUME AInv, NEW h \in Handlers, NEW result \in {"COMPLETED", "FAILED"},
         Report(h, result)
  PROVE  /\ stage'[h] \in {"answered", "creating"}
         /\ \A k \in Handlers : k # h => /\ stage'[k] = stage[k]
                                         /\ at'[k] = at[k]
                                         /\ held'[k] = held[k]
         /\ stage' \in [Handlers -> {"creating", "activating"} \cup Inside \cup Left]
         /\ at' \in [Handlers -> Intervals]
         /\ held' \in [Handlers -> Nat]
         /\ reported' \in
              [Intervals -> SUBSET [kw : Nat, status : {"COMPLETED", "FAILED"}]]
         /\ \A i \in Intervals :
              IF i = at[h]
                THEN reported'[i] = reported[i] \cup
                                      {[kw |-> held[h], status |-> result]}
                ELSE reported'[i] = reported[i]
<1>1. at[h] \in Intervals
  BY DEF AInv, AdapterTypeOK
<1>2. held' = [held EXCEPT ![h] = 0]
  BY DEF Report
<1>3. ASSUME at[h] = LastInterval
      PROVE  /\ stage'[h] \in {"answered", "creating"}
             /\ \A k \in Handlers : k # h => /\ stage'[k] = stage[k]
                                             /\ at'[k] = at[k]
                                             /\ held'[k] = held[k]
             /\ stage' \in [Handlers -> {"creating", "activating"} \cup Inside \cup Left]
             /\ at' \in [Handlers -> Intervals]
             /\ held' \in [Handlers -> Nat]
  <2>1. stage' = [stage EXCEPT ![h] = "answered"] /\ UNCHANGED at
    BY <1>3 DEF Report, Go
  <2> QED
    BY <1>1, <1>2, <2>1 DEF AInv, AdapterTypeOK, Left
<1>4. ASSUME at[h] # LastInterval
      PROVE  /\ stage'[h] \in {"answered", "creating"}
             /\ \A k \in Handlers : k # h => /\ stage'[k] = stage[k]
                                             /\ at'[k] = at[k]
                                             /\ held'[k] = held[k]
             /\ stage' \in [Handlers -> {"creating", "activating"} \cup Inside \cup Left]
             /\ at' \in [Handlers -> Intervals]
             /\ held' \in [Handlers -> Nat]
  <2>1. /\ stage' = [stage EXCEPT ![h] = "creating"]
        /\ at' = [at EXCEPT ![h] = @ + 1]
    BY <1>4 DEF Report, Go
  <2>2. at[h] + 1 \in Intervals
    BY <1>1, <1>4, EventAssumption DEF Intervals
  <2> QED
    BY <1>1, <1>2, <2>1, <2>2 DEF AInv, AdapterTypeOK
<1>5. /\ reported' \in
            [Intervals -> SUBSET [kw : Nat, status : {"COMPLETED", "FAILED"}]]
      /\ \A i \in Intervals :
           IF i = at[h]
             THEN reported'[i] = reported[i] \cup
                                   {[kw |-> held[h], status |-> result]}
             ELSE reported'[i] = reported[i]
  <2>1. reported' = [reported EXCEPT ![at[h]] =
                       @ \cup {[kw |-> held[h], status |-> result]}]
    BY DEF Report
  <2>2. [kw |-> held[h], status |-> result] \in
          [kw : Nat, status : {"COMPLETED", "FAILED"}]
    BY DEF AInv, AdapterTypeOK
  <2> QED
    BY <1>1, <2>1, <2>2 DEF AInv, AdapterTypeOK
<1> QED
  BY <1>3, <1>4, <1>5

LEMMA FindActivationInv ==
  ASSUME AInv, NEW h \in Handlers, FindActivation(h)
  PROVE  AInv'
<1> DEFINE i == at[h]
<1>1. /\ stage[h] = "activating" /\ Unlocked
      /\ activation[i] # "NONE"
      /\ Report(h, activation[i])
      /\ UNCHANGED <<loop, status, claim, activation, unasked, accepted>>
  BY DEF FindActivation, Concluded, reservations, asking
<1>2. i \in Intervals /\ activation[i] \in {"COMPLETED", "FAILED"}
  BY <1>1 DEF AInv, AdapterTypeOK
<1>3. LoopInv' /\ TypeOK' /\ UNCHANGED <<outcome, power>>
  BY <1>1, LoopStays DEF AInv
<1>4. /\ stage'[h] \in {"answered", "creating"}
      /\ \A k \in Handlers : k # h => /\ stage'[k] = stage[k]
                                      /\ at'[k] = at[k]
                                      /\ held'[k] = held[k]
      /\ stage' \in [Handlers -> {"creating", "activating"} \cup Inside \cup Left]
      /\ at' \in [Handlers -> Intervals]
      /\ held' \in [Handlers -> Nat]
      /\ reported' \in
           [Intervals -> SUBSET [kw : Nat, status : {"COMPLETED", "FAILED"}]]
      /\ \A j \in Intervals :
           IF j = i
             THEN reported'[j] = reported[j] \cup
                                   {[kw |-> held[h], status |-> activation[i]]}
             ELSE reported'[j] = reported[j]
  BY <1>1, <1>2, Reported
<1>5. \A k \in Handlers : stage'[k] \notin Inside /\ stage[k] \notin Inside
  BY <1>1, <1>4 DEF Unlocked, Inside
<1>6. held[h] \in Nat
  BY DEF AInv, AdapterTypeOK
<1>7. AdapterTypeOK'
  <2>1. (outcome' # "none") = (\E k \in Handlers : stage'[k] = "allocating")
    BY <1>3, <1>5 DEF AInv, AdapterTypeOK, Inside
  <2>2. reported' \in
          [Intervals -> SUBSET [kw : Nat, status : {"COMPLETED", "FAILED"}]]
    BY <1>2, <1>4, <1>6
  <2>3. unasked' \cup accepted' = {}
    BY <1>1, <1>5 DEF AInv, AdapterTypeOK, Inside
  <2> QED
    BY <1>1, <1>3, <1>4, <1>5, <2>1, <2>2, <2>3 DEF AInv, AdapterTypeOK
<1>8. ReservationsMatch'
  BY <1>1 DEF AInv, ReservationsMatch
<1>9. ReportsMatch'
  <2>1. Fits(i, [kw |-> held[h], status |-> activation[i]])
    <3>1. Holds(h) /\ status[i] # "NONE"
      BY <1>1 DEF AInv, HandlersMatch, Holds
    <3>2. activation[i] = "COMPLETED" => Total(claim[i]) = Requested[i]
      BY <1>2, <3>1 DEF AInv, ReservationsMatch
    <3> QED
      BY <1>2, <3>1, <3>2 DEF Holds, Fits
  <2> HIDE DEF i
  <2>2. ASSUME NEW j \in Intervals, NEW x \in reported'[j]
        PROVE  Fits(j, x)
    <3>1. CASE x \in reported[j]
      BY <3>1 DEF AInv, ReportsMatch
    <3>2. CASE x \notin reported[j]
      BY <1>4, <2>1, <2>2, <3>2
    <3> QED
      BY <3>1, <3>2
  <2> QED
    BY <1>1, <2>2 DEF ReportsMatch, Fits
<1>10. HandlersMatch'
  BY <1>1, <1>4, <1>5 DEF AInv, HandlersMatch, Holds, Inside
<1> QED
  BY <1>3, <1>7, <1>8, <1>9, <1>10 DEF AInv

LEMMA ConcludeInv ==
  ASSUME AInv, NEW h \in Handlers, Conclude(h)
  PROVE  AInv'
<1> DEFINE i == at[h]
           result == Result(i)
<1>1. /\ stage[h] = "instructing" /\ unasked = {}
      /\ activation' = [activation EXCEPT ![i] = result]
      /\ status' = [status EXCEPT ![i] = result]
      /\ claim' = [claim EXCEPT ![i] =
           [s \in Resources |-> IF s \in accepted THEN @[s] ELSE 0]]
      /\ accepted' = {} /\ unasked' = {}
      /\ Report(h, result)
      /\ UNCHANGED loop
  BY DEF Conclude
<1>2. /\ i \in Intervals /\ result \in {"COMPLETED", "FAILED"}
      /\ Holds(h) /\ activation[i] = "NONE" /\ accepted \subseteq Asked(i)
      /\ held[h] \in Nat
  BY <1>1 DEF AInv, AdapterTypeOK, Result, HandlersMatch
<1>3. LoopInv' /\ TypeOK' /\ UNCHANGED <<outcome, power>>
  BY <1>1, LoopStays DEF AInv
<1>4. /\ stage'[h] \in {"answered", "creating"}
      /\ \A k \in Handlers : k # h => /\ stage'[k] = stage[k]
                                      /\ at'[k] = at[k]
                                      /\ held'[k] = held[k]
      /\ stage' \in [Handlers -> {"creating", "activating"} \cup Inside \cup Left]
      /\ at' \in [Handlers -> Intervals]
      /\ held' \in [Handlers -> Nat]
      /\ reported' \in
           [Intervals -> SUBSET [kw : Nat, status : {"COMPLETED", "FAILED"}]]
      /\ \A j \in Intervals :
           IF j = i
             THEN reported'[j] = reported[j] \cup
                                   {[kw |-> held[h], status |-> result]}
             ELSE reported'[j] = reported[j]
  BY <1>1, <1>2, Reported
<1>5. \A k \in Handlers : stage'[k] \notin Inside
  <2>1. \A k \in Handlers : stage[k] \in Inside => k = h
    BY <1>1, OneInside DEF AInv, Inside
  <2> QED
    BY <1>4, <2>1 DEF Inside
<1>6. outcome = "none"
  <2>1. \A k \in Handlers : stage[k] # "allocating"
    BY <1>1, OneInside DEF AInv, Inside
  <2> QED
    BY <2>1 DEF AInv, AdapterTypeOK
(* The claim loses what was refused: nothing, if the activation completed. *)
<1>7. /\ claim'[i] \in Claims
      /\ Total(claim'[i]) \in Nat /\ Total(claim[i]) \in Nat
      /\ Total(claim'[i]) <= Total(claim[i])
      /\ result = "COMPLETED" => claim'[i] = claim[i]
  <2>1. claim'[i] = [s \in Resources |->
                       IF s \in accepted THEN claim[i][s] ELSE 0]
    BY <1>1, <1>2 DEF AInv, AdapterTypeOK
  <2>2. claim[i] \in [Resources -> 0..MaxOffer] /\ Total(claim[i]) \in Nat
    BY <1>2, ClaimType DEF AInv, Claims
  <2>3. claim'[i] \in Claims
    BY <2>1, <2>2, CapacityAssumption DEF Claims
  <2>4. \A s \in Resources : claim'[i][s] <= claim[i][s]
    <3> SUFFICES ASSUME NEW s \in Resources
                 PROVE  claim'[i][s] <= claim[i][s]
      OBVIOUS
    <3>1. claim'[i][s] = IF s \in accepted THEN claim[i][s] ELSE 0
      BY <2>1
    <3>2. claim[i][s] \in 0..MaxOffer
      BY <2>2
    <3> HIDE DEF i
    <3> QED
      BY <3>1, <3>2, CapacityAssumption
  <2>5. Total(claim'[i]) <= Total(claim[i]) /\ Total(claim'[i]) \in Nat
    BY <2>2, <2>3, <2>4, TotalMonotone, TotalType DEF Claims
  <2>6. ASSUME result = "COMPLETED"
        PROVE  claim'[i] = claim[i]
    <3>1. accepted = Asked(i)
      BY <2>6 DEF Result
    <3>2. \A s \in Resources : s \notin accepted => claim[i][s] = 0
      BY <2>2, <3>1, CapacityAssumption DEF Asked
    <3> QED
      BY <2>1, <2>2, <3>2
  <2> QED
    BY <2>2, <2>3, <2>5, <2>6
<1>8. /\ activation'[i] = result /\ status'[i] = result
      /\ \A j \in Intervals : j # i => /\ status'[j] = status[j]
                                       /\ claim'[j] = claim[j]
                                       /\ activation'[j] = activation[j]
  BY <1>1, <1>2 DEF AInv, AdapterTypeOK
<1>9. /\ Total(claim[i]) = Requested[i] /\ held[h] = Requested[i]
      /\ Requested[i] \in Nat
  BY <1>2, RequestedType DEF Holds, AInv, ReservationsMatch
<1>10. AdapterTypeOK'
  <2>1. /\ status' \in [Intervals -> {"NONE", "CONFIRMED", "COMPLETED", "FAILED",
                                      "CANCELLED", "EXPIRED"}]
        /\ activation' \in [Intervals -> {"NONE", "COMPLETED", "FAILED"}]
    BY <1>1, <1>2 DEF AInv, AdapterTypeOK
  <2>2. claim' \in [Intervals -> Claims]
    BY <1>1, <1>2, <1>7 DEF AInv, AdapterTypeOK
  <2>3. (outcome' # "none") = (\E k \in Handlers : stage'[k] = "allocating")
    BY <1>3, <1>5, <1>6 DEF Inside
  <2>4. reported' \in
          [Intervals -> SUBSET [kw : Nat, status : {"COMPLETED", "FAILED"}]]
    BY <1>4
  <2>5. /\ \A k, l \in Handlers :
             stage'[k] \in Inside /\ stage'[l] \in Inside => k = l
        /\ unasked' \cup accepted' = {}
    BY <1>1, <1>5
  <2> QED
    BY <1>3, <1>4, <2>1, <2>2, <2>3, <2>4, <2>5 DEF AdapterTypeOK
<1> HIDE DEF i, result
<1>11. ReservationsMatch'
  <2> SUFFICES ASSUME NEW j \in Intervals
               PROVE  /\ Total(claim'[j]) <= Requested[j]
                      /\ status'[j] # "NONE" /\ activation'[j] # "FAILED" =>
                           Total(claim'[j]) = Requested[j]
                      /\ activation'[j] # "NONE" => status'[j] # "NONE"
    BY DEF ReservationsMatch
  <2>1. CASE j = i
    BY <1>2, <1>7, <1>8, <1>9, <2>1
  <2>2. CASE j # i
    BY <1>8, <2>2 DEF AInv, ReservationsMatch
  <2> QED
    BY <2>1, <2>2
<1>12. ReportsMatch'
  <2> SUFFICES ASSUME NEW j \in Intervals, NEW x \in reported'[j]
               PROVE  Fits(j, x)'
    BY DEF ReportsMatch
  <2>1. CASE j = i
    <3>1. reported[i] = {}
      BY <1>2 DEF AInv, AdapterTypeOK, ReportsMatch, Fits
    <3>2. x = [kw |-> held[h], status |-> result]
      BY <1>4, <2>1, <3>1
    <3> QED
      BY <1>7, <1>8, <1>9, <2>1, <3>2 DEF Fits
  <2>2. CASE j # i
    BY <1>4, <1>8, <2>2 DEF AInv, ReportsMatch, Fits
  <2> QED
    BY <2>1, <2>2
<1>13. HandlersMatch'
  <2> SUFFICES ASSUME NEW k \in Handlers, stage'[k] = "activating"
               PROVE  Holds(k)'
    BY <1>5 DEF HandlersMatch, Inside
  <2>1. /\ k # h /\ stage[k] = "activating"
        /\ at'[k] = at[k] /\ held'[k] = held[k]
    BY <1>4
  <2>2. Holds(k) /\ at[k] \in Intervals
    BY <2>1 DEF AInv, HandlersMatch, AdapterTypeOK
  <2>3. CASE at[k] = i
    <3>1. held[k] = Total(claim[i]) /\ held[k] = Requested[i]
      BY <1>2, <1>9, <2>2, <2>3 DEF Holds
    <3> QED
      BY <1>2, <1>7, <1>8, <1>9, <2>1, <2>3, <3>1 DEF Holds
  <2>4. CASE at[k] # i
    BY <1>8, <2>1, <2>2, <2>4 DEF Holds
  <2> QED
    BY <2>3, <2>4
<1> QED
  BY <1>3, <1>10, <1>11, <1>12, <1>13 DEF AInv

LEMMA DieInv ==
  ASSUME AInv, NEW i \in Intervals, NEW how \in {"CANCELLED", "EXPIRED"},
         Die(i, how)
  PROVE  AInv'
<1>1. /\ Unlocked /\ status[i] = "CONFIRMED"
      /\ status' = [status EXCEPT ![i] = how]
      /\ UNCHANGED <<loop, stage, at, held, claim, activation, unasked,
                     accepted, reported>>
  BY DEF Die, handlers, asking
<1>2. LoopInv' /\ TypeOK' /\ UNCHANGED <<outcome, power>>
  BY <1>1, LoopStays DEF AInv
<1>3. /\ status' \in [Intervals -> {"NONE", "CONFIRMED", "COMPLETED", "FAILED",
                                    "CANCELLED", "EXPIRED"}]
      /\ \A j \in Intervals : (status'[j] = "NONE") = (status[j] = "NONE")
  BY <1>1 DEF AInv, AdapterTypeOK
<1>4. AdapterTypeOK'
  BY <1>1, <1>2, <1>3 DEF AInv, AdapterTypeOK
<1>5. ReservationsMatch' /\ ReportsMatch'
  BY <1>1, <1>3 DEF AInv, ReservationsMatch, ReportsMatch, Fits
<1>6. HandlersMatch'
  BY <1>1, <1>3
  DEF AInv, AdapterTypeOK, HandlersMatch, Holds, Unlocked, Inside
<1> QED
  BY <1>2, <1>4, <1>5, <1>6 DEF AInv

LEMMA AdapterNextInv == AInv /\ [AdapterNext]_all => AInv'
<1> SUFFICES ASSUME AInv, [AdapterNext]_all PROVE AInv'
  OBVIOUS
<1>1. ASSUME NEW h \in Handlers, Handle(h)
      PROVE  AInv'
  BY <1>1, DeliverInv, FindReservationInv, SeekCapacityInv, ConfirmInv,
     RunShortInv, FindActivationInv, RefuseActivationInv, ActivateInv,
     InstructInv, InstructRaisesInv, ConcludeInv DEF Handle
<1>2. CASE Turn
  BY <1>2, TurnInv
<1>3. ASSUME NEW i \in Intervals, NEW how \in {"CANCELLED", "EXPIRED"},
             Die(i, how)
      PROVE  AInv'
  BY <1>3, DieInv
<1>4. CASE UNCHANGED all
  <2>1. UNCHANGED <<loop, stage, at, held, status, claim, activation, unasked,
                    accepted, reported>>
    BY <1>4 DEF all, handlers, reservations, asking
  <2>2. LoopInv' /\ TypeOK' /\ UNCHANGED <<outcome, power>>
    BY <2>1, LoopStays DEF AInv
  <2>3. AdapterTypeOK'
    BY <2>1, <2>2 DEF AInv, AdapterTypeOK
  <2>4. ReservationsMatch' /\ ReportsMatch' /\ HandlersMatch'
    BY <2>1, <2>2
    DEF AInv, ReservationsMatch, ReportsMatch, Fits, HandlersMatch, Holds, Asked
  <2> QED
    BY <2>2, <2>3, <2>4 DEF AInv
<1> QED
  BY <1>1, <1>2, <1>3, <1>4 DEF AdapterNext

LEMMA AdapterInvariant == AdapterSpec => []AInv
BY AdapterInitInv, AdapterNextInv, PTL DEF AdapterSpec

(* The variables keep their types, and the lock of the in-memory backend   *)
(* has one holder, whoever delivers the event however often.               *)
THEOREM AdapterTypes == AdapterSpec => []AdapterTypeOK
<1>1. AInv => AdapterTypeOK
  BY DEF AInv
<1> QED
  BY <1>1, AdapterInvariant, PTL

(* Every create the adapter makes decides its request rightly: the loop it *)
(* runs under the lock is the one above, and nothing else disturbs it      *)
(* (service.py:152-175).                                                   *)
THEOREM AdapterLoopDecides == AdapterSpec => [](LoopDecides /\ OnlyAllocation)
<1>1. AInv => LoopDecides /\ OnlyAllocation
  BY LoopInvDecides, LoopInvForces DEF AInv
<1> QED
  BY <1>1, AdapterInvariant, PTL

(* All reports of an interval tell one result, for any number of handlers, *)
(* intervals and deliveries (adapter.py:74-83).                            *)
THEOREM AdapterReplayAgrees == AdapterSpec => []ReplayAgrees
<1>1. AInv => ReplayAgrees
  BY DEF AInv, ReportsMatch, Fits, ReplayAgrees
<1> QED
  BY <1>1, AdapterInvariant, PTL

(* A completed report gives what the resources took and the event asked    *)
(* for, a failed one never less than what they took (adapter.py:98-131).   *)
THEOREM AdapterReportsCover == AdapterSpec => []ReportsCoverDelivery
<1>1. AInv => ReportsCoverDelivery
  BY DEF AInv, ReportsMatch, Fits, ReportsCoverDelivery
<1> QED
  BY <1>1, AdapterInvariant, PTL

(* No delivery fails at an interval that has its activation: the only ways *)
(* to fail are to find no capacity, no confirmed reservation or an         *)
(* acceptor that raises, and each needs that there is none yet             *)
(* (service.py:222-233).                                                   *)
THEOREM AdapterReplayNeverFails == AdapterSpec => ReplayNeverFails
<1> DEFINE Failing(h) == stage[h] \notin Left /\ stage'[h] \in {"short", "raised"}
           Safe == \A h \in Handlers : Failing(h) => activation[at[h]] = "NONE"
<1>1. AInv /\ [AdapterNext]_all => Safe
  <2> SUFFICES ASSUME AInv, [AdapterNext]_all,
                      NEW h \in Handlers, Failing(h)
               PROVE  activation[at[h]] = "NONE"
    OBVIOUS
  <2>1. at[h] \in Intervals /\ activation[at[h]] \in {"NONE", "COMPLETED", "FAILED"}
    BY DEF AInv, AdapterTypeOK
  <2>2. stage'[h] # stage[h]
    BY DEF Left
  <2>3. PICK k \in Handlers : Handle(k)
    BY <2>2 DEF AdapterNext, Turn, Die, all, handlers
  <2>4. ASSUME NEW x, Go(k, x)
        PROVE  k = h /\ x \in {"short", "raised"}
    BY <2>2, <2>4, Gone DEF AInv
  <2>5. status[at[h]] = "NONE" => activation[at[h]] = "NONE"
    BY <2>1 DEF AInv, ReservationsMatch
  <2>6. CASE Deliver(k)
    BY <2>4, <2>6 DEF Deliver
  <2>7. CASE FindReservation(k)
    BY <2>4, <2>7 DEF FindReservation
  <2>8. ASSUME NEW o \in [Resources -> (0..MaxOffer) \cup {NoOffer}],
               NEW c \in [Resources -> 0..MaxOffer], SeekCapacity(k, o, c)
        PROVE  activation[at[h]] = "NONE"
    <3>1. k = h
      BY <2>4, <2>8 DEF SeekCapacity, Fail
    <3> QED
      BY <2>5, <2>8, <3>1 DEF SeekCapacity, Known
  <2>9. CASE Confirm(k)
    BY <2>4, <2>9 DEF Confirm
  <2>10. CASE RunShort(k)
    <3>1. k = h
      BY <2>4, <2>10 DEF RunShort, Fail
    <3> QED
      BY <2>5, <2>10, <3>1 DEF RunShort, AInv, HandlersMatch
  <2>11. CASE FindActivation(k)
    BY <2>4, <2>11 DEF FindActivation, Report
  <2>12. CASE RefuseActivation(k)
    <3>1. k = h
      BY <2>4, <2>12 DEF RefuseActivation, Fail
    <3> QED
      BY <2>12, <3>1 DEF RefuseActivation, Concluded
  <2>13. CASE Activate(k)
    BY <2>4, <2>13 DEF Activate
  <2>14. ASSUME NEW s \in Resources, InstructRaises(k, s)
         PROVE  activation[at[h]] = "NONE"
    <3>1. k = h
      BY <2>4, <2>14 DEF InstructRaises, Fail
    <3> QED
      BY <2>14, <3>1 DEF InstructRaises, AInv, HandlersMatch
  <2>15. ASSUME NEW s \in Resources, NEW takes \in BOOLEAN, Instruct(k, s, takes)
         PROVE  FALSE
    BY <2>2, <2>15 DEF Instruct, handlers
  <2>16. CASE Conclude(k)
    BY <2>4, <2>16 DEF Conclude, Report
  <2> QED
    BY <2>3, <2>6, <2>7, <2>8, <2>9, <2>10, <2>11, <2>12, <2>13, <2>14, <2>15,
       <2>16 DEF Handle
<1> QED
  BY <1>1, AdapterInvariant, PTL DEF AdapterSpec, ReplayNeverFails
=============================================================================
