-------------------------- MODULE ProvisioningProofs --------------------------
(***************************************************************************)
(* normalize_pebc_offer never promises energy the resource cannot deliver, *)
(* for all envelopes, messages and forecasts.  The headroom after a        *)
(* segment may be smaller than the one before, so what BudgetsHold says of *)
(* a segment does not carry over to the next: inductive is that the energy *)
(* taken stays within the budget, the least headroom still to come.        *)
(*                                                                         *)
(* All of it holds as well while records are registered and offers stored  *)
(* between its steps; the second part adds what links the stored offers to *)
(* the record of the resource.                                             *)
(*                                                                         *)
(* The third part is about the offers.  The forecast is unrolled into      *)
(* steps, so that what the code adds over segments and over their overlaps *)
(* with a bucket becomes one sum over steps; then the stored energy of a   *)
(* resource that follows its instructions is compared with the baseline at *)
(* every edge of a bucket, and in between along a straight line.           *)
(***************************************************************************)
EXTENDS Provisioning, WellFoundedInduction, TLAPS

(* A set of natural numbers that is not empty has a minimum.               *)
LEMMA MinOfNaturals ==
  ASSUME NEW S \in SUBSET Nat, S # {}
  PROVE  Min(S) \in S /\ \A y \in S : Min(S) <= y
<1> DEFINE R == {p \in Nat \X Nat : p[1] < p[2]}
<1>1. OpToRel(<, Nat) = R
  BY DEF OpToRel
<1>2. IsWellFoundedOn(R, Nat)
  BY <1>1, NatLessThanWellFounded
<1>3. \A x, y \in Nat : y < x => <<y, x>> \in R
  OBVIOUS
<1> HIDE DEF R
<1>4. PICK x \in S : \A y \in S : ~(<<y, x>> \in R)
  BY <1>2, WFMin
<1>5. ASSUME NEW y \in S
      PROVE  x <= y
  <2>1. x \in Nat /\ y \in Nat
    OBVIOUS
  <2>2. ~(y < x)
    BY <1>3, <1>4, <2>1
  <2> QED
    BY <2>1, <2>2
<1> QED
  BY <1>5 DEF Min

(* A power kept for a duration is an energy.                               *)
LEMMA ProductOfNaturals ==
  ASSUME NEW m \in Nat, NEW n \in Nat
  PROVE  m * n \in Nat
OBVIOUS

-----------------------------------------------------------------------------
(* The loops follow each other: nothing is kept before a frame is, no      *)
(* energy is reckoned before the forecast is read, and none is given       *)
(* before the baseline is complete.                                        *)
InOrder ==
  /\ segments # <<>> => frame \in FrameType
  /\ phase \in {"reading", "budgeting", "offering"} => frame \in FrameType
  /\ phase \in {"idle", "reading"} => ends = <<>>
  /\ taken # <<>> => Len(ends) = Len(segments)

(* The baseline keeps the stored energy within the envelope.               *)
BaselineStays ==
  \A i \in DOMAIN ends :
    ends[i] \in frame.envelope.minEnergy..frame.envelope.maxEnergy

(* The energy taken grows and stays within the budget.                     *)
WithinBudget ==
  \A i \in DOMAIN taken, d \in Directions :
    /\ 0 <= taken[i][d]
    /\ TakenBefore(d, i) <= taken[i][d]
    /\ taken[i][d] <= Budget(d, i)

IInv == TypeOK /\ InOrder /\ BaselineStays /\ WithinBudget

-----------------------------------------------------------------------------
(* The headroom after a segment is a natural number.                       *)
LEMMA HeadroomType ==
  ASSUME TypeOK, InOrder, BaselineStays,
         NEW d \in Directions, NEW i \in DOMAIN ends
  PROVE  Headroom(d, i) \in Nat
<1>1. ends # <<>> /\ segments # <<>>
  BY DEF TypeOK
<1>2. frame \in FrameType
  BY <1>1 DEF TypeOK, InOrder
<1>3. /\ frame.envelope.minEnergy \in Int
      /\ frame.envelope.maxEnergy \in Int
  BY <1>2, EnvelopeAssumption DEF FrameType, EnvelopeType, Multiples
<1>4. ends[i] \in frame.envelope.minEnergy..frame.envelope.maxEnergy
  BY DEF BaselineStays
<1> QED
  BY <1>3, <1>4 DEF Headroom

(* Once the baseline is complete, the budget of a segment is a natural     *)
(* number, at most the headroom of that segment and of every later one.    *)
LEMMA BudgetType ==
  ASSUME TypeOK, InOrder, BaselineStays, Len(ends) = Len(segments),
         NEW d \in Directions, NEW i \in DOMAIN segments
  PROVE  /\ Budget(d, i) \in Nat
         /\ Budget(d, i) <= Headroom(d, i)
         /\ \A k \in i..Len(segments) : Budget(d, i) <= Budget(d, k)
<1> DEFINE From(k) == {Headroom(d, j) : j \in k..Len(segments)}
<1>0. /\ Len(segments) \in Nat /\ Len(ends) \in Nat
      /\ DOMAIN segments = 1..Len(segments) /\ DOMAIN ends = 1..Len(segments)
  BY DEF TypeOK
<1>1. ASSUME NEW k \in 1..Len(segments)
      PROVE  /\ Headroom(d, k) \in From(k)
             /\ From(k) \in SUBSET Nat /\ From(k) # {}
  <2>1. k \in k..Len(segments)
    BY <1>0
  <2>2. \A j \in k..Len(segments) : j \in DOMAIN ends
    BY <1>0
  <2>3. \A j \in k..Len(segments) : Headroom(d, j) \in Nat
    BY <2>2, HeadroomType
  <2> QED
    BY <2>1, <2>3
<1>2. ASSUME NEW k \in 1..Len(segments)
      PROVE  Budget(d, k) \in From(k) /\ \A y \in From(k) : Budget(d, k) <= y
  <2> HIDE DEF From
  <2>1. Min(From(k)) \in From(k) /\ \A y \in From(k) : Min(From(k)) <= y
    BY <1>1, MinOfNaturals
  <2>2. Budget(d, k) = Min(From(k))
    BY DEF Budget, From
  <2> QED
    BY <2>1, <2>2
<1>3. Budget(d, i) \in Nat /\ Budget(d, i) <= Headroom(d, i)
  BY <1>0, <1>1, <1>2
<1>4. ASSUME NEW k \in i..Len(segments)
      PROVE  Budget(d, i) <= Budget(d, k)
  <2>1. k \in 1..Len(segments)
    BY <1>0
  <2>2. From(k) \subseteq From(i)
    BY <1>0
  <2> QED
    BY <1>0, <1>2, <2>1, <2>2
<1> QED
  BY <1>3, <1>4

-----------------------------------------------------------------------------
LEMMA InitInv == Init => IInv
BY DEF Init, IInv, TypeOK, InOrder, BaselineStays, WithinBudget

(* An error or an empty result keeps nothing.                              *)
LEMMA LeaveInv ==
  ASSUME NEW result \in {"idle", "done", "refused"}, Leave(result)
  PROVE  IInv'
BY DEF Leave, IInv, TypeOK, InOrder, BaselineStays, WithinBudget

LEMMA BeginInv ==
  ASSUME IInv, NEW e \in Envelopes, NEW m \in Messages, Begin(e, m)
  PROVE  IInv'
<1>1. CASE Leave("refused") \/ Leave("done")
  BY <1>1, LeaveInv
<1>2. CASE ~(Leave("refused") \/ Leave("done"))
  <2>1. /\ phase = "idle" /\ phase' = "reading"
        /\ ~Unlimited(m)
        /\ frame' = [envelope |-> e, from |-> m.from, until |-> m.until,
                     lowest |-> Lowest(e, m), highest |-> Highest(e, m)]
        /\ cursor' = m.start
        /\ UNCHANGED <<segments, budgets, outputs>>
    BY <1>2 DEF Begin
  <2>2. m \in MessageType /\ e \in EnvelopeType
    BY PebcAssumption, EnvelopeAssumption
  <2>3. /\ m.until \in Int /\ m.from \in Int /\ m.start \in Nat
        /\ m.range.lowest \in Int /\ m.range.highest \in Int
    BY <2>1, <2>2 DEF Unlimited, MessageType, Multiples
  <2>4. Lowest(e, m) \in Int /\ Highest(e, m) \in Int
    BY <2>2, <2>3 DEF Lowest, Highest, Greater, Lesser, EnvelopeType, Multiples
  <2>5. frame' \in FrameType
    BY <2>1, <2>3, <2>4 DEF FrameType
  <2>6. ends = <<>> /\ taken = <<>>
    BY <2>1 DEF IInv, TypeOK, InOrder
  <2> QED
    BY <2>1, <2>3, <2>5, <2>6
    DEF IInv, TypeOK, InOrder, BaselineStays, WithinBudget, budgets, outputs
<1> QED
  BY <1>1, <1>2

LEMMA ReadInv ==
  ASSUME IInv, NEW x \in Elements, Read(x)
  PROVE  IInv'
<1>1. CASE Kept(x) /\ x.power \notin frame.lowest..frame.highest
  BY <1>1, LeaveInv DEF Read
<1>2. CASE ~(Kept(x) /\ x.power \notin frame.lowest..frame.highest)
  <2>1. /\ phase = "reading"
        /\ segments' = IF Kept(x) THEN Append(segments, Segment(x))
                                  ELSE segments
        /\ cursor' = cursor + x.duration
        /\ UNCHANGED <<phase, frame, ends, taken, bucket, offers>>
    BY <1>2 DEF Read, budgets, outputs
  <2>2. frame \in FrameType /\ ends = <<>> /\ taken = <<>>
    BY <2>1 DEF IInv, TypeOK, InOrder
  <2>3. x.duration \in Nat
    BY PebcAssumption DEF ElementType, Durations
  <2>4. ASSUME Kept(x)
        PROVE  /\ Segment(x) \in SegmentType
               /\ Segment(x).start <= Segment(x).end
    <3>1. x.power \in Int
      BY <2>4, PebcAssumption DEF Kept, ElementType, Multiples
    <3>2. /\ frame.lowest \in Int /\ frame.highest \in Int
          /\ frame.envelope.ramp \in Nat
      BY <2>2, EnvelopeAssumption DEF FrameType, EnvelopeType, Multiples
    <3>3. Room(x.power) \in [Directions -> Nat]
      BY <3>1, <3>2 DEF Room, Lesser, Greater, Directions
    <3> QED
      BY <2>3, <3>1, <3>3 DEF Segment, SegmentType, IInv, TypeOK
  <2>5. /\ segments' \in Seq(SegmentType)
        /\ \A i \in DOMAIN segments' : segments'[i].start <= segments'[i].end
    <3>1. CASE Kept(x)
      <4>1. Segment(x) \in SegmentType /\ Segment(x).start <= Segment(x).end
        BY <2>4, <3>1
      <4>2. segments' = Append(segments, Segment(x))
        BY <2>1, <3>1
      <4> QED
        BY <4>1, <4>2 DEF IInv, TypeOK
    <3>2. CASE ~Kept(x)
      BY <2>1, <3>2 DEF IInv, TypeOK
    <3> QED
      BY <3>1, <3>2
  <2>6. cursor' \in Nat
    BY <2>1, <2>3 DEF IInv, TypeOK
  <2> QED
    BY <2>1, <2>2, <2>5, <2>6
    DEF IInv, TypeOK, InOrder, BaselineStays, WithinBudget
<1> QED
  BY <1>1, <1>2

(* The first bucket is not before the first segment.                       *)
LEMMA AlignedType ==
  ASSUME NEW t \in Nat
  PROVE  Aligned(t) \in Nat
<1>1. Resolution \in Nat \ {0}
  BY PebcAssumption
<1>2. (t + Resolution - 1) \div Resolution \in Nat
  BY <1>1
<1> QED
  BY <1>1, <1>2, ProductOfNaturals DEF Aligned

LEMMA EndOfForecastInv ==
  ASSUME IInv, EndOfForecast
  PROVE  IInv'
<1>1. CASE segments = <<>>
  BY <1>1, LeaveInv DEF EndOfForecast
<1>2. CASE segments # <<>>
  <2>1. /\ phase = "reading" /\ phase' = "budgeting"
        /\ bucket' = Aligned(segments[1].start)
        /\ UNCHANGED <<frame, cursor, segments, ends, taken, offers>>
    BY <1>2 DEF EndOfForecast, inputs, budgets
  <2>2. segments[1].start \in Nat
    <3>1. segments[1] \in SegmentType
      BY <1>2 DEF IInv, TypeOK
    <3> QED
      BY <3>1 DEF SegmentType
  <2>3. bucket' \in Nat
    BY <2>1, <2>2, AlignedType
  <2>4. ends = <<>> /\ taken = <<>>
    BY <2>1 DEF IInv, TypeOK, InOrder
  <2> QED
    BY <2>1, <2>3, <2>4 DEF IInv, TypeOK, InOrder, BaselineStays, WithinBudget
<1> QED
  BY <1>1, <1>2

LEMMA AddBaselineInv ==
  ASSUME IInv, AddBaseline
  PROVE  IInv'
<1> DEFINE i == Len(ends) + 1
           stored == StoredBefore(i) + segments[i].power * Duration(segments[i])
           within == frame.envelope.minEnergy..frame.envelope.maxEnergy
<1>1. CASE stored \notin within
  BY <1>1, LeaveInv DEF AddBaseline
<1>2. CASE stored \in within
  <2>1. /\ phase = "budgeting" /\ i <= Len(segments)
        /\ ends' = Append(ends, stored)
        /\ UNCHANGED <<phase, frame, cursor, segments, taken, bucket, offers>>
    BY <1>2 DEF AddBaseline, inputs, outputs
  <2> HIDE DEF stored
  <2>2. frame \in FrameType /\ taken = <<>>
    BY <2>1 DEF IInv, TypeOK, InOrder
  <2>3. stored \in Int
    BY <1>2, <2>2, EnvelopeAssumption DEF FrameType, EnvelopeType, Multiples
  <2>4. /\ ends' \in Seq(Int) /\ Len(ends') = i
        /\ \A k \in DOMAIN ends' : ends'[k] = IF k = i THEN stored ELSE ends[k]
        /\ \A k \in DOMAIN ends' : k # i => k \in DOMAIN ends
    <3>1. ends \in Seq(Int)
      BY DEF IInv, TypeOK
    <3>2. DOMAIN ends' = 1..i /\ DOMAIN ends = 1..Len(ends) /\ Len(ends) \in Nat
      BY <2>1, <2>3, <3>1
    <3>3. \A k \in 1..i : ends'[k] = IF k = i THEN stored ELSE ends[k]
      BY <2>1, <2>3, <3>1
    <3> QED
      BY <2>1, <2>3, <3>1, <3>2, <3>3
  <2>5. TypeOK'
    BY <2>1, <2>2, <2>4 DEF IInv, TypeOK
  <2>6. BaselineStays'
    BY <1>2, <2>1, <2>4 DEF IInv, BaselineStays
  <2>7. InOrder' /\ WithinBudget'
    BY <2>1, <2>2 DEF IInv, InOrder, WithinBudget
  <2> QED
    BY <2>5, <2>6, <2>7 DEF IInv
<1> QED
  BY <1>1, <1>2

LEMMA AllocateShareInv ==
  ASSUME IInv, Allocate, ~Leave("refused")
  PROVE  IInv'
<1> DEFINE i == Len(taken) + 1
           new == [d \in Directions |-> TakenBefore(d, i) + Share(d, i)]
<1>1. /\ phase = "budgeting" /\ phase' \in {"budgeting", "offering"}
      /\ Len(ends) = Len(segments) /\ i <= Len(segments)
      /\ Duration(segments[i]) > 0
      /\ taken' = Append(taken, new)
      /\ UNCHANGED <<frame, cursor, segments, ends, bucket, offers>>
  BY DEF Allocate, inputs, outputs
<1>2. /\ taken \in Seq(Quantities) /\ Len(taken) \in Nat /\ i \in Nat
      /\ DOMAIN taken = 1..Len(taken)
      /\ Len(segments) \in Nat /\ DOMAIN segments = 1..Len(segments)
      /\ i \in DOMAIN segments
  BY <1>1 DEF IInv, TypeOK
<1>3. \A d \in Directions, k \in DOMAIN segments :
        /\ Budget(d, k) \in Nat
        /\ \A l \in k..Len(segments) : Budget(d, k) <= Budget(d, l)
  BY <1>1, BudgetType DEF IInv
(* What was taken before is within the budget of this segment too. *)
<1>4. ASSUME NEW d \in Directions
      PROVE  TakenBefore(d, i) \in Nat /\ TakenBefore(d, i) <= Budget(d, i)
  <2>1. CASE i = 1
    BY <1>2, <1>3, <2>1 DEF TakenBefore
  <2>2. CASE i # 1
    <3>1. /\ i - 1 \in DOMAIN taken /\ i - 1 \in DOMAIN segments
          /\ i \in (i - 1)..Len(segments)
      BY <1>2, <2>2
    <3>2. taken[i - 1][d] \in Int
      BY <1>2, <3>1 DEF Quantities
    <3>3. 0 <= taken[i - 1][d] /\ taken[i - 1][d] <= Budget(d, i - 1)
      BY <3>1 DEF IInv, WithinBudget
    <3>4. /\ Budget(d, i - 1) \in Nat /\ Budget(d, i) \in Nat
          /\ Budget(d, i - 1) <= Budget(d, i)
      BY <1>2, <1>3, <3>1
    <3>5. TakenBefore(d, i) = taken[i - 1][d]
      BY <2>2 DEF TakenBefore
    <3> QED
      BY <3>2, <3>3, <3>4, <3>5
  <2> QED
    BY <2>1, <2>2
<1>5. ASSUME NEW d \in Directions
      PROVE  /\ Share(d, i) \in Nat
             /\ TakenBefore(d, i) + Share(d, i) <= Budget(d, i)
  <2>1. segments[i].room[d] \in Nat /\ Duration(segments[i]) \in Nat
    <3>1. segments[i] \in SegmentType /\ segments[i].start <= segments[i].end
      BY <1>2 DEF IInv, TypeOK
    <3> QED
      BY <3>1 DEF SegmentType, Duration
  <2>2. segments[i].room[d] * Duration(segments[i]) \in Nat
    BY <2>1, ProductOfNaturals
  <2>3. Budget(d, i) \in Nat
    BY <1>2, <1>3
  <2> QED
    BY <1>4, <2>2, <2>3 DEF Share, Lesser, Greater
<1>6. /\ new \in Quantities
      /\ \A d \in Directions :
           /\ new[d] = TakenBefore(d, i) + Share(d, i)
           /\ 0 <= new[d] /\ TakenBefore(d, i) <= new[d]
           /\ new[d] <= Budget(d, i)
  <2>1. \A d \in Directions :
          TakenBefore(d, i) \in Nat /\ Share(d, i) \in Nat
    BY <1>4, <1>5
  <2> QED
    BY <1>5, <2>1 DEF Quantities
<1> HIDE DEF new
<1>7. /\ taken' \in Seq(Quantities) /\ DOMAIN taken' = 1..i /\ Len(taken') = i
      /\ taken'[i] = new
      /\ \A k \in 1..(i - 1) : k \in DOMAIN taken /\ taken'[k] = taken[k]
  BY <1>1, <1>2, <1>6
<1>8. TypeOK'
  <2>1. segments[i].start < segments[i].end
    <3>1. segments[i] \in SegmentType
      BY <1>2 DEF IInv, TypeOK
    <3> QED
      BY <1>1, <3>1 DEF SegmentType, Duration
  <2>2. \A k \in DOMAIN taken' : segments'[k].start < segments'[k].end
    BY <1>1, <1>2, <1>7, <2>1 DEF IInv, TypeOK
  <2> QED
    BY <1>1, <1>2, <1>7, <2>2 DEF IInv, TypeOK
<1>9. InOrder' /\ BaselineStays'
  BY <1>1 DEF IInv, InOrder, BaselineStays
<1>10. ASSUME NEW k \in DOMAIN taken', NEW d \in Directions
       PROVE  /\ 0 <= taken'[k][d]
              /\ TakenBefore(d, k)' <= taken'[k][d]
              /\ taken'[k][d] <= Budget(d, k)'
  <2>1. Budget(d, k)' = Budget(d, k)
    BY <1>1 DEF Budget, Headroom
  <2>2. TakenBefore(d, k)' = TakenBefore(d, k)
    BY <1>2, <1>7 DEF TakenBefore
  <2>3. CASE k = i
    BY <1>6, <1>7, <2>1, <2>2, <2>3
  <2>4. CASE k # i
    <3>1. k \in DOMAIN taken /\ taken'[k] = taken[k]
      BY <1>2, <1>7, <2>4
    <3> QED
      BY <2>1, <2>2, <3>1 DEF IInv, WithinBudget
  <2> QED
    BY <2>3, <2>4
<1> QED
  BY <1>8, <1>9, <1>10 DEF IInv, WithinBudget

LEMMA AllocateInv ==
  ASSUME IInv, Allocate
  PROVE  IInv'
BY AllocateShareInv, LeaveInv

(* The buckets only read what the budgets left.                            *)
LEMMA BucketsInv ==
  ASSUME IInv, NextBucket \/ LastBucket
  PROVE  IInv'
<1>1. /\ phase = "offering" /\ phase' \in {"offering", "done"}
      /\ UNCHANGED <<frame, cursor, segments, ends, taken>>
  BY DEF NextBucket, LastBucket, inputs, budgets, outputs
<1>2. Resolution \in Nat
  BY PebcAssumption
<1>3. /\ bucket' \in Nat
      /\ \A o \in offers' : o.start \in Nat
  <2>1. Offer(bucket).start = bucket
    BY Zenon DEF Offer
  <2>2. /\ bucket' \in {bucket, bucket + Resolution}
        /\ offers' \in {offers, offers \cup {Offer(bucket)}}
    BY DEF NextBucket, LastBucket, outputs
  <2> HIDE DEF Offer
  <2> QED
    BY <1>2, <2>1, <2>2 DEF IInv, TypeOK
<1>4. /\ \A d, k : Budget(d, k)' = Budget(d, k)
      /\ \A d, k : TakenBefore(d, k)' = TakenBefore(d, k)
  BY <1>1 DEF Budget, Headroom, TakenBefore
<1> QED
  BY <1>1, <1>3, <1>4
  DEF IInv, TypeOK, InOrder, BaselineStays, WithinBudget

LEMMA StutterInv ==
  ASSUME IInv, UNCHANGED vars
  PROVE  IInv'
<1>1. /\ \A d, k : Budget(d, k)' = Budget(d, k)
      /\ \A d, k : TakenBefore(d, k)' = TakenBefore(d, k)
  BY DEF Budget, Headroom, TakenBefore, vars, inputs, budgets, outputs
<1> QED
  BY <1>1 DEF IInv, TypeOK, InOrder, BaselineStays, WithinBudget,
     vars, inputs, budgets, outputs

LEMMA NextInv == IInv /\ [Next]_vars => IInv'
<1> SUFFICES ASSUME IInv, [Next]_vars
             PROVE  IInv'
  OBVIOUS
<1>1. CASE \E e \in Envelopes, m \in Messages : Begin(e, m)
  BY <1>1, BeginInv
<1>2. CASE \E x \in Elements : Read(x)
  BY <1>2, ReadInv
<1>3. CASE EndOfForecast
  BY <1>3, EndOfForecastInv
<1>4. CASE AddBaseline
  BY <1>4, AddBaselineInv
<1>5. CASE Allocate
  BY <1>5, AllocateInv
<1>6. CASE NextBucket \/ LastBucket
  BY <1>6, BucketsInv
<1>7. CASE UNCHANGED vars
  BY <1>7, StutterInv
<1> QED
  BY <1>1, <1>2, <1>3, <1>4, <1>5, <1>6, <1>7 DEF Next, Normalize

(* The inductive invariant of one normalization.                          *)
THEOREM PebcInvariant == Spec => []IInv
BY InitInv, NextInv, PTL DEF Spec

(* The budget of a segment is at most its headroom.                        *)
LEMMA IInvKeepsBudgets == IInv => BudgetsHold
<1> SUFFICES ASSUME IInv, NEW i \in DOMAIN taken, NEW d \in Directions
             PROVE  /\ TakenBefore(d, i) <= taken[i][d]
                    /\ taken[i][d] <= Headroom(d, i)
  BY DEF BudgetsHold
<1>1. /\ Len(ends) = Len(segments) /\ i \in DOMAIN segments
      /\ i \in DOMAIN ends
  BY DEF IInv, TypeOK, InOrder
<1>2. Budget(d, i) \in Nat /\ Budget(d, i) <= Headroom(d, i)
  BY <1>1, BudgetType DEF IInv
<1>3. Headroom(d, i) \in Nat
  BY <1>1, HeadroomType DEF IInv
<1>4. taken[i][d] \in Int
  BY DEF IInv, TypeOK, Quantities
<1> QED
  BY <1>2, <1>3, <1>4 DEF IInv, WithinBudget

(* The types of the loop variables, which keep step with each other.       *)
THEOREM PebcTypes == Spec => []TypeOK
BY PebcInvariant, PTL DEF IInv

(* What a forecast promises, in either direction and after every segment,  *)
(* the stored energy the baseline leaves can deliver (pebc.py:207-263).    *)
THEOREM BudgetsAlwaysHold == Spec => []BudgetsHold
BY PebcInvariant, IInvKeepsBudgets, PTL

-----------------------------------------------------------------------------
(* The registration in parallel. *)

(* Before the first record there is nothing, and without a message nothing *)
(* has been handed over.                                                   *)
NothingUnregistered ==
  /\ registry = None => registered = {} /\ shelf = {} /\ required = None
  /\ required = None => handed = {}

(* Once an offer of the message is stored, a registration finds it and     *)
(* takes it away, and the message is refused from then on; before, the     *)
(* registration is remembered.                                             *)
MessageIsCurrent ==
  Durable =>
    /\ required # None /\ handed = {} =>
         required.version = registry.version \/ overtaken
    /\ handed # {} =>
         /\ position = message
         /\ \/ disconnected
            \/ /\ shelf # {}
               /\ required.version = registry.version \/ overtaken

PInv ==
  /\ IInv /\ ProvisioningTypeOK
  /\ NothingUnregistered /\ MessageIsCurrent
  /\ VersionNamesOneRecord /\ StaleOffersWereOvertaken

LEMMA ProvisioningInitInv == ProvisioningInit => PInv
<1> SUFFICES ASSUME ProvisioningInit
             PROVE  PInv
  OBVIOUS
<1>1. IInv
  BY InitInv DEF ProvisioningInit
<1>2. /\ phase = "idle" /\ registry = None /\ required = None
      /\ message = 0 /\ position = 0 /\ handed = {} /\ shelf = {}
      /\ registered = {} /\ disconnected = FALSE /\ overtaken = FALSE
  BY DEF ProvisioningInit, Init
<1>3. 0 \in 0..MaxMessages /\ 0 \in 0..0
  BY ProvisioningAssumption
<1>4. ProvisioningTypeOK
  BY <1>1, <1>2, <1>3 DEF IInv, ProvisioningTypeOK
<1> QED
  BY <1>1, <1>2, <1>4
  DEF PInv, NothingUnregistered, MessageIsCurrent, VersionNamesOneRecord,
      StaleOffersWereOvertaken

LEMMA RegisterInv ==
  ASSUME PInv, NEW r \in Records, Register(r)
  PROVE  PInv'
<1>1. /\ registry' = r /\ registered' = registered \cup {r}
      /\ UNCHANGED <<vars, message, required, handed, position>>
      /\ overtaken' = (overtaken \/ (phase # "idle" /\ handed = {}))
  BY DEF Register, ingestion
<1>2. /\ r.version \in Nat
      /\ \A q \in Records : q.version \in Nat /\ q # None
  BY ProvisioningAssumption
<1>3. IInv'
  BY <1>1, StutterInv DEF PInv
<1>4. shelf' \in {shelf, {}} /\ disconnected' \in BOOLEAN
  BY DEF Register, PInv, ProvisioningTypeOK
<1>5. ProvisioningTypeOK'
  BY <1>1, <1>3, <1>4
  DEF PInv, IInv, ProvisioningTypeOK, vars, inputs, budgets, outputs
<1>6. NothingUnregistered'
  BY <1>1, <1>2 DEF PInv, NothingUnregistered
<1>7. MessageIsCurrent'
  <2>1. CASE Durable /\ registry # None
    <3>1. disconnected' = (disconnected \/ shelf # {})
      BY <2>1 DEF Register, Withdrawn
    <3> QED
      BY <1>1, <2>1, <3>1 DEF PInv, ProvisioningTypeOK, MessageIsCurrent
  <2>2. CASE Durable /\ registry = None
    BY <1>1, <2>2 DEF PInv, NothingUnregistered, MessageIsCurrent
  <2>3. CASE ~Durable
    BY <2>3 DEF MessageIsCurrent
  <2> QED
    BY <2>1, <2>2, <2>3
<1>8. VersionNamesOneRecord'
  <2>1. ASSUME NEW q \in registered
        PROVE  q.version \in Nat /\ q.version < r.version
    <3>1. registry \in Records /\ q \in Records
      BY DEF PInv, ProvisioningTypeOK, NothingUnregistered
    <3>2. q.version <= registry.version /\ registry.version < r.version
      BY <1>2, <3>1 DEF PInv, VersionNamesOneRecord, Register, Accepted
    <3> QED
      BY <1>2, <3>1, <3>2
  <2> QED
    BY <1>1, <1>2, <2>1 DEF PInv, VersionNamesOneRecord
<1>9. StaleOffersWereOvertaken'
  <2>1. CASE Durable
    <3>1. shelf' = {}
      BY <2>1 DEF Register, Withdrawn, PInv, NothingUnregistered
    <3> QED
      BY <3>1 DEF StaleOffersWereOvertaken
  <2> QED
    BY <2>1 DEF StaleOffersWereOvertaken
<1> QED
  BY <1>3, <1>5, <1>6, <1>7, <1>8, <1>9 DEF PInv

LEMMA ReceiveInv ==
  ASSUME PInv, NEW owner \in Owners, NEW m \in Messages, Receive(owner, m)
  PROVE  PInv'
<1>1. /\ message < MaxMessages /\ registry # None
      /\ Begin(registry.envelope, m)
      /\ message' = message + 1 /\ required' = registry /\ overtaken' = FALSE
      /\ UNCHANGED <<registry, handed, shelf, position, disconnected, registered>>
  BY DEF Receive, Provisioned, store
<1>2. registry \in Records /\ registry.envelope \in Envelopes
  BY <1>1, ProvisioningAssumption DEF PInv, ProvisioningTypeOK
<1>3. IInv'
  BY <1>1, <1>2, BeginInv DEF PInv
<1>4. phase = "idle" /\ phase' # "idle" /\ required = None /\ handed = {}
  BY <1>1
  DEF Begin, Leave, PInv, ProvisioningTypeOK, NothingUnregistered
<1>5. ProvisioningTypeOK'
  <2>1. message' \in 0..MaxMessages /\ position' \in 0..message'
    <3>1. message \in Nat /\ position \in 0..message
      BY DEF PInv, ProvisioningTypeOK
    <3> QED
      BY <1>1, <3>1, ProvisioningAssumption
  <2>2. shelf' \subseteq [start : Nat, version : Nat, position : {position'},
                          overtaken : BOOLEAN]
    BY <1>1 DEF PInv, ProvisioningTypeOK
  <2>3. required' # None /\ TypeOK'
    BY <1>1, <1>3 DEF IInv
  <2>4. /\ registry' \in Records \cup {None} /\ required' \in Records
        /\ handed' \subseteq Nat /\ disconnected' \in BOOLEAN
        /\ registered' \subseteq Records
    BY <1>1, <1>2 DEF PInv, ProvisioningTypeOK
  <2> QED
    BY <1>1, <1>4, <2>1, <2>2, <2>3, <2>4 DEF ProvisioningTypeOK
<1> QED
  BY <1>1, <1>3, <1>4, <1>5
  DEF PInv, NothingUnregistered, MessageIsCurrent, VersionNamesOneRecord,
      StaleOffersWereOvertaken

LEMMA StepInv ==
  ASSUME PInv, Step
  PROVE  PInv'
<1>1. /\ Normalize
      /\ UNCHANGED <<registry, message, required, handed, shelf, position,
                     disconnected, registered, overtaken>>
  BY DEF Step, ingestion, store
<1>2. IInv'
  BY <1>1, NextInv DEF Next, PInv
<1>3. phase # "idle" /\ phase' # "idle"
  BY <1>1
  DEF Normalize, Read, EndOfForecast, AddBaseline, Allocate, NextBucket,
      LastBucket, Leave, outputs
<1>4. ProvisioningTypeOK'
  BY <1>1, <1>2, <1>3 DEF PInv, IInv, ProvisioningTypeOK
<1> QED
  BY <1>1, <1>2, <1>4
  DEF PInv, NothingUnregistered, MessageIsCurrent, VersionNamesOneRecord,
      StaleOffersWereOvertaken

LEMMA UpsertInv ==
  ASSUME PInv, Upsert
  PROVE  PInv'
<1> DEFINE o == [start |-> Min(Waiting), version |-> required.version,
                 position |-> message, overtaken |-> overtaken]
<1>1. /\ phase = "done" /\ Waiting # {} /\ ~Refused
      /\ shelf' = Remaining \cup {o} /\ handed' = handed \cup {o.start}
      /\ position' = message /\ disconnected' = FALSE
      /\ UNCHANGED <<vars, registry, message, required, registered, overtaken>>
  BY DEF Upsert
<1>2. Min(Waiting) \in Nat
  <2>1. Waiting \in SUBSET Nat
    BY DEF Waiting, PInv, IInv, TypeOK
  <2> QED
    BY <1>1, <2>1, MinOfNaturals
<1>3. required \in Records /\ required.version \in Nat /\ registry # None
  BY <1>1, ProvisioningAssumption
  DEF PInv, ProvisioningTypeOK, NothingUnregistered
<1>4. o \in [start : Nat, version : Nat, position : {message},
             overtaken : BOOLEAN]
  BY <1>2, <1>3 DEF PInv, ProvisioningTypeOK
<1>5. /\ o.version = required.version /\ o.overtaken = overtaken
      /\ o.start \in Nat
  BY <1>2
<1> HIDE DEF o
<1>6. IInv'
  BY <1>1, StutterInv DEF PInv
<1>7. /\ Remaining \subseteq shelf
      /\ \A q \in Remaining : q.position = message
  BY DEF Remaining
<1>8. shelf' \subseteq [start : Nat, version : Nat, position : {message},
                        overtaken : BOOLEAN]
  <2>1. ASSUME NEW q \in Remaining
        PROVE  q \in [start : Nat, version : Nat, position : {message},
                      overtaken : BOOLEAN]
    BY <1>7 DEF PInv, ProvisioningTypeOK
  <2> QED
    BY <1>1, <1>4, <2>1
<1>9. ProvisioningTypeOK'
  <2>1. UNCHANGED phase
    BY <1>1 DEF vars
  <2>2. message \in 0..MaxMessages /\ 0..message \subseteq Nat
        /\ message \in 0..message
    BY ProvisioningAssumption DEF PInv, ProvisioningTypeOK
  <2> QED
    BY <1>1, <1>5, <1>6, <1>8, <2>1, <2>2 DEF PInv, IInv, ProvisioningTypeOK
<1>10. NothingUnregistered'
  BY <1>1, <1>3, ProvisioningAssumption DEF PInv, NothingUnregistered
(* A message that is not refused is current, or was overtaken at first. *)
<1>11. Durable => required.version = registry.version \/ overtaken
  <2>1. CASE Durable /\ handed = {}
    BY <1>3, <2>1, ProvisioningAssumption DEF PInv, MessageIsCurrent
  <2>2. CASE Durable /\ handed # {}
    <3>1. position = message /\ message \in Nat
      BY <2>2, ProvisioningAssumption
      DEF PInv, MessageIsCurrent, ProvisioningTypeOK
    <3>2. ~disconnected
      BY <1>1, <3>1 DEF Refused
    <3> QED
      BY <2>2, <3>2 DEF PInv, MessageIsCurrent
  <2> QED
    BY <2>1, <2>2
<1>12. MessageIsCurrent'
  BY <1>1, <1>11 DEF MessageIsCurrent
<1>13. VersionNamesOneRecord'
  BY <1>1 DEF PInv, VersionNamesOneRecord
<1>14. StaleOffersWereOvertaken'
  BY <1>1, <1>5, <1>7, <1>11 DEF PInv, StaleOffersWereOvertaken
<1> QED
  BY <1>6, <1>9, <1>10, <1>12, <1>13, <1>14 DEF PInv

LEMMA ReturnInv ==
  ASSUME PInv, Return
  PROVE  PInv'
<1>1. /\ Leave("idle") /\ required' = None /\ handed' = {}
      /\ UNCHANGED <<registry, message, shelf, position, disconnected,
                     registered, overtaken>>
  BY DEF Return, store
<1>2. IInv' /\ phase' = "idle"
  BY <1>1, LeaveInv DEF Leave
<1> QED
  BY <1>1, <1>2
  DEF PInv, IInv, ProvisioningTypeOK, NothingUnregistered, MessageIsCurrent,
      VersionNamesOneRecord, StaleOffersWereOvertaken

LEMMA ProvisioningNextInv == PInv /\ [ProvisioningNext]_all => PInv'
<1> SUFFICES ASSUME PInv, [ProvisioningNext]_all
             PROVE  PInv'
  OBVIOUS
<1>1. CASE \E r \in Records : Register(r)
  BY <1>1, RegisterInv
<1>2. CASE \E owner \in Owners, m \in Messages : Receive(owner, m)
  BY <1>2, ReceiveInv
<1>3. CASE Step
  BY <1>3, StepInv
<1>4. CASE Upsert
  BY <1>4, UpsertInv
<1>5. CASE Return
  BY <1>5, ReturnInv
<1>6. CASE UNCHANGED all
  <2>1. /\ IInv'
        /\ UNCHANGED <<phase, registry, message, required, handed, shelf,
                       position, disconnected, registered, overtaken>>
    BY <1>6, StutterInv DEF PInv, all, vars, ingestion, store
  <2> QED
    BY <2>1
    DEF PInv, IInv, ProvisioningTypeOK, NothingUnregistered, MessageIsCurrent,
        VersionNamesOneRecord, StaleOffersWereOvertaken
<1> QED
  BY <1>1, <1>2, <1>3, <1>4, <1>5, <1>6 DEF ProvisioningNext

(* The inductive invariant of provisioning and normalization together.     *)
THEOREM ProvisioningInvariant == ProvisioningSpec => []PInv
BY ProvisioningInitInv, ProvisioningNextInv, PTL DEF ProvisioningSpec

(* The types, and that no offer is stored by a position to come.           *)
THEOREM ProvisioningTypes == ProvisioningSpec => []ProvisioningTypeOK
BY ProvisioningInvariant, PTL DEF PInv

(* The energy budgets hold whatever is registered between the steps of a   *)
(* normalization (pebc.py:207-263).                                        *)
THEOREM ProvisionedBudgetsHold == ProvisioningSpec => []BudgetsHold
<1>1. PInv => BudgetsHold
  BY IInvKeepsBudgets DEF PInv
<1> QED
  BY <1>1, ProvisioningInvariant, PTL

(* A provisioning version names one record for ever (resources.py:91-104,  *)
(* postgres.py:221-235).                                                   *)
THEOREM VersionsNameOneRecord == ProvisioningSpec => []VersionNamesOneRecord
BY ProvisioningInvariant, PTL DEF PInv

(* On PostgreSQL an offer of a replaced record is stored only if the       *)
(* record was replaced between require and the first upsert of its message *)
(* (postgres.py:221-262, 446-452).                                         *)
THEOREM OnlyOvertakenOffersAreStale ==
  ProvisioningSpec => []StaleOffersWereOvertaken
BY ProvisioningInvariant, PTL DEF PInv

-----------------------------------------------------------------------------
(* Induction, with the set of the numbers a claim holds for.               *)
LEMMA Induction ==
  ASSUME NEW S, 0 \in S, \A n \in Nat : n \in S => n + 1 \in S
  PROVE  \A n \in Nat : n \in S
<1> DEFINE T == Nat \ S
<1> SUFFICES ASSUME T # {} PROVE FALSE
  OBVIOUS
<1>1. Min(T) \in T /\ \A y \in T : Min(T) <= y
  BY MinOfNaturals
<1> DEFINE m == Min(T)
<1> HIDE DEF m
<1>2. m \in Nat /\ m \notin S /\ \A y \in T : m <= y
  BY <1>1 DEF m
<1>3. m - 1 \in Nat /\ m - 1 \notin T
  BY <1>2
<1>4. (m - 1) + 1 \in S
  BY <1>3
<1> QED
  BY <1>2, <1>4

-----------------------------------------------------------------------------
(* Sums over lists.                                                        *)

(* The sums of d up to each place, as far as n.                            *)
SumsTo(f, d, n) == f = [k \in 0..n |-> IF k = 0 THEN 0 ELSE f[k - 1] + d[k]]

LEMMA SumsToExist ==
  ASSUME NEW d
  PROVE  \A n \in Nat : \E f : SumsTo(f, d, n)
<1> DEFINE S == {n \in Nat : \E f : SumsTo(f, d, n)}
<1>1. 0 \in S
  <2>1. SumsTo([k \in 0..0 |-> 0], d, 0)
    BY DEF SumsTo
  <2> QED
    BY <2>1
<1>2. ASSUME NEW n \in Nat, n \in S
      PROVE  n + 1 \in S
  <2>1. PICK f : SumsTo(f, d, n)
    BY <1>2
  <2> DEFINE g == [k \in 0..(n + 1) |-> IF k = n + 1 THEN f[n] + d[n + 1] ELSE f[k]]
             h == [k \in 0..(n + 1) |-> IF k = 0 THEN 0 ELSE g[k - 1] + d[k]]
  <2>2. ASSUME NEW k \in 0..(n + 1)
        PROVE  g[k] = IF k = 0 THEN 0 ELSE g[k - 1] + d[k]
    <3>1. \A l \in 0..n : f[l] = IF l = 0 THEN 0 ELSE f[l - 1] + d[l]
      BY <2>1 DEF SumsTo
    <3>2. CASE k = n + 1
      BY <3>2
    <3>3. CASE k # n + 1 /\ k # 0
      <4>1. k \in 0..n /\ k - 1 \in 0..(n + 1) /\ k - 1 # n + 1
        BY <3>3
      <4> QED
        BY <3>1, <3>3, <4>1
    <3>4. CASE k = 0
      BY <3>1, <3>4
    <3> QED
      BY <3>2, <3>3, <3>4
  <2>3. g = h
    <3> HIDE DEF g
    <3>1. g = [k \in 0..(n + 1) |-> g[k]]
      BY DEF g
    <3> QED
      BY <2>2, <3>1
  <2>4. SumsTo(g, d, n + 1)
    BY <2>3 DEF SumsTo
  <2> QED
    BY <2>4
<1> HIDE DEF S
<1>3. \A n \in Nat : n \in S
  BY <1>1, <1>2, Induction
<1> QED
  BY <1>3 DEF S

LEMMA SumsToAgree ==
  ASSUME NEW d, NEW n \in Nat, NEW f, NEW g,
         SumsTo(f, d, n), SumsTo(g, d, n + 1)
  PROVE  \A k \in 0..n : f[k] = g[k]
<1> DEFINE S == {k \in Nat : k <= n => f[k] = g[k]}
<1>1. /\ \A k \in 0..n : f[k] = IF k = 0 THEN 0 ELSE f[k - 1] + d[k]
      /\ \A k \in 0..(n + 1) : g[k] = IF k = 0 THEN 0 ELSE g[k - 1] + d[k]
  BY DEF SumsTo
<1>2. 0 \in S
  BY <1>1
<1>3. ASSUME NEW k \in Nat, k \in S
      PROVE  k + 1 \in S
  <2> SUFFICES ASSUME k + 1 <= n PROVE f[k + 1] = g[k + 1]
    OBVIOUS
  <2>1. f[k] = g[k] /\ k + 1 \in 0..n /\ k + 1 \in 0..(n + 1)
    BY <1>3
  <2>2. f[k + 1] = f[k] + d[k + 1] /\ g[k + 1] = g[k] + d[k + 1]
    BY <1>1, <2>1
  <2> QED
    BY <2>1, <2>2
<1> HIDE DEF S
<1>4. \A k \in Nat : k \in S
  BY <1>2, <1>3, Induction
<1> QED
  BY <1>4 DEF S

(* What the recursive function computes: its equations have a solution.    *)
LEMMA SumRecurrence ==
  ASSUME NEW d
  PROVE  /\ SumUpTo(d, 0) = 0
         /\ \A n \in Nat : SumUpTo(d, n + 1) = SumUpTo(d, n) + d[n + 1]
<1> DEFINE G(n) == CHOOSE f : SumsTo(f, d, n)
           F == [n \in Nat |-> G(n)[n]]
           Eq(f) == f = [k \in Nat |-> IF k = 0 THEN 0 ELSE f[k - 1] + d[k]]
           sum == CHOOSE f : Eq(f)
<1>1. \A n \in Nat : SumsTo(G(n), d, n)
  BY SumsToExist
<1>2. ASSUME NEW k \in Nat
      PROVE  F[k] = IF k = 0 THEN 0 ELSE F[k - 1] + d[k]
  <2>1. G(k)[k] = IF k = 0 THEN 0 ELSE G(k)[k - 1] + d[k]
    <3>1. SumsTo(G(k), d, k)
      BY <1>1
    <3> HIDE DEF G
    <3> QED
      BY <3>1 DEF SumsTo
  <2>2. ASSUME k # 0
        PROVE  G(k - 1)[k - 1] = G(k)[k - 1]
    <3> DEFINE m == k - 1
               f == G(m)
               g == G(k)
    <3>1. m \in Nat /\ m + 1 = k
      BY <2>2
    <3>2. SumsTo(f, d, m) /\ SumsTo(g, d, m + 1)
      BY <1>1, <3>1
    <3> HIDE DEF m, f, g
    <3>3. f[m] = g[m]
      BY <3>1, <3>2, SumsToAgree
    <3> QED
      BY <3>3 DEF f, g, m
  <2> HIDE DEF G
  <2>3. F[k] = G(k)[k] /\ (k # 0 => F[k - 1] = G(k - 1)[k - 1])
    OBVIOUS
  <2> QED
    BY <2>1, <2>2, <2>3
<1>3. Eq(F)
  <2> HIDE DEF F
  <2>1. F = [k \in Nat |-> F[k]]
    BY DEF F
  <2> QED
    BY <1>2, <2>1
<1>4. Eq(sum)
  <2> HIDE DEF F, Eq
  <2> QED
    BY <1>3
<1>5. \A n \in Nat : SumUpTo(d, n) = sum[n]
  BY DEF SumUpTo
<1> HIDE DEF sum
<1>6. \A k \in Nat : sum[k] = IF k = 0 THEN 0 ELSE sum[k - 1] + d[k]
  BY <1>4
<1> HIDE DEF Eq, G, F
<1>7. SumUpTo(d, 0) = 0
  BY <1>5, <1>6
<1>8. ASSUME NEW n \in Nat
      PROVE  SumUpTo(d, n + 1) = SumUpTo(d, n) + d[n + 1]
  <2>1. n + 1 \in Nat /\ n + 1 # 0 /\ (n + 1) - 1 = n
    OBVIOUS
  <2> QED
    BY <1>5, <1>6, <2>1
<1> QED
  BY <1>7, <1>8

LEMMA SumStep ==
  ASSUME NEW d, NEW k \in Nat \ {0}
  PROVE  SumUpTo(d, k) = SumUpTo(d, k - 1) + d[k]
<1>1. k - 1 \in Nat /\ (k - 1) + 1 = k
  OBVIOUS
<1>2. SumUpTo(d, (k - 1) + 1) = SumUpTo(d, k - 1) + d[(k - 1) + 1]
  BY <1>1, SumRecurrence
<1> QED
  BY <1>1, <1>2

LEMMA SumType ==
  ASSUME NEW d, NEW n \in Nat, \A k \in 1..n : d[k] \in Int
  PROVE  \A k \in 0..n : SumUpTo(d, k) \in Int
<1> DEFINE S == {k \in Nat : k <= n => SumUpTo(d, k) \in Int}
<1>1. 0 \in S
  BY SumRecurrence
<1>2. ASSUME NEW k \in Nat, k \in S
      PROVE  k + 1 \in S
  BY <1>2, SumRecurrence
<1> HIDE DEF S
<1>3. \A k \in Nat : k \in S
  BY <1>1, <1>2, Induction
<1> QED
  BY <1>3 DEF S

(* Equal lists have equal sums.                                            *)
LEMMA SumCongruence ==
  ASSUME NEW c, NEW d, NEW n \in Nat, \A k \in 1..n : c[k] = d[k]
  PROVE  \A k \in 0..n : SumUpTo(c, k) = SumUpTo(d, k)
<1> DEFINE S == {k \in Nat : k <= n => SumUpTo(c, k) = SumUpTo(d, k)}
<1>1. 0 \in S
  BY SumRecurrence
<1>2. ASSUME NEW k \in Nat, k \in S
      PROVE  k + 1 \in S
  <2>1. /\ SumUpTo(c, k + 1) = SumUpTo(c, k) + c[k + 1]
        /\ SumUpTo(d, k + 1) = SumUpTo(d, k) + d[k + 1]
    BY SumRecurrence
  <2> QED
    BY <1>2, <2>1
<1> HIDE DEF S
<1>3. \A k \in Nat : k \in S
  BY <1>1, <1>2, Induction
<1> QED
  BY <1>3 DEF S

(* A list of multiples of Resolution has such a multiple for its sum.      *)
LEMMA SumScaled ==
  ASSUME NEW d, NEW q, NEW n \in Nat,
         \A k \in 1..n : q[k] \in Int /\ d[k] = Resolution * q[k]
  PROVE  \A k \in 0..n : SumUpTo(d, k) = Resolution * SumUpTo(q, k)
<1> DEFINE S == {k \in Nat : k <= n => SumUpTo(d, k) = Resolution * SumUpTo(q, k)}
<1>0. Resolution \in Int
  BY PebcAssumption
<1>1. 0 \in S
  BY <1>0, SumRecurrence
<1>2. ASSUME NEW k \in Nat, k \in S
      PROVE  k + 1 \in S
  <2> SUFFICES ASSUME k + 1 <= n
               PROVE  SumUpTo(d, k + 1) = Resolution * SumUpTo(q, k + 1)
    OBVIOUS
  <2>1. /\ SumUpTo(d, k + 1) = SumUpTo(d, k) + d[k + 1]
        /\ SumUpTo(q, k + 1) = SumUpTo(q, k) + q[k + 1]
    BY SumRecurrence
  <2>2. SumUpTo(q, k) \in Int
    <3>1. \A l \in 1..n : q[l] \in Int
      OBVIOUS
    <3>2. \A l \in 0..n : SumUpTo(q, l) \in Int
      BY <3>1, SumType
    <3> QED
      BY <3>2
  <2>3. /\ q[k + 1] \in Int /\ d[k + 1] = Resolution * q[k + 1]
        /\ SumUpTo(d, k) = Resolution * SumUpTo(q, k)
    BY <1>2
  <2>4. \A x, y \in Int : Resolution * x + Resolution * y = Resolution * (x + y)
    BY <1>0
  <2> QED
    BY <2>1, <2>2, <2>3, <2>4
<1> HIDE DEF S
<1>3. \A k \in Nat : k \in S
  BY <1>1, <1>2, Induction
<1> QED
  BY <1>3 DEF S

(* What a stretch of a list adds is bounded by its length.                 *)
LEMMA SumAtLeast ==
  ASSUME NEW d, NEW s \in Nat, NEW e \in Nat, s <= e, NEW low \in Int,
         \A k \in 1..e : d[k] \in Int,
         \A k \in (s + 1)..e : low <= d[k]
  PROVE  (e - s) * low <= SumUpTo(d, e) - SumUpTo(d, s)
<1> DEFINE Added(m) == SumUpTo(d, s + m) - SumUpTo(d, s)
           S == {m \in Nat : s + m <= e => m * low <= Added(m)}
<1>1. 0 \in S
  <2>1. SumUpTo(d, s) \in Int /\ s + 0 = s
    BY SumType
  <2> QED
    BY <2>1
<1>2. ASSUME NEW m \in Nat, m \in S
      PROVE  m + 1 \in S
  <2> SUFFICES ASSUME s + (m + 1) <= e
               PROVE  (m + 1) * low <= Added(m + 1)
    OBVIOUS
  <2>1. SumUpTo(d, s + (m + 1)) = SumUpTo(d, s + m) + d[s + (m + 1)]
    <3>1. s + m \in Nat /\ (s + m) + 1 = s + (m + 1)
      OBVIOUS
    <3> QED
      BY <3>1, SumRecurrence
  <2>2. /\ SumUpTo(d, s) \in Int /\ SumUpTo(d, s + m) \in Int
        /\ d[s + (m + 1)] \in Int /\ low <= d[s + (m + 1)]
    BY SumType
  <2>3. m * low <= Added(m)
    BY <1>2
  <2>4. (m + 1) * low = m * low + low /\ m * low \in Int
    OBVIOUS
  <2> QED
    BY <2>1, <2>2, <2>3, <2>4
<1> HIDE DEF S
<1>3. e - s \in S
  BY <1>1, <1>2, Induction
<1>4. s + (e - s) = e
  OBVIOUS
<1> QED
  BY <1>3, <1>4 DEF S

LEMMA SumAtMost ==
  ASSUME NEW d, NEW s \in Nat, NEW e \in Nat, s <= e, NEW high \in Int,
         \A k \in 1..e : d[k] \in Int,
         \A k \in (s + 1)..e : d[k] <= high
  PROVE  SumUpTo(d, e) - SumUpTo(d, s) <= (e - s) * high
<1> DEFINE Added(m) == SumUpTo(d, s + m) - SumUpTo(d, s)
           S == {m \in Nat : s + m <= e => Added(m) <= m * high}
<1>1. 0 \in S
  <2>1. SumUpTo(d, s) \in Int /\ s + 0 = s
    BY SumType
  <2> QED
    BY <2>1
<1>2. ASSUME NEW m \in Nat, m \in S
      PROVE  m + 1 \in S
  <2> SUFFICES ASSUME s + (m + 1) <= e
               PROVE  Added(m + 1) <= (m + 1) * high
    OBVIOUS
  <2>1. SumUpTo(d, s + (m + 1)) = SumUpTo(d, s + m) + d[s + (m + 1)]
    <3>1. s + m \in Nat /\ (s + m) + 1 = s + (m + 1)
      OBVIOUS
    <3> QED
      BY <3>1, SumRecurrence
  <2>2. /\ SumUpTo(d, s) \in Int /\ SumUpTo(d, s + m) \in Int
        /\ d[s + (m + 1)] \in Int /\ d[s + (m + 1)] <= high
    BY SumType
  <2>3. Added(m) <= m * high
    BY <1>2
  <2>4. (m + 1) * high = m * high + high /\ m * high \in Int
    OBVIOUS
  <2> QED
    BY <2>1, <2>2, <2>3, <2>4
<1> HIDE DEF S
<1>3. e - s \in S
  BY <1>1, <1>2, Induction
<1>4. s + (e - s) = e
  OBVIOUS
<1> QED
  BY <1>3, <1>4 DEF S

LEMMA SumConstant ==
  ASSUME NEW d, NEW s \in Nat, NEW e \in Nat, s <= e, NEW c \in Int,
         \A k \in 1..e : d[k] \in Int,
         \A k \in (s + 1)..e : d[k] = c
  PROVE  SumUpTo(d, e) = SumUpTo(d, s) + (e - s) * c
<1>0. \A k \in (s + 1)..e : c <= d[k] /\ d[k] <= c
  OBVIOUS
<1>1. /\ (e - s) * c <= SumUpTo(d, e) - SumUpTo(d, s)
      /\ SumUpTo(d, e) - SumUpTo(d, s) <= (e - s) * c
  BY <1>0, SumAtLeast, SumAtMost
<1>2. SumUpTo(d, e) \in Int /\ SumUpTo(d, s) \in Int /\ (e - s) * c \in Int
  BY SumType
<1> QED
  BY <1>1, <1>2

(* As many ones as places: a one in every place.                           *)
LEMMA SumOfOnes ==
  ASSUME NEW d, NEW s \in Nat, NEW e \in Nat, s <= e,
         \A k \in 1..e : d[k] \in {0, 1}
  PROVE  SumUpTo(d, e) - SumUpTo(d, s) = e - s
           <=> \A k \in (s + 1)..e : d[k] = 1
<1>0. /\ SumUpTo(d, e) \in Int /\ SumUpTo(d, s) \in Int
      /\ \A k \in 1..e : d[k] \in Int
  BY SumType
<1>1. ASSUME \A k \in (s + 1)..e : d[k] = 1
      PROVE  SumUpTo(d, e) - SumUpTo(d, s) = e - s
  <2>1. SumUpTo(d, e) = SumUpTo(d, s) + (e - s) * 1
    BY <1>0, <1>1, SumConstant
  <2> QED
    BY <1>0, <2>1
<1>2. ASSUME NEW j \in (s + 1)..e, d[j] = 0
      PROVE  SumUpTo(d, e) - SumUpTo(d, s) < e - s
  <2>1. j - 1 \in Nat /\ s <= j - 1 /\ j <= e /\ j \in Nat \ {0}
    OBVIOUS
  <2>2. SumUpTo(d, j - 1) - SumUpTo(d, s) <= ((j - 1) - s) * 1
    <3>1. \A k \in 1..(j - 1) : d[k] \in Int
      BY <1>0
    <3>2. \A k \in (s + 1)..(j - 1) : 0 <= d[k] /\ d[k] <= 1
      OBVIOUS
    <3> QED
      BY <2>1, <3>1, <3>2, SumAtMost
  <2>3. SumUpTo(d, e) - SumUpTo(d, j) <= (e - j) * 1
    <3>1. \A k \in (j + 1)..e : 0 <= d[k] /\ d[k] <= 1
      OBVIOUS
    <3>2. j \in Nat /\ 0 \in Int /\ 1 \in Int
      BY <2>1
    <3>3. \A k \in 1..e : d[k] \in Int
      BY <1>0
    <3> QED
      BY <2>1, <3>1, <3>2, <3>3, SumAtMost
  <2>4. SumUpTo(d, j) = SumUpTo(d, j - 1)
    <3>1. SumUpTo(d, j - 1) \in Int
      BY <1>0, <2>1, SumType
    <3> QED
      BY <1>2, <2>1, <3>1, SumStep
  <2>5. SumUpTo(d, j) \in Int
    BY <1>0, <2>1, SumType
  <2> QED
    BY <1>0, <2>1, <2>2, <2>3, <2>4, <2>5
<1>3. ASSUME SumUpTo(d, e) - SumUpTo(d, s) = e - s,
             NEW k \in (s + 1)..e
      PROVE  d[k] = 1
  <2>1. d[k] \in {0, 1}
    OBVIOUS
  <2>2. d[k] # 0
    BY <1>0, <1>2, <1>3
  <2> QED
    BY <2>1, <2>2
<1> QED
  BY <1>1, <1>3

-----------------------------------------------------------------------------
(* The forecast as a list of steps: step k lasts from k - 1 to k.  What    *)
(* the code adds over segments and over their overlaps with a bucket is    *)
(* what the steps add.                                                     *)

Ordered ==
  /\ segments \in Seq(SegmentType)
  /\ \A i \in DOMAIN segments : segments[i].start < segments[i].end
  /\ \A i \in DOMAIN segments : \A j \in 1..(i - 1) :
       segments[j].end <= segments[i].start

Holds(i, k) == segments[i].start < k /\ k <= segments[i].end

(* The value v of the segment a step belongs to, 0 in gaps.                *)
At(v) ==
  [k \in Nat |-> IF \E i \in DOMAIN segments : Holds(i, k)
                   THEN v[CHOOSE i \in DOMAIN segments : Holds(i, k)] ELSE 0]

Until(v, t) == SumUpTo(At(v), t)

Values == [DOMAIN segments -> Int]

EndOf(i) == IF i = 0 THEN 0 ELSE segments[i].end

LEMMA SegmentFacts ==
  ASSUME Ordered
  PROVE  /\ Len(segments) \in Nat /\ DOMAIN segments = 1..Len(segments)
         /\ \A i \in DOMAIN segments :
              /\ segments[i] \in SegmentType
              /\ segments[i].start \in Nat /\ segments[i].end \in Nat
              /\ segments[i].start < segments[i].end
         /\ \A i, j \in DOMAIN segments :
              j < i => segments[j].end <= segments[i].start
         /\ \A i \in 0..Len(segments) : EndOf(i) \in Nat
<1>1. Len(segments) \in Nat /\ DOMAIN segments = 1..Len(segments)
  BY DEF Ordered
<1>2. \A i \in DOMAIN segments :
        /\ segments[i] \in SegmentType
        /\ segments[i].start \in Nat /\ segments[i].end \in Nat
        /\ segments[i].start < segments[i].end
  <2>1. \A i \in DOMAIN segments : segments[i] \in SegmentType
    BY DEF Ordered
  <2> QED
    BY <2>1 DEF Ordered, SegmentType
<1>3. \A i, j \in DOMAIN segments :
        j < i => segments[j].end <= segments[i].start
  <2>1. \A i, j \in DOMAIN segments : j < i => j \in 1..(i - 1)
    BY <1>1
  <2> QED
    BY <2>1 DEF Ordered
<1>4. \A i \in 0..Len(segments) : EndOf(i) \in Nat
  <2>1. \A i \in 0..Len(segments) : i # 0 => i \in DOMAIN segments
    BY <1>1
  <2> QED
    BY <1>2, <2>1 DEF EndOf
<1> QED
  BY <1>1, <1>2, <1>3, <1>4

(* Segments do not share a step.                                           *)
LEMMA AtSegment ==
  ASSUME Ordered, NEW v, NEW i \in DOMAIN segments, NEW k \in Nat, Holds(i, k)
  PROVE  At(v)[k] = v[i]
<1>1. ASSUME NEW j \in DOMAIN segments, Holds(j, k)
      PROVE  j = i
  <2>1. /\ i \in Nat /\ j \in Nat
        /\ segments[i].start \in Nat /\ segments[i].end \in Nat
        /\ segments[j].start \in Nat /\ segments[j].end \in Nat
    BY SegmentFacts
  <2>2. ~(j < i)
    BY <1>1, <2>1, SegmentFacts DEF Holds
  <2>3. ~(i < j)
    BY <1>1, <2>1, SegmentFacts DEF Holds
  <2> QED
    BY <2>1, <2>2, <2>3
<1>2. (CHOOSE j \in DOMAIN segments : Holds(j, k)) = i
  BY <1>1
<1> QED
  BY <1>2 DEF At

LEMMA AtType ==
  ASSUME Ordered, NEW v \in Values, NEW k \in Nat
  PROVE  At(v)[k] \in Int
<1>1. CASE \E i \in DOMAIN segments : Holds(i, k)
  <2>1. PICK i \in DOMAIN segments : Holds(i, k)
    BY <1>1
  <2>2. At(v)[k] = v[i]
    BY <2>1, AtSegment
  <2> QED
    BY <2>2 DEF Values
<1>2. CASE ~ \E i \in DOMAIN segments : Holds(i, k)
  BY <1>2 DEF At
<1> QED
  BY <1>1, <1>2

(* No segment holds a step between the n-th and the next, or after the     *)
(* last.                                                                   *)
LEMMA AtGap ==
  ASSUME Ordered, NEW v, NEW n \in 0..Len(segments), NEW k \in Nat,
         EndOf(n) < k,
         n < Len(segments) => k <= segments[n + 1].start
  PROVE  At(v)[k] = 0
<1>1. ASSUME NEW i \in DOMAIN segments
      PROVE  ~Holds(i, k)
  <2>1. /\ i \in Nat /\ n \in Nat /\ EndOf(n) \in Nat
        /\ segments[i].start \in Nat /\ segments[i].end \in Nat
    BY SegmentFacts
  <2>2. CASE i <= n
    <3>1. n \in DOMAIN segments /\ EndOf(n) = segments[n].end /\ segments[n].end \in Nat
      BY <2>1, <2>2, SegmentFacts DEF EndOf
    <3>2. segments[i].end <= segments[n].end
      <4>1. CASE i < n
        <5>1. /\ segments[i].end <= segments[n].start
              /\ segments[n].start \in Nat /\ segments[n].start < segments[n].end
          BY <3>1, <4>1, SegmentFacts
        <5> QED
          BY <2>1, <3>1, <5>1
      <4>2. CASE i = n
        BY <2>1, <4>2
      <4> QED
        BY <2>1, <2>2, <4>1, <4>2
    <3> QED
      BY <2>1, <3>1, <3>2 DEF Holds
  <2>3. CASE i > n
    <3>1. n + 1 \in DOMAIN segments /\ n < Len(segments)
      BY <2>1, <2>3, SegmentFacts
    <3>2. segments[n + 1].start \in Nat /\ segments[n + 1].end \in Nat
      BY <3>1, SegmentFacts
    <3>3. segments[n + 1].start <= segments[i].start
      <4>1. CASE n + 1 < i
        <5>1. /\ segments[n + 1].end <= segments[i].start
              /\ segments[n + 1].start < segments[n + 1].end
          BY <3>1, <4>1, SegmentFacts
        <5> QED
          BY <2>1, <3>2, <5>1
      <4>2. CASE n + 1 = i
        BY <2>1, <4>2
      <4> QED
        BY <2>1, <2>3, <4>1, <4>2
    <3> QED
      BY <2>1, <3>1, <3>2, <3>3 DEF Holds
  <2> QED
    BY <2>1, <2>2, <2>3
<1> QED
  BY <1>1 DEF At

LEMMA UntilType ==
  ASSUME Ordered, NEW v \in Values
  PROVE  /\ \A t \in Nat : Until(v, t) \in Int
         /\ Until(v, 0) = 0
<1>1. ASSUME NEW t \in Nat
      PROVE  Until(v, t) \in Int
  <2>1. \A k \in 1..t : At(v)[k] \in Int
    BY AtType
  <2> QED
    BY <2>1, SumType DEF Until
<1> QED
  BY <1>1, SumRecurrence DEF Until

(* Within a segment the steps add its value each.                          *)
LEMMA UntilSegment ==
  ASSUME Ordered, NEW v \in Values, NEW i \in DOMAIN segments,
         NEW s \in Nat, NEW e \in Nat, s <= e,
         segments[i].start <= s, e <= segments[i].end
  PROVE  Until(v, e) = Until(v, s) + (e - s) * v[i]
<1>1. \A k \in 1..e : At(v)[k] \in Int
  BY AtType
<1>2. ASSUME NEW k \in (s + 1)..e
      PROVE  At(v)[k] = v[i]
  <2>1. k \in Nat /\ Holds(i, k)
    BY SegmentFacts DEF Holds
  <2> QED
    BY <2>1, AtSegment
<1>3. v[i] \in Int
  BY DEF Values
<1> QED
  BY <1>1, <1>2, <1>3, SumConstant DEF Until

(* In a gap, before the first segment or after the last, they add nothing. *)
LEMMA UntilGap ==
  ASSUME Ordered, NEW v \in Values, NEW n \in 0..Len(segments),
         NEW s \in Nat, NEW e \in Nat, s <= e,
         EndOf(n) <= s,
         n < Len(segments) => e <= segments[n + 1].start
  PROVE  Until(v, e) = Until(v, s)
<1>1. \A k \in 1..e : At(v)[k] \in Int
  BY AtType
<1>2. ASSUME NEW k \in (s + 1)..e
      PROVE  At(v)[k] = 0
  <2>1. /\ k \in Nat /\ EndOf(n) < k
        /\ n < Len(segments) => k <= segments[n + 1].start
    <3>1. /\ EndOf(n) \in Nat /\ k \in Nat
          /\ n < Len(segments) => segments[n + 1].start \in Nat
      BY SegmentFacts
    <3> QED
      BY <3>1
  <2> QED
    BY <2>1, AtGap
<1> DEFINE none == 0
<1>3. none \in Int /\ (e - s) * none = 0 /\ Until(v, s) \in Int
  BY UntilType
<1> HIDE DEF none
<1>4. \A k \in (s + 1)..e : At(v)[k] = none
  BY <1>2 DEF none
<1>5. Until(v, e) = Until(v, s) + (e - s) * none
  BY <1>1, <1>3, <1>4, SumConstant DEF Until
<1> QED
  BY <1>3, <1>5

-----------------------------------------------------------------------------
(* Resampling: what EnergyIn adds over the overlaps with a bucket is what  *)
(* the steps of the bucket add.                                            *)

Clip(t, b) == Lesser(Greater(t, b), b + Resolution)

LEMMA ClipFacts ==
  ASSUME NEW b \in Nat, NEW s \in Nat, NEW e \in Nat, s <= e
  PROVE  /\ Clip(s, b) \in b..(b + Resolution)
         /\ Clip(e, b) \in b..(b + Resolution)
         /\ Clip(s, b) <= Clip(e, b) /\ Clip(0, b) = b
         /\ Clip(s, b) < Clip(e, b) => s <= Clip(s, b) /\ Clip(e, b) <= e
         /\ Clip(e, b) - Clip(s, b)
              = Greater(0, Lesser(e, b + Resolution) - Greater(s, b))
<1>1. Resolution \in Nat \ {0}
  BY PebcAssumption
<1> QED
  BY <1>1 DEF Clip, Lesser, Greater

LEMMA OverlapType ==
  ASSUME Ordered, NEW i \in DOMAIN segments, NEW b \in Nat
  PROVE  /\ Overlap(segments[i], b) \in Nat
         /\ Overlap(segments[i], b)
              = Clip(segments[i].end, b) - Clip(segments[i].start, b)
<1>1. /\ segments[i].start \in Nat /\ segments[i].end \in Nat
      /\ segments[i].start <= segments[i].end
  BY SegmentFacts
<1>2. Overlap(segments[i], b)
        = Clip(segments[i].end, b) - Clip(segments[i].start, b)
  BY <1>1, ClipFacts DEF Overlap
<1>3. /\ Clip(segments[i].end, b) \in b..(b + Resolution)
      /\ Clip(segments[i].start, b) \in b..(b + Resolution)
      /\ Clip(segments[i].start, b) <= Clip(segments[i].end, b)
  BY <1>1, ClipFacts
<1>4. Resolution \in Nat
  BY PebcAssumption
<1> QED
  BY <1>2, <1>3, <1>4

LEMMA Resampled ==
  ASSUME Ordered, NEW v \in Values, NEW b \in Nat
  PROVE  EnergyIn(b, v) = Until(v, b + Resolution) - Until(v, b)
<1> DEFINE D == [i \in DOMAIN segments |-> v[i] * Overlap(segments[i], b)]
           S == {n \in Nat : n <= Len(segments) =>
                   SumUpTo(D, n) = Until(v, Clip(EndOf(n), b)) - Until(v, b)}
<1>0. Resolution \in Nat \ {0} /\ b + Resolution \in Nat
  BY PebcAssumption
<1>1. 0 \in S
  <2>1. EndOf(0) = 0 /\ Clip(0, b) = b
    BY ClipFacts DEF EndOf
  <2>2. Until(v, b) \in Int
    BY UntilType
  <2> QED
    BY <2>1, <2>2, SumRecurrence
<1>2. ASSUME NEW n \in Nat, n \in S
      PROVE  n + 1 \in S
  <2> SUFFICES ASSUME n + 1 <= Len(segments)
               PROVE  SumUpTo(D, n + 1)
                        = Until(v, Clip(EndOf(n + 1), b)) - Until(v, b)
    OBVIOUS
  <2> DEFINE i == n + 1
             s == segments[i].start
             e == segments[i].end
  <2>1. /\ i \in DOMAIN segments /\ n \in 0..Len(segments)
        /\ s \in Nat /\ e \in Nat /\ s < e /\ EndOf(n) \in Nat
        /\ EndOf(i) = e
    BY SegmentFacts DEF EndOf
  <2>2. EndOf(n) <= s
    <3>1. CASE n = 0
      BY <2>1, <3>1 DEF EndOf
    <3>2. CASE n # 0
      <4>1. n \in DOMAIN segments /\ n < i
        BY <2>1, <3>2, SegmentFacts
      <4> QED
        BY <2>1, <3>2, <4>1, SegmentFacts DEF EndOf
    <3> QED
      BY <3>1, <3>2
  <2>3. Until(v, Clip(s, b)) = Until(v, Clip(EndOf(n), b))
    <3>1. /\ Clip(EndOf(n), b) \in Nat /\ Clip(s, b) \in Nat
          /\ Clip(EndOf(n), b) <= Clip(s, b)
          /\ Clip(EndOf(n), b) < Clip(s, b) =>
               EndOf(n) <= Clip(EndOf(n), b) /\ Clip(s, b) <= s
      <4> DEFINE x == EndOf(n)
      <4>1. /\ b..(b + Resolution) \subseteq Nat
            /\ x \in Nat /\ s \in Nat /\ x <= s
        BY <1>0, <2>1, <2>2
      <4> HIDE DEF x, s
      <4>2. /\ Clip(x, b) \in b..(b + Resolution)
            /\ Clip(s, b) \in b..(b + Resolution)
            /\ Clip(x, b) <= Clip(s, b)
            /\ Clip(x, b) < Clip(s, b) => x <= Clip(x, b) /\ Clip(s, b) <= s
        BY <4>1, ClipFacts
      <4> QED
        BY <4>1, <4>2 DEF x
    <3>2. CASE Clip(EndOf(n), b) < Clip(s, b)
      BY <2>1, <3>1, <3>2, UntilGap
    <3>3. CASE Clip(EndOf(n), b) = Clip(s, b)
      BY <3>3
    <3> QED
      BY <3>1, <3>2, <3>3
  <2>4. Until(v, Clip(e, b))
          = Until(v, Clip(s, b)) + (Clip(e, b) - Clip(s, b)) * v[i]
    <3>1. /\ Clip(s, b) \in Nat /\ Clip(e, b) \in Nat
          /\ Clip(s, b) <= Clip(e, b)
          /\ Clip(s, b) < Clip(e, b) => s <= Clip(s, b) /\ Clip(e, b) <= e
      <4>1. b..(b + Resolution) \subseteq Nat /\ s <= e
        BY <1>0, <2>1
      <4> QED
        BY <2>1, <4>1, ClipFacts
    <3>2. CASE Clip(s, b) < Clip(e, b)
      BY <2>1, <3>1, <3>2, UntilSegment
    <3>3. CASE Clip(s, b) = Clip(e, b)
      <4>1. Until(v, Clip(s, b)) \in Int /\ v[i] \in Int
        BY <2>1, <3>1, UntilType DEF Values
      <4>2. (Clip(e, b) - Clip(s, b)) * v[i] = 0
        BY <3>1, <3>3, <4>1
      <4> QED
        BY <3>3, <4>1, <4>2
    <3> QED
      BY <3>1, <3>2, <3>3
  <2>5. D[i] = (Clip(e, b) - Clip(s, b)) * v[i] /\ D[i] \in Int
    <3>1. Overlap(segments[i], b) = Clip(e, b) - Clip(s, b)
      BY <2>1, OverlapType
    <3>2. Overlap(segments[i], b) \in Nat /\ v[i] \in Int
      BY <2>1, OverlapType DEF Values
    <3>3. D[i] = v[i] * Overlap(segments[i], b)
      BY <2>1
    <3> QED
      BY <3>1, <3>2, <3>3
  <2>6. SumUpTo(D, i) = SumUpTo(D, n) + D[i]
    BY SumRecurrence
  <2>7. SumUpTo(D, n) = Until(v, Clip(EndOf(n), b)) - Until(v, b)
    BY <1>2, <2>1
  <2>8. /\ Until(v, b) \in Int /\ Until(v, Clip(s, b)) \in Int
        /\ Until(v, Clip(e, b)) \in Int
    <3>1. Clip(s, b) \in Nat /\ Clip(e, b) \in Nat
      <4>1. b..(b + Resolution) \subseteq Nat /\ s <= e
        BY <1>0, <2>1
      <4> QED
        BY <2>1, <4>1, ClipFacts
    <3> QED
      BY <3>1, UntilType
  <2> HIDE DEF D, s, e, i
  <2>9. SumUpTo(D, i) = Until(v, Clip(e, b)) - Until(v, b)
    BY <2>3, <2>4, <2>5, <2>6, <2>7, <2>8
  <2> QED
    BY <2>1, <2>9 DEF i
<1> HIDE DEF S
<1>3. \A n \in Nat : n \in S
  BY <1>1, <1>2, Induction
<1> DEFINE l == Len(segments)
           c == Clip(EndOf(l), b)
<1>4. l \in Nat /\ l \in 0..l /\ EndOf(l) \in Nat
  BY SegmentFacts
<1>5. /\ c \in Nat /\ c <= b + Resolution
      /\ c < b + Resolution => EndOf(l) <= c
  BY <1>0, <1>4 DEF Clip, Lesser, Greater
<1>6. Until(v, b + Resolution) = Until(v, c)
  <2>1. CASE c < b + Resolution
    <3>1. EndOf(l) <= c /\ ~(l < l)
      BY <1>4, <1>5, <2>1
    <3> HIDE DEF c
    <3> QED
      BY <1>0, <1>4, <1>5, <3>1, UntilGap
  <2>2. CASE c = b + Resolution
    BY <2>2
  <2> QED
    BY <1>0, <1>5, <2>1, <2>2
<1>7. SumUpTo(D, l) = Until(v, c) - Until(v, b)
  BY <1>3, <1>4 DEF S
<1> QED
  BY <1>6, <1>7 DEF EnergyIn

-----------------------------------------------------------------------------
(* A bucket is covered if each of its steps is in a segment.               *)
LEMMA CoveredMeans ==
  ASSUME Ordered, NEW b \in Nat
  PROVE  Covered(b) <=> \A k \in (b + 1)..(b + Resolution) :
                          \E i \in DOMAIN segments : Holds(i, k)
<1> DEFINE ones == [i \in DOMAIN segments |-> 1]
           O == [i \in DOMAIN segments |-> Overlap(segments[i], b)]
           P == [i \in DOMAIN segments |-> ones[i] * Overlap(segments[i], b)]
           e == b + Resolution
           d == At(ones)
<1>0. Resolution \in Nat \ {0} /\ e \in Nat /\ b <= e
  BY PebcAssumption
<1>1. ones \in Values
  BY DEF Values
<1>2. SumUpTo(O, Len(segments)) = SumUpTo(P, Len(segments))
  <2>1. Len(segments) \in Nat /\ DOMAIN segments = 1..Len(segments)
    BY SegmentFacts
  <2>2. ASSUME NEW i \in 1..Len(segments)
        PROVE  O[i] = P[i]
    <3>1. Overlap(segments[i], b) \in Nat
      BY <2>1, OverlapType
    <3> QED
      BY <2>1, <3>1
  <2> HIDE DEF O, P
  <2>3. \A k \in 0..Len(segments) : SumUpTo(O, k) = SumUpTo(P, k)
    BY <2>1, <2>2, SumCongruence
  <2> QED
    BY <2>1, <2>3
<1>3. SumUpTo(P, Len(segments)) = SumUpTo(d, e) - SumUpTo(d, b)
  <2>1. EnergyIn(b, ones) = Until(ones, e) - Until(ones, b)
    BY <1>1, Resampled
  <2> QED
    BY <2>1 DEF EnergyIn, Until
<1>4. ASSUME NEW k \in Nat
      PROVE  /\ d[k] \in {0, 1}
             /\ d[k] = 1 <=> \E i \in DOMAIN segments : Holds(i, k)
  <2>1. CASE \E i \in DOMAIN segments : Holds(i, k)
    <3>1. PICK i \in DOMAIN segments : Holds(i, k)
      BY <2>1
    <3>2. ones[i] = 1
      OBVIOUS
    <3> HIDE DEF ones
    <3>3. d[k] = ones[i]
      BY <3>1, AtSegment
    <3> QED
      BY <3>1, <3>2, <3>3
  <2>2. CASE ~ \E i \in DOMAIN segments : Holds(i, k)
    BY <2>2 DEF At
  <2> QED
    BY <2>1, <2>2
<1> HIDE DEF d, ones
<1>5. SumUpTo(d, e) - SumUpTo(d, b) = e - b <=> \A k \in (b + 1)..e : d[k] = 1
  <2>1. \A k \in 1..e : d[k] \in {0, 1}
    BY <1>0, <1>4
  <2> QED
    BY <1>0, <2>1, SumOfOnes
<1>6. (\A k \in (b + 1)..e : d[k] = 1)
        <=> \A k \in (b + 1)..e : \E i \in DOMAIN segments : Holds(i, k)
  BY <1>0, <1>4
<1>7. e - b = Resolution
  BY <1>0
<1> QED
  BY <1>2, <1>3, <1>5, <1>6, <1>7 DEF Covered

-----------------------------------------------------------------------------
(* What Read, AddBaseline and Allocate make of the segments.               *)

SegmentsFit ==
  \A i \in DOMAIN segments :
    /\ segments[i].end <= cursor /\ segments[i].end <= frame.until
    /\ segments[i].power \in Multiples
    /\ segments[i].power \in frame.lowest..frame.highest
    /\ segments[i].room.UPWARD <= segments[i].power - frame.lowest
    /\ segments[i].room.DOWNWARD <= frame.highest - segments[i].power
    /\ \A j \in 1..(i - 1) : segments[j].end <= segments[i].start

EnergiesAdd ==
  \A i \in DOMAIN ends :
    ends[i] = StoredBefore(i) + segments[i].power * Duration(segments[i])

SharesFit ==
  \A i \in DOMAIN taken, d \in Directions :
    taken[i][d] - TakenBefore(d, i)
      <= segments[i].room[d] * Duration(segments[i])

(* The second list of segments is complete.                                *)
Reckoned ==
  /\ IInv /\ SegmentsFit /\ EnergiesAdd /\ SharesFit
  /\ segments # <<>> /\ Len(taken) = Len(segments)

Powers == [i \in DOMAIN segments |-> segments[i].power]

Left(d) == [i \in DOMAIN segments |-> PowerLeft(d, i)]

LEMMA ReckonedFacts ==
  ASSUME Reckoned
  PROVE  /\ Ordered /\ Powers \in Values
         /\ Len(segments) \in Nat \ {0}
         /\ DOMAIN segments = 1..Len(segments)
         /\ DOMAIN ends = DOMAIN segments /\ DOMAIN taken = DOMAIN segments
         /\ frame \in FrameType
<1>1. Ordered
  <2>1. DOMAIN taken = DOMAIN segments
    BY DEF Reckoned, IInv, TypeOK
  <2> QED
    BY <2>1 DEF Reckoned, IInv, TypeOK, SegmentsFit, Ordered
<1>2. Powers \in Values
  BY DEF Reckoned, SegmentsFit, Powers, Values, Multiples
<1>3. /\ Len(segments) \in Nat \ {0} /\ DOMAIN segments = 1..Len(segments)
      /\ taken # <<>>
  BY DEF Reckoned, IInv, TypeOK
<1>4. Len(ends) = Len(segments) /\ frame \in FrameType
  BY <1>3 DEF Reckoned, IInv, InOrder
<1>5. DOMAIN ends = DOMAIN segments /\ DOMAIN taken = DOMAIN segments
  BY <1>3, <1>4 DEF Reckoned, IInv, TypeOK
<1> QED
  BY <1>1, <1>2, <1>3, <1>4, <1>5

LEMMA FrameFacts ==
  ASSUME frame \in FrameType
  PROVE  /\ frame.envelope.initial \in Int
         /\ frame.envelope.minEnergy \in Int /\ frame.envelope.maxEnergy \in Int
         /\ frame.envelope.minEnergy <= frame.envelope.initial
         /\ frame.envelope.initial <= frame.envelope.maxEnergy
         /\ frame.lowest \in Int /\ frame.highest \in Int /\ frame.until \in Int
BY EnvelopeAssumption DEF FrameType, EnvelopeType, Multiples

(* Rounding down of a quotient.                                            *)
LEMMA Quotient ==
  ASSUME NEW x \in Nat, NEW n \in Nat \ {0}, NEW r \in Nat, x <= r * n
  PROVE  /\ x \div n \in Nat /\ (x \div n) * n <= x /\ x \div n <= r
<1>1. x \div n \in Nat /\ (x \div n) * n <= x
  OBVIOUS
<1>2. ASSUME x \div n >= r + 1
      PROVE  FALSE
  <2>1. (x \div n) * n >= (r + 1) * n
    BY <1>1, <1>2
  <2>2. (r + 1) * n = r * n + n
    OBVIOUS
  <2> QED
    BY <1>1, <2>1, <2>2
<1> QED
  BY <1>1, <1>2

(* The power left to a segment is within its room, and lasts for all of it.*)
LEMMA LeftFacts ==
  ASSUME Reckoned, NEW d \in Directions, NEW i \in DOMAIN segments
  PROVE  /\ PowerLeft(d, i) \in Nat
         /\ PowerLeft(d, i) <= segments[i].room[d]
         /\ Duration(segments[i]) \in Nat \ {0}
         /\ TakenBefore(d, i) \in Nat /\ taken[i][d] \in Nat
         /\ PowerLeft(d, i) * Duration(segments[i])
              <= taken[i][d] - TakenBefore(d, i)
<1>1. /\ segments[i].room[d] \in Nat /\ Duration(segments[i]) \in Nat \ {0}
      /\ i \in Nat \ {0}
  <2>1. segments[i] \in SegmentType /\ segments[i].start < segments[i].end
    BY ReckonedFacts, SegmentFacts
  <2> QED
    BY <2>1, ReckonedFacts DEF SegmentType, Duration
<1>2. \A k \in DOMAIN segments : taken[k][d] \in Nat
  <2>1. \A k \in DOMAIN taken : taken[k][d] \in Int /\ 0 <= taken[k][d]
    BY DEF Reckoned, IInv, TypeOK, Quantities, WithinBudget
  <2> QED
    BY <2>1, ReckonedFacts
<1>3. TakenBefore(d, i) \in Nat
  <2>1. i # 1 => i - 1 \in DOMAIN segments
    BY <1>1, ReckonedFacts
  <2> QED
    BY <1>2, <2>1 DEF TakenBefore
<1>4. /\ TakenBefore(d, i) <= taken[i][d]
      /\ taken[i][d] - TakenBefore(d, i)
           <= segments[i].room[d] * Duration(segments[i])
  BY ReckonedFacts DEF Reckoned, IInv, WithinBudget, SharesFit
<1>5. taken[i][d] - TakenBefore(d, i) \in Nat
  BY <1>2, <1>3, <1>4
<1> QED
  BY <1>1, <1>2, <1>3, <1>4, <1>5, Quotient DEF PowerLeft

-----------------------------------------------------------------------------
(* Straight lines stay between their ends.                                 *)
LEMMA Line ==
  ASSUME NEW x \in Int, NEW p \in Int, NEW n \in Nat, NEW k \in 0..n
  PROVE  /\ x + k * p \in Int
         /\ \A low \in Int :
              low <= x /\ low <= x + n * p => low <= x + k * p
         /\ \A high \in Int :
              x <= high /\ x + n * p <= high => x + k * p <= high
<1>1. n * p \in Int /\ k * p \in Int /\ k \in Nat /\ k <= n
  OBVIOUS
<1>2. CASE p >= 0
  <2>1. 0 <= k * p /\ k * p <= n * p
    BY <1>1, <1>2
  <2> QED
    BY <1>1, <2>1
<1>3. CASE p < 0
  <2>1. k * p <= 0 /\ n * p <= k * p
    BY <1>1, <1>3
  <2> QED
    BY <1>1, <2>1
<1> QED
  BY <1>2, <1>3

(* The same of a line with a second one taken from it or added to it.      *)
LEMMA TwoLines ==
  ASSUME NEW x \in Int, NEW u \in Int, NEW w \in Int,
         NEW p \in Int, NEW q \in Int, NEW r \in Int,
         NEW n \in Nat, NEW k \in 0..n, NEW low \in Int, NEW high \in Int,
         low <= x - u, low <= (x + n * p) - (u + n * q),
         x + w <= high, (x + n * p) + (w + n * r) <= high
  PROVE  /\ low <= (x + k * p) - (u + k * q)
         /\ (x + k * p) + (w + k * r) <= high
<1>1. \A m \in Nat : /\ m * p \in Int /\ m * q \in Int /\ m * r \in Int
                    /\ m * (p - q) = m * p - m * q
                    /\ m * (p + r) = m * p + m * r
  OBVIOUS
<1>2. k \in Nat
  OBVIOUS
<1>3. /\ low <= (x - u) + n * (p - q)
      /\ (x + w) + n * (p + r) <= high
  <2> HIDE <1>2
  <2>1. /\ n * p \in Int /\ n * q \in Int /\ n * r \in Int
        /\ n * (p - q) = n * p - n * q /\ n * (p + r) = n * p + n * r
    BY <1>1
  <2> QED
    BY <2>1
<1>4. low <= (x - u) + k * (p - q)
  <2> DEFINE y == x - u
             z == p - q
  <2>1. y \in Int /\ z \in Int /\ low <= y /\ low <= y + n * z
    BY <1>3
  <2> HIDE DEF y, z
  <2>2. low <= y + k * z
    BY <2>1, Line
  <2> QED
    BY <2>2 DEF y, z
<1>5. (x + w) + k * (p + r) <= high
  <2> DEFINE y == x + w
             z == p + r
  <2>1. y \in Int /\ z \in Int /\ y <= high /\ y + n * z <= high
    BY <1>3
  <2> HIDE DEF y, z
  <2>2. y + k * z <= high
    BY <2>1, Line
  <2> QED
    BY <2>2 DEF y, z
<1>6. /\ k * p \in Int /\ k * q \in Int /\ k * r \in Int
      /\ k * (p - q) = k * p - k * q /\ k * (p + r) = k * p + k * r
  BY <1>1, <1>2
<1> QED
  BY <1>4, <1>5, <1>6

LEMMA LeftValues ==
  ASSUME Reckoned, NEW d \in Directions
  PROVE  Left(d) \in Values
BY LeftFacts DEF Left, Values

(* The stored energy of the forecast, less all that was promised UPWARD    *)
(* so far, or with all that was promised DOWNWARD.                         *)
Least(t) ==
  (frame.envelope.initial + Until(Powers, t)) - Until(Left("UPWARD"), t)

Most(t) ==
  (frame.envelope.initial + Until(Powers, t)) + Until(Left("DOWNWARD"), t)

WithinEnvelope(t) ==
  frame.envelope.minEnergy <= Least(t) /\ Most(t) <= frame.envelope.maxEnergy

(* What is left of the forecast and the shares after n segments.           *)
Balance(n) ==
  /\ frame.envelope.initial + Until(Powers, EndOf(n))
       = IF n = 0 THEN frame.envelope.initial ELSE ends[n]
  /\ \A d \in Directions :
       Until(Left(d), EndOf(n)) <= IF n = 0 THEN 0 ELSE taken[n][d]
  /\ \A t \in 0..EndOf(n) : WithinEnvelope(t)

LEMMA UntilTypes ==
  ASSUME Reckoned, NEW t \in Nat
  PROVE  /\ Until(Powers, t) \in Int
         /\ \A d \in Directions : Until(Left(d), t) \in Int
         /\ Until(Left("UPWARD"), t) \in Int
         /\ Until(Left("DOWNWARD"), t) \in Int
         /\ Least(t) \in Int /\ Most(t) \in Int
<1>1. Until(Powers, t) \in Int /\ \A d \in Directions : Until(Left(d), t) \in Int
  BY ReckonedFacts, LeftValues, UntilType
<1>2. "UPWARD" \in Directions /\ "DOWNWARD" \in Directions
  BY DEF Directions
<1>3. frame.envelope.initial \in Int
  BY ReckonedFacts, FrameFacts
<1> QED
  BY <1>1, <1>2, <1>3 DEF Least, Most

(* Where segment i begins, in the gap before it, and where it ends.        *)
LEMMA BeforeSegment ==
  ASSUME Reckoned, NEW n \in Nat, n < Len(segments), Balance(n)
  PROVE  /\ n + 1 \in DOMAIN segments
         /\ frame.envelope.initial + Until(Powers, segments[n + 1].start)
              = StoredBefore(n + 1)
         /\ \A d \in Directions :
              Until(Left(d), segments[n + 1].start) <= TakenBefore(d, n + 1)
         /\ \A t \in 0..segments[n + 1].start : WithinEnvelope(t)
<1> DEFINE s == segments[n + 1].start
           e == EndOf(n)
<1>1. /\ n + 1 \in DOMAIN segments /\ n \in 0..Len(segments)
      /\ e \in Nat /\ s \in Nat /\ e <= s
  <2>1. n + 1 \in DOMAIN segments /\ n \in 0..Len(segments)
    BY ReckonedFacts
  <2>2. CASE n = 0
    BY <2>1, <2>2, ReckonedFacts, SegmentFacts DEF EndOf
  <2>3. CASE n # 0
    <3>1. n \in DOMAIN segments /\ n < n + 1
      BY <2>1, <2>3, ReckonedFacts
    <3>2. segments[n].end <= s /\ segments[n].end \in Nat /\ s \in Nat
      BY <2>1, <3>1, ReckonedFacts, SegmentFacts
    <3> QED
      BY <2>1, <2>3, <3>2 DEF EndOf
  <2> QED
    BY <2>2, <2>3
<1> HIDE DEF e
<1>2. ASSUME NEW t \in e..s
      PROVE  /\ Until(Powers, t) = Until(Powers, e)
             /\ \A d \in Directions : Until(Left(d), t) = Until(Left(d), e)
  <2>1. t \in Nat /\ e <= t /\ t <= s /\ EndOf(n) <= e
    BY <1>1 DEF e
  <2>2. \A v \in Values : Until(v, t) = Until(v, e)
    BY <1>1, <2>1, ReckonedFacts, UntilGap
  <2> QED
    BY <2>2, ReckonedFacts, LeftValues
<1>3. s \in e..s /\ e \in e..s
  BY <1>1
<1>4. frame.envelope.initial + Until(Powers, s) = StoredBefore(n + 1)
  <2>1. frame.envelope.initial + Until(Powers, s)
          = IF n = 0 THEN frame.envelope.initial ELSE ends[n]
    BY <1>2, <1>3 DEF Balance, e
  <2> QED
    BY <2>1 DEF StoredBefore
<1>5. ASSUME NEW d \in Directions
      PROVE  Until(Left(d), s) <= TakenBefore(d, n + 1)
  <2>1. Until(Left(d), s) <= IF n = 0 THEN 0 ELSE taken[n][d]
    BY <1>2, <1>3 DEF Balance, e
  <2> QED
    BY <2>1 DEF TakenBefore
<1>6. ASSUME NEW t \in 0..s
      PROVE  WithinEnvelope(t)
  <2>1. CASE t <= e
    BY <1>1, <2>1 DEF Balance, e
  <2>2. CASE t > e
    <3>1. t \in e..s
      BY <1>1, <2>2
    <3>2. Least(t) = Least(e) /\ Most(t) = Most(e)
      BY <1>2, <3>1 DEF Least, Most, Directions
    <3>3. WithinEnvelope(e)
      BY <1>1 DEF Balance, e
    <3> QED
      BY <3>2, <3>3 DEF WithinEnvelope
  <2> QED
    BY <1>1, <2>1, <2>2
<1> QED
  BY <1>1, <1>4, <1>5, <1>6

LEMMA AfterSegment ==
  ASSUME Reckoned, NEW n \in Nat, n < Len(segments), Balance(n)
  PROVE  Balance(n + 1)
<1> DEFINE i == n + 1
           s == segments[i].start
           e == segments[i].end
           p == Powers[i]
           l(d) == Left(d)[i]
<1>1. /\ i \in DOMAIN segments /\ i # 0 /\ i \in Nat
      /\ s \in Nat /\ e \in Nat /\ s < e /\ EndOf(i) = e
      /\ p = segments[i].power /\ p \in Int
      /\ \A d \in Directions : l(d) = PowerLeft(d, i) /\ l(d) \in Nat
      /\ Duration(segments[i]) = e - s
  <2>1. i \in DOMAIN segments
    BY BeforeSegment
  <2> QED
    BY <2>1, ReckonedFacts, SegmentFacts, LeftFacts
    DEF EndOf, Powers, Left, Values, Duration
<1>2. /\ frame.envelope.initial + Until(Powers, s) = StoredBefore(i)
      /\ \A d \in Directions : Until(Left(d), s) <= TakenBefore(d, i)
      /\ \A t \in 0..s : WithinEnvelope(t)
  BY BeforeSegment
<1>3. ASSUME NEW t \in s..e
      PROVE  /\ Until(Powers, t) = Until(Powers, s) + (t - s) * p
             /\ \A d \in Directions :
                  Until(Left(d), t) = Until(Left(d), s) + (t - s) * l(d)
  <2>1. t \in Nat /\ s <= t /\ t <= e /\ segments[i].start <= s
    BY <1>1
  <2>2. \A v \in Values : Until(v, t) = Until(v, s) + (t - s) * v[i]
    BY <1>1, <2>1, ReckonedFacts, UntilSegment
  <2> QED
    BY <2>2, ReckonedFacts, LeftValues
<1>4. e \in s..e /\ s \in 0..s /\ e - s \in Nat
  BY <1>1
<1>5. /\ frame.envelope.initial \in Int
      /\ frame.envelope.minEnergy \in Int /\ frame.envelope.maxEnergy \in Int
  BY ReckonedFacts, FrameFacts
<1>6. /\ Until(Powers, s) \in Int /\ Until(Powers, e) \in Int
      /\ \A d \in Directions :
           Until(Left(d), s) \in Int /\ Until(Left(d), e) \in Int
  BY <1>1, UntilTypes
<1>7. frame.envelope.initial + Until(Powers, e) = ends[i]
  <2>1. ends[i] = StoredBefore(i) + segments[i].power * Duration(segments[i])
    BY <1>1, ReckonedFacts DEF Reckoned, EnergiesAdd
  <2>2. ends[i] = frame.envelope.initial + Until(Powers, s) + p * (e - s)
    BY <1>1, <1>2, <2>1
  <2>3. Until(Powers, e) = Until(Powers, s) + (e - s) * p
    BY <1>3, <1>4
  <2>4. p * (e - s) = (e - s) * p /\ p * (e - s) \in Int
    BY <1>1
  <2> HIDE DEF p, s, e
  <2> QED
    BY <1>5, <1>6, <2>2, <2>3, <2>4
<1>8. ASSUME NEW d \in Directions
      PROVE  Until(Left(d), e) <= taken[i][d]
  <2>1. Until(Left(d), e) = Until(Left(d), s) + (e - s) * l(d)
    BY <1>3, <1>4
  <2>2. /\ l(d) * (e - s) <= taken[i][d] - TakenBefore(d, i)
        /\ TakenBefore(d, i) \in Nat /\ taken[i][d] \in Nat
    BY <1>1, LeftFacts
  <2>3. l(d) * (e - s) = (e - s) * l(d) /\ l(d) * (e - s) \in Int
    BY <1>1
  <2>4. Until(Left(d), s) <= TakenBefore(d, i)
    BY <1>2
  <2> HIDE DEF l, s, e, i
  <2> QED
    BY <1>6, <2>1, <2>2, <2>3, <2>4
(* At its end what is left is the headroom less what was taken. *)
<1>9. WithinEnvelope(e)
  <2>1. ASSUME NEW d \in Directions
        PROVE  Until(Left(d), e) <= Headroom(d, i)
    <3>1. /\ taken[i][d] \in Nat /\ taken[i][d] <= Budget(d, i)
          /\ Budget(d, i) \in Nat /\ Budget(d, i) <= Headroom(d, i)
          /\ Headroom(d, i) \in Nat
      <4>1. Len(ends) = Len(segments) /\ i \in DOMAIN ends /\ i \in DOMAIN taken
        BY <1>1, ReckonedFacts DEF Reckoned, IInv, InOrder
      <4> QED
        BY <1>1, <4>1, LeftFacts, BudgetType, HeadroomType
        DEF Reckoned, IInv, WithinBudget
    <3>2. Until(Left(d), e) <= taken[i][d] /\ Until(Left(d), e) \in Int
      BY <1>6, <1>8
    <3> QED
      BY <3>1, <3>2
  <2>2. ends[i] \in Int
    BY <1>5, <1>6, <1>7
  <2>3. /\ Until(Left("UPWARD"), e) <= ends[i] - frame.envelope.minEnergy
        /\ Until(Left("DOWNWARD"), e) <= frame.envelope.maxEnergy - ends[i]
        /\ Until(Left("UPWARD"), e) \in Int /\ Until(Left("DOWNWARD"), e) \in Int
    BY <1>6, <2>1 DEF Headroom, Directions
  <2>4. Until(Powers, e) \in Int
    BY <1>6
  <2> HIDE DEF e, i
  <2>5. /\ Least(e) = ends[i] - Until(Left("UPWARD"), e)
        /\ Most(e) = ends[i] + Until(Left("DOWNWARD"), e)
    BY <1>5, <1>7, <2>3, <2>4 DEF Least, Most
  <2> QED
    BY <1>5, <2>2, <2>3, <2>5 DEF WithinEnvelope
<1>10. ASSUME NEW t \in s..e
       PROVE  WithinEnvelope(t)
  <2> DEFINE up == l("UPWARD")
             down == l("DOWNWARD")
  <2>1. /\ up \in Nat /\ down \in Nat
        /\ Until(Powers, t) = Until(Powers, s) + (t - s) * p
        /\ Until(Left("UPWARD"), t) = Until(Left("UPWARD"), s) + (t - s) * up
        /\ Until(Left("DOWNWARD"), t)
             = Until(Left("DOWNWARD"), s) + (t - s) * down
        /\ Until(Powers, e) = Until(Powers, s) + (e - s) * p
        /\ Until(Left("UPWARD"), e) = Until(Left("UPWARD"), s) + (e - s) * up
        /\ Until(Left("DOWNWARD"), e)
             = Until(Left("DOWNWARD"), s) + (e - s) * down
    BY <1>1, <1>3, <1>4 DEF Directions
  <2> DEFINE x == frame.envelope.initial + Until(Powers, s)
             u == Until(Left("UPWARD"), s)
             w == Until(Left("DOWNWARD"), s)
             low == frame.envelope.minEnergy
             high == frame.envelope.maxEnergy
             m == e - s
             k == t - s
  <2>2. /\ x \in Int /\ u \in Int /\ w \in Int
        /\ low \in Int /\ high \in Int
        /\ up \in Int /\ down \in Int /\ p \in Int
        /\ m \in Nat /\ k \in 0..m
    <3>1. "UPWARD" \in Directions /\ "DOWNWARD" \in Directions
      BY DEF Directions
    <3>2. u \in Int /\ w \in Int
      BY <1>6, <3>1
    <3>3. x \in Int /\ low \in Int /\ high \in Int
      BY <1>5, <1>6
    <3>4. up \in Int /\ down \in Int /\ p \in Int
      BY <1>1, <2>1
    <3>5. m \in Nat /\ k \in 0..m
      BY <1>1
    <3> QED
      BY <3>2, <3>3, <3>4, <3>5
  <2>3. WithinEnvelope(s) /\ WithinEnvelope(e)
    BY <1>2, <1>4, <1>9
  <2>4. /\ Least(s) = x - u /\ Most(s) = x + w
        /\ Least(e) = (x + m * p) - (u + m * up)
        /\ Most(e) = (x + m * p) + (w + m * down)
        /\ Least(t) = (x + k * p) - (u + k * up)
        /\ Most(t) = (x + k * p) + (w + k * down)
    <3>1. /\ m * p \in Int /\ k * p \in Int
          /\ Until(Powers, e) = Until(Powers, s) + m * p
          /\ Until(Powers, t) = Until(Powers, s) + k * p
      <4>1. m \in Int /\ k \in Int /\ p \in Int
        BY <2>2
      <4>2. /\ Until(Powers, e) = Until(Powers, s) + m * p
            /\ Until(Powers, t) = Until(Powers, s) + k * p
        BY <2>1
      <4> HIDE DEF m, k, p
      <4> QED
        BY <4>1, <4>2
    <3>2. /\ frame.envelope.initial + Until(Powers, e) = x + m * p
          /\ frame.envelope.initial + Until(Powers, t) = x + k * p
      <4> HIDE DEF m, k, p, e, s
      <4> QED
        BY <1>5, <1>6, <3>1
    <3>3. /\ Until(Left("UPWARD"), t) = u + k * up
          /\ Until(Left("DOWNWARD"), t) = w + k * down
          /\ Until(Left("UPWARD"), e) = u + m * up
          /\ Until(Left("DOWNWARD"), e) = w + m * down
      BY <2>1
    <3>4. /\ Least(s) = x - u /\ Most(s) = x + w
      BY DEF Least, Most
    <3> HIDE DEF x, u, w, m, k, p, up, down, e, s, l
    <3> QED
      BY <3>2, <3>3, <3>4 DEF Least, Most
  <2> HIDE DEF x, u, w, m, k, p, up, down, low, high, e, s, l
  <2>5. /\ low <= x - u /\ low <= (x + m * p) - (u + m * up)
        /\ x + w <= high /\ (x + m * p) + (w + m * down) <= high
    BY <2>3, <2>4 DEF WithinEnvelope, low, high
  <2>6. /\ low <= (x + k * p) - (u + k * up)
        /\ (x + k * p) + (w + k * down) <= high
    BY <2>2, <2>5, TwoLines
  <2> QED
    BY <2>4, <2>6 DEF WithinEnvelope, low, high
<1>11. \A t \in 0..e : WithinEnvelope(t)
  <2>1. \A t \in 0..e : t \in 0..s \/ t \in s..e
    BY <1>1
  <2> QED
    BY <1>2, <1>10, <2>1
<1> QED
  BY <1>1, <1>7, <1>8, <1>11 DEF Balance

(* The forecast with all that was promised in one direction stays within   *)
(* the envelope, up to the end of the last segment.                        *)
LEMMA EnvelopeKept ==
  ASSUME Reckoned
  PROVE  \A t \in 0..EndOf(Len(segments)) : WithinEnvelope(t)
<1> DEFINE S == {n \in Nat : n <= Len(segments) => Balance(n)}
<1>1. 0 \in S
  <2>1. EndOf(0) = 0 /\ 0..0 = {0}
    BY DEF EndOf
  <2>2. /\ Until(Powers, 0) = 0
        /\ \A d \in Directions : Until(Left(d), 0) = 0
    BY ReckonedFacts, LeftValues, UntilType
  <2>3. WithinEnvelope(0)
    BY <2>2, ReckonedFacts, FrameFacts
    DEF WithinEnvelope, Least, Most, Directions
  <2>4. frame.envelope.initial + Until(Powers, 0) = frame.envelope.initial
    BY <2>2, ReckonedFacts, FrameFacts
  <2> QED
    BY <2>1, <2>2, <2>3, <2>4 DEF Balance
<1>2. ASSUME NEW n \in Nat, n \in S
      PROVE  n + 1 \in S
  <2> SUFFICES ASSUME n + 1 <= Len(segments) PROVE Balance(n + 1)
    OBVIOUS
  <2>1. n < Len(segments) /\ n <= Len(segments)
    BY ReckonedFacts
  <2> QED
    BY <1>2, <2>1, AfterSegment
<1> HIDE DEF S
<1>3. Len(segments) \in S
  BY <1>1, <1>2, Induction, ReckonedFacts
<1>4. Len(segments) <= Len(segments)
  BY ReckonedFacts
<1> QED
  BY <1>3, <1>4 DEF S, Balance

-----------------------------------------------------------------------------
(* Buckets do not overlap.                                                 *)
LEMMA Apart ==
  ASSUME NEW b \in Nat, NEW c \in Nat,
         b % Resolution = 0, c % Resolution = 0, b < c
  PROVE  b + Resolution <= c
<1> DEFINE m == b \div Resolution
           n == c \div Resolution
<1>1. Resolution \in Nat \ {0}
  BY PebcAssumption
<1>2. /\ m \in Nat /\ n \in Nat
      /\ b = Resolution * m /\ c = Resolution * n
  BY <1>1
<1> HIDE DEF m, n
<1>3. m < n
  <2> SUFFICES ASSUME n <= m PROVE FALSE
    BY <1>2
  <2>1. Resolution * n <= Resolution * m
    BY <1>1, <1>2
  <2> QED
    BY <1>2, <2>1
<1>4. Resolution * (m + 1) <= Resolution * n
  BY <1>1, <1>2, <1>3
<1>5. Resolution * (m + 1) = Resolution * m + Resolution
  BY <1>1, <1>2
<1> QED
  BY <1>1, <1>2, <1>4, <1>5

(* The buckets the third loop has passed, and what it has offered of them. *)
Passed == {b \in 0..(bucket - 1) :
             b % Resolution = 0 /\ segments[1].start <= b}

Offered ==
  /\ Reckoned
  /\ \A b \in Passed : b + Resolution <= FinalEnd
  /\ offers = {Offer(b) : b \in {c \in Passed : Covered(c)}}

LEMMA OfferFacts ==
  ASSUME Offered, NEW o \in offers
  PROVE  /\ o.start \in Nat /\ o.start % Resolution = 0
         /\ o.start + Resolution <= FinalEnd
         /\ Covered(o.start) /\ o = Offer(o.start)
<1>1. PICK b \in Passed : Covered(b) /\ o = Offer(b)
  BY DEF Offered
<1>2. o.start = b
  BY <1>1 DEF Offer
<1>3. b \in Nat
  BY DEF Passed, Offered, Reckoned, IInv, TypeOK
<1> QED
  BY <1>1, <1>2, <1>3 DEF Passed, Offered

LEMMA FinalEndFacts ==
  ASSUME Reckoned
  PROVE  /\ FinalEnd = EndOf(Len(segments))
         /\ FinalEnd \in Nat /\ FinalEnd <= frame.until
<1>1. /\ Len(segments) \in DOMAIN segments /\ Len(segments) # 0
      /\ segments[Len(segments)].end \in Nat
      /\ frame.until \in Int
  BY ReckonedFacts, SegmentFacts, FrameFacts
<1>2. segments[Len(segments)].end <= frame.until
  BY <1>1 DEF Reckoned, SegmentsFit
<1> QED
  BY <1>1, <1>2 DEF FinalEnd, EndOf, Lesser

(* Two offers that share a moment are one.                                 *)
LEMMA OffersApart ==
  ASSUME Offered, NEW o \in offers, NEW p \in offers,
         NEW t \in Nat, o.start <= t, t < o.start + Resolution,
         p.start <= t, t < p.start + Resolution
  PROVE  o = p
<1>1. /\ o.start \in Nat /\ o.start % Resolution = 0
      /\ p.start \in Nat /\ p.start % Resolution = 0
      /\ Resolution \in Nat
  BY OfferFacts, PebcAssumption
<1>2. ~(o.start < p.start) /\ ~(p.start < o.start)
  BY <1>1, Apart
<1>3. o.start = p.start
  BY <1>1, <1>2
<1> QED
  BY <1>3, OfferFacts

LEMMA ExactQuotient ==
  ASSUME NEW p \in Int, NEW n \in Nat \ {0}, p % n = 0
  PROVE  p \div n \in Int /\ p = n * (p \div n)
OBVIOUS

(* Every power of a forecast is a multiple of Resolution.                  *)
LEMMA PowersDivide ==
  ASSUME Reckoned, NEW k \in Nat
  PROVE  \E x \in Int : At(Powers)[k] = Resolution * x
<1>1. /\ Resolution \in Nat \ {0} /\ Unit \in Nat \ {0}
      /\ Unit % Resolution = 0
  BY PebcAssumption
<1>2. CASE \E i \in DOMAIN segments : Holds(i, k)
  <2>1. PICK i \in DOMAIN segments : Holds(i, k)
    BY <1>2
  <2>2. At(Powers)[k] = segments[i].power
    BY <2>1, AtSegment, ReckonedFacts DEF Powers
  <2> DEFINE p == segments[i].power
             a == p \div Unit
             c == Unit \div Resolution
  <2>3. p \in Int /\ p % Unit = 0
    BY DEF Reckoned, SegmentsFit, Multiples
  <2>4. a \in Int /\ c \in Int /\ p = Unit * a /\ Unit = Resolution * c
    <3> HIDE DEF p
    <3> QED
      BY <1>1, <2>3, ExactQuotient
  <2> HIDE DEF p, a, c
  <2>5. c * a \in Int /\ (Resolution * c) * a = Resolution * (c * a)
    BY <1>1, <2>4
  <2>6. p = Resolution * (c * a)
    BY <2>4, <2>5
  <2> QED
    BY <2>2, <2>5, <2>6 DEF p
<1>3. CASE ~ \E i \in DOMAIN segments : Holds(i, k)
  <2>1. At(Powers)[k] = 0
    BY <1>3 DEF At
  <2>2. Resolution * 0 = 0
    BY <1>1
  <2> QED
    BY <2>1, <2>2
<1> QED
  BY <1>2, <1>3

(* The average over a bucket is exact.                                     *)
LEMMA BaselineFacts ==
  ASSUME Offered, NEW o \in offers
  PROVE  /\ o.baseline \in Int
         /\ Until(Powers, o.start + Resolution)
              = Until(Powers, o.start) + Resolution * o.baseline
<1> DEFINE b == o.start
           e == b + Resolution
           d == At(Powers)
           q == [k \in Nat |-> CHOOSE x \in Int : d[k] = Resolution * x]
<1>1. Resolution \in Nat \ {0} /\ b \in Nat /\ e \in Nat
  BY OfferFacts, PebcAssumption
<1>2. o.baseline = EnergyIn(b, Powers) \div Resolution
  <2>1. o = Offer(b)
    BY OfferFacts
  <2> HIDE DEF b
  <2> QED
    BY <2>1 DEF Offer, Powers
<1>3. EnergyIn(b, Powers) = SumUpTo(d, e) - SumUpTo(d, b)
  <2>1. Reckoned
    BY DEF Offered
  <2> HIDE DEF b
  <2> QED
    BY <1>1, <2>1, ReckonedFacts, Resampled DEF Until
<1>4. \A k \in 1..e : q[k] \in Int /\ d[k] = Resolution * q[k]
  <2>1. \A k \in 1..e : k \in Nat
    BY <1>1
  <2>2. \A k \in Nat : \E x \in Int : d[k] = Resolution * x
    BY PowersDivide DEF Offered
  <2> HIDE DEF d
  <2> QED
    BY <2>1, <2>2
<1> HIDE DEF q, d, e
<1>5. \A k \in 0..e : SumUpTo(d, k) = Resolution * SumUpTo(q, k)
  BY <1>1, <1>4, SumScaled
<1>6. \A k \in 0..e : SumUpTo(q, k) \in Int
  BY <1>1, <1>4, SumType
<1> DEFINE y == SumUpTo(q, e)
           z == SumUpTo(q, b)
<1>0. b \in 0..e /\ e \in 0..e
  BY <1>1 DEF e
<1> HIDE DEF b
<1>7. /\ y \in Int /\ z \in Int
      /\ SumUpTo(d, e) = Resolution * y /\ SumUpTo(d, b) = Resolution * z
  BY <1>0, <1>5, <1>6
<1> HIDE DEF y, z
<1>8. /\ Resolution * y - Resolution * z = Resolution * (y - z)
      /\ (Resolution * (y - z)) \div Resolution = y - z
      /\ Resolution * y = Resolution * z + Resolution * (y - z)
  BY <1>1, <1>7
<1>9. o.baseline = y - z
  BY <1>2, <1>3, <1>7, <1>8
<1> QED
  BY <1>7, <1>8, <1>9 DEF Until, d, e, b

(* Every step of an offered bucket has at least the capacity left.         *)
LEMMA CapacityFacts ==
  ASSUME Offered, NEW o \in offers, NEW d \in Directions
  PROVE  /\ o.capacity[d] \in Nat
         /\ \A k \in (o.start + 1)..(o.start + Resolution) :
              \E i \in DOMAIN segments :
                Holds(i, k) /\ o.capacity[d] <= PowerLeft(d, i)
<1> DEFINE b == o.start
           C == {PowerLeft(d, i) : i \in Overlaps(b)}
<1>1. /\ Resolution \in Nat \ {0} /\ b \in Nat /\ Reckoned /\ Ordered
      /\ Covered(b) /\ o = Offer(b)
  BY OfferFacts, PebcAssumption, ReckonedFacts DEF Offered
<1>2. o.capacity[d] = Min(C)
  <2> HIDE DEF b
  <2> QED
    BY <1>1 DEF Offer, Capacity
<1>3. \A k \in (b + 1)..(b + Resolution) :
        \E i \in DOMAIN segments : Holds(i, k)
  BY <1>1, CoveredMeans
<1> HIDE DEF b
<1>4. ASSUME NEW k \in (b + 1)..(b + Resolution), NEW i \in DOMAIN segments,
             Holds(i, k)
      PROVE  PowerLeft(d, i) \in C
  <2>1. segments[i].start \in Nat /\ segments[i].end \in Nat /\ k \in Nat
    BY <1>1, SegmentFacts
  <2>2. Overlap(segments[i], b) > 0
    BY <1>1, <1>4, <2>1 DEF Overlap, Greater, Lesser, Holds
  <2> QED
    BY <2>2 DEF Overlaps
<1>5. C \in SUBSET Nat
  BY <1>1, LeftFacts DEF Overlaps
<1>6. C # {}
  <2>1. b + 1 \in (b + 1)..(b + Resolution)
    BY <1>1
  <2> HIDE DEF C
  <2> QED
    BY <1>3, <1>4, <2>1
<1> HIDE DEF C
<1>7. Min(C) \in Nat /\ \A y \in C : Min(C) <= y
  BY <1>5, <1>6, MinOfNaturals
<1>8. \A k \in (b + 1)..(b + Resolution) :
        \E i \in DOMAIN segments : Holds(i, k) /\ o.capacity[d] <= PowerLeft(d, i)
  BY <1>2, <1>3, <1>4, <1>7
<1> QED
  BY <1>2, <1>7, <1>8 DEF b

(* What is promised of a bucket is left in it.                             *)
LEMMA CapacityIsLeft ==
  ASSUME Offered, NEW o \in offers, NEW d \in Directions
  PROVE  Until(Left(d), o.start) + Resolution * o.capacity[d]
           <= Until(Left(d), o.start + Resolution)
<1> DEFINE b == o.start
           e == b + Resolution
           c == o.capacity[d]
<1>1. /\ Resolution \in Nat \ {0} /\ b \in Nat /\ e \in Nat /\ b <= e
      /\ c \in Nat /\ Reckoned /\ Ordered /\ Left(d) \in Values
      /\ e - b = Resolution
  BY OfferFacts, CapacityFacts, PebcAssumption, ReckonedFacts, LeftValues
  DEF Offered
<1>2. ASSUME NEW k \in (b + 1)..e
      PROVE  c <= At(Left(d))[k]
  <2>1. PICK i \in DOMAIN segments : Holds(i, k) /\ c <= PowerLeft(d, i)
    BY CapacityFacts
  <2>2. At(Left(d))[k] = Left(d)[i]
    BY <1>1, <2>1, AtSegment
  <2> QED
    BY <2>1, <2>2 DEF Left
<1>3. \A k \in 1..e : At(Left(d))[k] \in Int
  BY <1>1, AtType
<1> HIDE DEF b, c, e
<1>4. (e - b) * c <= Until(Left(d), e) - Until(Left(d), b)
  BY <1>1, <1>2, <1>3, SumAtLeast DEF Until
<1>5. /\ Until(Left(d), e) \in Int /\ Until(Left(d), b) \in Int
      /\ Resolution * c \in Int
  BY <1>1, UntilType
<1>6. Until(Left(d), b) + Resolution * c <= Until(Left(d), e)
  BY <1>1, <1>4, <1>5
<1> QED
  BY <1>6 DEF b, c, e

(* What is promised only grows.                                            *)
LEMMA LeftGrows ==
  ASSUME Reckoned, NEW d \in Directions,
         NEW s \in Nat, NEW e \in Nat, s <= e
  PROVE  Until(Left(d), s) <= Until(Left(d), e)
<1>1. Ordered /\ Left(d) \in Values
  BY ReckonedFacts, LeftValues
<1>2. ASSUME NEW k \in (s + 1)..e
      PROVE  0 <= At(Left(d))[k]
  <2>1. CASE \E i \in DOMAIN segments : Holds(i, k)
    <3>1. PICK i \in DOMAIN segments : Holds(i, k)
      BY <2>1
    <3>2. At(Left(d))[k] = PowerLeft(d, i)
      BY <1>1, <3>1, AtSegment DEF Left
    <3> QED
      BY <3>2, LeftFacts
  <2>2. CASE ~ \E i \in DOMAIN segments : Holds(i, k)
    BY <2>2 DEF At
  <2> QED
    BY <2>1, <2>2
<1> DEFINE none == 0
<1>3. none \in Int /\ (e - s) * none = 0
  OBVIOUS
<1>4. \A k \in (s + 1)..e : none <= At(Left(d))[k]
  BY <1>2
<1> HIDE DEF none
<1>5. \A k \in 1..e : At(Left(d))[k] \in Int
  BY <1>1, AtType
<1>6. (e - s) * none <= Until(Left(d), e) - Until(Left(d), s)
  BY <1>3, <1>4, <1>5, SumAtLeast DEF Until
<1>7. Until(Left(d), e) \in Int /\ Until(Left(d), s) \in Int
  BY <1>1, UntilType
<1> QED
  BY <1>3, <1>6, <1>7

(* The target of a full activation is within the limits of the message,    *)
(* at whatever moment of the bucket.                                       *)
LEMMA TargetFacts ==
  ASSUME Offered, NEW o \in offers, NEW d \in Directions
  PROVE  Target(o, d) \in frame.lowest..frame.highest
<1> DEFINE b == o.start
           e == b + Resolution
           up == o.capacity["UPWARD"]
           down == o.capacity["DOWNWARD"]
           low == frame.lowest + up
           high == frame.highest - down
           mean == o.baseline
<1>1. /\ Resolution \in Nat \ {0} /\ b \in Nat /\ e \in Nat /\ b <= e
      /\ Reckoned /\ Ordered /\ Powers \in Values
      /\ e - b = Resolution
      /\ frame.lowest \in Int /\ frame.highest \in Int
  BY OfferFacts, PebcAssumption, ReckonedFacts, FrameFacts DEF Offered
<1>2. up \in Nat /\ down \in Nat
  BY CapacityFacts DEF Directions
<1>3. ASSUME NEW k \in (b + 1)..e
      PROVE  low <= At(Powers)[k] /\ At(Powers)[k] <= high
  <2>1. PICK i \in DOMAIN segments :
          Holds(i, k) /\ up <= PowerLeft("UPWARD", i)
    BY CapacityFacts DEF Directions
  <2>2. PICK j \in DOMAIN segments :
          Holds(j, k) /\ down <= PowerLeft("DOWNWARD", j)
    BY CapacityFacts DEF Directions
  <2> DEFINE ids == [n \in DOMAIN segments |-> n]
  <2>3. i = j
    <3>1. At(ids)[k] = ids[i] /\ At(ids)[k] = ids[j]
      <4> HIDE DEF ids
      <4> QED
        BY <1>1, <2>1, <2>2, AtSegment
    <3> QED
      BY <3>1
  <2>4. At(Powers)[k] = segments[i].power
    BY <1>1, <2>1, AtSegment DEF Powers
  <2>5. /\ PowerLeft("UPWARD", i) \in Nat
        /\ PowerLeft("UPWARD", i) <= segments[i].room["UPWARD"]
        /\ PowerLeft("DOWNWARD", i) \in Nat
        /\ PowerLeft("DOWNWARD", i) <= segments[i].room["DOWNWARD"]
    BY <1>1, LeftFacts DEF Directions
  <2>6. /\ segments[i].power \in Int
        /\ segments[i].room["UPWARD"] \in Int
        /\ segments[i].room["DOWNWARD"] \in Int
        /\ segments[i].room["UPWARD"] <= segments[i].power - frame.lowest
        /\ segments[i].room["DOWNWARD"] <= frame.highest - segments[i].power
    <3>1. segments[i].room \in [Directions -> Nat]
      BY <1>1, SegmentFacts DEF SegmentType
    <3> QED
      BY <1>1, <3>1 DEF Reckoned, SegmentsFit, Multiples, Directions
  <2> HIDE DEF ids, b, e, up, down
  <2> QED
    BY <1>1, <1>2, <2>1, <2>2, <2>3, <2>4, <2>5, <2>6
<1>4. \A k \in 1..e : At(Powers)[k] \in Int
  BY <1>1, AtType
<1>5. low \in Int /\ high \in Int
  BY <1>1, <1>2
<1>6. mean \in Int /\ Until(Powers, e) = Until(Powers, b) + Resolution * mean
  BY BaselineFacts
<1> HIDE DEF low, high, b, e, mean
<1>7. /\ (e - b) * low <= Until(Powers, e) - Until(Powers, b)
      /\ Until(Powers, e) - Until(Powers, b) <= (e - b) * high
  BY <1>1, <1>3, <1>4, <1>5, SumAtLeast, SumAtMost DEF Until
<1>8. /\ Until(Powers, e) \in Int /\ Until(Powers, b) \in Int
      /\ Resolution * mean \in Int /\ Resolution * low \in Int
      /\ Resolution * high \in Int
  BY <1>1, <1>5, <1>6, UntilType
<1>9. /\ Resolution * low <= Resolution * mean
      /\ Resolution * mean <= Resolution * high
  BY <1>1, <1>6, <1>7, <1>8
<1>10. low <= mean /\ mean <= high
  <2>1. ASSUME low > mean PROVE FALSE
    <3>1. Resolution * low > Resolution * mean
      BY <1>1, <1>5, <1>6, <2>1
    <3> QED
      BY <1>8, <1>9, <3>1
  <2>2. ASSUME mean > high PROVE FALSE
    <3>1. Resolution * mean > Resolution * high
      BY <1>1, <1>5, <1>6, <2>2
    <3> QED
      BY <1>8, <1>9, <3>1
  <2> QED
    BY <1>5, <1>6, <2>1, <2>2
<1>11. d = "UPWARD" \/ d = "DOWNWARD"
  BY DEF Directions
<1> QED
  BY <1>1, <1>2, <1>5, <1>6, <1>10, <1>11 DEF Target, low, high, mean

-----------------------------------------------------------------------------
(* The resource that follows its instructions.  At the edge of an          *)
(* activated bucket it has drawn at most what was promised DOWNWARD more,  *)
(* at most what was promised UPWARD less than the forecast; within the     *)
(* bucket it draws a constant power, whatever the forecast did.            *)

Drawn(choice) == [k \in Nat |-> PowerAt(choice, k - 1)]

Active(choice, o, k) ==
  choice[o] # None /\ o.start < k /\ k <= o.start + Resolution

Amid(choice, t) ==
  \E o \in offers :
    choice[o] # None /\ o.start < t /\ t < o.start + Resolution

LEMMA DrawnActive ==
  ASSUME Offered, NEW choice \in Activations, NEW k \in Nat \ {0},
         NEW o \in offers, Active(choice, o, k)
  PROVE  /\ choice[o] \in Directions
         /\ Drawn(choice)[k] = Target(o, choice[o])
         /\ Drawn(choice)[k] \in frame.lowest..frame.highest
<1> DEFINE t == k - 1
           chosen == {p \in offers : choice[p] # None
                                  /\ p.start <= t /\ t < p.start + Resolution}
<1>1. choice[o] \in Directions
  BY DEF Activations, Active
<1>2. t \in Nat /\ \A p \in offers : p.start \in Nat
  BY OfferFacts
<1>3. Resolution \in Nat
  BY PebcAssumption
<1>4. o \in chosen
  BY <1>2, <1>3 DEF Active
<1>5. chosen = {o}
  <2> HIDE DEF t
  <2> QED
    BY <1>2, <1>4, OffersApart
<1>6. (CHOOSE p \in chosen : TRUE) = o
  BY <1>5
<1>7. PowerAt(choice, t) = Target(o, choice[o])
  <2>1. chosen # {}
    BY <1>4
  <2>2. PowerAt(choice, t) = LET p == CHOOSE p \in chosen : TRUE
                             IN  Target(p, choice[p])
    <3> HIDE DEF t
    <3> QED
      BY <2>1 DEF PowerAt
  <2> HIDE DEF chosen, t
  <2> QED
    BY <1>6, <2>2
<1>8. Drawn(choice)[k] = PowerAt(choice, t)
  BY DEF Drawn
<1> QED
  BY <1>1, <1>7, <1>8, TargetFacts

LEMMA DrawnForecast ==
  ASSUME Offered, NEW choice \in Activations, NEW k \in Nat \ {0},
         \A o \in offers : ~Active(choice, o, k)
  PROVE  Drawn(choice)[k] = At(Powers)[k]
<1> DEFINE t == k - 1
           chosen == {p \in offers : choice[p] # None
                                  /\ p.start <= t /\ t < p.start + Resolution}
           forecast == {i \in DOMAIN segments :
                          segments[i].start <= t /\ t < segments[i].end}
<1>1. /\ t \in Nat /\ Resolution \in Nat /\ Ordered
      /\ \A p \in offers : p.start \in Nat
      /\ \A i \in DOMAIN segments :
           segments[i].start \in Nat /\ segments[i].end \in Nat
  BY OfferFacts, PebcAssumption, ReckonedFacts, SegmentFacts DEF Offered
<1>2. chosen = {}
  BY <1>1 DEF Active
<1>3. \A i \in DOMAIN segments : i \in forecast <=> Holds(i, k)
  BY <1>1 DEF Holds
<1>4. PowerAt(choice, t)
        = IF forecast # {} THEN segments[CHOOSE i \in forecast : TRUE].power
                           ELSE 0
  <2> HIDE DEF t
  <2> QED
    BY <1>2 DEF PowerAt
<1>5. Drawn(choice)[k] = PowerAt(choice, t)
  BY DEF Drawn
<1> HIDE DEF t
<1>6. CASE forecast # {}
  <2> DEFINE i == CHOOSE i \in forecast : TRUE
  <2>1. i \in forecast
    BY <1>6
  <2>2. PowerAt(choice, t) = segments[i].power
    BY <1>4, <1>6
  <2>3. i \in DOMAIN segments
    BY <2>1
  <2> HIDE DEF i, forecast
  <2>4. At(Powers)[k] = Powers[i]
    BY <1>1, <1>3, <2>1, <2>3, AtSegment
  <2> QED
    BY <1>5, <2>2, <2>3, <2>4 DEF Powers
<1>7. CASE forecast = {}
  <2>1. ~ \E i \in DOMAIN segments : Holds(i, k)
    BY <1>3, <1>7
  <2>2. At(Powers)[k] = 0
    BY <2>1 DEF At
  <2> QED
    BY <1>4, <1>5, <1>7, <2>2
<1> QED
  BY <1>6, <1>7

LEMMA DrawnType ==
  ASSUME Offered, NEW choice \in Activations, NEW k \in Nat \ {0}
  PROVE  Drawn(choice)[k] \in Int
<1>1. CASE \E o \in offers : Active(choice, o, k)
  <2>1. frame.lowest \in Int /\ frame.highest \in Int
    BY ReckonedFacts, FrameFacts DEF Offered
  <2>2. Drawn(choice)[k] \in frame.lowest..frame.highest
    BY <1>1, DrawnActive
  <2> QED
    BY <2>1, <2>2
<1>2. CASE ~ \E o \in offers : Active(choice, o, k)
  BY <1>2, DrawnForecast, ReckonedFacts, AtType DEF Offered
<1> QED
  BY <1>1, <1>2

(* What has been drawn until t.                                            *)
Total(choice, t) == SumUpTo(Drawn(choice), t)

LEMMA TotalType ==
  ASSUME Offered, NEW choice \in Activations, NEW t \in Nat
  PROVE  /\ Total(choice, t) \in Int
         /\ StoredAt(choice, t) = frame.envelope.initial + Total(choice, t)
<1> DEFINE d == [k \in 1..t |-> PowerAt(choice, k - 1)]
<1>1. \A k \in 1..t : Drawn(choice)[k] \in Int
  BY DrawnType
<1>2. Total(choice, t) \in Int
  <2>1. t \in 0..t
    OBVIOUS
  <2>2. \A k \in 0..t : SumUpTo(Drawn(choice), k) \in Int
    BY <1>1, SumType
  <2> QED
    BY <2>1, <2>2 DEF Total
<1>3. \A k \in 1..t : d[k] = Drawn(choice)[k]
  BY DEF Drawn
<1> HIDE DEF d
<1>4. \A k \in 0..t : SumUpTo(d, k) = SumUpTo(Drawn(choice), k)
  BY <1>3, SumCongruence
<1>5. StoredAt(choice, t) = frame.envelope.initial + Total(choice, t)
  <2>1. t \in 0..t
    OBVIOUS
  <2> QED
    BY <1>4, <2>1 DEF StoredAt, Total, d
<1> QED
  BY <1>2, <1>5

(* Within an activated bucket the target is drawn in each step.            *)
LEMMA TotalActive ==
  ASSUME Offered, NEW choice \in Activations, NEW o \in offers,
         choice[o] # None,
         NEW t \in Nat, o.start <= t, t <= o.start + Resolution
  PROVE  /\ choice[o] \in Directions
         /\ Target(o, choice[o]) \in Int
         /\ Total(choice, t)
              = Total(choice, o.start) + (t - o.start) * Target(o, choice[o])
<1> DEFINE b == o.start
           d == Drawn(choice)
           p == Target(o, choice[o])
<1>1. b \in Nat /\ choice[o] \in Directions /\ Resolution \in Nat \ {0}
  BY OfferFacts, PebcAssumption DEF Activations
<1>2. p \in Int
  BY <1>1, TargetFacts, ReckonedFacts, FrameFacts DEF Offered
<1>3. \A k \in 1..t : d[k] \in Int
  BY DrawnType
<1>4. ASSUME NEW k \in (b + 1)..t
      PROVE  d[k] = p
  <2>1. k \in Nat \ {0} /\ Active(choice, o, k)
    BY <1>1 DEF Active
  <2> QED
    BY <2>1, DrawnActive
<1> HIDE DEF b, d, p
<1>5. b <= t
  BY DEF b
<1>6. SumUpTo(d, t) = SumUpTo(d, b) + (t - b) * p
  BY <1>1, <1>2, <1>3, <1>4, <1>5, SumConstant
<1> QED
  BY <1>1, <1>2, <1>6 DEF Total, b, d, p

(* No other activated bucket lies across the edges of an offered one.      *)
LEMMA EdgesAreNotAmid ==
  ASSUME Offered, NEW choice \in Activations, NEW o \in offers
  PROVE  ~Amid(choice, o.start) /\ ~Amid(choice, o.start + Resolution)
<1>1. /\ Resolution \in Nat \ {0}
      /\ \A p \in offers : p.start \in Nat /\ p.start % Resolution = 0
  BY OfferFacts, PebcAssumption
<1>2. ASSUME NEW p \in offers, p.start < o.start
      PROVE  p.start + Resolution <= o.start
  BY <1>1, <1>2, Apart
<1>3. ASSUME NEW p \in offers, o.start < p.start
      PROVE  o.start + Resolution <= p.start
  BY <1>1, <1>3, Apart
<1>4. ~Amid(choice, o.start)
  BY <1>1, <1>2 DEF Amid
<1>5. ~Amid(choice, o.start + Resolution)
  BY <1>1, <1>3 DEF Amid
<1> QED
  BY <1>4, <1>5

Deviates(choice, t) ==
  /\ Until(Powers, t) - Until(Left("UPWARD"), t) <= Total(choice, t)
  /\ Total(choice, t) <= Until(Powers, t) + Until(Left("DOWNWARD"), t)

LEMMA DeviationAfterBucket ==
  ASSUME Offered, NEW choice \in Activations, NEW o \in offers,
         choice[o] # None, Deviates(choice, o.start)
  PROVE  Deviates(choice, o.start + Resolution)
<1> DEFINE b == o.start
           e == b + Resolution
           c == o.capacity[choice[o]]
<1>1. /\ Resolution \in Nat \ {0} /\ b \in Nat /\ e \in Nat /\ b <= e
      /\ e - b = Resolution /\ Reckoned
  BY OfferFacts, PebcAssumption DEF Offered
<1>2. /\ choice[o] \in Directions
      /\ Target(o, choice[o]) \in Int
      /\ Total(choice, e) = Total(choice, b) + (e - b) * Target(o, choice[o])
  <2>1. b <= e /\ e <= o.start + Resolution /\ e \in Nat /\ o.start <= e
    BY <1>1
  <2> HIDE DEF e
  <2> QED
    BY <2>1, TotalActive
<1>3. /\ o.baseline \in Int
      /\ Until(Powers, e) = Until(Powers, b) + Resolution * o.baseline
  BY BaselineFacts
<1>4. /\ c \in Nat
      /\ Until(Left(choice[o]), b) + Resolution * c <= Until(Left(choice[o]), e)
  BY <1>2, CapacityFacts, CapacityIsLeft
<1>5. \A d \in Directions : Until(Left(d), b) <= Until(Left(d), e)
  BY <1>1, LeftGrows
<1>6. /\ Until(Powers, b) \in Int /\ Until(Powers, e) \in Int
      /\ \A d \in Directions :
           Until(Left(d), b) \in Int /\ Until(Left(d), e) \in Int
      /\ Total(choice, b) \in Int /\ Total(choice, e) \in Int
  BY <1>1, UntilTypes, TotalType
<1>7. "UPWARD" \in Directions /\ "DOWNWARD" \in Directions
  BY DEF Directions
<1> DEFINE u == Until(Left("UPWARD"), b)
           ue == Until(Left("UPWARD"), e)
           w == Until(Left("DOWNWARD"), b)
           we == Until(Left("DOWNWARD"), e)
           p == Until(Powers, b)
           pe == Until(Powers, e)
           s == Total(choice, b)
           se == Total(choice, e)
           m == o.baseline
<1>8. /\ u \in Int /\ ue \in Int /\ w \in Int /\ we \in Int
      /\ p \in Int /\ pe \in Int /\ s \in Int /\ se \in Int
      /\ m \in Int /\ c \in Int
      /\ u <= ue /\ w <= we /\ pe = p + Resolution * m
      /\ p - u <= s /\ s <= p + w
  BY <1>3, <1>4, <1>5, <1>6, <1>7 DEF Deviates
<1>9. \A x \in Int : Resolution * x \in Int
  BY <1>1
<1>10. /\ Resolution * (m - c) = Resolution * m - Resolution * c
       /\ Resolution * (m + c) = Resolution * m + Resolution * c
       /\ Resolution * m \in Int /\ Resolution * c \in Int
       /\ Resolution * c >= 0
  <2>1. c \in Nat
    BY <1>4
  <2> HIDE DEF m, c
  <2> QED
    BY <1>1, <1>8, <2>1
<1>11. CASE choice[o] = "UPWARD"
  <2>1. se = s + Resolution * (m - c)
    BY <1>1, <1>2, <1>11 DEF Target
  <2>2. u + Resolution * c <= ue
    BY <1>4, <1>11
  <2>3. pe - ue <= se /\ se <= pe + we
    <3> HIDE DEF u, ue, w, we, p, pe, s, se, m, c
    <3> QED
      BY <1>8, <1>10, <2>1, <2>2
  <2> QED
    BY <2>3 DEF Deviates
<1>12. CASE choice[o] = "DOWNWARD"
  <2>1. se = s + Resolution * (m + c)
    BY <1>1, <1>2, <1>12 DEF Target
  <2>2. w + Resolution * c <= we
    BY <1>4, <1>12
  <2>3. pe - ue <= se /\ se <= pe + we
    <3> HIDE DEF u, ue, w, we, p, pe, s, se, m, c
    <3> QED
      BY <1>8, <1>10, <2>1, <2>2
  <2> QED
    BY <2>3 DEF Deviates
<1> QED
  BY <1>2, <1>11, <1>12 DEF Directions

LEMMA DeviationBound ==
  ASSUME Offered, NEW choice \in Activations
  PROVE  \A t \in Nat : ~Amid(choice, t) => Deviates(choice, t)
<1> DEFINE S == {n \in Nat : \A t \in 0..n :
                   ~Amid(choice, t) => Deviates(choice, t)}
<1>0. /\ Resolution \in Nat \ {0} /\ Reckoned
      /\ \A o \in offers : o.start \in Nat
  BY OfferFacts, PebcAssumption DEF Offered
<1>1. 0 \in S
  <2>1. /\ Until(Powers, 0) = 0 /\ Until(Left("UPWARD"), 0) = 0
        /\ Until(Left("DOWNWARD"), 0) = 0 /\ Total(choice, 0) = 0
    BY <1>0, ReckonedFacts, LeftValues, UntilType, SumRecurrence
    DEF Total, Directions
  <2>2. Deviates(choice, 0)
    BY <2>1 DEF Deviates
  <2> QED
    BY <2>2
<1>2. ASSUME NEW n \in Nat, n \in S
      PROVE  n + 1 \in S
  <2> DEFINE t == n + 1
  <2>1. \A m \in 0..n : ~Amid(choice, m) => Deviates(choice, m)
    BY <1>2
  <2> HIDE DEF S
  <2>2. ASSUME ~Amid(choice, t)
        PROVE  Deviates(choice, t)
    <3>1. CASE \E o \in offers : Active(choice, o, t)
      <4>1. PICK o \in offers : Active(choice, o, t)
        BY <3>1
      <4>2. o.start + Resolution = t /\ choice[o] # None
        BY <1>0, <2>2, <4>1 DEF Amid, Active
      <4>3. o.start \in 0..n
        BY <1>0, <4>2
      <4>4. Deviates(choice, o.start)
        BY <2>1, <4>3, EdgesAreNotAmid
      <4>5. Deviates(choice, o.start + Resolution)
        BY <4>2, <4>4, DeviationAfterBucket
      <4> QED
        BY <4>2, <4>5
    <3>2. CASE ~ \E o \in offers : Active(choice, o, t)
      <4>1. ~Amid(choice, n)
        BY <1>0, <3>2 DEF Amid, Active
      <4>2. Deviates(choice, n)
        BY <2>1, <4>1
      <4>3. t \in Nat \ {0} /\ n <= t /\ t - 1 = n
        OBVIOUS
      <4>4. /\ Total(choice, t) = Total(choice, n) + At(Powers)[t]
            /\ Until(Powers, t) = Until(Powers, n) + At(Powers)[t]
        <5>1. Drawn(choice)[t] = At(Powers)[t]
          BY <3>2, <4>3, DrawnForecast
        <5> QED
          BY <5>1, SumRecurrence DEF Total, Until
      <4>5. /\ Total(choice, n) \in Int /\ Total(choice, t) \in Int
            /\ Until(Powers, n) \in Int /\ Until(Powers, t) \in Int
            /\ Until(Left("UPWARD"), n) \in Int
            /\ Until(Left("UPWARD"), t) \in Int
            /\ Until(Left("DOWNWARD"), n) \in Int
            /\ Until(Left("DOWNWARD"), t) \in Int
            /\ At(Powers)[t] \in Int
        BY <1>0, <4>3, TotalType, UntilTypes, ReckonedFacts, AtType
      <4>6. /\ Until(Left("UPWARD"), n) <= Until(Left("UPWARD"), t)
            /\ Until(Left("DOWNWARD"), n) <= Until(Left("DOWNWARD"), t)
        BY <1>0, <4>3, LeftGrows DEF Directions
      <4> HIDE DEF t
      <4> QED
        BY <4>2, <4>4, <4>5, <4>6 DEF Deviates
    <3> QED
      BY <3>1, <3>2
  <2>3. \A m \in 0..t : m \in 0..n \/ m = t
    OBVIOUS
  <2> QED
    BY <2>1, <2>2, <2>3 DEF S
<1> HIDE DEF S
<1>3. \A n \in Nat : n \in S
  BY <1>1, <1>2, Induction
<1>4. \A n \in Nat : n \in 0..n
  OBVIOUS
<1> QED
  BY <1>3, <1>4 DEF S

LEMMA StoredStays ==
  ASSUME Offered, NEW choice \in Activations, NEW t \in 0..FinalEnd
  PROVE  StoredAt(choice, t)
           \in frame.envelope.minEnergy..frame.envelope.maxEnergy
<1> DEFINE low == frame.envelope.minEnergy
           high == frame.envelope.maxEnergy
           init == frame.envelope.initial
<1>1. /\ Reckoned /\ FinalEnd \in Nat /\ FinalEnd = EndOf(Len(segments))
      /\ Resolution \in Nat \ {0}
      /\ low \in Int /\ high \in Int /\ init \in Int
  BY FinalEndFacts, ReckonedFacts, FrameFacts, PebcAssumption DEF Offered
<1>2. ASSUME NEW n \in 0..FinalEnd, ~Amid(choice, n)
      PROVE  low <= init + Total(choice, n) /\ init + Total(choice, n) <= high
  <2>1. n \in Nat
    BY <1>1
  <2>2. Deviates(choice, n)
    BY <1>2, <2>1, DeviationBound
  <2>3. WithinEnvelope(n)
    BY <1>1, EnvelopeKept
  <2>4. /\ Total(choice, n) \in Int /\ Until(Powers, n) \in Int
        /\ Until(Left("UPWARD"), n) \in Int
        /\ Until(Left("DOWNWARD"), n) \in Int
    BY <1>1, <2>1, TotalType, UntilTypes
  <2> DEFINE x == Total(choice, n)
             p == Until(Powers, n)
             u == Until(Left("UPWARD"), n)
             w == Until(Left("DOWNWARD"), n)
  <2>5. p - u <= x /\ x <= p + w
    BY <2>2 DEF Deviates
  <2>6. low <= (init + p) - u /\ init + p + w <= high
    BY <2>3 DEF WithinEnvelope, Least, Most
  <2>7. x \in Int /\ p \in Int /\ u \in Int /\ w \in Int
    BY <2>4
  <2>8. low <= init + x /\ init + x <= high
    <3> HIDE DEF x, p, u, w, low, high, init
    <3> QED
      BY <1>1, <2>5, <2>6, <2>7
  <2> QED
    BY <2>8
<1>3. CASE ~Amid(choice, t)
  <2>1. /\ Total(choice, t) \in Int
        /\ StoredAt(choice, t) = init + Total(choice, t)
    BY <1>1, TotalType
  <2> QED
    BY <1>1, <1>2, <1>3, <2>1
<1>4. CASE Amid(choice, t)
  <2>1. PICK o \in offers :
          choice[o] # None /\ o.start < t /\ t < o.start + Resolution
    BY <1>4 DEF Amid
  <2> DEFINE b == o.start
             e == b + Resolution
             x == init + Total(choice, b)
             p == Target(o, choice[o])
             k == t - b
  <2>2. /\ b \in Nat /\ e \in Nat /\ t \in Nat /\ e <= FinalEnd
        /\ b \in 0..FinalEnd /\ e \in 0..FinalEnd
        /\ b <= t /\ t <= e /\ b <= e
    BY <1>1, <2>1, OfferFacts
  <2>3. /\ p \in Int
        /\ Total(choice, t) = Total(choice, b) + k * p
    BY <2>1, <2>2, TotalActive
  <2>4. Total(choice, e) = Total(choice, b) + Resolution * p
    <3>1. e - b = Resolution /\ o.start <= e /\ e <= o.start + Resolution
      BY <1>1, <2>2
    <3> HIDE DEF e
    <3>2. Total(choice, e) = Total(choice, o.start) + (e - o.start) * p
      BY <2>1, <2>2, <3>1, TotalActive
    <3> QED
      BY <3>1, <3>2
  <2>5. ~Amid(choice, b) /\ ~Amid(choice, e)
    BY EdgesAreNotAmid
  <2>6. /\ Total(choice, b) \in Int /\ Total(choice, e) \in Int
        /\ Total(choice, t) \in Int
        /\ StoredAt(choice, t) = init + Total(choice, t)
    BY <2>2, TotalType
  <2>7. k \in 0..Resolution
    BY <1>1, <2>1, <2>2
  <2>8. Resolution * p \in Int /\ k * p \in Int
    <3>1. k \in Int
      BY <2>2
    <3> HIDE DEF p, k
    <3> QED
      BY <1>1, <2>3, <3>1
  <2>9. /\ low <= x /\ x <= high
        /\ low <= init + Total(choice, e) /\ init + Total(choice, e) <= high
    BY <1>2, <2>2, <2>5
  <2> HIDE DEF p, k, b, e, low, high, init
  <2>10. /\ x \in Int
         /\ init + Total(choice, e) = x + Resolution * p
         /\ init + Total(choice, t) = x + k * p
    BY <1>1, <2>3, <2>4, <2>6, <2>8
  <2> HIDE DEF x
  <2>11. low <= x + k * p /\ x + k * p <= high
    BY <1>1, <2>3, <2>7, <2>9, <2>10, Line
  <2> QED
    BY <1>1, <2>6, <2>8, <2>10, <2>11 DEF low, high
<1> QED
  BY <1>3, <1>4

-----------------------------------------------------------------------------
(* The third loop is over.                                                 *)
Complete == Offered /\ bucket % Resolution = 0 /\ bucket + Resolution > FinalEnd

LEMMA CompleteStays ==
  ASSUME Offered
  PROVE  ActivationsStayInside
<1> SUFFICES ASSUME NEW choice \in Activations,
                    NEW t \in segments[1].start..FinalEnd
             PROVE  /\ StoredAt(choice, t)
                         \in frame.envelope.minEnergy..frame.envelope.maxEnergy
                    /\ \A o \in offers :
                         choice[o] # None /\ o.start = t =>
                           PowerAt(choice, t) \in frame.lowest..frame.highest
  BY DEF ActivationsStayInside
<1>1. FinalEnd \in Nat /\ segments[1].start \in Nat
  <2>1. 1 \in DOMAIN segments /\ Ordered
    BY ReckonedFacts DEF Offered
  <2> QED
    BY <2>1, SegmentFacts, FinalEndFacts DEF Offered
<1>2. t \in 0..FinalEnd
  BY <1>1
<1>3. ASSUME NEW o \in offers, choice[o] # None, o.start = t
      PROVE  PowerAt(choice, t) \in frame.lowest..frame.highest
  <2>1. /\ t \in Nat /\ t + 1 \in Nat \ {0} /\ (t + 1) - 1 = t
        /\ Resolution \in Nat \ {0}
    BY <1>1, PebcAssumption
  <2>2. Active(choice, o, t + 1)
    BY <1>3, <2>1 DEF Active
  <2>3. Drawn(choice)[t + 1] \in frame.lowest..frame.highest
    <3> DEFINE k == t + 1
    <3>1. k \in Nat \ {0} /\ Active(choice, o, k)
      BY <2>1, <2>2
    <3> HIDE DEF k
    <3>2. Drawn(choice)[k] \in frame.lowest..frame.highest
      BY <3>1, DrawnActive
    <3> QED
      BY <3>2 DEF k
  <2>4. Drawn(choice)[t + 1] = PowerAt(choice, t)
    BY <2>1 DEF Drawn
  <2> QED
    BY <2>3, <2>4
<1> QED
  BY <1>2, <1>3, StoredStays

(* A bucket is covered if every moment of it is in a segment.              *)
LEMMA CoveredMoments ==
  ASSUME Reckoned, NEW b \in Nat
  PROVE  Covered(b) <=> \A t \in b..(b + Resolution - 1) :
                          \E i \in DOMAIN segments :
                            segments[i].start <= t /\ t < segments[i].end
<1>1. Resolution \in Nat \ {0} /\ Ordered
  BY PebcAssumption, ReckonedFacts
<1>2. \A i \in DOMAIN segments :
        segments[i].start \in Nat /\ segments[i].end \in Nat
  BY <1>1, SegmentFacts
<1>3. ASSUME NEW t \in Nat, NEW i \in DOMAIN segments
      PROVE  Holds(i, t + 1)
               <=> segments[i].start <= t /\ t < segments[i].end
  BY <1>2 DEF Holds
<1>4. Covered(b) <=> \A k \in (b + 1)..(b + Resolution) :
                       \E i \in DOMAIN segments : Holds(i, k)
  BY <1>1, CoveredMeans
<1>5. ASSUME \A k \in (b + 1)..(b + Resolution) :
               \E i \in DOMAIN segments : Holds(i, k),
             NEW t \in b..(b + Resolution - 1)
      PROVE  \E i \in DOMAIN segments :
               segments[i].start <= t /\ t < segments[i].end
  <2>1. t \in Nat /\ t + 1 \in (b + 1)..(b + Resolution)
    BY <1>1
  <2>2. PICK i \in DOMAIN segments : Holds(i, t + 1)
    BY <1>5, <2>1
  <2> QED
    BY <1>3, <2>1, <2>2
<1>6. ASSUME \A t \in b..(b + Resolution - 1) :
               \E i \in DOMAIN segments :
                 segments[i].start <= t /\ t < segments[i].end,
             NEW k \in (b + 1)..(b + Resolution)
      PROVE  \E i \in DOMAIN segments : Holds(i, k)
  <2>1. k - 1 \in b..(b + Resolution - 1)
    BY <1>1
  <2>2. PICK i \in DOMAIN segments :
          segments[i].start <= k - 1 /\ k - 1 < segments[i].end
    BY <1>6, <2>1
  <2>3. Holds(i, k)
    BY <1>1, <1>2, <2>2 DEF Holds
  <2> QED
    BY <2>3
<1> QED
  BY <1>4, <1>5, <1>6

LEMMA CompleteCovers ==
  ASSUME Complete
  PROVE  OffersEveryCoveredBucket
<1> DEFINE Whole(b) ==
             \A t \in b..(b + Resolution - 1) :
               \E i \in DOMAIN segments :
                 segments[i].start <= t /\ t < segments[i].end
<1>1. /\ Resolution \in Nat \ {0} /\ bucket \in Nat
      /\ FinalEnd \in Nat /\ FinalEnd <= frame.until /\ frame.until \in Int
      /\ FinalEnd = EndOf(Len(segments))
      /\ Len(segments) \in Nat \ {0} /\ DOMAIN segments = 1..Len(segments)
      /\ bucket % Resolution = 0 /\ bucket + Resolution > FinalEnd
      /\ Ordered
  BY PebcAssumption, FinalEndFacts, ReckonedFacts, FrameFacts
  DEF Complete, Offered, Reckoned, IInv, TypeOK
<1>2. /\ \A i \in DOMAIN segments :
           /\ segments[i].start \in Nat /\ segments[i].end \in Nat
           /\ segments[i].start < segments[i].end
      /\ \A i, j \in DOMAIN segments :
           j < i => segments[j].end <= segments[i].start
  BY <1>1, SegmentFacts
<1>3. ASSUME NEW i \in DOMAIN segments
      PROVE  segments[1].start <= segments[i].start
             /\ segments[i].end <= FinalEnd
  <2>1. /\ i \in Nat /\ 1 <= i /\ i <= Len(segments)
        /\ 1 \in DOMAIN segments /\ Len(segments) \in DOMAIN segments
    BY <1>1
  <2>2. FinalEnd = segments[Len(segments)].end
    BY <1>1 DEF EndOf
  <2>3. segments[1].start <= segments[i].start
    BY <1>2, <2>1
  <2>4. segments[i].end <= segments[Len(segments)].end
    BY <1>1, <1>2, <2>1
  <2> QED
    BY <2>2, <2>3, <2>4
<1>4. ASSUME NEW o \in offers
      PROVE  /\ o.start \in 0..frame.until /\ o.start % Resolution = 0
             /\ Whole(o.start)
  <2> DEFINE b == o.start
  <2>1. /\ b \in Nat /\ b % Resolution = 0
        /\ b + Resolution <= FinalEnd /\ Covered(b)
    BY OfferFacts DEF Complete
  <2> HIDE DEF b
  <2>2. b \in 0..frame.until
    BY <1>1, <2>1
  <2>3. Whole(b)
    BY <2>1, CoveredMoments DEF Complete, Offered
  <2> QED
    BY <2>1, <2>2, <2>3 DEF b
<1>5. ASSUME NEW b \in 0..frame.until, b % Resolution = 0, Whole(b)
      PROVE  \E o \in offers : o.start = b
  <2>1. /\ b \in Nat
        /\ b \in b..(b + Resolution - 1)
        /\ b + Resolution - 1 \in b..(b + Resolution - 1)
    BY <1>1
  <2>2. segments[1].start <= b
    <3>1. PICK i \in DOMAIN segments :
            segments[i].start <= b /\ b < segments[i].end
      BY <1>5, <2>1
    <3>2. 1 \in DOMAIN segments
      BY <1>1
    <3> QED
      BY <1>2, <1>3, <2>1, <3>1, <3>2
  <2>3. b + Resolution <= FinalEnd
    <3>1. PICK i \in DOMAIN segments :
            b + Resolution - 1 < segments[i].end
      BY <1>5, <2>1
    <3> QED
      BY <1>1, <1>2, <1>3, <2>1, <3>1
  <2>4. b < bucket
    BY <1>1, <2>1, <2>3
  <2>5. b \in Passed
    BY <1>1, <1>5, <2>1, <2>2, <2>4 DEF Passed
  <2>6. Covered(b)
    BY <1>5, <2>1, CoveredMoments DEF Complete, Offered
  <2>7. Offer(b) \in offers
    BY <2>5, <2>6 DEF Complete, Offered
  <2>8. Offer(b).start = b
    BY Zenon DEF Offer
  <2> QED
    BY <2>7, <2>8
<1> HIDE DEF Whole
<1>6. {o.start : o \in offers}
        = {b \in 0..frame.until : b % Resolution = 0 /\ Whole(b)}
  BY <1>4, <1>5
<1> QED
  BY <1>6 DEF OffersEveryCoveredBucket, Whole

-----------------------------------------------------------------------------
(* The buckets start at the first one that does not begin before the       *)
(* forecast; those passed are offered exactly if they are covered.         *)
BucketsFollow ==
  /\ bucket % Resolution = 0 /\ segments[1].start <= bucket
  /\ \A b \in Passed : b + Resolution <= FinalEnd
  /\ offers = {Offer(b) : b \in {c \in Passed : Covered(c)}}

(* No offer is made before the second list of segments is complete, none   *)
(* without a forecast, and the third loop goes on to the final end.        *)
OffersInOrder ==
  /\ phase = "idle" => segments = <<>>
  /\ phase \in {"idle", "reading"} \/ segments = <<>> => offers = {}
  /\ phase \in {"budgeting", "offering"} => segments # <<>>
  /\ phase = "budgeting" => Passed = {}
  /\ phase \in {"budgeting", "offering", "done"} /\ segments # <<>> =>
       BucketsFollow
  /\ phase \in {"offering", "done"} => Len(taken) = Len(segments)
  /\ phase = "done" /\ segments # <<>> => bucket + Resolution > FinalEnd

(* What the first loop keeps of the forecast, the second one of the        *)
(* energy, the third one of the buckets.                                   *)
RInv == IInv /\ SegmentsFit /\ EnergiesAdd /\ SharesFit /\ OffersInOrder

-----------------------------------------------------------------------------
LEMMA InitReckoning == Init => RInv
<1> SUFFICES ASSUME Init PROVE RInv
  OBVIOUS
<1>1. IInv
  BY InitInv
<1>2. SegmentsFit /\ EnergiesAdd /\ SharesFit
  BY DEF Init, SegmentsFit, EnergiesAdd, SharesFit
<1>3. OffersInOrder
  BY DEF Init, OffersInOrder
<1> QED
  BY <1>1, <1>2, <1>3 DEF RInv

LEMMA LeaveReckoning ==
  ASSUME NEW result \in {"idle", "done", "refused"}, Leave(result)
  PROVE  RInv'
<1>1. IInv'
  BY LeaveInv
<1>2. /\ phase' = result /\ segments' = <<>> /\ ends' = <<>> /\ taken' = <<>>
      /\ offers' = {}
  BY DEF Leave
<1>3. SegmentsFit' /\ EnergiesAdd' /\ SharesFit'
  BY <1>2 DEF SegmentsFit, EnergiesAdd, SharesFit
<1>4. OffersInOrder'
  BY <1>2 DEF OffersInOrder
<1> QED
  BY <1>1, <1>3, <1>4 DEF RInv

LEMMA BeginReckoning ==
  ASSUME RInv, NEW e \in Envelopes, NEW m \in Messages, Begin(e, m)
  PROVE  RInv'
<1>1. CASE Leave("refused") \/ Leave("done")
  BY <1>1, LeaveReckoning
<1>2. CASE ~(Leave("refused") \/ Leave("done"))
  <2>1. /\ phase = "idle" /\ phase' = "reading"
        /\ UNCHANGED <<segments, ends, taken, bucket, offers>>
    BY <1>2 DEF Begin, budgets, outputs
  <2>2. segments = <<>> /\ ends = <<>> /\ taken = <<>> /\ offers = {}
    BY <2>1 DEF RInv, OffersInOrder, IInv, TypeOK, InOrder
  <2>3. IInv'
    BY BeginInv DEF RInv
  <2>4. SegmentsFit' /\ EnergiesAdd' /\ SharesFit'
    BY <2>1, <2>2 DEF SegmentsFit, EnergiesAdd, SharesFit
  <2>5. OffersInOrder'
    BY <2>1, <2>2 DEF OffersInOrder
  <2> QED
    BY <2>3, <2>4, <2>5 DEF RInv
<1> QED
  BY <1>1, <1>2

(* A kept element is after the earlier ones, and its room is within the    *)
(* limits of power.                                                        *)
LEMMA ReadReckoning ==
  ASSUME RInv, NEW x \in Elements, Read(x)
  PROVE  RInv'
<1>1. CASE Kept(x) /\ x.power \notin frame.lowest..frame.highest
  BY <1>1, LeaveReckoning DEF Read
<1>2. CASE ~(Kept(x) /\ x.power \notin frame.lowest..frame.highest)
  <2>1. /\ phase = "reading"
        /\ segments' = IF Kept(x) THEN Append(segments, Segment(x))
                                  ELSE segments
        /\ cursor' = cursor + x.duration
        /\ UNCHANGED <<phase, frame, ends, taken, bucket, offers>>
    BY <1>2 DEF Read, budgets, outputs
  <2>2. /\ frame \in FrameType /\ ends = <<>> /\ taken = <<>> /\ offers = {}
        /\ cursor \in Nat /\ segments \in Seq(SegmentType)
    BY <2>1 DEF RInv, OffersInOrder, IInv, TypeOK, InOrder
  <2>3. x.duration \in Nat
    BY PebcAssumption DEF ElementType, Durations
  <2>4. IInv'
    BY ReadInv DEF RInv
  <2>5. EnergiesAdd' /\ SharesFit' /\ OffersInOrder'
    <3>1. phase' = "reading" /\ offers' = {} /\ ends' = <<>> /\ taken' = <<>>
      BY <2>1, <2>2
    <3>2. EnergiesAdd' /\ SharesFit'
      BY <3>1 DEF EnergiesAdd, SharesFit
    <3>3. OffersInOrder'
      BY <3>1 DEF OffersInOrder
    <3> QED
      BY <3>2, <3>3
  <2>6. \A i \in DOMAIN segments : segments[i].end \in Nat
    <3>1. \A i \in DOMAIN segments : segments[i] \in SegmentType
      BY <2>2
    <3> QED
      BY <3>1 DEF SegmentType
  <2>7. SegmentsFit'
    <3>1. CASE Kept(x)
      <4> DEFINE s == Segment(x)
                 n == Len(segments) + 1
      <4>1. /\ x.power \in Multiples /\ x.power \in Int
            /\ x.power \in frame.lowest..frame.highest
            /\ cursor + x.duration <= frame.until
        BY <1>2, <3>1, PebcAssumption DEF Kept, ElementType, Multiples
      <4>2. /\ frame.lowest \in Int /\ frame.highest \in Int
            /\ frame.envelope.ramp \in Nat
        BY <2>2, EnvelopeAssumption DEF FrameType, EnvelopeType, Multiples
      <4>3. /\ Room(x.power).UPWARD <= x.power - frame.lowest
            /\ Room(x.power).DOWNWARD <= frame.highest - x.power
        BY <4>1, <4>2 DEF Room, Lesser, Greater
      <4>4. s.start = cursor /\ s.end = cursor' /\ s.power = x.power
            /\ s.room = Room(x.power)
        BY <2>1 DEF Segment
      <4>5. /\ Len(segments) \in Nat /\ segments' = Append(segments, s)
            /\ DOMAIN segments' = 1..n /\ DOMAIN segments = 1..Len(segments)
        <5>1. s \in SegmentType
          <6>1. Room(x.power) \in [Directions -> Nat]
            BY <4>1, <4>2 DEF Room, Lesser, Greater, Directions
          <6> QED
            BY <2>1, <2>2, <2>3, <4>1, <6>1 DEF Segment, SegmentType
        <5> QED
          BY <2>1, <2>2, <3>1, <5>1
      <4>6. /\ segments'[n] = s
            /\ \A i \in DOMAIN segments : segments'[i] = segments[i]
        BY <2>2, <4>5
      <4>7. ASSUME NEW i \in DOMAIN segments'
            PROVE  i \in DOMAIN segments \/ i = n
        BY <4>5
      <4>8. /\ cursor <= cursor' /\ cursor' \in Nat /\ cursor' <= frame.until
            /\ frame.until \in Int
        BY <2>1, <2>2, <2>3, <4>1 DEF FrameType
      <4> HIDE DEF s
      <4>9. ASSUME NEW i \in DOMAIN segments
            PROVE  /\ segments[i].end <= cursor /\ segments[i].end <= cursor'
                   /\ \A j \in 1..(i - 1) : j \in DOMAIN segments
        <5>1. segments[i].end <= cursor /\ segments[i].end \in Nat
          BY <2>6 DEF RInv, SegmentsFit
        <5>2. segments[i].end <= cursor'
          BY <2>2, <4>8, <5>1
        <5>3. \A j \in 1..(i - 1) : j \in DOMAIN segments
          BY <4>5
        <5> QED
          BY <5>1, <5>2, <5>3
      <4>10. ASSUME NEW i \in DOMAIN segments'
             PROVE  /\ segments'[i].end <= cursor'
                    /\ segments'[i].end <= frame'.until
                    /\ segments'[i].power \in Multiples
                    /\ segments'[i].power \in frame'.lowest..frame'.highest
                    /\ segments'[i].room.UPWARD
                         <= segments'[i].power - frame'.lowest
                    /\ segments'[i].room.DOWNWARD
                         <= frame'.highest - segments'[i].power
                    /\ \A j \in 1..(i - 1) :
                         segments'[j].end <= segments'[i].start
        <5>1. CASE i = n
          <6>1. \A j \in 1..(i - 1) : j \in DOMAIN segments
            BY <4>5, <5>1
          <6> QED
            BY <2>1, <4>1, <4>3, <4>4, <4>6, <4>8, <4>9, <5>1, <6>1
        <5>2. CASE i \in DOMAIN segments
          BY <2>1, <4>6, <4>9, <5>2 DEF RInv, SegmentsFit
        <5> QED
          BY <4>7, <5>1, <5>2
      <4> QED
        BY <4>10 DEF SegmentsFit
    <3>2. CASE ~Kept(x)
      <4>1. segments' = segments /\ frame' = frame /\ cursor <= cursor'
            /\ cursor' \in Nat
        BY <2>1, <2>2, <2>3, <3>2
      <4> QED
        BY <2>2, <2>6, <4>1 DEF RInv, SegmentsFit
    <3> QED
      BY <3>1, <3>2
  <2> QED
    BY <2>4, <2>5, <2>7 DEF RInv
<1> QED
  BY <1>1, <1>2

(* The first bucket is the first one not before the forecast.              *)
LEMMA AlignedFirst ==
  ASSUME NEW t \in Nat
  PROVE  /\ Aligned(t) \in Nat /\ Aligned(t) % Resolution = 0
         /\ t <= Aligned(t)
         /\ \A b \in Nat : b % Resolution = 0 /\ t <= b => Aligned(t) <= b
<1> DEFINE r == Resolution
           q == (t + r - 1) \div r
<1>1. r \in Nat \ {0}
  BY PebcAssumption
<1>2. /\ q \in Nat /\ r * q <= t + r - 1 /\ t + r - 1 < r * q + r
      /\ r * q \in Nat /\ q * r = r * q
  BY <1>1
<1>3. (r * q) % r = 0
  <2> HIDE DEF q
  <2> QED
    BY <1>1, <1>2
<1>4. Aligned(t) = r * q
  BY <1>2 DEF Aligned
<1> HIDE DEF q
<1>5. ASSUME NEW b \in Nat, b % r = 0, t <= b, b < r * q
      PROVE  FALSE
  <2>1. b + r <= r * q
    BY <1>2, <1>3, <1>5, Apart
  <2> QED
    BY <1>1, <1>2, <1>5, <2>1
<1>6. t <= r * q
  BY <1>1, <1>2
<1> QED
  BY <1>2, <1>3, <1>4, <1>5, <1>6

LEMMA EndOfForecastReckoning ==
  ASSUME RInv, EndOfForecast
  PROVE  RInv'
<1>1. CASE segments = <<>>
  BY <1>1, LeaveReckoning DEF EndOfForecast
<1>2. CASE segments # <<>>
  <2>1. /\ phase = "reading" /\ phase' = "budgeting"
        /\ bucket' = Aligned(segments[1].start)
        /\ UNCHANGED <<frame, cursor, segments, ends, taken, offers>>
    BY <1>2 DEF EndOfForecast, inputs, budgets
  <2>2. segments[1].start \in Nat
    <3>1. segments[1] \in SegmentType
      BY <1>2 DEF RInv, IInv, TypeOK
    <3> QED
      BY <3>1 DEF SegmentType
  <2>3. IInv'
    BY EndOfForecastInv DEF RInv
  <2>4. SegmentsFit'
    BY <2>1 DEF RInv, SegmentsFit
  <2>5. EnergiesAdd' /\ SharesFit'
    BY <2>1 DEF RInv, IInv, TypeOK, InOrder, EnergiesAdd, SharesFit
  <2>6. offers' = {} /\ Passed' = {}
    <3>1. /\ bucket' \in Nat
          /\ \A b \in Nat :
               b % Resolution = 0 /\ segments'[1].start <= b => bucket' <= b
      BY <2>1, <2>2, AlignedFirst
    <3>2. Passed' = {}
      BY <3>1 DEF Passed
    <3> QED
      BY <2>1, <3>2 DEF RInv, OffersInOrder
  <2>7. BucketsFollow'
    <3>1. bucket' % Resolution = 0 /\ segments'[1].start <= bucket'
      BY <2>1, <2>2, AlignedFirst
    <3> QED
      BY <2>6, <3>1 DEF BucketsFollow
  <2>8. OffersInOrder'
    BY <1>2, <2>1, <2>6, <2>7 DEF OffersInOrder
  <2> QED
    BY <2>3, <2>4, <2>5, <2>8 DEF RInv
<1> QED
  BY <1>1, <1>2

LEMMA AddBaselineReckoning ==
  ASSUME RInv, AddBaseline
  PROVE  RInv'
<1> DEFINE i == Len(ends) + 1
           stored == StoredBefore(i) + segments[i].power * Duration(segments[i])
<1>1. CASE stored \notin frame.envelope.minEnergy..frame.envelope.maxEnergy
  BY <1>1, LeaveReckoning DEF AddBaseline
<1>2. CASE stored \in frame.envelope.minEnergy..frame.envelope.maxEnergy
  <2>1. /\ phase = "budgeting" /\ i <= Len(segments)
        /\ ends' = Append(ends, stored)
        /\ UNCHANGED <<phase, frame, cursor, segments, taken, bucket, offers>>
    BY <1>2 DEF AddBaseline, inputs, outputs
  <2>2. ends \in Seq(Int) /\ Len(ends) \in Nat /\ DOMAIN ends = 1..Len(ends)
    BY DEF RInv, IInv, TypeOK
  <2>3. taken = <<>> /\ offers = {} /\ Passed = {} /\ segments # <<>>
        /\ BucketsFollow
    <3>1. taken = <<>>
      BY <2>1, <2>2 DEF RInv, IInv, TypeOK, InOrder
    <3>2. Passed = {} /\ BucketsFollow /\ segments # <<>>
      BY <2>1 DEF RInv, OffersInOrder
    <3> QED
      BY <3>1, <3>2 DEF BucketsFollow
  <2>4. IInv'
    BY AddBaselineInv DEF RInv
  <2>5. SegmentsFit' /\ SharesFit'
    BY <2>1, <2>3 DEF RInv, SegmentsFit, SharesFit
  <2>6. EnergiesAdd'
    <3>1. stored \in Int
      <4>1. frame \in FrameType
        BY <2>1 DEF RInv, IInv, InOrder
      <4>2. frame.envelope.minEnergy \in Int /\ frame.envelope.maxEnergy \in Int
        BY <4>1, FrameFacts
      <4> HIDE DEF stored
      <4> QED
        BY <1>2, <4>2
    <3>2. /\ DOMAIN ends' = 1..i /\ ends'[i] = stored
          /\ \A k \in 1..Len(ends) : ends'[k] = ends[k]
      <4> HIDE DEF stored
      <4> QED
        BY <2>1, <2>2, <3>1
    <3>3. ASSUME NEW k \in 1..i
          PROVE  StoredBefore(k)' = StoredBefore(k)
      <4>1. k # 1 => k - 1 \in 1..Len(ends)
        BY <2>2
      <4> QED
        BY <2>1, <3>2, <4>1 DEF StoredBefore
    <3>4. ASSUME NEW k \in 1..i
          PROVE  ends'[k] = StoredBefore(k)
                              + segments[k].power * Duration(segments[k])
      <4>1. CASE k = i
        BY <3>2, <4>1
      <4>2. CASE k # i
        <5>1. k \in DOMAIN ends
          BY <2>2, <4>2
        <5> QED
          BY <2>2, <3>2, <5>1 DEF RInv, EnergiesAdd
      <4> QED
        BY <4>1, <4>2
    <3> QED
      BY <2>1, <3>2, <3>3, <3>4 DEF EnergiesAdd, Duration
  <2>7. OffersInOrder'
    <3>1. Passed' = {}
      BY <2>1, <2>3 DEF Passed
    <3>2. BucketsFollow'
      BY <2>1, <2>3, <3>1 DEF BucketsFollow
    <3> QED
      BY <2>1, <2>3, <3>1, <3>2 DEF OffersInOrder
  <2> QED
    BY <2>4, <2>5, <2>6, <2>7 DEF RInv
<1> QED
  BY <1>1, <1>2

LEMMA AllocateShareReckoning ==
  ASSUME RInv, Allocate, ~Leave("refused")
  PROVE  RInv'
<1> DEFINE i == Len(taken) + 1
           new == [d \in Directions |-> TakenBefore(d, i) + Share(d, i)]
<1>1. /\ phase = "budgeting" /\ i <= Len(segments)
      /\ phase' = IF i = Len(segments) THEN "offering" ELSE phase
      /\ Len(ends) = Len(segments)
      /\ taken' = Append(taken, new)
      /\ UNCHANGED <<frame, cursor, segments, ends, bucket, offers>>
  BY DEF Allocate, inputs, outputs
<1>2. /\ taken \in Seq(Quantities) /\ Len(taken) \in Nat /\ i \in Nat
      /\ DOMAIN taken = 1..Len(taken)
      /\ Len(segments) \in Nat /\ DOMAIN segments = 1..Len(segments)
      /\ i \in DOMAIN segments
  BY <1>1 DEF RInv, IInv, TypeOK
<1>3. IInv'
  BY AllocateInv DEF RInv
<1>4. \A d \in Directions : TakenBefore(d, i) \in Int
  <2>1. i # 1 => i - 1 \in DOMAIN taken
    BY <1>2
  <2>2. \A k \in DOMAIN taken : \A d \in Directions : taken[k][d] \in Int
    BY DEF RInv, IInv, TypeOK, Quantities
  <2> QED
    BY <2>1, <2>2 DEF TakenBefore
<1>5. ASSUME NEW d \in Directions
      PROVE  /\ Share(d, i) \in Int
             /\ Share(d, i) <= segments[i].room[d] * Duration(segments[i])
  <2>1. segments[i].room[d] \in Nat /\ Duration(segments[i]) \in Nat
    <3>1. segments[i] \in SegmentType /\ segments[i].start <= segments[i].end
      BY <1>2 DEF RInv, IInv, TypeOK
    <3> QED
      BY <3>1 DEF SegmentType, Duration
  <2> DEFINE whole == segments[i].room[d] * Duration(segments[i])
  <2>2. whole \in Nat
    BY <2>1, ProductOfNaturals
  <2>3. Budget(d, i) \in Nat
    BY <1>1, <1>2, BudgetType DEF RInv, IInv
  <2>4. Share(d, i) = Lesser(whole, Greater(0, Budget(d, i) - TakenBefore(d, i)))
    BY DEF Share
  <2> HIDE DEF whole
  <2>5. Share(d, i) \in Int /\ Share(d, i) <= whole
    BY <1>4, <2>2, <2>3, <2>4 DEF Lesser, Greater
  <2> QED
    BY <2>5 DEF whole
<1>6. /\ new \in Quantities
      /\ \A d \in Directions : new[d] = TakenBefore(d, i) + Share(d, i)
  BY <1>4, <1>5 DEF Quantities
<1> HIDE DEF new
<1>7. /\ DOMAIN taken' = 1..i /\ Len(taken') = i /\ taken'[i] = new
      /\ \A k \in 1..(i - 1) : k \in DOMAIN taken /\ taken'[k] = taken[k]
  BY <1>1, <1>2, <1>6
<1>8. SegmentsFit'
  BY <1>1 DEF RInv, SegmentsFit
<1>9. EnergiesAdd'
  <2>1. \A k : StoredBefore(k)' = StoredBefore(k)
    BY <1>1 DEF StoredBefore
  <2> QED
    BY <1>1, <2>1 DEF RInv, EnergiesAdd
<1>10. SharesFit'
  <2>1. ASSUME NEW k \in DOMAIN taken', NEW d \in Directions
        PROVE  /\ taken'[k][d] - TakenBefore(d, k)'
                    <= segments[k].room[d] * Duration(segments[k])
    <3>1. TakenBefore(d, k)' = TakenBefore(d, k)
      BY <1>2, <1>7 DEF TakenBefore
    <3>2. CASE k = i
      <4> DEFINE whole == segments[i].room[d] * Duration(segments[i])
      <4>1. whole \in Int
        <5>1. segments[i] \in SegmentType /\ segments[i].start <= segments[i].end
          BY <1>2 DEF RInv, IInv, TypeOK
        <5>2. segments[i].room[d] \in Nat /\ Duration(segments[i]) \in Nat
          BY <5>1 DEF SegmentType, Duration
        <5> QED
          BY <5>2, ProductOfNaturals
      <4>2. Share(d, i) <= whole /\ Share(d, i) \in Int
        BY <1>5
      <4>3. /\ taken'[k][d] = TakenBefore(d, i) + Share(d, i)
            /\ TakenBefore(d, i) \in Int
        BY <1>4, <1>6, <1>7, <3>2
      <4> HIDE DEF whole
      <4>4. taken'[k][d] - TakenBefore(d, i) <= whole
        BY <4>1, <4>2, <4>3
      <4> QED
        BY <3>1, <3>2, <4>4 DEF whole
    <3>3. CASE k # i
      <4>1. k \in DOMAIN taken /\ taken'[k] = taken[k]
        BY <1>2, <1>7, <3>3
      <4> QED
        BY <3>1, <4>1 DEF RInv, SharesFit
    <3> QED
      BY <3>2, <3>3
  <2> QED
    BY <1>1, <2>1 DEF SharesFit, Duration
<1>11. OffersInOrder'
  <2>1. offers = {} /\ Passed = {} /\ segments # <<>> /\ BucketsFollow
    <3>1. Passed = {} /\ BucketsFollow /\ segments # <<>>
      BY <1>1 DEF RInv, OffersInOrder
    <3> QED
      BY <3>1 DEF BucketsFollow
  <2>2. Passed' = {}
    BY <1>1, <2>1 DEF Passed
  <2>3. BucketsFollow'
    BY <1>1, <2>1, <2>2 DEF BucketsFollow
  <2>4. phase' = "offering" => Len(taken') = Len(segments')
    BY <1>1, <1>7
  <2> QED
    BY <1>1, <2>1, <2>2, <2>3, <2>4 DEF OffersInOrder
<1> QED
  BY <1>3, <1>8, <1>9, <1>10, <1>11 DEF RInv

LEMMA AllocateReckoning ==
  ASSUME RInv, Allocate
  PROVE  RInv'
BY AllocateShareReckoning, LeaveReckoning

(* What an offer says depends on the segments and their energy only.       *)
LEMMA OffersUnchanged ==
  ASSUME UNCHANGED <<frame, segments, taken>>
  PROVE  /\ FinalEnd' = FinalEnd
         /\ \A b : Covered(b)' = Covered(b) /\ Offer(b)' = Offer(b)
<1>1. FinalEnd' = FinalEnd
  BY DEF FinalEnd
<1>2. ASSUME NEW b
      PROVE  Covered(b)' = Covered(b)
  BY DEF Covered
<1>3. ASSUME NEW b
      PROVE  Offer(b)' = Offer(b)
  <2>1. \A d, i : PowerLeft(d, i)' = PowerLeft(d, i)
    BY DEF PowerLeft, TakenBefore
  <2>2. Overlaps(b)' = Overlaps(b)
    BY DEF Overlaps
  <2>3. \A d : Capacity(d, b)' = Capacity(d, b)
    BY <2>1, <2>2 DEF Capacity
  <2>4. \A p : EnergyIn(b, p)' = EnergyIn(b, p)
    BY DEF EnergyIn
  <2> QED
    BY <2>1, <2>3, <2>4 DEF Offer
<1> QED
  BY <1>1, <1>2, <1>3

(* With UNCHANGED of all but the bucket and the offers, most of it stays.  *)
LEMMA SegmentsUnchanged ==
  ASSUME RInv, UNCHANGED <<frame, cursor, segments, ends, taken>>
  PROVE  SegmentsFit' /\ EnergiesAdd' /\ SharesFit'
<1>1. /\ \A i : StoredBefore(i)' = StoredBefore(i)
      /\ \A d, i : TakenBefore(d, i)' = TakenBefore(d, i)
  BY DEF StoredBefore, TakenBefore
<1>2. SegmentsFit'
  BY DEF RInv, SegmentsFit
<1>3. EnergiesAdd'
  BY <1>1 DEF RInv, EnergiesAdd, Duration
<1>4. SharesFit'
  BY <1>1 DEF RInv, SharesFit, Duration
<1> QED
  BY <1>2, <1>3, <1>4

LEMMA StutterReckoning ==
  ASSUME RInv, UNCHANGED vars
  PROVE  RInv'
<1>1. UNCHANGED <<phase, frame, cursor, segments, ends, taken, bucket, offers>>
  BY DEF vars, inputs, budgets, outputs
<1>2. IInv'
  BY StutterInv DEF RInv
<1>3. SegmentsFit' /\ EnergiesAdd' /\ SharesFit'
  BY <1>1, SegmentsUnchanged
<1>4. OffersInOrder'
  <2>1. Passed' = Passed
    BY <1>1 DEF Passed
  <2>2. BucketsFollow => BucketsFollow'
    BY <1>1, <2>1, OffersUnchanged DEF BucketsFollow
  <2>3. FinalEnd' = FinalEnd
    BY <1>1, OffersUnchanged
  <2> QED
    BY <1>1, <2>1, <2>2, <2>3 DEF RInv, OffersInOrder
<1> QED
  BY <1>2, <1>3, <1>4 DEF RInv

LEMMA NextMultiple ==
  ASSUME NEW b \in Nat, NEW r \in Nat \ {0}, b % r = 0
  PROVE  (b + r) % r = 0
<1> DEFINE q == b \div r
<1>1. q \in Nat /\ b = r * q
  OBVIOUS
<1> HIDE DEF q
<1>2. b + r = r * (q + 1)
  BY <1>1
<1>3. (r * (q + 1)) % r = 0
  BY <1>1
<1> QED
  BY <1>2, <1>3

(* The bucket of the step joins those passed, its offer those made.        *)
LEMMA NextBucketReckoning ==
  ASSUME RInv, NextBucket
  PROVE  RInv'
<1>1. /\ phase = "offering" /\ bucket + Resolution <= FinalEnd
      /\ offers' = IF Covered(bucket) THEN offers \cup {Offer(bucket)}
                                      ELSE offers
      /\ bucket' = bucket + Resolution
      /\ UNCHANGED <<phase, frame, cursor, segments, ends, taken>>
  BY DEF NextBucket, inputs, budgets
<1>2. /\ BucketsFollow /\ segments # <<>> /\ Len(taken) = Len(segments)
      /\ bucket \in Nat /\ Resolution \in Nat \ {0}
  BY <1>1, PebcAssumption DEF RInv, OffersInOrder, IInv, TypeOK
<1>3. IInv'
  BY BucketsInv DEF RInv
<1>4. SegmentsFit' /\ EnergiesAdd' /\ SharesFit'
  BY <1>1, SegmentsUnchanged
<1>5. segments[1].start \in Nat
  <2>1. segments[1] \in SegmentType
    BY <1>2 DEF RInv, IInv, TypeOK
  <2> QED
    BY <2>1 DEF SegmentType
<1>6. /\ FinalEnd' = FinalEnd
      /\ \A b : Covered(b)' = Covered(b) /\ Offer(b)' = Offer(b)
  BY <1>1, OffersUnchanged
<1>7. Passed' = Passed \cup {bucket}
  <2>1. ASSUME NEW b \in Passed'
        PROVE  b \in Passed \cup {bucket}
    <3>1. /\ b \in Nat /\ b < bucket + Resolution /\ b % Resolution = 0
          /\ segments[1].start <= b
      BY <1>1, <1>2 DEF Passed
    <3>2. ~(bucket < b)
      BY <1>2, <3>1, Apart DEF BucketsFollow
    <3> QED
      BY <1>2, <3>1, <3>2 DEF Passed
  <2>2. ASSUME NEW b \in Passed
        PROVE  b \in Passed'
    BY <1>1, <1>2 DEF Passed
  <2>3. bucket \in Passed'
    BY <1>1, <1>2 DEF Passed, BucketsFollow
  <2> QED
    BY <2>1, <2>2, <2>3
<1>8. bucket' % Resolution = 0
  <2>1. bucket % Resolution = 0
    BY <1>2 DEF BucketsFollow
  <2> QED
    BY <1>1, <1>2, <2>1, NextMultiple
<1>9. segments'[1].start <= bucket'
  BY <1>1, <1>2, <1>5 DEF BucketsFollow
<1>10. \A b \in Passed' : b + Resolution <= FinalEnd'
  BY <1>1, <1>2, <1>6, <1>7 DEF BucketsFollow
<1>11. offers' = {Offer(b)' : b \in {c \in Passed' : Covered(c)'}}
  <2> DEFINE made(S) == {Offer(b) : b \in {c \in S : Covered(c)}}
  <2>1. offers' = made(Passed \cup {bucket})
    <3>1. offers = made(Passed)
      BY <1>2 DEF BucketsFollow
    <3> QED
      BY <1>1, <3>1
  <2> QED
    BY <1>6, <1>7, <2>1
<1>12. BucketsFollow'
  BY <1>8, <1>9, <1>10, <1>11 DEF BucketsFollow
<1>13. OffersInOrder'
  BY <1>1, <1>2, <1>12 DEF OffersInOrder
<1> QED
  BY <1>3, <1>4, <1>13 DEF RInv

LEMMA LastBucketReckoning ==
  ASSUME RInv, LastBucket
  PROVE  RInv'
<1>1. /\ phase = "offering" /\ bucket + Resolution > FinalEnd
      /\ phase' = "done"
      /\ UNCHANGED <<frame, cursor, segments, ends, taken, bucket, offers>>
  BY DEF LastBucket, inputs, budgets, outputs
<1>2. IInv'
  BY BucketsInv DEF RInv
<1>3. SegmentsFit' /\ EnergiesAdd' /\ SharesFit'
  BY <1>1, SegmentsUnchanged
<1>4. OffersInOrder'
  <2>1. BucketsFollow /\ segments # <<>> /\ Len(taken) = Len(segments)
    BY <1>1 DEF RInv, OffersInOrder
  <2>2. Passed' = Passed
    BY <1>1 DEF Passed
  <2>3. BucketsFollow' /\ FinalEnd' = FinalEnd
    BY <1>1, <2>1, <2>2, OffersUnchanged DEF BucketsFollow
  <2> QED
    BY <1>1, <2>1, <2>3 DEF OffersInOrder
<1> QED
  BY <1>2, <1>3, <1>4 DEF RInv

LEMMA NormalizeReckoning ==
  ASSUME RInv, Normalize
  PROVE  RInv'
<1>1. CASE \E x \in Elements : Read(x)
  BY <1>1, ReadReckoning
<1>2. CASE EndOfForecast
  BY <1>2, EndOfForecastReckoning
<1>3. CASE AddBaseline
  BY <1>3, AddBaselineReckoning
<1>4. CASE Allocate
  BY <1>4, AllocateReckoning
<1>5. CASE NextBucket
  BY <1>5, NextBucketReckoning
<1>6. CASE LastBucket
  BY <1>6, LastBucketReckoning
<1> QED
  BY <1>1, <1>2, <1>3, <1>4, <1>5, <1>6 DEF Normalize

(* The inductive invariant of one normalization, its offers included.      *)
THEOREM PebcReckoning == Spec => []RInv
<1>1. RInv /\ [Next]_vars => RInv'
  <2> SUFFICES ASSUME RInv, [Next]_vars
               PROVE  RInv'
    OBVIOUS
  <2>1. CASE \E e \in Envelopes, m \in Messages : Begin(e, m)
    BY <2>1, BeginReckoning
  <2>2. CASE Normalize
    BY <2>2, NormalizeReckoning
  <2>3. CASE UNCHANGED vars
    BY <2>3, StutterReckoning
  <2> QED
    BY <2>1, <2>2, <2>3 DEF Next
<1> QED
  BY <1>1, InitReckoning, PTL DEF Spec

(* The same while records are registered and offers stored.                *)
THEOREM ProvisionedReckoning == ProvisioningSpec => []RInv
<1>1. ProvisioningInit => RInv
  BY InitReckoning DEF ProvisioningInit
<1>2. PInv /\ RInv /\ [ProvisioningNext]_all => RInv'
  <2> SUFFICES ASSUME PInv, RInv, [ProvisioningNext]_all
               PROVE  RInv'
    OBVIOUS
  <2>1. CASE \E r \in Records : Register(r)
    BY <2>1, StutterReckoning DEF Register
  <2>2. CASE \E owner \in Owners, m \in Messages : Receive(owner, m)
    <3>1. PICK owner \in Owners, m \in Messages : Receive(owner, m)
      BY <2>2
    <3>2. Begin(registry.envelope, m) /\ registry # None
      BY <3>1 DEF Receive, Provisioned
    <3>3. registry.envelope \in Envelopes
      BY <3>2, ProvisioningAssumption DEF PInv, ProvisioningTypeOK
    <3> QED
      BY <3>2, <3>3, BeginReckoning
  <2>3. CASE Step
    BY <2>3, NormalizeReckoning DEF Step
  <2>4. CASE Upsert
    BY <2>4, StutterReckoning DEF Upsert
  <2>5. CASE Return
    BY <2>5, LeaveReckoning DEF Return
  <2>6. CASE UNCHANGED all
    BY <2>6, StutterReckoning DEF all
  <2> QED
    BY <2>1, <2>2, <2>3, <2>4, <2>5, <2>6 DEF ProvisioningNext
<1> QED
  BY <1>1, <1>2, ProvisioningInvariant, PTL DEF ProvisioningSpec

(* What the offers of a completed normalization promise.                   *)
LEMMA ReckoningPromises ==
  RInv => ActivationsStayInside /\ OffersEveryCoveredBucket
<1> SUFFICES ASSUME RInv
             PROVE  ActivationsStayInside /\ OffersEveryCoveredBucket
  OBVIOUS
<1>1. CASE phase = "done" /\ segments # <<>>
  <2>1. /\ BucketsFollow /\ Len(taken) = Len(segments)
        /\ bucket + Resolution > FinalEnd
    BY <1>1 DEF RInv, OffersInOrder
  <2>2. Complete
    BY <1>1, <2>1 DEF RInv, BucketsFollow, Complete, Offered, Reckoned
  <2> QED
    BY <2>2, CompleteStays, CompleteCovers DEF Complete
<1>2. CASE phase # "done"
  BY <1>2 DEF ActivationsStayInside, OffersEveryCoveredBucket
<1>3. CASE segments = <<>>
  BY <1>3 DEF RInv, OffersInOrder, ActivationsStayInside,
     OffersEveryCoveredBucket
<1> QED
  BY <1>1, <1>2, <1>3

(* Whichever of its offers are activated, in either direction, the         *)
(* resource stays within the stored energy and the power it is registered  *)
(* for (pebc.py:230-334, dispatch.py:19-23).                               *)
THEOREM PebcActivationsStayInside == Spec => []ActivationsStayInside
BY PebcReckoning, ReckoningPromises, PTL

(* A publication interval is offered exactly if every moment of it has a   *)
(* forecast (pebc.py:265-283).                                             *)
THEOREM PebcOffersCovered == Spec => []OffersEveryCoveredBucket
BY PebcReckoning, ReckoningPromises, PTL

(* The first, whatever is registered in the meantime (resources.py:91-104, *)
(* pebc.py:230-334).                                                       *)
THEOREM ProvisionedActivationsStayInside ==
  ProvisioningSpec => []ActivationsStayInside
BY ProvisionedReckoning, ReckoningPromises, PTL

(* The second, whatever is registered in the meantime.                     *)
THEOREM ProvisionedOffersCovered ==
  ProvisioningSpec => []OffersEveryCoveredBucket
BY ProvisionedReckoning, ReckoningPromises, PTL
=============================================================================
