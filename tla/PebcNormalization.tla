-------------------------- MODULE PebcNormalization --------------------------
(***************************************************************************)
(* normalize_pebc_offer: from the registered envelope of a resource, the   *)
(* power limits it announces and its power forecast to one offer for each  *)
(* publication interval (bucket).                                          *)
(*                                                                         *)
(* Time is counted in an integer step, power and energy in multiples of    *)
(* Unit, which every duration but 0 divides: the divisions of the code are *)
(* exact and its tolerances have nothing to forgive.  A positive power     *)
(* charges the resource.  UPWARD lowers its power, DOWNWARD raises it.     *)
(***************************************************************************)
EXTENDS Integers, Sequences, FiniteSetsExt

CONSTANTS
  Envelopes,   \* what ResourceRegistry.require may return
  Messages,    \* power constraints, start of the forecast, clock offset
  Elements,    \* elements of a forecast
  Horizon,     \* bound: elements start before it, no more are kept
  Resolution,
  Unit,
  Day, MaximumAge, MaximumSkew,
  None

Multiples == {n \in Int : n % Unit = 0}

(* An element may have no length. *)
Durations == {0} \cup {n \in Nat \ {0} : Unit % n = 0}

(* ramp: what the resource can adjust within activation_response_time *)
EnvelopeType ==
  [minPower : Multiples, maxPower : Multiples, minEnergy : Multiples,
   maxEnergy : Multiples, initial : Multiples, ramp : Multiples]

(* range: the lowest start of the upper limits, the highest end of the     *)
(* lower limits, None if one of the two is missing.                        *)
MessageType ==
  [start : Nat, from : Int, until : Int \cup {None}, offset : Int,
   range : [lowest : Multiples, highest : Multiples] \cup {None}]

(* power: None unless the element has exactly one supported value *)
ElementType == [duration : Durations, power : Multiples \cup {None}]

ASSUME PebcAssumption ==
  /\ Unit \in Nat \ {0} /\ Horizon \in Nat
  /\ Resolution \in Nat \ {0} /\ Unit % Resolution = 0
  /\ Day \in Nat /\ MaximumAge \in Nat /\ MaximumSkew \in Nat
  /\ None \notin Int
  /\ Messages \subseteq MessageType /\ Elements \subseteq ElementType

(* ProvisionedResource.validate_envelope *)
ASSUME EnvelopeAssumption ==
  /\ Envelopes \subseteq EnvelopeType
  /\ \A e \in Envelopes :
       /\ e.minPower <= e.maxPower /\ e.ramp >= 0
       /\ e.minEnergy <= e.initial /\ e.initial <= e.maxEnergy

Directions == {"UPWARD", "DOWNWARD"}

VARIABLES
  phase,
  frame,    \* the envelope and the message, None before and after
  cursor,   \* start of the next element
  segments, \* raw_segments, room: upward_w and downward_w before the budgets
  ends,     \* baseline_end_energy
  taken,    \* allocated energy after each segment of the second loop
  bucket,   \* bucket_start
  offers

inputs == <<frame, cursor, segments>>
budgets == <<ends, taken>>
outputs == <<bucket, offers>>
vars == <<phase, inputs, budgets, outputs>>

Init ==
  /\ phase = "idle"
  /\ frame = None /\ cursor = 0 /\ segments = <<>>
  /\ ends = <<>> /\ taken = <<>>
  /\ bucket = 0 /\ offers = {}

Lesser(m, n) == IF m <= n THEN m ELSE n
Greater(m, n) == IF m >= n THEN m ELSE n

-----------------------------------------------------------------------------
(* The checks of the envelope and of the message. *)

Skewed(m) == m.offset < -MaximumAge \/ m.offset > MaximumSkew

Unlimited(m) == m.range = None \/ m.until = None

(* minimum_upper_w and maximum_lower_w *)
Lowest(e, m) == Greater(m.range.lowest, e.minPower)
Highest(e, m) == Lesser(m.range.highest, e.maxPower)

Unusable(e, m) == m.until - m.from > Day \/ Lowest(e, m) > Highest(e, m)

(* An error, or no offers at all: nothing of the message is kept. *)
Leave(result) ==
  /\ phase' = result
  /\ frame' = None /\ cursor' = 0 /\ segments' = <<>>
  /\ ends' = <<>> /\ taken' = <<>>
  /\ bucket' = 0 /\ offers' = {}

Begin(e, m) ==
  /\ phase = "idle"
  /\ \/ Skewed(m) /\ Leave("refused")
     \/ ~Skewed(m) /\ Unlimited(m) /\ Leave("done")
     \/ ~Skewed(m) /\ ~Unlimited(m) /\ Unusable(e, m) /\ Leave("refused")
     \/ /\ ~Skewed(m) /\ ~Unlimited(m) /\ ~Unusable(e, m)
        /\ phase' = "reading"
        /\ frame' = [envelope |-> e, from |-> m.from, until |-> m.until,
                     lowest |-> Lowest(e, m), highest |-> Highest(e, m)]
        /\ cursor' = m.start
        /\ UNCHANGED <<segments, budgets, outputs>>

-----------------------------------------------------------------------------
(* The elements of the forecast, in order. *)

Kept(x) ==
  /\ x.power # None
  /\ cursor >= frame.from /\ cursor + x.duration <= frame.until

Room(power) ==
  [UPWARD |-> Lesser(Greater(0, power - frame.lowest), frame.envelope.ramp),
   DOWNWARD |-> Lesser(Greater(0, frame.highest - power), frame.envelope.ramp)]

Segment(x) ==
  [start |-> cursor, end |-> cursor + x.duration, power |-> x.power,
   room |-> Room(x.power)]

Read(x) ==
  /\ phase = "reading" /\ cursor < Horizon /\ Len(segments) < Horizon
  /\ IF Kept(x) /\ x.power \notin frame.lowest..frame.highest
       THEN Leave("refused")
       ELSE /\ segments' = IF Kept(x) THEN Append(segments, Segment(x))
                                      ELSE segments
            /\ cursor' = cursor + x.duration
            /\ UNCHANGED <<phase, frame, budgets, outputs>>

Aligned(t) == ((t + Resolution - 1) \div Resolution) * Resolution

EndOfForecast ==
  /\ phase = "reading"
  /\ IF segments = <<>>
       THEN Leave("done")
       ELSE /\ phase' = "budgeting"
            /\ bucket' = Aligned(segments[1].start)
            /\ UNCHANGED <<inputs, budgets, offers>>

-----------------------------------------------------------------------------
(* Energy: the baseline first, then what is left of it for the offers. *)

Duration(s) == s.end - s.start

StoredBefore(i) == IF i = 1 THEN frame.envelope.initial ELSE ends[i - 1]

AddBaseline ==
  LET i == Len(ends) + 1
      stored == StoredBefore(i) + segments[i].power * Duration(segments[i])
  IN  /\ phase = "budgeting" /\ i <= Len(segments)
      /\ IF stored \in frame.envelope.minEnergy..frame.envelope.maxEnergy
           THEN /\ ends' = Append(ends, stored)
                /\ UNCHANGED <<phase, inputs, taken, outputs>>
           ELSE Leave("refused")

Headroom(d, i) ==
  IF d = "UPWARD" THEN ends[i] - frame.envelope.minEnergy
                  ELSE frame.envelope.maxEnergy - ends[i]

(* Mutant of Budget: the headroom of the segment itself only. *)
BudgetOfSegment(d, i) == Headroom(d, i)

(* future_upward_budget, future_downward_budget *)
Budget(d, i) == Min({Headroom(d, j) : j \in i..Len(segments)})

TakenBefore(d, i) == IF i = 1 THEN 0 ELSE taken[i - 1][d]

(* Mutant of Share: what earlier segments were given is not counted. *)
ShareOfBudget(d, i) ==
  Lesser(segments[i].room[d] * Duration(segments[i]), Budget(d, i))

(* upward_energy_kwh, downward_energy_kwh of segment i *)
Share(d, i) ==
  Lesser(segments[i].room[d] * Duration(segments[i]),
         Greater(0, Budget(d, i) - TakenBefore(d, i)))

(* The energy is divided by the hours of the segment: one without length   *)
(* ends the normalization with a ZeroDivisionError.                        *)
Allocate ==
  LET i == Len(taken) + 1
  IN  /\ phase = "budgeting"
      /\ Len(ends) = Len(segments) /\ i <= Len(segments)
      /\ \/ Duration(segments[i]) = 0 /\ Leave("refused")
         \/ /\ Duration(segments[i]) > 0
            /\ taken' = Append(taken,
                 [d \in Directions |-> TakenBefore(d, i) + Share(d, i)])
            /\ phase' = IF i = Len(segments) THEN "offering" ELSE phase
            /\ UNCHANGED <<inputs, ends, outputs>>

-----------------------------------------------------------------------------
(* The buckets. *)

FinalEnd == Lesser(segments[Len(segments)].end, frame.until)

Overlap(s, b) ==
  Greater(0, Lesser(s.end, b + Resolution) - Greater(s.start, b))

(* sum() over a list, from its first element to the n-th *)
SumUpTo(d, n) ==
  LET sum[k \in Nat] == IF k = 0 THEN 0 ELSE sum[k - 1] + d[k]
  IN  sum[n]

Overlaps(b) == {i \in DOMAIN segments : Overlap(segments[i], b) > 0}

(* Mutant of Covered: a bucket that overlaps the forecast is enough. *)
CoveredInPart(b) == Overlaps(b) # {}

Covered(b) ==
  SumUpTo([i \in DOMAIN segments |-> Overlap(segments[i], b)], Len(segments))
    = Resolution

(* upward_w, downward_w of the second list of segments *)
PowerLeft(d, i) ==
  (taken[i][d] - TakenBefore(d, i)) \div Duration(segments[i])

Capacity(d, b) == Min({PowerLeft(d, i) : i \in Overlaps(b)})

EnergyIn(b, power) ==
  SumUpTo([i \in DOMAIN segments |-> power[i] * Overlap(segments[i], b)],
          Len(segments))

Offer(b) ==
  [start |-> b,
   baseline |-> EnergyIn(b, [i \in DOMAIN segments |-> segments[i].power])
                  \div Resolution,
   capacity |-> [d \in Directions |-> Capacity(d, b)],
   energy |-> [d \in Directions |->
                 EnergyIn(b, [i \in DOMAIN segments |-> PowerLeft(d, i)])]]

NextBucket ==
  /\ phase = "offering" /\ bucket + Resolution <= FinalEnd
  /\ offers' = IF Covered(bucket) THEN offers \cup {Offer(bucket)} ELSE offers
  /\ bucket' = bucket + Resolution
  /\ UNCHANGED <<phase, inputs, budgets>>

LastBucket ==
  /\ phase = "offering" /\ bucket + Resolution > FinalEnd
  /\ phase' = "done"
  /\ UNCHANGED <<inputs, budgets, outputs>>

-----------------------------------------------------------------------------
Normalize ==
  \/ \E x \in Elements : Read(x)
  \/ EndOfForecast
  \/ AddBaseline
  \/ Allocate
  \/ NextBucket
  \/ LastBucket

Next == (\E e \in Envelopes, m \in Messages : Begin(e, m)) \/ Normalize

Spec == Init /\ [][Next]_vars

-----------------------------------------------------------------------------
Quantities == [Directions -> Int]

SegmentType ==
  [start : Nat, end : Nat, power : Int, room : [Directions -> Nat]]

FrameType ==
  [envelope : Envelopes, from : Int, until : Int, lowest : Int, highest : Int]

(* Types of the state; the lists of the loops keep step with each other.   *)
TypeOK ==
  /\ phase \in {"idle", "reading", "budgeting", "offering", "done", "refused"}
  /\ frame \in FrameType \cup {None}
  /\ cursor \in Nat /\ bucket \in Nat
  /\ segments \in Seq(SegmentType)
  /\ ends \in Seq(Int) /\ taken \in Seq(Quantities)
  /\ Len(taken) <= Len(ends) /\ Len(ends) <= Len(segments)
  /\ \A i \in DOMAIN segments : segments[i].start <= segments[i].end
  /\ \A i \in DOMAIN taken : segments[i].start < segments[i].end
  /\ \A o \in offers : o.start \in Nat

(* However the segments share the energy, and whatever the forecast still  *)
(* has to consume, what has been promised up to a segment can be delivered *)
(* without leaving the stored energy the resource is registered for        *)
(* (pebc.py:215-262).                                                      *)
BudgetsHold ==
  \A i \in DOMAIN taken, d \in Directions :
    /\ TakenBefore(d, i) <= taken[i][d]
    /\ taken[i][d] <= Headroom(d, i)

(* dispatch.build_pebc_instruction: target_kw of a full reservation *)
Target(o, d) ==
  IF d = "UPWARD" THEN o.baseline - o.capacity[d] ELSE o.baseline + o.capacity[d]

Activations == [offers -> Directions \cup {None}]

(* What the resource draws at time t when it follows the instructions.  In *)
(* a gap of the forecast the code reckons with no power.                   *)
PowerAt(choice, t) ==
  LET chosen == {o \in offers : choice[o] # None
                             /\ o.start <= t /\ t < o.start + Resolution}
      forecast == {i \in DOMAIN segments :
                     segments[i].start <= t /\ t < segments[i].end}
  IN  IF chosen # {} THEN LET o == CHOOSE o \in chosen : TRUE
                          IN  Target(o, choice[o])
      ELSE IF forecast # {} THEN segments[CHOOSE i \in forecast : TRUE].power
      ELSE 0

StoredAt(choice, t) ==
  frame.envelope.initial
    + SumUpTo([k \in 1..t |-> PowerAt(choice, k - 1)], t)

(* Whichever offers are activated in full, in either direction, a resource *)
(* that follows its instructions stays at every moment within the stored   *)
(* energy and the power it is registered for: offers of neighbouring       *)
(* intervals do not promise the same energy, and resampling promises       *)
(* nothing a segment does not have (pebc.py:230-334, dispatch.py:19-23).   *)
ActivationsStayInside ==
  phase = "done" /\ offers # {} =>
    \A choice \in Activations, t \in segments[1].start..FinalEnd :
      /\ StoredAt(choice, t)
           \in frame.envelope.minEnergy..frame.envelope.maxEnergy
      /\ t < FinalEnd /\ (\E o \in offers : choice[o] # None /\ o.start = t) =>
           PowerAt(choice, t) \in frame.lowest..frame.highest

(* A publication interval is offered exactly when every moment of it has a *)
(* forecast, however the elements and their gaps fall on the intervals     *)
(* (pebc.py:265-283).                                                      *)
OffersEveryCoveredBucket ==
  phase = "done" /\ segments # <<>> =>
    {o.start : o \in offers} =
      {b \in 0..frame.until :
         /\ b % Resolution = 0
         /\ \A t \in b..(b + Resolution - 1) :
              \E i \in DOMAIN segments :
                segments[i].start <= t /\ t < segments[i].end}
=============================================================================
