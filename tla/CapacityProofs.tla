--------------------------- MODULE CapacityProofs ---------------------------
(***************************************************************************)
(* Facts about the sums of Capacity: they are natural numbers, and a new   *)
(* claim adds exactly its own units.                                       *)
(***************************************************************************)
EXTENDS Capacity, FiniteSetTheorems, TLAPS

(* The sets the sums are taken over are finite. *)
LEMMA UnitsFinite ==
  /\ IsFiniteSet(Resources \X (1..MaxOffer))
  /\ IsFiniteSet(Reservations \X (1..MaxOffer))
<1>1. IsFiniteSet(1..MaxOffer)
  <2>1. 1 \in Int /\ MaxOffer \in Int
    BY CapacityAssumption
  <2> QED
    BY <2>1, FS_Interval
<1>2. IsFiniteSet(Resources) /\ IsFiniteSet(Reservations)
  BY CapacityAssumption
<1> QED
  BY <1>1, <1>2, FS_Product

(* Total is a natural number, and an empty claim totals nothing. *)
LEMMA TotalType ==
  ASSUME NEW a \in Claims
  PROVE  Total(a) \in Nat
<1>1. IsFiniteSet(Resources \X (1..MaxOffer))
  BY UnitsFinite
<1>2. IsFiniteSet({x \in Resources \X (1..MaxOffer) : x[2] <= a[x[1]]})
  BY <1>1, FS_Subset
<1> QED
  BY <1>2, FS_CardinalityType DEF Total

LEMMA TotalOfNothing == Total(NoClaim) = 0
<1>1. {x \in Resources \X (1..MaxOffer) : x[2] <= NoClaim[x[1]]} = {}
  BY CapacityAssumption DEF NoClaim
<1> QED
  BY <1>1, FS_EmptySet DEF Total

(* What is reserved of a resource is a natural number. *)
LEMMA ReservedType ==
  ASSUME NEW st, NEW pr, NEW cl, NEW m, NEW s
  PROVE  /\ IsFiniteSet(ClaimUnits(st, pr, cl, m, s))
         /\ Reserved(st, pr, cl, m, s) \in Nat
<1>1. IsFiniteSet(Reservations \X (1..MaxOffer))
  BY UnitsFinite
<1>2. IsFiniteSet(ClaimUnits(st, pr, cl, m, s))
  BY <1>1, FS_Subset DEF ClaimUnits
<1> QED
  BY <1>2, FS_CardinalityType DEF Reserved

(* Between (st, pr, cl) and (st2, pr2, cl2) the reservation r became       *)
(* active for product p with claim a, and no other one changed.            *)
BecameActive(st, pr, cl, st2, pr2, cl2, r, p, a) ==
  /\ st[r] \notin ActiveStatuses
  /\ st2[r] \in ActiveStatuses /\ pr2[r] = p /\ cl2[r] = a
  /\ \A z \in Reservations \ {r} :
       st2[z] = st[z] /\ pr2[z] = pr[z] /\ cl2[z] = cl[z]

(* Then the market of p holds a[s] more units of s than before.            *)
LEMMA ReservedAfterConfirm ==
  ASSUME NEW st, NEW pr, NEW cl, NEW st2, NEW pr2, NEW cl2,
         NEW r \in Reservations, NEW p, NEW a \in Claims,
         BecameActive(st, pr, cl, st2, pr2, cl2, r, p, a),
         NEW s \in Resources
  PROVE  Reserved(st2, pr2, cl2, Market[p], s)
           = Reserved(st, pr, cl, Market[p], s) + a[s]
<1> DEFINE m == Market[p]
           old == ClaimUnits(st, pr, cl, m, s)
           new == ClaimUnits(st2, pr2, cl2, m, s)
           own == {r} \X (1..a[s])
<1>1. a[s] \in 0..MaxOffer
  BY DEF Claims
<1>2. /\ IsFiniteSet(own)
      /\ Cardinality(own) = a[s]
  <2>1. IsFiniteSet({r}) /\ Cardinality({r}) = 1
    BY FS_Singleton
  <2>2. \A n \in Nat : IsFiniteSet(1..n) /\ Cardinality(1..n) = n
    BY FS_Interval
  <2>3. a[s] \in Nat
    BY <1>1, CapacityAssumption
  <2>4. IsFiniteSet(1..a[s]) /\ Cardinality(1..a[s]) = a[s]
    BY <2>2, <2>3
  <2> DEFINE I == 1..a[s]
             R == {r}
  <2> HIDE DEF I, R
  <2>5. IsFiniteSet(R \X I) /\ Cardinality(R \X I) = 1 * Cardinality(I)
    BY <2>1, <2>4, FS_Product DEF I, R
  <2> QED
    BY <2>3, <2>4, <2>5 DEF I, R
<1>3. new = old \cup own
  <2>1. ASSUME NEW x \in Reservations \X (1..MaxOffer)
        PROVE  x \in new <=> x \in old \cup own
    <3>1. CASE x[1] = r
      <4>1. x \in new <=> x[2] <= a[s]
        BY <3>1 DEF ClaimUnits, BecameActive
      <4>2. x \notin old
        BY <3>1 DEF ClaimUnits, BecameActive
      <4>3. x \in own <=> x[2] <= a[s]
        BY <1>1, <3>1, CapacityAssumption
      <4> QED
        BY <4>1, <4>2, <4>3
    <3>2. CASE x[1] # r
      BY <2>1, <3>2 DEF ClaimUnits, BecameActive
    <3> QED
      BY <3>1, <3>2
  <2>2. own \subseteq Reservations \X (1..MaxOffer)
    BY <1>1, CapacityAssumption
  <2>3. /\ new \subseteq Reservations \X (1..MaxOffer)
        /\ old \subseteq Reservations \X (1..MaxOffer)
    BY DEF ClaimUnits
  <2> HIDE DEF new, old, own
  <2> QED
    BY <2>1, <2>2, <2>3
<1>4. old \cap own = {}
  BY DEF ClaimUnits, BecameActive
<1>5. IsFiniteSet(old) /\ Cardinality(old) \in Nat
  BY ReservedType DEF Reserved
<1>6. Cardinality(new) = Cardinality(old) + a[s]
  <2> HIDE DEF new, old, own
  <2>1. Cardinality(old \cup own)
          = Cardinality(old) + Cardinality(own) - Cardinality(old \cap own)
    BY <1>2, <1>5, FS_Union
  <2>2. Cardinality(old \cap own) = 0
    BY <1>4, FS_EmptySet
  <2> QED
    BY <1>1, <1>2, <1>3, <1>5, <2>1, <2>2
<1> QED
  BY <1>6 DEF Reserved

(* Giving s its first x units raises the total by x. *)
LEMMA TotalAfterGive ==
  ASSUME NEW a \in Claims, NEW s \in Resources, NEW x \in 0..MaxOffer,
         a[s] = 0
  PROVE  /\ [a EXCEPT ![s] = x] \in Claims
         /\ Total([a EXCEPT ![s] = x]) = Total(a) + x
<1> DEFINE b == [a EXCEPT ![s] = x]
           old == {y \in Resources \X (1..MaxOffer) : y[2] <= a[y[1]]}
           new == {y \in Resources \X (1..MaxOffer) : y[2] <= b[y[1]]}
           R == {s}
           I == 1..x
           own == R \X I
<1>1. b \in Claims
  BY DEF Claims
<1>2. IsFiniteSet(old) /\ Cardinality(old) \in Nat
  <2>1. IsFiniteSet(old)
    BY UnitsFinite, FS_Subset
  <2> QED
    BY <2>1, FS_CardinalityType
<1>3. IsFiniteSet(own) /\ Cardinality(own) = x
  <2>1. IsFiniteSet(R) /\ Cardinality(R) = 1
    BY FS_Singleton
  <2>2. \A n \in Nat : IsFiniteSet(1..n) /\ Cardinality(1..n) = n
    BY FS_Interval
  <2>3. x \in Nat
    BY CapacityAssumption
  <2>4. IsFiniteSet(I) /\ Cardinality(I) = x
    BY <2>2, <2>3
  <2> HIDE DEF R, I
  <2>5. IsFiniteSet(R \X I) /\ Cardinality(R \X I) = 1 * Cardinality(I)
    BY <2>1, <2>4, FS_Product
  <2> QED
    BY <2>3, <2>4, <2>5
<1>4. new = old \cup own
  <2>1. ASSUME NEW y \in Resources \X (1..MaxOffer)
        PROVE  y \in new <=> y \in old \cup own
    <3>1. CASE y[1] = s
      <4>1. b[y[1]] = x /\ a[y[1]] = 0
        BY <3>1 DEF Claims
      <4> QED
        BY <2>1, <3>1, <4>1, CapacityAssumption
    <3>2. CASE y[1] # s
      BY <2>1, <3>2 DEF Claims
    <3> QED
      BY <3>1, <3>2
  <2>2. own \subseteq Resources \X (1..MaxOffer)
    BY CapacityAssumption
  <2>3. /\ new \subseteq Resources \X (1..MaxOffer)
        /\ old \subseteq Resources \X (1..MaxOffer)
    OBVIOUS
  <2> HIDE DEF new, old, own
  <2> QED
    BY <2>1, <2>2, <2>3
<1>5. old \cap own = {}
  OBVIOUS
<1>6. Cardinality(new) = Cardinality(old) + x
  <2> HIDE DEF new, old, own
  <2>1. Cardinality(old \cup own)
          = Cardinality(old) + Cardinality(own) - Cardinality(old \cap own)
    BY <1>2, <1>3, FS_Union
  <2>2. Cardinality(old \cap own) = 0
    BY <1>5, FS_EmptySet
  <2> QED
    BY <1>2, <1>3, <1>4, <2>1, <2>2
<1> QED
  BY <1>1, <1>6 DEF Total

(* A claim that is nowhere larger does not total more. *)
LEMMA TotalMonotone ==
  ASSUME NEW a \in Claims, NEW b \in Claims,
         \A s \in Resources : a[s] <= b[s]
  PROVE  Total(a) <= Total(b)
<1> DEFINE A == {x \in Resources \X (1..MaxOffer) : x[2] <= a[x[1]]}
           B == {x \in Resources \X (1..MaxOffer) : x[2] <= b[x[1]]}
<1>1. A \subseteq B
  <2> SUFFICES ASSUME NEW x \in Resources \X (1..MaxOffer), x[2] <= a[x[1]]
               PROVE  x[2] <= b[x[1]]
    OBVIOUS
  <2>1. /\ x[1] \in Resources /\ x[2] \in Int
        /\ a[x[1]] \in Int /\ b[x[1]] \in Int
    <3>1. MaxOffer \in Nat
      BY CapacityAssumption
    <3>2. x[1] \in Resources /\ x[2] \in 1..MaxOffer
      OBVIOUS
    <3>3. a[x[1]] \in 0..MaxOffer /\ b[x[1]] \in 0..MaxOffer
      BY <3>2 DEF Claims
    <3> QED
      BY <3>1, <3>2, <3>3
  <2>2. a[x[1]] <= b[x[1]]
    BY <2>1
  <2> QED
    BY <2>1, <2>2
<1>2. IsFiniteSet(B)
  BY UnitsFinite, FS_Subset
<1> HIDE DEF A, B
<1>3. Cardinality(A) <= Cardinality(B)
  BY <1>1, <1>2, FS_Subset
<1> QED
  BY <1>3 DEF A, B, Total

(* Nowhere larger and once smaller: it totals less. *)
LEMMA TotalStrict ==
  ASSUME NEW a \in Claims, NEW b \in Claims,
         \A s \in Resources : a[s] <= b[s],
         NEW t \in Resources, a[t] < b[t]
  PROVE  Total(a) < Total(b)
<1> DEFINE A == {x \in Resources \X (1..MaxOffer) : x[2] <= a[x[1]]}
           B == {x \in Resources \X (1..MaxOffer) : x[2] <= b[x[1]]}
           u == <<t, b[t]>>
<1>1. /\ MaxOffer \in Nat
      /\ a[t] \in 0..MaxOffer /\ b[t] \in 0..MaxOffer
  BY CapacityAssumption DEF Claims
<1>2. u \in B /\ u \notin A
  <2>1. u \in Resources \X (1..MaxOffer) /\ u[1] = t /\ u[2] = b[t]
    BY <1>1
  <2> QED
    BY <1>1, <2>1
<1>3. A \subseteq B
  <2> SUFFICES ASSUME NEW x \in Resources \X (1..MaxOffer), x[2] <= a[x[1]]
               PROVE  x[2] <= b[x[1]]
    OBVIOUS
  <2>1. x[1] \in Resources /\ x[2] \in 1..MaxOffer
    OBVIOUS
  <2>2. a[x[1]] \in 0..MaxOffer /\ b[x[1]] \in 0..MaxOffer
    BY <2>1 DEF Claims
  <2>3. a[x[1]] <= b[x[1]]
    BY <2>1
  <2> QED
    BY <1>1, <2>1, <2>2, <2>3
<1>4. IsFiniteSet(B)
  BY UnitsFinite, FS_Subset
<1> HIDE DEF A, B, u
<1>5. /\ Cardinality(A) <= Cardinality(B)
      /\ Cardinality(A) # Cardinality(B)
  BY <1>2, <1>3, <1>4, FS_Subset
<1>6. Cardinality(A) \in Nat /\ Cardinality(B) \in Nat
  BY <1>3, <1>4, FS_Subset, FS_CardinalityType
<1> QED
  BY <1>5, <1>6 DEF A, B, Total

(* Of two allocations that differ at t, the one that gives less there      *)
(* gives nothing later and has nothing more to give earlier: it would      *)
(* total less.  So there is one allocation at most. *)
LEMMA OneAllocation ==
  ASSUME NEW free \in [Resources -> 0..MaxOffer], NEW power,
         NEW a \in Claims, NEW b \in Claims,
         IsAllocation(a, free, power), IsAllocation(b, free, power)
  PROVE  a = b
<1>1. ASSUME NEW x \in Claims, NEW y \in Claims, NEW t \in Resources,
             IsAllocation(x, free, power), IsAllocation(y, free, power),
             x[t] < y[t]
      PROVE  FALSE
  <2>1. /\ MaxOffer \in Nat /\ Resources \subseteq Nat
        /\ \A s \in Resources :
             x[s] \in 0..MaxOffer /\ y[s] \in 0..MaxOffer
             /\ free[s] \in 0..MaxOffer
    BY CapacityAssumption DEF Claims
  <2>2. \A s \in Resources :
          /\ x[s] <= free[s] /\ y[s] <= free[s]
          /\ x[s] > 0 => \A u \in Resources : u < s => x[u] = free[u]
          /\ y[s] > 0 => \A u \in Resources : u < s => y[u] = free[u]
    BY <1>1 DEF IsAllocation
  <2>3. ASSUME NEW s \in Resources
        PROVE  x[s] <= y[s]
    <3>1. CASE s < t
      <4>1. y[s] = free[s]
        BY <1>1, <2>1, <2>2, <3>1
      <4> QED
        BY <2>1, <2>2, <4>1
    <3>2. CASE s = t
      BY <1>1, <2>1, <3>2
    <3>3. CASE t < s
      <4>1. x[t] # free[t]
        BY <1>1, <2>1, <2>2
      <4>2. ~(x[s] > 0)
        BY <2>2, <3>3, <4>1
      <4> QED
        BY <2>1, <4>2
    <3> QED
      BY <2>1, <3>1, <3>2, <3>3
  <2>4. Total(x) < Total(y)
    BY <1>1, <2>3, TotalStrict
  <2>5. Total(x) = Total(y) /\ Total(x) \in Nat
    BY <1>1, TotalType DEF IsAllocation
  <2> QED
    BY <2>4, <2>5
<1>2. \A t \in Resources : a[t] = b[t]
  <2> SUFFICES ASSUME NEW t \in Resources PROVE a[t] = b[t]
    OBVIOUS
  <2>1. a[t] \in Nat /\ b[t] \in Nat
    BY CapacityAssumption DEF Claims
  <2>2. ~(a[t] < b[t]) /\ ~(b[t] < a[t])
    BY <1>1
  <2> QED
    BY <2>1, <2>2
<1> QED
  BY <1>2 DEF Claims

=============================================================================
