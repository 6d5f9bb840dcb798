-------------------- MODULE ReservationTransactionsProofs --------------------
(***************************************************************************)
(* What the locks of PostgresReservationBackend guarantee, for every       *)
(* number of sessions, reservations, keys, products and resources.         *)
(*                                                                         *)
(* The invariants of the runs speak of one session.  Inductive they are    *)
(* only with what the locks mean: no two sessions hold the same one, so    *)
(* nobody else inserts the key one session has found free, or the          *)
(* activation another has found missing; and a row marked by a sweep is    *)
(* still CONFIRMED, because whoever writes a status waits for the row.     *)
(***************************************************************************)
EXTENDS ReservationTransactions, CapacityProofs, TLAPS

(* No two sessions hold the same advisory lock.                            *)
LocksExclude ==
  \A c, d \in Sessions : c # d => Held(c) \cap Held(d) = {}

(* A row marked by a sweep is CONFIRMED and marked by that sweep alone.    *)
MarksHold ==
  \A c \in Sessions : \A r \in marked[c] :
    /\ status[r] = "CONFIRMED"
    /\ \A d \in Sessions \ {c} : r \notin marked[d]

(* A session is where its call can be, and loops over offers it has seen.  *)
CallsMatch ==
  \A c \in Sessions :
    /\ pc[c] # "idle" => call[c] \in Calls
    /\ pc[c] = "looping" => call[c].op = "create"
    /\ pc[c] = "writing" => call[c].op \in {"cancel", "activate"}
    /\ \A s \in pending[c] : seen[c][s] # NoOffer

(* Rows agree with activations, and a row that was never saved has no key. *)
RowsMatch ==
  /\ ActivatedStaysActivated
  /\ \A r \in Reservations : status[r] = "NONE" => key[r] = NoKey

TransactionsInv ==
  /\ TypeOK /\ LocksExclude /\ MarksHold /\ CallsMatch
  /\ NoUniqueViolation /\ RowsMatch

-----------------------------------------------------------------------------
LEMMA CallFields ==
  ASSUME NEW x \in Calls
  PROVE  /\ x.op \in {"create", "get", "cancel", "activate"}
         /\ x.op = "create" =>
              /\ x.key \in Keys /\ x.request \in Requests
              /\ Locks(x) = {<<"idempotency", x.key>>,
                             <<"product", x.request.product>>}
         /\ x.op # "create" =>
              /\ x.reservation \in Reservations
              /\ Locks(x) = {<<"reservation", x.reservation>>}
BY DEF Calls, Locks

(* Two creates that both hold locks are for different keys, two other      *)
(* calls for different reservations.                                       *)
LEMMA HoldersDiffer ==
  ASSUME TypeOK, LocksExclude, CallsMatch,
         NEW c \in Sessions, NEW d \in Sessions, c # d,
         pc[c] \notin {"idle", "waiting"}, pc[d] \notin {"idle", "waiting"}
  PROVE  /\ call[c].op = "create" /\ call[d].op = "create" =>
              call[c].key # call[d].key
         /\ call[c].op # "create" /\ call[d].op # "create" =>
              call[c].reservation # call[d].reservation
<1>1. call[c] \in Calls /\ call[d] \in Calls
  BY DEF CallsMatch
<1>2. Locks(call[c]) \cap Locks(call[d]) = {}
  BY DEF LocksExclude, Held
<1>3. CASE call[c].op = "create" /\ call[d].op = "create"
  BY <1>1, <1>2, <1>3, CallFields
<1>4. CASE call[c].op # "create" /\ call[d].op # "create"
  BY <1>1, <1>2, <1>4, CallFields
<1> QED
  BY <1>3, <1>4

LEMMA TransactionsInit == Init => TransactionsInv
<1> SUFFICES ASSUME Init PROVE TransactionsInv
  OBVIOUS
<1>1. NoClaim \in Claims
  BY CapacityAssumption DEF NoClaim, Claims
<1>2. NoClaim \in [Resources -> (0..MaxOffer) \cup {NoOffer}]
  BY CapacityAssumption DEF NoClaim
<1>3. 0 \in 0..MaxTime
  BY TransactionsAssumption
<1>4. TypeOK
  BY <1>1, <1>2, <1>3, TransactionsAssumption DEF Init, TypeOK, Statuses
<1> QED
  BY <1>4 DEF Init, TransactionsInv, LocksExclude, MarksHold, CallsMatch,
     NoUniqueViolation, RowsMatch, ActivatedStaysActivated, Held

-----------------------------------------------------------------------------
(* The end of a transaction *)

(* What Finish(c) does to the sessions: the state of c is reset, that of   *)
(* the others stays.                                                       *)
LEMMA FinishEffect ==
  ASSUME TypeOK, NEW c \in Sessions, Finish(c)
  PROVE  /\ pc' \in [Sessions -> {"idle", "waiting", "locked", "swept",
                                  "writing", "looping"}]
         /\ call' \in [Sessions -> Calls \cup {NoCall}]
         /\ now' \in [Sessions -> 0..MaxTime]
         /\ marked' \in [Sessions -> SUBSET Reservations]
         /\ pending' \in [Sessions -> SUBSET Resources]
         /\ seen' \in [Sessions -> [Resources -> (0..MaxOffer) \cup {NoOffer}]]
         /\ remaining' \in [Sessions -> Nat]
         /\ given' \in [Sessions -> Claims]
         /\ pc'[c] = "idle" /\ marked'[c] = {} /\ pending'[c] = {}
         /\ \A d \in Sessions \ {c} :
              /\ pc'[d] = pc[d] /\ call'[d] = call[d]
              /\ marked'[d] = marked[d]
              /\ pending'[d] = pending[d] /\ seen'[d] = seen[d]
<1>1. NoClaim \in Claims
  BY CapacityAssumption DEF NoClaim, Claims
<1>2. NoClaim \in [Resources -> (0..MaxOffer) \cup {NoOffer}]
  BY CapacityAssumption DEF NoClaim
<1>3. 0 \in 0..MaxTime
  BY TransactionsAssumption
<1> QED
  BY <1>1, <1>2, <1>3 DEF Finish, TypeOK

(* The locks and the calls stay in order when a transaction ends.          *)
LEMMA FinishKeeps ==
  ASSUME TransactionsInv, NEW c \in Sessions, Finish(c)
  PROVE  LocksExclude' /\ CallsMatch'
<1>1. TypeOK /\ LocksExclude /\ CallsMatch
  BY DEF TransactionsInv
<1>2. Held(c)' = {}
  BY <1>1, FinishEffect DEF Held
<1>3. \A d \in Sessions \ {c} : Held(d)' = Held(d)
  BY <1>1, FinishEffect DEF Held
<1>4. LocksExclude'
  BY <1>1, <1>2, <1>3 DEF LocksExclude
<1>5. CallsMatch'
  BY <1>1, FinishEffect DEF CallsMatch
<1> QED
  BY <1>4, <1>5

LEMMA RollbackKeeps ==
  ASSUME TransactionsInv, NEW c \in Sessions, Rollback(c)
  PROVE  TransactionsInv'
<1>1. TypeOK /\ Finish(c)
  BY DEF TransactionsInv, Rollback
<1>2. UNCHANGED <<clock, offers, status, key, product, requested, expires,
                  claim, activated, granted, revived>>
  BY DEF Rollback, rows, ghosts
<1>3. TypeOK'
  BY <1>1, <1>2, FinishEffect DEF TypeOK
<1>4. MarksHold' /\ RowsMatch'
  BY <1>1, <1>2, FinishEffect
  DEF TransactionsInv, MarksHold, RowsMatch, ActivatedStaysActivated
<1>5. NoUniqueViolation'
  <2>1. \A k : WithKey(k)' = WithKey(k)
    BY <1>2 DEF WithKey
  <2> QED
    BY <1>1, <1>2, <2>1, FinishEffect DEF TransactionsInv, NoUniqueViolation
<1> QED
  BY <1>1, <1>3, <1>4, <1>5, FinishKeeps DEF TransactionsInv

(* A commit writes the rows c has marked, and the row r if c may write it: *)
(* no other session has marked it.  The marks of the others stay true.     *)
LEMMA ViewFacts ==
  ASSUME TypeOK, MarksHold, NEW c \in Sessions
  PROVE  /\ View(c) \in [Reservations -> Statuses]
         /\ \A r \in Reservations :
              /\ View(c)[r] \in {status[r], "EXPIRED"}
              /\ View(c)[r] # status[r] => status[r] = "CONFIRMED"
              /\ View(c)[r] = "CONFIRMED" => status[r] = "CONFIRMED"
              /\ \A d \in Sessions \ {c} :
                   r \in marked[d] => View(c)[r] = status[r]
BY DEF View, TypeOK, MarksHold, Statuses

LEMMA CommitSweepKeeps ==
  ASSUME TransactionsInv, NEW c \in Sessions, CommitSweep(c)
  PROVE  TransactionsInv'
<1>1. TypeOK /\ MarksHold /\ Finish(c) /\ status' = View(c)
  BY DEF TransactionsInv, CommitSweep
<1>2. UNCHANGED <<clock, offers, key, product, requested, expires,
                  claim, activated, granted, revived>>
  BY DEF CommitSweep, ghosts
<1>3. TypeOK'
  BY <1>1, <1>2, FinishEffect, ViewFacts DEF TypeOK
<1>4. MarksHold'
  <2>1. marked'[c] = {} /\ \A d \in Sessions \ {c} : marked'[d] = marked[d]
    BY <1>1, FinishEffect
  <2>2. ASSUME NEW d \in Sessions \ {c}, NEW r \in marked[d]
        PROVE  status'[r] = "CONFIRMED"
    <3>1. r \in Reservations
      BY <1>1 DEF TypeOK
    <3>2. View(c)[r] = status[r]
      BY <1>1, <3>1, ViewFacts
    <3> QED
      BY <1>1, <3>2 DEF MarksHold
  <2> QED
    BY <1>1, <2>1, <2>2 DEF MarksHold
<1>5. \A r \in Reservations :
        /\ status'[r] \in {status[r], "EXPIRED"}
        /\ status'[r] # status[r] => status[r] = "CONFIRMED"
  BY <1>1, ViewFacts
<1>6. RowsMatch'
  BY <1>2, <1>5 DEF TransactionsInv, RowsMatch, ActivatedStaysActivated
<1>7. NoUniqueViolation'
  <2>1. \A r \in Reservations : status'[r] # "NONE" <=> status[r] # "NONE"
    BY <1>5
  <2>2. \A k : WithKey(k)' = WithKey(k)
    BY <1>2, <2>1 DEF WithKey
  <2> QED
    BY <1>1, <1>2, <2>2, FinishEffect DEF TransactionsInv, NoUniqueViolation
<1> QED
  BY <1>1, <1>3, <1>4, <1>6, <1>7, FinishKeeps DEF TransactionsInv

-----------------------------------------------------------------------------
(* One step of a transaction: nothing of the rows changes, and of the      *)
(* sessions only c moves on, with the locks it has.                        *)
MovesOn(c, where) ==
  /\ pc' = [pc EXCEPT ![c] = where]
  /\ UNCHANGED <<offers, status, key, product, requested, expires, claim,
                 activated, granted, revived, call, clock>>

LEMMA MoveKeeps ==
  ASSUME TransactionsInv, NEW c \in Sessions,
         NEW where \in {"swept", "writing", "looping"}, MovesOn(c, where),
         pc[c] \notin {"idle", "waiting"}
  PROVE  LocksExclude' /\ RowsMatch' /\ \A k : WithKey(k)' = WithKey(k)
<1>1. TypeOK /\ LocksExclude
  BY DEF TransactionsInv
<1>2. \A d \in Sessions : Held(d)' = Held(d)
  BY <1>1 DEF Held, MovesOn, TypeOK
<1>3. LocksExclude'
  BY <1>1, <1>2 DEF LocksExclude
<1>4. RowsMatch' /\ \A k : WithKey(k)' = WithKey(k)
  BY DEF MovesOn, TransactionsInv, RowsMatch, ActivatedStaysActivated, WithKey
<1> QED
  BY <1>3, <1>4

LEMMA BeginKeeps ==
  ASSUME TransactionsInv, NEW c \in Sessions, NEW x \in Calls, Begin(c, x)
  PROVE  TransactionsInv'
<1>1. /\ TypeOK /\ pc[c] = "idle"
      /\ pc' = [pc EXCEPT ![c] = "waiting"]
      /\ call' = [call EXCEPT ![c] = x]
      /\ now' = [now EXCEPT ![c] = clock]
      /\ UNCHANGED <<clock, offers, status, key, product, requested, expires,
                     claim, activated, marked, pending, seen, remaining,
                     given, granted, revived>>
  BY DEF TransactionsInv, Begin, rows, local, ghosts
<1>2. TypeOK'
  BY <1>1 DEF TypeOK
<1>3. \A d \in Sessions : Held(d)' = Held(d)
  BY <1>1 DEF Held, TypeOK
<1>4. LocksExclude' /\ MarksHold' /\ RowsMatch'
  BY <1>1, <1>3
  DEF TransactionsInv, LocksExclude, MarksHold, RowsMatch, ActivatedStaysActivated
<1>5. CallsMatch'
  BY <1>1 DEF TransactionsInv, CallsMatch, TypeOK
<1>6. \A k : WithKey(k)' = WithKey(k)
  BY <1>1 DEF WithKey
<1>7. NoUniqueViolation'
  BY <1>1, <1>6 DEF TransactionsInv, NoUniqueViolation, TypeOK
<1> QED
  BY <1>2, <1>4, <1>5, <1>7 DEF TransactionsInv

LEMMA AcquireKeeps ==
  ASSUME TransactionsInv, NEW c \in Sessions, Acquire(c)
  PROVE  TransactionsInv'
<1>1. /\ TypeOK /\ LocksExclude /\ pc[c] = "waiting"
      /\ \A l \in Locks(call[c]) : ~LockedByOther(c, l)
      /\ pc' = [pc EXCEPT ![c] = "locked"]
      /\ UNCHANGED <<clock, offers, status, key, product, requested, expires,
                     claim, activated, call, now, marked, pending, seen,
                     remaining, given, granted, revived>>
  BY DEF TransactionsInv, Acquire, rows, local, ghosts
<1>2. TypeOK'
  BY <1>1 DEF TypeOK
<1>3. Held(c)' = Locks(call[c])
  BY <1>1 DEF Held, TypeOK
<1>4. \A d \in Sessions \ {c} :
        Held(d)' = Held(d) /\ Held(d) \cap Locks(call[c]) = {}
  BY <1>1 DEF Held, TypeOK, LockedByOther
<1>5. LocksExclude'
  BY <1>1, <1>3, <1>4 DEF LocksExclude
<1>6. MarksHold' /\ RowsMatch'
  BY <1>1 DEF TransactionsInv, MarksHold, RowsMatch, ActivatedStaysActivated
<1>7. CallsMatch'
  BY <1>1 DEF TransactionsInv, CallsMatch, TypeOK
<1>8. \A k : WithKey(k)' = WithKey(k)
  BY <1>1 DEF WithKey
<1>9. NoUniqueViolation'
  BY <1>1, <1>8 DEF TransactionsInv, NoUniqueViolation, TypeOK
<1> QED
  BY <1>2, <1>5, <1>6, <1>7, <1>9 DEF TransactionsInv

(* The sweep marks confirmed rows that no other session has marked.        *)
LEMMA SweepKeeps ==
  ASSUME TransactionsInv, NEW c \in Sessions, Sweep(c)
  PROVE  TransactionsInv'
<1>1. PICK at \in 0..MaxTime :
        /\ \A r \in Overdue(at) : RowFree(c, r)
        /\ now' = [now EXCEPT ![c] = at]
        /\ marked' = [marked EXCEPT ![c] = Overdue(at)]
  BY DEF Sweep, TransactionsInv, TypeOK
<1>2. /\ TypeOK /\ pc[c] = "locked" /\ MovesOn(c, "swept")
      /\ UNCHANGED <<pending, seen, remaining, given>>
  BY DEF TransactionsInv, Sweep, MovesOn, rows, local, ghosts
<1>3. TypeOK'
  BY <1>1, <1>2 DEF TypeOK, MovesOn, Overdue
<1>4. LocksExclude' /\ RowsMatch' /\ \A k : WithKey(k)' = WithKey(k)
  BY <1>2, MoveKeeps
<1>5. MarksHold'
  <2>1. \A r \in Overdue(at) :
          /\ status[r] = "CONFIRMED"
          /\ \A d \in Sessions \ {c} : r \notin marked[d]
    BY <1>1 DEF Overdue, RowFree
  <2> QED
    BY <1>1, <1>2, <2>1 DEF TransactionsInv, MarksHold, MovesOn, TypeOK
<1>6. CallsMatch'
  BY <1>2 DEF TransactionsInv, CallsMatch, MovesOn, TypeOK
<1>7. NoUniqueViolation'
  BY <1>2, <1>4 DEF TransactionsInv, NoUniqueViolation, MovesOn, TypeOK
<1> QED
  BY <1>3, <1>4, <1>5, <1>6, <1>7 DEF TransactionsInv

(* A row read as CONFIRMED has no activation.                              *)
LEMMA ReadConfirmedKeeps ==
  ASSUME TransactionsInv, NEW c \in Sessions, ReadConfirmed(c)
  PROVE  TransactionsInv'
<1>1. /\ TypeOK /\ pc[c] = "swept" /\ MovesOn(c, "writing")
      /\ call[c].op \in {"cancel", "activate"}
      /\ View(c)[call[c].reservation] = "CONFIRMED"
      /\ UNCHANGED <<now, marked, pending, seen, remaining, given>>
  BY DEF TransactionsInv, ReadConfirmed, MovesOn, rows, local, ghosts
<1>2. TypeOK'
  BY <1>1 DEF TypeOK, MovesOn
<1>3. LocksExclude' /\ RowsMatch' /\ \A k : WithKey(k)' = WithKey(k)
  BY <1>1, MoveKeeps
<1>4. MarksHold' /\ CallsMatch'
  BY <1>1 DEF TransactionsInv, MarksHold, CallsMatch, MovesOn, TypeOK
<1>5. call[c].reservation \notin activated
  <2>1. call[c].reservation \in Reservations
    BY <1>1, CallFields DEF TransactionsInv, CallsMatch
  <2>2. status[call[c].reservation] = "CONFIRMED"
    BY <1>1, <2>1, ViewFacts DEF TransactionsInv
  <2> QED
    BY <2>1, <2>2 DEF TransactionsInv, RowsMatch, ActivatedStaysActivated
<1>6. NoUniqueViolation'
  BY <1>1, <1>3, <1>5 DEF TransactionsInv, NoUniqueViolation, MovesOn, TypeOK
<1> QED
  BY <1>2, <1>3, <1>4, <1>6 DEF TransactionsInv

LEMMA ReadOffersKeeps ==
  ASSUME TransactionsInv, NEW c \in Sessions, ReadOffers(c)
  PROVE  TransactionsInv'
<1> DEFINE q == call[c].request
           row == offers[q.product]
<1>1. CASE Rollback(c)
  BY <1>1, RollbackKeeps
<1>2. CASE ~Rollback(c)
  <2>1. /\ TypeOK /\ pc[c] = "swept" /\ MovesOn(c, "looping")
        /\ call[c].op = "create" /\ WithKey(call[c].key) = {}
        /\ seen' = [seen EXCEPT ![c] = row]
        /\ pending' = [pending EXCEPT ![c] = Participants(row)]
        /\ remaining' = [remaining EXCEPT ![c] = q.power]
        /\ UNCHANGED <<now, marked, given>>
    BY <1>2 DEF TransactionsInv, ReadOffers, MovesOn, rows, ghosts
  <2>2. q \in Requests
    BY <2>1, CallFields DEF TransactionsInv, CallsMatch
  <2>3. /\ row \in [Resources -> (0..MaxOffer) \cup {NoOffer}]
        /\ q.power \in Nat /\ Participants(row) \subseteq Resources
        /\ \A s \in Participants(row) : row[s] # NoOffer
    BY <2>1, <2>2, TransactionsAssumption DEF Requests, TypeOK, Participants
  <2> HIDE DEF q, row
  <2>4. TypeOK'
    BY <2>1, <2>3 DEF TypeOK, MovesOn
  <2>5. LocksExclude' /\ RowsMatch' /\ \A k : WithKey(k)' = WithKey(k)
    BY <2>1, MoveKeeps
  <2>6. MarksHold' /\ NoUniqueViolation'
    BY <2>1, <2>5
    DEF TransactionsInv, MarksHold, NoUniqueViolation, MovesOn, TypeOK
  <2>7. CallsMatch'
    BY <2>1, <2>3 DEF TransactionsInv, CallsMatch, MovesOn, TypeOK
  <2> QED
    BY <2>4, <2>5, <2>6, <2>7 DEF TransactionsInv
<1> QED
  BY <1>1, <1>2

(* What a resource can give is at most its offer.                          *)
LEMMA VisitOfferKeeps ==
  ASSUME TransactionsInv, NEW c \in Sessions, NEW s \in Resources,
         VisitOffer(c, s)
  PROVE  TransactionsInv'
<1> DEFINE x == IF Available(c, s) < remaining[c] THEN Available(c, s)
                                                  ELSE remaining[c]
<1>1. /\ TypeOK /\ pc[c] = "looping" /\ s \in pending[c]
      /\ given' = [given EXCEPT ![c][s] = x]
      /\ remaining' = [remaining EXCEPT ![c] = @ - x]
      /\ pending' = [pending EXCEPT ![c] = @ \ {s}]
      /\ UNCHANGED <<clock, offers, status, key, product, requested, expires,
                     claim, activated, pc, call, now, marked, seen, granted,
                     revived>>
  BY DEF TransactionsInv, VisitOffer, rows, ghosts
<1>2. seen[c][s] \in 0..MaxOffer
  BY <1>1 DEF TransactionsInv, CallsMatch, TypeOK
<1>3. MaxOffer \in Nat
  BY CapacityAssumption
<1>4. Available(c, s) \in 0..MaxOffer
  <2> DEFINE reserved == Reserved(View(c), product, claim,
                                  Market[call[c].request.product], s)
  <2>1. reserved \in Nat
    BY ReservedType
  <2>2. Available(c, s) = IF seen[c][s] > reserved
                            THEN seen[c][s] - reserved ELSE 0
    BY DEF Available
  <2> HIDE DEF reserved
  <2> QED
    BY <1>2, <1>3, <2>1, <2>2
<1>5. remaining[c] \in Nat
  BY <1>1 DEF TypeOK
<1>6. x \in 0..MaxOffer /\ remaining[c] - x \in Nat
  BY <1>3, <1>4, <1>5
<1> HIDE DEF x
<1>7. TypeOK'
  BY <1>1, <1>6 DEF TypeOK, Claims
<1>8. \A d \in Sessions : Held(d)' = Held(d)
  BY <1>1 DEF Held
<1>9. LocksExclude' /\ MarksHold' /\ RowsMatch'
  BY <1>1, <1>8
  DEF TransactionsInv, LocksExclude, MarksHold, RowsMatch, ActivatedStaysActivated
<1>10. CallsMatch'
  BY <1>1 DEF TransactionsInv, CallsMatch, TypeOK
<1>11. \A k : WithKey(k)' = WithKey(k)
  BY <1>1 DEF WithKey
<1>12. NoUniqueViolation'
  BY <1>1, <1>11 DEF TransactionsInv, NoUniqueViolation
<1> QED
  BY <1>7, <1>9, <1>10, <1>12 DEF TransactionsInv

-----------------------------------------------------------------------------
(* The writes *)

(* cancel and activate: the reservation they write has no activation and   *)
(* no session that could add one, and no mark of another session.          *)
LEMMA WriteKeeps ==
  ASSUME TransactionsInv, NEW c \in Sessions, Write(c)
  PROVE  TransactionsInv'
<1> DEFINE r == call[c].reservation
           result == IF call[c].op = "cancel" THEN "CANCELLED" ELSE "ACTIVATED"
<1>1. /\ TypeOK /\ MarksHold /\ pc[c] = "writing" /\ Finish(c)
      /\ RowFree(c, r)
      /\ status' = [View(c) EXCEPT ![r] = result]
      /\ activated' = IF call[c].op = "cancel" THEN activated
                                               ELSE activated \cup {r}
      /\ revived' = IF status[r] = "EXPIRED" THEN revived \cup {r} ELSE revived
      /\ UNCHANGED <<clock, offers, key, product, requested, expires, claim,
                     granted>>
  BY DEF TransactionsInv, Write
<1>2. /\ call[c].op \in {"cancel", "activate"} /\ r \in Reservations
      /\ r \notin activated
  <2>1. call[c].op \in {"cancel", "activate"} /\ call[c] \in Calls
    BY <1>1 DEF TransactionsInv, CallsMatch
  <2>2. r \in Reservations
    BY <2>1, CallFields
  <2> QED
    BY <1>1, <2>1, <2>2 DEF TransactionsInv, NoUniqueViolation
<1> HIDE DEF r
<1>3. TypeOK'
  <2>1. status' \in [Reservations -> Statuses]
    BY <1>1, <1>2, ViewFacts DEF Statuses
  <2>2. activated' \subseteq Reservations /\ revived' \subseteq Reservations
    BY <1>1, <1>2 DEF TypeOK
  <2> QED
    BY <1>1, <2>1, <2>2, FinishEffect DEF TypeOK
<1>4. /\ status'[r] = result
      /\ \A z \in Reservations \ {r} :
           /\ status'[z] = View(c)[z]
           /\ status'[z] \in {status[z], "EXPIRED"}
           /\ status'[z] # status[z] => status[z] = "CONFIRMED"
  BY <1>1, <1>2, ViewFacts
<1>5. MarksHold'
  <2>1. marked'[c] = {} /\ \A d \in Sessions \ {c} : marked'[d] = marked[d]
    BY <1>1, FinishEffect
  <2>2. ASSUME NEW d \in Sessions \ {c}, NEW z \in marked[d]
        PROVE  status'[z] = "CONFIRMED"
    <3>1. z \in Reservations /\ z # r
      BY <1>1 DEF TypeOK, RowFree
    <3>2. View(c)[z] = status[z]
      BY <1>1, <3>1, ViewFacts
    <3> QED
      BY <1>1, <1>4, <3>1, <3>2 DEF MarksHold
  <2> QED
    BY <1>1, <2>1, <2>2 DEF MarksHold
<1>6. RowsMatch'
  <2>1. ASSUME NEW z \in Reservations
        PROVE  z \in activated'
                 <=> status'[z] \in {"ACTIVATED", "COMPLETED", "FAILED"}
    <3>1. CASE z = r
      BY <1>1, <1>2, <1>4, <3>1
    <3>2. CASE z # r
      <4>1. z \in activated' <=> z \in activated
        BY <1>1, <3>2
      <4> QED
        BY <1>4, <3>2, <4>1 DEF TransactionsInv, RowsMatch, ActivatedStaysActivated
    <3> QED
      BY <3>1, <3>2
  <2>2. \A z \in Reservations : status'[z] = "NONE" => key'[z] = NoKey
    BY <1>1, <1>4 DEF TransactionsInv, RowsMatch
  <2> QED
    BY <2>1, <2>2 DEF RowsMatch, ActivatedStaysActivated
<1>7. NoUniqueViolation'
  <2>1. \A k \in Keys : WithKey(k)' = WithKey(k)
    <3>1. \A z \in Reservations :
            key[z] # NoKey => status'[z] # "NONE" /\ status[z] # "NONE"
      BY <1>1, <1>4 DEF TransactionsInv, RowsMatch
    <3> QED
      BY <1>1, <3>1, TransactionsAssumption DEF WithKey
  <2>2. ASSUME NEW d \in Sessions \ {c}
        PROVE  /\ pc[d] = "looping" => call[d].key \in Keys
               /\ pc[d] = "writing" => call[d].reservation # r
    <3>1. pc[d] # "idle" => call[d] \in Calls
      BY DEF TransactionsInv, CallsMatch
    <3>2. CASE pc[d] = "looping"
      BY <3>1, <3>2, CallFields DEF TransactionsInv, CallsMatch
    <3>3. CASE pc[d] = "writing"
      <4>1. call[d].op # "create" /\ call[c].op # "create"
        BY <1>2, <3>3 DEF TransactionsInv, CallsMatch
      <4> QED
        BY <1>1, <3>3, <4>1, HoldersDiffer DEF TransactionsInv, r
    <3> QED
      BY <3>2, <3>3
  <2>3. \A d \in Sessions \ {c} :
          /\ pc'[d] = pc[d] /\ call'[d] = call[d]
          /\ pc[d] = "looping" => WithKey(call[d].key) = {}
          /\ pc[d] = "writing" => call[d].reservation \notin activated'
    BY <1>1, <2>2, FinishEffect DEF TransactionsInv, NoUniqueViolation
  <2>4. pc'[c] = "idle"
    BY <1>1, FinishEffect
  <2> QED
    BY <2>1, <2>2, <2>3, <2>4 DEF NoUniqueViolation
<1> QED
  BY <1>1, <1>3, <1>5, <1>6, <1>7, FinishKeeps DEF TransactionsInv

(* create: no other session inserts its key, and its row is nobody else's. *)
LEMMA SaveKeeps ==
  ASSUME TransactionsInv, NEW c \in Sessions, NEW r \in Reservations,
         Save(c, r)
  PROVE  TransactionsInv'
<1> DEFINE q == call[c].request
<1>1. /\ TypeOK /\ MarksHold /\ pc[c] = "looping" /\ Finish(c)
      /\ status[r] = "NONE"
      /\ status' = [View(c) EXCEPT ![r] = "CONFIRMED"]
      /\ key' = [key EXCEPT ![r] = call[c].key]
      /\ product' = [product EXCEPT ![r] = q.product]
      /\ requested' = [requested EXCEPT ![r] = q.power]
      /\ expires' = [expires EXCEPT ![r] = ExpiresAt(q.product, now[c])]
      /\ claim' = [claim EXCEPT ![r] = given[c]]
      /\ granted' = [granted EXCEPT ![r] = given[c]]
      /\ UNCHANGED <<clock, offers, activated, revived>>
  BY DEF TransactionsInv, Save
<1>2. /\ call[c].op = "create" /\ call[c].key \in Keys
      /\ q.product \in Products /\ q.power \in Nat
  <2>1. call[c].op = "create" /\ call[c] \in Calls
    BY <1>1 DEF TransactionsInv, CallsMatch
  <2>2. call[c].key \in Keys /\ q \in Requests
    BY <2>1, CallFields
  <2> QED
    BY <2>1, <2>2, TransactionsAssumption DEF Requests
<1> HIDE DEF q
<1>3. TypeOK'
  <2>1. status' \in [Reservations -> Statuses]
    BY <1>1, ViewFacts DEF Statuses
  <2>2. ExpiresAt(q.product, now[c]) \in Nat
    BY <1>1, <1>2, TransactionsAssumption DEF ExpiresAt, TypeOK
  <2>3. given[c] \in Claims
    BY <1>1 DEF TypeOK
  <2> QED
    BY <1>1, <1>2, <2>1, <2>2, <2>3, FinishEffect DEF TypeOK
<1>4. /\ status'[r] = "CONFIRMED" /\ key'[r] = call[c].key
      /\ \A z \in Reservations \ {r} :
           /\ status'[z] = View(c)[z] /\ key'[z] = key[z]
           /\ status'[z] \in {status[z], "EXPIRED"}
           /\ status'[z] # status[z] => status[z] = "CONFIRMED"
  BY <1>1, ViewFacts DEF TypeOK
<1>5. MarksHold'
  <2>1. marked'[c] = {} /\ \A d \in Sessions \ {c} : marked'[d] = marked[d]
    BY <1>1, FinishEffect
  <2>2. ASSUME NEW d \in Sessions \ {c}, NEW z \in marked[d]
        PROVE  status'[z] = "CONFIRMED"
    <3>1. z \in Reservations /\ z # r
      BY <1>1 DEF TypeOK, MarksHold
    <3>2. View(c)[z] = status[z]
      BY <1>1, <3>1, ViewFacts
    <3> QED
      BY <1>1, <1>4, <3>1, <3>2 DEF MarksHold
  <2> QED
    BY <1>1, <2>1, <2>2 DEF MarksHold
<1>6. RowsMatch'
  <2>1. r \notin activated
    BY <1>1 DEF TransactionsInv, RowsMatch, ActivatedStaysActivated
  <2>2. ActivatedStaysActivated'
    BY <1>1, <1>4, <2>1
    DEF TransactionsInv, RowsMatch, ActivatedStaysActivated
  <2>3. \A z \in Reservations : status'[z] = "NONE" => key'[z] = NoKey
    BY <1>4 DEF TransactionsInv, RowsMatch
  <2> QED
    BY <2>2, <2>3 DEF RowsMatch
<1>7. NoUniqueViolation'
  <2>1. \A k \in Keys : k # call[c].key => WithKey(k)' = WithKey(k)
    <3>1. \A z \in Reservations :
            key[z] # NoKey => status[z] # "NONE"
      BY DEF TransactionsInv, RowsMatch
    <3> QED
      BY <1>1, <1>4, <3>1, TransactionsAssumption DEF WithKey
  <2>2. \A d \in Sessions \ {c} :
          pc[d] = "looping" =>
            call[d].key \in Keys /\ call[d].key # call[c].key
    <3> SUFFICES ASSUME NEW d \in Sessions \ {c}, pc[d] = "looping"
                 PROVE  call[d].key \in Keys /\ call[d].key # call[c].key
      OBVIOUS
    <3>1. call[d].op = "create" /\ call[d] \in Calls
      BY DEF TransactionsInv, CallsMatch
    <3>2. call[d].key \in Keys
      BY <3>1, CallFields
    <3>3. call[d].key # call[c].key
      BY <1>1, <1>2, <3>1, HoldersDiffer DEF TransactionsInv
    <3> QED
      BY <3>2, <3>3
  <2>3. \A d \in Sessions \ {c} :
          /\ pc'[d] = pc[d] /\ call'[d] = call[d]
          /\ pc[d] = "looping" => WithKey(call[d].key) = {}
          /\ pc[d] = "writing" => call[d].reservation \notin activated'
    BY <1>1, FinishEffect DEF TransactionsInv, NoUniqueViolation
  <2>4. pc'[c] = "idle"
    BY <1>1, FinishEffect
  <2> QED
    BY <2>1, <2>2, <2>3, <2>4 DEF NoUniqueViolation
<1> QED
  BY <1>1, <1>3, <1>5, <1>6, <1>7, FinishKeeps DEF TransactionsInv

-----------------------------------------------------------------------------
(* The surroundings do not touch the sessions.                             *)
LEMMA SettleKeeps ==
  ASSUME TransactionsInv, NEW r \in Reservations,
         NEW accepted \in SUBSET Resources, Settle(r, accepted)
  PROVE  TransactionsInv'
<1> DEFINE kept == [s \in Resources |-> IF s \in accepted THEN claim[r][s] ELSE 0]
           result == IF claim'[r] = claim[r] THEN "COMPLETED" ELSE "FAILED"
<1>1. /\ TypeOK /\ status[r] = "ACTIVATED"
      /\ claim' = [claim EXCEPT ![r] = kept]
      /\ status' = [status EXCEPT ![r] = result]
      /\ UNCHANGED <<clock, offers, key, product, requested, expires,
                     activated, pc, call, now, marked, pending, seen,
                     remaining, given, granted, revived>>
  BY DEF TransactionsInv, Settle, session, local, ghosts
<1>2. kept \in Claims
  BY <1>1, CapacityAssumption DEF TypeOK, Claims
<1>3. result \in {"COMPLETED", "FAILED"}
  OBVIOUS
<1> HIDE DEF kept, result
<1>4. TypeOK'
  BY <1>1, <1>2, <1>3 DEF TypeOK, Statuses
<1>5. LocksExclude' /\ CallsMatch'
  BY <1>1 DEF TransactionsInv, LocksExclude, CallsMatch, Held
<1>6. MarksHold'
  <2>1. \A c \in Sessions : \A z \in marked[c] : z \in Reservations /\ z # r
    BY <1>1 DEF TransactionsInv, MarksHold, TypeOK
  <2> QED
    BY <1>1, <2>1 DEF TransactionsInv, MarksHold, TypeOK
<1>7. RowsMatch'
  BY <1>1, <1>3
  DEF TransactionsInv, RowsMatch, ActivatedStaysActivated, TypeOK
<1>8. NoUniqueViolation'
  <2>1. \A z \in Reservations : status'[z] # "NONE" <=> status[z] # "NONE"
    BY <1>1, <1>3 DEF TypeOK
  <2>2. \A k : WithKey(k)' = WithKey(k)
    BY <1>1, <2>1 DEF WithKey
  <2> QED
    BY <1>1, <2>2 DEF TransactionsInv, NoUniqueViolation
<1> QED
  BY <1>4, <1>5, <1>6, <1>7, <1>8 DEF TransactionsInv

(* Offers and the clock are no concern of the locks. *)
LEMMA SurroundingsKeep ==
  ASSUME TransactionsInv, UNCHANGED <<rows, session, ghosts>>,
         clock' \in 0..MaxTime,
         offers' \in [Products -> [Resources -> (0..MaxOffer) \cup {NoOffer}]]
  PROVE  TransactionsInv'
<1>1. UNCHANGED <<status, key, product, requested, expires, claim, activated,
                  pc, call, now, marked, pending, seen, remaining, given,
                  granted, revived>>
  BY DEF rows, session, local, ghosts
<1>2. TypeOK'
  BY <1>1 DEF TransactionsInv, TypeOK
<1>3. LocksExclude' /\ CallsMatch' /\ MarksHold' /\ RowsMatch'
  BY <1>1 DEF TransactionsInv, LocksExclude, CallsMatch, MarksHold, RowsMatch,
     ActivatedStaysActivated, Held
<1>4. \A k : WithKey(k)' = WithKey(k)
  BY <1>1 DEF WithKey
<1>5. NoUniqueViolation'
  BY <1>1, <1>4 DEF TransactionsInv, NoUniqueViolation
<1> QED
  BY <1>2, <1>3, <1>5 DEF TransactionsInv

LEMMA OffersKeep ==
  ASSUME TransactionsInv,
         \/ \E p \in Products, s \in Resources : Upsert(p, s)
         \/ \E s \in Resources : RemoveResource(s)
  PROVE  TransactionsInv'
<1>1. TypeOK /\ OfferLevels \subseteq 0..MaxOffer
  BY TransactionsAssumption DEF TransactionsInv
<1>2. offers' \in [Products -> [Resources -> (0..MaxOffer) \cup {NoOffer}]]
  <2>1. CASE \E p \in Products, s \in Resources : Upsert(p, s)
    BY <1>1, <2>1 DEF Upsert, TypeOK
  <2>2. CASE \E s \in Resources : RemoveResource(s)
    BY <1>1, <2>2 DEF RemoveResource, TypeOK
  <2> QED
    BY <2>1, <2>2
<1>3. UNCHANGED <<clock, rows, session, ghosts>>
  BY DEF Upsert, RemoveResource
<1> QED
  BY <1>1, <1>2, <1>3, SurroundingsKeep DEF TypeOK

-----------------------------------------------------------------------------
LEMMA StepKeeps ==
  ASSUME TransactionsInv, NEW c \in Sessions, Step(c)
  PROVE  TransactionsInv'
<1>1. CASE \E x \in Calls : Begin(c, x)
  BY <1>1, BeginKeeps
<1>2. CASE Acquire(c)
  BY <1>2, AcquireKeeps
<1>3. CASE AlreadyActivated(c) \/ ReadOther(c) \/ NothingLeft(c) \/ Abort(c)
  <2>1. Rollback(c)
    BY <1>3 DEF AlreadyActivated, ReadOther, NothingLeft, Abort
  <2> QED
    BY <2>1, RollbackKeeps
<1>4. CASE Sweep(c)
  BY <1>4, SweepKeeps
<1>5. CASE Get(c) \/ KeyKnown(c)
  <2>1. CommitSweep(c) \/ Rollback(c)
    BY <1>5 DEF Get, KeyKnown
  <2> QED
    BY <2>1, CommitSweepKeeps, RollbackKeeps
<1>6. CASE ReadConfirmed(c)
  BY <1>6, ReadConfirmedKeeps
<1>7. CASE Write(c)
  BY <1>7, WriteKeeps
<1>8. CASE ReadOffers(c)
  BY <1>8, ReadOffersKeeps
<1>9. CASE \E s \in Resources : VisitOffer(c, s)
  BY <1>9, VisitOfferKeeps
<1>10. CASE \E r \in Reservations : Save(c, r)
  BY <1>10, SaveKeeps
<1> QED
  BY <1>1, <1>2, <1>3, <1>4, <1>5, <1>6, <1>7, <1>8, <1>9, <1>10 DEF Step

LEMMA TransactionsNext == TransactionsInv /\ [Next]_vars => TransactionsInv'
<1> SUFFICES ASSUME TransactionsInv, [Next]_vars
             PROVE  TransactionsInv'
  OBVIOUS
<1>1. CASE \E c \in Sessions : Step(c)
  BY <1>1, StepKeeps
<1>2. CASE \E r \in Reservations, accepted \in SUBSET Resources :
             Settle(r, accepted)
  BY <1>2, SettleKeeps
<1>3. CASE \/ \E p \in Products, s \in Resources : Upsert(p, s)
           \/ \E s \in Resources : RemoveResource(s)
  BY <1>3, OffersKeep
<1>4. CASE Tick
  <2>1. clock' \in 0..MaxTime
    BY <1>4, TransactionsAssumption DEF Tick, TransactionsInv, TypeOK
  <2> QED
    BY <1>4, <2>1, SurroundingsKeep DEF Tick, TransactionsInv, TypeOK
<1>5. CASE UNCHANGED vars
  BY <1>5, SurroundingsKeep DEF vars, TransactionsInv, TypeOK
<1> QED
  BY <1>1, <1>2, <1>3, <1>4, <1>5 DEF Next

THEOREM TransactionsInvariant == Spec => []TransactionsInv
BY TransactionsInit, TransactionsNext, PTL DEF Spec

(* Every row and every session keeps its types, whatever interleaves; in   *)
(* particular no claim exceeds what one resource may offer.                *)
THEOREM TransactionsTypes == Spec => []TypeOK
BY TransactionsInvariant, PTL DEF TransactionsInv

(* No INSERT of a reservation or an activation meets a row with its key:   *)
(* retries are answered, never refused by the unique constraints           *)
(* (service.py:124-139, 288-296; postgres.py:620-630).                     *)
THEOREM TransactionsInsertOnce == Spec => []NoUniqueViolation
BY TransactionsInvariant, PTL DEF TransactionsInv

(* There is an activation exactly for the reservations that are ACTIVATED  *)
(* or settled, although cancel and activate write a status they have read  *)
(* some statements before (service.py:288-326, postgres.py:404-412).       *)
THEOREM TransactionsActivateOnce == Spec => []ActivatedStaysActivated
BY TransactionsInvariant, PTL DEF TransactionsInv, RowsMatch

-----------------------------------------------------------------------------
(* With one product the transactions implement CapacityLedger.  With more  *)
(* of them they do not: two may share a market, and the offers of one are  *)
(* deleted without its lock.                                               *)
OneProduct == \A p, q \in Products : p = q

(* The substitution of Ledger; to it a reservation written over after its  *)
(* expiry is EXPIRED and keeps the claim it was granted. *)
MappedStatus ==
  [r \in Reservations |-> IF r \in revived THEN "EXPIRED" ELSE status[r]]
MappedClaim ==
  [r \in Reservations |-> IF r \in revived THEN granted[r] ELSE claim[r]]
MappedView(c) ==
  [r \in Reservations |->
     IF r \in marked[c] THEN "EXPIRED" ELSE MappedStatus[r]]

RevivedAreOver ==
  \A r \in Reservations :
    /\ r \in revived =>
         status[r] \in {"CANCELLED", "ACTIVATED", "COMPLETED", "FAILED"}
    /\ status[r] \in {"CONFIRMED", "EXPIRED"} => claim[r] = granted[r]

(* The lock of its reservation leaves only the sweeps of others between    *)
(* what a cancel or activate has read and what it writes.                  *)
WritesMatch ==
  \A c \in Sessions :
    pc[c] = "writing" =>
      /\ status[call[c].reservation] \in {"CONFIRMED", "EXPIRED"}
      /\ call[c].reservation \notin marked[c]

(* The lock of its product keeps the offers a create has read, and what it *)
(* has allocated fits beside everything active.                            *)
LoopFits(c) ==
  IF pc[c] = "looping"
    THEN LET p == call[c].request.product IN
         /\ seen[c] = offers[p]
         /\ \A s \in Resources :
              given[c][s] > 0 =>
                /\ seen[c][s] # NoOffer
                /\ Reserved(MappedView(c), product, MappedClaim, Market[p], s)
                     + given[c][s] <= seen[c][s]
    ELSE given[c] = NoClaim

LedgerInv ==
  /\ TransactionsInv /\ RevivedAreOver /\ WritesMatch
  /\ \A c \in Sessions : LoopFits(c)

LedgerStep == [Ledger!Next]_Ledger!vars

-----------------------------------------------------------------------------
(* What is reserved does not grow when reservations only end and claims    *)
(* only shrink.                                                            *)
Shrinks(st, pr, cl, st2, pr2, cl2) ==
  \A z \in Reservations :
    st2[z] \in ActiveStatuses =>
      /\ st[z] \in ActiveStatuses /\ pr2[z] = pr[z]
      /\ \A s \in Resources : cl2[z][s] <= cl[z][s]

LEMMA ReservedShrinks ==
  ASSUME NEW st, NEW pr, NEW cl \in [Reservations -> Claims],
         NEW st2, NEW pr2, NEW cl2 \in [Reservations -> Claims],
         Shrinks(st, pr, cl, st2, pr2, cl2),
         NEW m, NEW s \in Resources
  PROVE  Reserved(st2, pr2, cl2, m, s) <= Reserved(st, pr, cl, m, s)
<1>1. ClaimUnits(st2, pr2, cl2, m, s) \subseteq ClaimUnits(st, pr, cl, m, s)
  <2> SUFFICES ASSUME NEW x \in ClaimUnits(st2, pr2, cl2, m, s)
               PROVE  x \in ClaimUnits(st, pr, cl, m, s)
    OBVIOUS
  <2>1. /\ x \in Reservations \X (1..MaxOffer)
        /\ st2[x[1]] \in ActiveStatuses /\ Market[pr2[x[1]]] = m
        /\ x[2] <= cl2[x[1]][s]
    BY DEF ClaimUnits
  <2>2. /\ x[1] \in Reservations /\ x[2] \in 1..MaxOffer
        /\ cl[x[1]][s] \in 0..MaxOffer /\ cl2[x[1]][s] \in 0..MaxOffer
    BY <2>1 DEF Claims
  <2>3. /\ st[x[1]] \in ActiveStatuses /\ Market[pr[x[1]]] = m
        /\ cl2[x[1]][s] <= cl[x[1]][s]
    BY <2>1, <2>2 DEF Shrinks
  <2>4. x[2] <= cl[x[1]][s]
    BY <2>1, <2>2, <2>3, CapacityAssumption
  <2> QED
    BY <2>1, <2>3, <2>4 DEF ClaimUnits
<1>2. IsFiniteSet(ClaimUnits(st, pr, cl, m, s))
  BY ReservedType
<1> QED
  BY <1>1, <1>2, FS_Subset DEF Reserved

(* The claims of the substitution are claims.                              *)
LEMMA MappedType ==
  ASSUME TypeOK
  PROVE  /\ MappedClaim \in [Reservations -> Claims]
         /\ MappedStatus \in [Reservations -> Statuses]
BY DEF MappedClaim, MappedStatus, TypeOK, Statuses

(* A step of the others that neither moves offers nor adds claims leaves   *)
(* a loop its room.                                                        *)
LEMMA LoopKept ==
  ASSUME TypeOK, TypeOK', NEW d \in Sessions, LoopFits(d),
         pc'[d] = pc[d], call'[d] = call[d], marked'[d] = marked[d],
         seen'[d] = seen[d], given'[d] = given[d],
         pc[d] = "looping" =>
           /\ offers' = offers
           /\ Shrinks(MappedStatus, product, MappedClaim,
                      MappedStatus', product', MappedClaim')
  PROVE  LoopFits(d)'
<1>1. CASE pc[d] # "looping"
  BY <1>1 DEF LoopFits
<1>2. CASE pc[d] = "looping"
  <2> DEFINE p == call[d].request.product
  <2>1. Shrinks(MappedView(d), product, MappedClaim,
                MappedView(d)', product', MappedClaim')
    BY <1>2 DEF Shrinks, MappedView, ActiveStatuses
  <2>2. ASSUME NEW s \in Resources, NEW m
        PROVE  /\ Reserved(MappedView(d)', product', MappedClaim', m, s)
                    <= Reserved(MappedView(d), product, MappedClaim, m, s)
               /\ Reserved(MappedView(d), product, MappedClaim, m, s) \in Nat
               /\ Reserved(MappedView(d)', product', MappedClaim', m, s) \in Nat
    <3>1. /\ MappedClaim \in [Reservations -> Claims]
          /\ MappedClaim' \in [Reservations -> Claims]
      BY MappedType DEF MappedClaim, TypeOK
    <3> QED
      BY <2>1, <3>1, ReservedShrinks, ReservedType
  <2>3. seen[d] = offers[p] /\ p' = p
    BY <1>2 DEF LoopFits
  <2>4. ASSUME NEW s \in Resources, given[d][s] > 0
        PROVE  /\ seen[d][s] # NoOffer
               /\ Reserved(MappedView(d)', product', MappedClaim', Market[p], s)
                    + given[d][s] <= seen[d][s]
    <3>1. /\ seen[d][s] # NoOffer
          /\ Reserved(MappedView(d), product, MappedClaim, Market[p], s)
               + given[d][s] <= seen[d][s]
      BY <1>2, <2>4 DEF LoopFits
    <3>2. seen[d][s] \in Nat /\ given[d][s] \in Nat
      BY <3>1, CapacityAssumption DEF TypeOK, Claims
    <3> HIDE DEF p
    <3> QED
      BY <2>2, <3>1, <3>2
  <2> QED
    BY <1>2, <2>3, <2>4 DEF LoopFits
<1> QED
  BY <1>1, <1>2

(* The sums of the instantiated CapacityLedger are the sums used here, and *)
(* a committed sweep is a lapse.                                           *)
LEMMA LedgerSums ==
  ASSUME NEW st, NEW pr, NEW cl, NEW m, NEW s
  PROVE  Ledger!Reserved(st, pr, cl, m, s) = Reserved(st, pr, cl, m, s)
<1>1. Ledger!ActiveStatuses = ActiveStatuses
  BY DEF Ledger!ActiveStatuses, ActiveStatuses
<1>2. Ledger!ClaimUnits(st, pr, cl, m, s) = ClaimUnits(st, pr, cl, m, s)
  BY <1>1 DEF Ledger!ClaimUnits, ClaimUnits
<1> QED
  BY <1>2 DEF Ledger!Reserved, Reserved, Ledger!Cardinality, Cardinality

LEMMA MarkedMayLapse ==
  ASSUME TypeOK, MarksHold, RevivedAreOver, NEW c \in Sessions
  PROVE  /\ marked[c] \in SUBSET Reservations
         /\ Ledger!MayLapse(marked[c])
         /\ Ledger!Lapsed(marked[c]) = MappedView(c)
         /\ \A r \in marked[c] : r \notin revived
<1>1. marked[c] \in SUBSET Reservations
  BY DEF TypeOK
<1>2. \A r \in marked[c] : status[r] = "CONFIRMED" /\ r \notin revived
  BY <1>1 DEF MarksHold, RevivedAreOver
<1> QED
  BY <1>1, <1>2
  DEF Ledger!MayLapse, Ledger!Lapsed, MappedView, MappedStatus

(* While no row changes the ledger of the substitution does not move.      *)
LEMMA QuietRows ==
  ASSUME TypeOK, UNCHANGED <<status, product, claim, granted, revived>>
  PROVE  /\ MappedStatus' = MappedStatus /\ MappedClaim' = MappedClaim
         /\ Shrinks(MappedStatus, product, MappedClaim,
                    MappedStatus', product', MappedClaim')
         /\ RevivedAreOver => RevivedAreOver'
<1>1. MappedStatus' = MappedStatus /\ MappedClaim' = MappedClaim
  BY DEF MappedStatus, MappedClaim
<1>2. RevivedAreOver => RevivedAreOver'
  BY DEF RevivedAreOver
<1>3. \A z \in Reservations, s \in Resources : MappedClaim[z][s] <= MappedClaim[z][s]
  BY MappedType, CapacityAssumption DEF Claims
<1> QED
  BY <1>1, <1>2, <1>3 DEF Shrinks

(* The other sessions do not notice that the call of c ends.               *)
LEMMA OthersKept ==
  ASSUME LedgerInv, TypeOK', NEW c \in Sessions, Finish(c), offers' = offers,
         Shrinks(MappedStatus, product, MappedClaim,
                 MappedStatus', product', MappedClaim')
  PROVE  \A d \in Sessions : LoopFits(d)'
<1>1. TypeOK
  BY DEF LedgerInv, TransactionsInv
<1>2. LoopFits(c)'
  <2>1. pc'[c] = "idle"
    BY <1>1, FinishEffect
  <2>2. given'[c] = NoClaim
    BY <1>1 DEF Finish, TypeOK
  <2> QED
    BY <2>1, <2>2 DEF LoopFits
<1>3. ASSUME NEW d \in Sessions \ {c}
      PROVE  LoopFits(d)'
  <2>1. /\ pc'[d] = pc[d] /\ call'[d] = call[d] /\ marked'[d] = marked[d]
        /\ seen'[d] = seen[d]
    BY <1>1, FinishEffect
  <2>2. given'[d] = given[d]
    BY <1>1 DEF Finish, TypeOK
  <2>3. LoopFits(d)
    BY DEF LedgerInv
  <2> QED
    BY <1>1, <2>1, <2>2, <2>3, LoopKept
<1> QED
  BY <1>2, <1>3

LEMMA RollbackLedger ==
  ASSUME LedgerInv, NEW c \in Sessions, Rollback(c)
  PROVE  LedgerInv' /\ LedgerStep
<1>1. TransactionsInv' /\ TypeOK' /\ TypeOK /\ Finish(c)
  BY RollbackKeeps DEF LedgerInv, TransactionsInv, Rollback
<1>2. UNCHANGED <<offers, status, product, claim, granted, revived>>
  BY DEF Rollback, rows, ghosts
<1>3. \A d \in Sessions : LoopFits(d)'
  BY <1>1, <1>2, QuietRows, OthersKept
<1>4. RevivedAreOver'
  BY <1>1, <1>2, QuietRows DEF LedgerInv
<1>5. WritesMatch'
  BY <1>1, <1>2, FinishEffect DEF LedgerInv, WritesMatch
<1>6. LedgerStep
  BY <1>2 DEF LedgerStep, Ledger!vars
<1> QED
  BY <1>1, <1>3, <1>4, <1>5, <1>6 DEF LedgerInv

(* A committed sweep lapses what it has marked.                            *)
LEMMA CommitSweepLedger ==
  ASSUME LedgerInv, NEW c \in Sessions, CommitSweep(c)
  PROVE  LedgerInv' /\ LedgerStep
<1>1. /\ TransactionsInv' /\ TypeOK' /\ TypeOK /\ MarksHold /\ Finish(c)
      /\ RevivedAreOver /\ status' = View(c)
  BY CommitSweepKeeps DEF LedgerInv, TransactionsInv, CommitSweep
<1>2. UNCHANGED <<offers, product, claim, granted, revived>>
  BY DEF CommitSweep, ghosts
<1>3. \A r \in Reservations :
        /\ status'[r] \in {status[r], "EXPIRED"}
        /\ status'[r] # status[r] => status[r] = "CONFIRMED"
  BY <1>1, ViewFacts
<1>4. MappedStatus' = MappedView(c) /\ MappedClaim' = MappedClaim
  BY <1>1, <1>2, MarkedMayLapse
  DEF MappedStatus, MappedClaim, MappedView, View
<1>5. Shrinks(MappedStatus, product, MappedClaim,
              MappedStatus', product', MappedClaim')
  <2>1. \A z \in Reservations, s \in Resources :
          MappedClaim[z][s] <= MappedClaim[z][s]
    BY <1>1, MappedType, CapacityAssumption DEF Claims
  <2> QED
    BY <1>2, <1>4, <2>1 DEF Shrinks, MappedView, ActiveStatuses
<1>6. \A d \in Sessions : LoopFits(d)'
  BY <1>1, <1>2, <1>5, OthersKept
<1>7. RevivedAreOver'
  BY <1>1, <1>2, <1>3 DEF RevivedAreOver
<1>8. WritesMatch'
  <2>1. ASSUME NEW d \in Sessions, pc'[d] = "writing"
        PROVE  /\ status'[call'[d].reservation] \in {"CONFIRMED", "EXPIRED"}
               /\ call'[d].reservation \notin marked'[d]
    <3>1. pc[d] = "writing" /\ call'[d] = call[d] /\ marked'[d] = marked[d]
      BY <1>1, <2>1, FinishEffect
    <3>2. call[d].reservation \in Reservations
      BY <3>1, CallFields DEF LedgerInv, TransactionsInv, CallsMatch
    <3> QED
      BY <1>3, <3>1, <3>2 DEF LedgerInv, WritesMatch
  <2> QED
    BY <2>1 DEF WritesMatch
<1>9. LedgerStep
  <2>1. PICK W \in SUBSET Reservations : W = marked[c]
    BY <1>1 DEF TypeOK
  <2>2. Ledger!MayLapse(W) /\ MappedStatus' = Ledger!Lapsed(W)
    BY <1>1, <1>4, <2>1, MarkedMayLapse
  <2>3. Ledger!Lapse(W)
    BY <1>2, <1>4, <2>2 DEF Ledger!Lapse, MappedStatus, MappedClaim
  <2>4. Ledger!Next
    BY <2>3 DEF Ledger!Next
  <2> QED
    BY <2>4 DEF LedgerStep
<1> QED
  BY <1>1, <1>6, <1>7, <1>8, <1>9 DEF LedgerInv

(* A cancel or activate takes its reservation on; if a sweep was faster it *)
(* counts as revived, and only the sweep shows.                            *)
LEMMA WriteLedger ==
  ASSUME LedgerInv, NEW c \in Sessions, Write(c)
  PROVE  LedgerInv' /\ LedgerStep
<1> DEFINE r == call[c].reservation
           result == IF call[c].op = "cancel" THEN "CANCELLED" ELSE "ACTIVATED"
<1>1. /\ TransactionsInv' /\ TypeOK' /\ TypeOK /\ MarksHold /\ Finish(c)
      /\ RevivedAreOver /\ pc[c] = "writing"
      /\ status' = [View(c) EXCEPT ![r] = result]
      /\ revived' = IF status[r] = "EXPIRED" THEN revived \cup {r} ELSE revived
      /\ UNCHANGED <<offers, product, claim, granted>>
  BY WriteKeeps DEF LedgerInv, TransactionsInv, Write
<1>2. /\ call[c].op \in {"cancel", "activate"} /\ r \in Reservations
      /\ status[r] \in {"CONFIRMED", "EXPIRED"} /\ r \notin marked[c]
      /\ claim[r] = granted[r]
  <2>1. call[c].op \in {"cancel", "activate"} /\ call[c] \in Calls
    BY <1>1 DEF LedgerInv, TransactionsInv, CallsMatch
  <2>2. r \in Reservations
    BY <2>1, CallFields
  <2> QED
    BY <1>1, <2>1, <2>2 DEF LedgerInv, WritesMatch, RevivedAreOver
<1>3. /\ status'[r] = result
      /\ \A z \in Reservations \ {r} :
           /\ status'[z] = View(c)[z]
           /\ status'[z] \in {status[z], "EXPIRED"}
           /\ status'[z] # status[z] => status[z] = "CONFIRMED"
  BY <1>1, <1>2, ViewFacts
<1>4. WritesMatch'
  <2>1. ASSUME NEW d \in Sessions, pc'[d] = "writing"
        PROVE  /\ status'[call'[d].reservation] \in {"CONFIRMED", "EXPIRED"}
               /\ call'[d].reservation \notin marked'[d]
    <3>1. /\ d # c /\ pc[d] = "writing" /\ call'[d] = call[d]
          /\ marked'[d] = marked[d]
      BY <1>1, <2>1, FinishEffect
    <3>2. call[d].op # "create" /\ call[d].reservation \in Reservations
      BY <3>1, CallFields DEF LedgerInv, TransactionsInv, CallsMatch
    <3>3. call[d].reservation # r
      BY <1>1, <1>2, <3>1, <3>2, HoldersDiffer DEF LedgerInv, TransactionsInv
    <3> HIDE DEF r
    <3> QED
      BY <1>3, <3>1, <3>2, <3>3 DEF LedgerInv, WritesMatch
  <2> QED
    BY <2>1 DEF WritesMatch
<1> HIDE DEF r
<1>5. RevivedAreOver'
  <2>1. ASSUME NEW z \in Reservations
        PROVE  /\ z \in revived' => status'[z] \in
                    {"CANCELLED", "ACTIVATED", "COMPLETED", "FAILED"}
               /\ status'[z] \in {"CONFIRMED", "EXPIRED"} =>
                    claim'[z] = granted'[z]
    <3>1. CASE z = r
      BY <1>1, <1>2, <1>3, <3>1 DEF RevivedAreOver
    <3>2. CASE z # r
      <4>1. z \in revived' => z \in revived
        BY <1>1, <3>2
      <4> QED
        BY <1>1, <1>3, <3>2, <4>1 DEF RevivedAreOver
    <3> QED
      BY <3>1, <3>2
  <2> QED
    BY <2>1 DEF RevivedAreOver
<1>6. MappedClaim' = MappedClaim
  BY <1>1, <1>2 DEF MappedClaim
<1>7. CASE status[r] = "CONFIRMED"
  <2>1. r \notin revived /\ revived' = revived
    BY <1>1, <1>2, <1>7 DEF RevivedAreOver
  <2>2. MappedStatus' = [MappedView(c) EXCEPT ![r] = result]
    <3>1. ASSUME NEW z \in Reservations
          PROVE  MappedStatus'[z] = IF z = r THEN result ELSE MappedView(c)[z]
      <4>1. z \in marked[c] => z \notin revived
        BY <1>1, MarkedMayLapse
      <4> QED
        BY <1>1, <1>2, <1>3, <2>1, <4>1
        DEF MappedStatus, MappedView, View
    <3> QED
      BY <3>1, <1>2 DEF MappedStatus, MappedView
  <2>3. MappedView(c)[r] = "CONFIRMED" /\ MappedStatus[r] = "CONFIRMED"
    BY <1>2, <1>7, <2>1 DEF MappedView, MappedStatus
  <2>4. Shrinks(MappedStatus, product, MappedClaim,
                MappedStatus', product', MappedClaim')
    <3>1. \A z \in Reservations, s \in Resources :
            MappedClaim[z][s] <= MappedClaim[z][s]
      BY <1>1, MappedType, CapacityAssumption DEF Claims
    <3>2. \A z \in Reservations :
            MappedStatus'[z] \in ActiveStatuses => MappedStatus[z] \in ActiveStatuses
      <4>1. \A z \in Reservations \ {r} :
              MappedStatus'[z] \in {MappedStatus[z], "EXPIRED"}
        BY <2>2 DEF MappedView
      <4> QED
        BY <2>3, <4>1 DEF ActiveStatuses
    <3> QED
      BY <1>1, <1>6, <3>1, <3>2 DEF Shrinks
  <2>5. LedgerStep
    <3>1. PICK W \in SUBSET Reservations, z \in Reservations :
            W = marked[c] /\ z = r
      BY <1>1, <1>2 DEF TypeOK
    <3>2. Ledger!MayLapse(W) /\ Ledger!Lapsed(W) = MappedView(c)
      BY <1>1, <3>1, MarkedMayLapse
    <3>3. /\ Ledger!Lapsed(W)[z] = "CONFIRMED"
          /\ MappedStatus' = [Ledger!Lapsed(W) EXCEPT ![z] = result]
      BY <2>2, <2>3, <3>1, <3>2
    <3>4. Ledger!Cancel(W, z) \/ Ledger!Activate(W, z)
      BY <1>1, <1>6, <3>2, <3>3
      DEF Ledger!Cancel, Ledger!Activate, MappedStatus, MappedClaim
    <3>5. Ledger!Next
      BY <3>4 DEF Ledger!Next
    <3> QED
      BY <3>5 DEF LedgerStep
  <2> QED
    BY <1>1, <1>4, <1>5, <2>4, <2>5, OthersKept DEF LedgerInv
<1>8. CASE status[r] = "EXPIRED"
  <2>1. MappedStatus' = MappedView(c)
    <3>1. ASSUME NEW z \in Reservations
          PROVE  MappedStatus'[z] = MappedView(c)[z]
      <4>1. z \in marked[c] => z \notin revived
        BY <1>1, MarkedMayLapse
      <4>2. z # r => (z \in revived' <=> z \in revived)
        BY <1>1
      <4>3. r \in revived'
        BY <1>1, <1>8
      <4> QED
        BY <1>2, <1>3, <1>8, <4>1, <4>2, <4>3
        DEF MappedStatus, MappedView, View
    <3> QED
      BY <3>1 DEF MappedStatus, MappedView
  <2>2. Shrinks(MappedStatus, product, MappedClaim,
                MappedStatus', product', MappedClaim')
    <3>1. \A z \in Reservations, s \in Resources :
            MappedClaim[z][s] <= MappedClaim[z][s]
      BY <1>1, MappedType, CapacityAssumption DEF Claims
    <3> QED
      BY <1>1, <1>6, <2>1, <3>1 DEF Shrinks, MappedView, ActiveStatuses
  <2>3. LedgerStep
    <3>1. PICK W \in SUBSET Reservations : W = marked[c]
      BY <1>1 DEF TypeOK
    <3>2. Ledger!MayLapse(W) /\ MappedStatus' = Ledger!Lapsed(W)
      BY <1>1, <2>1, <3>1, MarkedMayLapse
    <3>3. Ledger!Lapse(W)
      BY <1>1, <1>6, <3>2 DEF Ledger!Lapse, MappedStatus, MappedClaim
    <3>4. Ledger!Next
      BY <3>3 DEF Ledger!Next
    <3> QED
      BY <3>4 DEF LedgerStep
  <2> QED
    BY <1>1, <1>4, <1>5, <2>2, <2>3, OthersKept DEF LedgerInv
<1> QED
  BY <1>2, <1>7, <1>8

(* A create that allocates holds the lock of its product.                  *)
LEMMA ProductLocked ==
  ASSUME LedgerInv, NEW d \in Sessions, pc[d] = "looping"
  PROVE  /\ call[d].op = "create" /\ call[d].key \in Keys
         /\ call[d].request \in Requests
         /\ <<"product", call[d].request.product>> \in Held(d)
<1>1. call[d].op = "create" /\ call[d] \in Calls
  BY DEF LedgerInv, TransactionsInv, CallsMatch
<1> QED
  BY <1>1, CallFields DEF Held

(* A create confirms what it has allocated, which still fits.              *)
LEMMA SaveLedger ==
  ASSUME OneProduct, LedgerInv, NEW c \in Sessions, NEW r \in Reservations,
         Save(c, r)
  PROVE  LedgerInv' /\ LedgerStep
<1> DEFINE p == call[c].request.product
           a == given[c]
<1>1. /\ TransactionsInv' /\ TypeOK' /\ TypeOK /\ MarksHold /\ Finish(c)
      /\ RevivedAreOver /\ pc[c] = "looping" /\ status[r] = "NONE"
      /\ status' = [View(c) EXCEPT ![r] = "CONFIRMED"]
      /\ product' = [product EXCEPT ![r] = p]
      /\ claim' = [claim EXCEPT ![r] = a]
      /\ granted' = [granted EXCEPT ![r] = a]
      /\ UNCHANGED <<offers, revived>>
  BY SaveKeeps DEF LedgerInv, TransactionsInv, Save
<1>2. p \in Products /\ a \in Claims /\ r \notin revived /\ r \notin marked[c]
  BY <1>1, ProductLocked DEF Requests, TypeOK, RevivedAreOver, MarksHold
<1>3. /\ status'[r] = "CONFIRMED"
      /\ claim'[r] = a /\ granted'[r] = a
      /\ \A z \in Reservations \ {r} :
           /\ status'[z] = View(c)[z]
           /\ claim'[z] = claim[z] /\ granted'[z] = granted[z]
           /\ status'[z] \in {status[z], "EXPIRED"}
           /\ status'[z] # status[z] => status[z] = "CONFIRMED"
  BY <1>1, ViewFacts DEF TypeOK
<1>4. RevivedAreOver'
  <2>1. ASSUME NEW z \in Reservations
        PROVE  /\ z \in revived' => status'[z] \in
                    {"CANCELLED", "ACTIVATED", "COMPLETED", "FAILED"}
               /\ status'[z] \in {"CONFIRMED", "EXPIRED"} =>
                    claim'[z] = granted'[z]
    <3>1. CASE z = r
      BY <1>1, <1>2, <1>3, <3>1
    <3>2. CASE z # r
      BY <1>1, <1>3, <3>2 DEF RevivedAreOver
    <3> QED
      BY <3>1, <3>2
  <2> QED
    BY <2>1 DEF RevivedAreOver
<1>5. WritesMatch'
  <2>1. ASSUME NEW d \in Sessions, pc'[d] = "writing"
        PROVE  /\ status'[call'[d].reservation] \in {"CONFIRMED", "EXPIRED"}
               /\ call'[d].reservation \notin marked'[d]
    <3>1. /\ d # c /\ pc[d] = "writing" /\ call'[d] = call[d]
          /\ marked'[d] = marked[d]
      BY <1>1, <2>1, FinishEffect
    <3>2. call[d].reservation \in Reservations
      BY <3>1, CallFields DEF LedgerInv, TransactionsInv, CallsMatch
    <3>3. /\ status[call[d].reservation] \in {"CONFIRMED", "EXPIRED"}
          /\ call[d].reservation \notin marked[d]
      BY <3>1 DEF LedgerInv, WritesMatch
    <3> QED
      BY <1>1, <1>3, <3>1, <3>2, <3>3
  <2> QED
    BY <2>1 DEF WritesMatch
<1>6. \A d \in Sessions : LoopFits(d)'
  <2>1. LoopFits(c)'
    <3>1. pc'[c] = "idle"
      BY <1>1, FinishEffect
    <3>2. given'[c] = NoClaim
      BY <1>1 DEF Finish, TypeOK
    <3> QED
      BY <3>1, <3>2 DEF LoopFits
  <2>2. ASSUME NEW d \in Sessions \ {c}
        PROVE  LoopFits(d)'
    <3>1. pc[d] # "looping"
      <4>1. SUFFICES ASSUME pc[d] = "looping" PROVE FALSE
        OBVIOUS
      <4>2. call[d].request.product \in Products
        BY <4>1, ProductLocked DEF Requests
      <4>3. call[d].request.product = p
        BY <1>2, <4>2 DEF OneProduct
      <4>4. Held(c) \cap Held(d) = {}
        BY DEF LedgerInv, TransactionsInv, LocksExclude
      <4> QED
        BY <1>1, <4>1, <4>3, <4>4, ProductLocked
    <3>2. pc'[d] = pc[d]
      BY <1>1, FinishEffect
    <3>3. given'[d] = given[d]
      BY <1>1 DEF Finish, TypeOK
    <3> QED
      BY <3>1, <3>2, <3>3 DEF LedgerInv, LoopFits
  <2> QED
    BY <2>1, <2>2
<1> HIDE DEF p, a
<1>7. /\ MappedStatus' = [MappedView(c) EXCEPT ![r] = "CONFIRMED"]
      /\ MappedClaim' = [MappedClaim EXCEPT ![r] = a]
      /\ MappedStatus[r] = "NONE"
  <2>1. ASSUME NEW z \in Reservations
        PROVE  /\ MappedStatus'[z] = IF z = r THEN "CONFIRMED"
                                              ELSE MappedView(c)[z]
               /\ MappedClaim'[z] = IF z = r THEN a ELSE MappedClaim[z]
    <3>1. z \in marked[c] => z \notin revived
      BY <1>1, MarkedMayLapse
    <3> QED
      BY <1>1, <1>2, <1>3, <3>1
      DEF MappedStatus, MappedClaim, MappedView, View
  <2>2. MappedStatus[r] = "NONE"
    BY <1>1, <1>2 DEF MappedStatus
  <2> QED
    BY <2>1, <2>2 DEF MappedStatus, MappedClaim, MappedView
<1>8. \A s \in Resources :
        a[s] > 0 =>
          /\ offers[p][s] # NoOffer
          /\ Reserved(MappedView(c), product, MappedClaim, Market[p], s) + a[s]
               <= offers[p][s]
  BY <1>1 DEF LedgerInv, LoopFits, p, a
<1>9. LedgerStep
  <2>1. PICK W \in SUBSET Reservations, x \in Products, b \in Claims :
          W = marked[c] /\ x = p /\ b = a
    BY <1>1, <1>2 DEF TypeOK
  <2>2. Ledger!MayLapse(W) /\ Ledger!Lapsed(W) = MappedView(c)
    BY <1>1, <2>1, MarkedMayLapse
  <2>3. \A s \in Resources :
          b[s] > 0 =>
            /\ offers[x][s] # NoOffer
            /\ Ledger!Reserved(Ledger!Lapsed(W), product, MappedClaim,
                               Market[x], s) + b[s] <= offers[x][s]
    BY <1>8, <2>1, <2>2, LedgerSums
  <2>4. /\ MappedStatus' = [Ledger!Lapsed(W) EXCEPT ![r] = "CONFIRMED"]
        /\ MappedClaim' = [MappedClaim EXCEPT ![r] = b]
        /\ product' = [product EXCEPT ![r] = x]
    BY <1>1, <1>7, <2>1, <2>2
  <2>5. Ledger!Confirm(W, r, x, b)
    BY <1>1, <1>7, <2>2, <2>3, <2>4
    DEF Ledger!Confirm, MappedStatus, MappedClaim
  <2>6. b \in Ledger!Claims
    BY DEF Claims, Ledger!Claims
  <2>7. Ledger!Next
    BY <2>5, <2>6 DEF Ledger!Next
  <2> QED
    BY <2>7 DEF LedgerStep
<1> QED
  BY <1>1, <1>4, <1>5, <1>6, <1>9 DEF LedgerInv

(* The answers of the resources: a settled reservation gives back what was *)
(* refused, a revived one is over already.                                 *)
LEMMA SettleLedger ==
  ASSUME LedgerInv, NEW r \in Reservations, NEW accepted \in SUBSET Resources,
         Settle(r, accepted)
  PROVE  LedgerInv' /\ LedgerStep
<1> DEFINE kept == [s \in Resources |-> IF s \in accepted THEN claim[r][s] ELSE 0]
           result == IF claim'[r] = claim[r] THEN "COMPLETED" ELSE "FAILED"
<1>1. /\ TransactionsInv' /\ TypeOK' /\ TypeOK /\ status[r] = "ACTIVATED"
      /\ claim' = [claim EXCEPT ![r] = kept]
      /\ status' = [status EXCEPT ![r] = result]
      /\ UNCHANGED <<offers, product, pc, call, now, marked, pending, seen,
                     remaining, given, granted, revived>>
  BY SettleKeeps
  DEF LedgerInv, TransactionsInv, Settle, session, local, ghosts
<1>2. result \in {"COMPLETED", "FAILED"} /\ claim'[r] = kept
  BY <1>1 DEF TypeOK
<1>3. \A s \in Resources : kept[s] <= claim[r][s]
  BY <1>1, CapacityAssumption DEF TypeOK, Claims
<1>4. RevivedAreOver'
  BY <1>1, <1>2 DEF LedgerInv, RevivedAreOver, TypeOK
<1>5. WritesMatch'
  BY <1>1, <1>2 DEF LedgerInv, WritesMatch, TypeOK
<1>6. Shrinks(MappedStatus, product, MappedClaim,
              MappedStatus', product', MappedClaim')
  <2>1. \A z \in Reservations, s \in Resources :
          MappedClaim[z][s] <= MappedClaim[z][s]
    BY <1>1, MappedType, CapacityAssumption DEF Claims
  <2>2. ASSUME NEW z \in Reservations, MappedStatus'[z] \in ActiveStatuses
        PROVE  /\ MappedStatus[z] \in ActiveStatuses
               /\ \A s \in Resources : MappedClaim'[z][s] <= MappedClaim[z][s]
    <3>1. CASE z = r
      <4>1. z \notin revived
        BY <1>1, <2>2 DEF MappedStatus, ActiveStatuses
      <4> HIDE DEF kept
      <4> QED
        BY <1>1, <1>2, <1>3, <3>1, <4>1
        DEF MappedStatus, MappedClaim, ActiveStatuses
    <3>2. CASE z # r
      <4>1. MappedStatus'[z] = MappedStatus[z] /\ MappedClaim'[z] = MappedClaim[z]
        BY <1>1, <3>2 DEF MappedStatus, MappedClaim, TypeOK
      <4> QED
        BY <2>1, <2>2, <4>1
    <3> QED
      BY <3>1, <3>2
  <2> QED
    BY <1>1, <2>2 DEF Shrinks
<1>7. ASSUME NEW d \in Sessions
      PROVE  LoopFits(d)'
  <2>1. LoopFits(d)
    BY DEF LedgerInv
  <2> QED
    BY <1>1, <1>6, <2>1, LoopKept
<1>8. LedgerStep
  <2>1. CASE r \in revived
    <3>1. MappedStatus' = MappedStatus /\ MappedClaim' = MappedClaim
      BY <1>1, <2>1 DEF MappedStatus, MappedClaim, TypeOK
    <3> QED
      BY <1>1, <3>1 DEF LedgerStep, Ledger!vars, MappedStatus, MappedClaim
  <2>2. CASE r \notin revived
    <3>1. PICK W \in SUBSET Reservations : W = {}
      OBVIOUS
    <3>2. Ledger!MayLapse(W) /\ Ledger!Lapsed(W) = MappedStatus
      BY <3>1 DEF Ledger!MayLapse, Ledger!Lapsed, MappedStatus
    <3>3. MappedClaim[r] = claim[r] /\ MappedStatus[r] = "ACTIVATED"
      BY <1>1, <2>2 DEF MappedClaim, MappedStatus
    <3>4. /\ MappedClaim' =
               [MappedClaim EXCEPT ![r] =
                  [s \in Resources |-> IF s \in accepted THEN @[s] ELSE 0]]
          /\ MappedClaim'[r] = claim'[r]
          /\ MappedStatus' = [MappedStatus EXCEPT ![r] = result]
      <4>1. /\ MappedClaim' = [MappedClaim EXCEPT ![r] = kept]
            /\ MappedStatus' = [MappedStatus EXCEPT ![r] = result]
        <5> HIDE DEF kept, result
        <5>1. \A z \in Reservations :
                /\ MappedClaim'[z] = IF z = r THEN kept ELSE MappedClaim[z]
                /\ MappedStatus'[z] = IF z = r THEN result ELSE MappedStatus[z]
          BY <1>1, <2>2 DEF MappedClaim, MappedStatus, TypeOK
        <5> QED
          BY <5>1 DEF MappedClaim, MappedStatus
      <4>2. MappedClaim'[r] = kept
        BY <4>1 DEF MappedClaim
      <4> QED
        BY <1>2, <3>3, <4>1, <4>2
    <3>5. MappedStatus' = [Ledger!Lapsed(W) EXCEPT ![r] =
            IF MappedClaim'[r] = MappedClaim[r] THEN "COMPLETED" ELSE "FAILED"]
      BY <3>2, <3>3, <3>4
    <3>6. Ledger!Lapsed(W)[r] \in {"CONFIRMED", "ACTIVATED"}
      BY <3>2, <3>3
    <3>7. Ledger!Settle(W, r, accepted)
      BY <1>1, <3>2, <3>4, <3>5, <3>6
      DEF Ledger!Settle, MappedStatus, MappedClaim
    <3>8. Ledger!Next
      BY <3>7 DEF Ledger!Next
    <3> QED
      BY <3>8 DEF LedgerStep
  <2> QED
    BY <2>1, <2>2
<1> QED
  BY <1>1, <1>4, <1>5, <1>7, <1>8 DEF LedgerInv

-----------------------------------------------------------------------------
(* The steps of c before its last one, and the surroundings.               *)
LEMMA QuietKept ==
  ASSUME LedgerInv, TransactionsInv', NEW c \in Sessions,
         UNCHANGED <<offers, status, product, claim, granted, revived>>,
         \A d \in Sessions \ {c} :
           /\ pc'[d] = pc[d] /\ call'[d] = call[d] /\ marked'[d] = marked[d]
           /\ seen'[d] = seen[d] /\ given'[d] = given[d],
         LoopFits(c)',
         pc'[c] = "writing" =>
           /\ status[call'[c].reservation] \in {"CONFIRMED", "EXPIRED"}
           /\ call'[c].reservation \notin marked'[c]
  PROVE  LedgerInv' /\ LedgerStep
<1>1. TypeOK /\ TypeOK'
  BY DEF LedgerInv, TransactionsInv
<1>2. /\ Shrinks(MappedStatus, product, MappedClaim,
                 MappedStatus', product', MappedClaim')
      /\ RevivedAreOver'
  BY <1>1, QuietRows DEF LedgerInv
<1>3. ASSUME NEW d \in Sessions \ {c}
      PROVE  LoopFits(d)'
  <2>1. LoopFits(d)
    BY DEF LedgerInv
  <2> QED
    BY <1>1, <1>2, <2>1, LoopKept
<1>4. WritesMatch'
  BY DEF LedgerInv, WritesMatch
<1>5. LedgerStep
  BY DEF LedgerStep, Ledger!vars
<1> QED
  BY <1>2, <1>3, <1>4, <1>5 DEF LedgerInv

LEMMA BeginLedger ==
  ASSUME LedgerInv, NEW c \in Sessions, NEW x \in Calls, Begin(c, x)
  PROVE  LedgerInv' /\ LedgerStep
<1>1. /\ TypeOK /\ pc[c] = "idle" /\ pc' = [pc EXCEPT ![c] = "waiting"]
      /\ call' = [call EXCEPT ![c] = x]
      /\ UNCHANGED <<offers, status, product, claim, granted, revived, marked,
                     seen, given>>
  BY DEF LedgerInv, TransactionsInv, Begin, rows, local, ghosts
<1>2. TransactionsInv'
  BY BeginKeeps DEF LedgerInv
<1>3. LoopFits(c)' /\ pc'[c] = "waiting"
  BY <1>1 DEF LedgerInv, LoopFits, TypeOK
<1> QED
  BY <1>1, <1>2, <1>3, QuietKept DEF TypeOK

LEMMA AcquireLedger ==
  ASSUME LedgerInv, NEW c \in Sessions, Acquire(c) \/ Sweep(c)
  PROVE  LedgerInv' /\ LedgerStep
<1>1. /\ TypeOK /\ pc[c] \in {"waiting", "locked"}
      /\ \E where \in {"locked", "swept"} : pc' = [pc EXCEPT ![c] = where]
      /\ \E rs : marked' = [marked EXCEPT ![c] = rs]
      /\ UNCHANGED <<offers, status, product, claim, granted, revived, call,
                     seen, given>>
  <2>1. CASE Acquire(c)
    <3>1. marked' = [marked EXCEPT ![c] = marked[c]]
      BY <2>1 DEF LedgerInv, TransactionsInv, TypeOK, Acquire
    <3> QED
      BY <2>1, <3>1
      DEF LedgerInv, TransactionsInv, Acquire, rows, local, ghosts
  <2>2. CASE Sweep(c)
    BY <2>2 DEF LedgerInv, TransactionsInv, Sweep, rows, local, ghosts
  <2> QED
    BY <2>1, <2>2
<1>2. TransactionsInv'
  BY AcquireKeeps, SweepKeeps DEF LedgerInv
<1>3. LoopFits(c)' /\ pc'[c] \in {"locked", "swept"}
  BY <1>1 DEF LedgerInv, LoopFits, TypeOK
<1> QED
  BY <1>1, <1>2, <1>3, QuietKept DEF TypeOK

LEMMA ReadConfirmedLedger ==
  ASSUME LedgerInv, NEW c \in Sessions, ReadConfirmed(c)
  PROVE  LedgerInv' /\ LedgerStep
<1>1. /\ TypeOK /\ pc[c] = "swept" /\ pc' = [pc EXCEPT ![c] = "writing"]
      /\ call[c].op \in {"cancel", "activate"}
      /\ View(c)[call[c].reservation] = "CONFIRMED"
      /\ UNCHANGED <<offers, status, product, claim, granted, revived, call,
                     marked, seen, given>>
  BY DEF LedgerInv, TransactionsInv, ReadConfirmed, rows, local, ghosts
<1>2. TransactionsInv'
  BY ReadConfirmedKeeps DEF LedgerInv
<1>3. LoopFits(c)'
  BY <1>1 DEF LedgerInv, LoopFits, TypeOK
<1>4. call[c].reservation \in Reservations
  BY <1>1, CallFields DEF LedgerInv, TransactionsInv, CallsMatch
<1>5. /\ status[call[c].reservation] = "CONFIRMED"
      /\ call[c].reservation \notin marked[c]
  BY <1>1, <1>4 DEF View
<1> QED
  BY <1>1, <1>2, <1>3, <1>5, QuietKept DEF TypeOK

LEMMA ReadOffersLedger ==
  ASSUME LedgerInv, NEW c \in Sessions, ReadOffers(c)
  PROVE  LedgerInv' /\ LedgerStep
<1>1. CASE Rollback(c)
  BY <1>1, RollbackLedger
<1>2. CASE ~Rollback(c)
  <2>1. /\ TypeOK /\ pc[c] = "swept" /\ pc' = [pc EXCEPT ![c] = "looping"]
        /\ seen' = [seen EXCEPT ![c] = offers[call[c].request.product]]
        /\ UNCHANGED <<offers, status, product, claim, granted, revived, call,
                       marked, given>>
    BY <1>2 DEF LedgerInv, TransactionsInv, ReadOffers, rows, ghosts
  <2>2. TransactionsInv'
    BY ReadOffersKeeps DEF LedgerInv
  <2>3. given[c] = NoClaim
    BY <2>1 DEF LedgerInv, LoopFits
  <2>4. \A s \in Resources : ~(given'[c][s] > 0)
    BY <2>1, <2>3 DEF NoClaim
  <2>5. seen'[c] = offers'[call'[c].request.product] /\ pc'[c] = "looping"
    BY <2>1 DEF TypeOK
  <2>6. LoopFits(c)'
    BY <2>4, <2>5 DEF LoopFits
  <2> QED
    BY <2>1, <2>2, <2>5, <2>6, QuietKept DEF TypeOK
<1> QED
  BY <1>1, <1>2

(* What a resource gives fits beside what the session sees as reserved,    *)
(* and so beside what the ledger of the substitution has reserved.         *)
LEMMA VisitOfferLedger ==
  ASSUME LedgerInv, NEW c \in Sessions, NEW s \in Resources, VisitOffer(c, s)
  PROVE  LedgerInv' /\ LedgerStep
<1> DEFINE x == IF Available(c, s) < remaining[c] THEN Available(c, s)
                                                  ELSE remaining[c]
           m == Market[call[c].request.product]
           mine == Reserved(View(c), product, claim, m, s)
           theirs == Reserved(MappedView(c), product, MappedClaim, m, s)
<1>1. /\ TypeOK /\ pc[c] = "looping" /\ s \in pending[c]
      /\ given' = [given EXCEPT ![c][s] = x]
      /\ UNCHANGED <<offers, status, product, claim, granted, revived, pc,
                     call, marked, seen>>
  BY DEF LedgerInv, TransactionsInv, VisitOffer, rows, ghosts
<1>2. TransactionsInv'
  BY VisitOfferKeeps DEF LedgerInv
<1>3. theirs <= mine /\ mine \in Nat /\ theirs \in Nat
  <2>1. Shrinks(View(c), product, claim, MappedView(c), product, MappedClaim)
    <3>1. \A z \in Reservations, t \in Resources : claim[z][t] <= claim[z][t]
      BY <1>1, CapacityAssumption DEF TypeOK, Claims
    <3>2. \A z \in Reservations :
            MappedView(c)[z] \in ActiveStatuses =>
              View(c)[z] \in ActiveStatuses /\ MappedClaim[z] = claim[z]
      BY DEF MappedView, MappedStatus, MappedClaim, View, ActiveStatuses
    <3> QED
      BY <3>1, <3>2 DEF Shrinks
  <2>2. claim \in [Reservations -> Claims]
    BY <1>1 DEF TypeOK
  <2> QED
    BY <1>1, <2>1, <2>2, MappedType, ReservedShrinks, ReservedType
<1>4. /\ seen[c][s] # NoOffer /\ seen[c][s] \in Nat
      /\ remaining[c] \in Nat
      /\ Available(c, s) = IF seen[c][s] > mine THEN seen[c][s] - mine ELSE 0
  BY <1>1, CapacityAssumption
  DEF LedgerInv, TransactionsInv, CallsMatch, TypeOK, Available
<1>5. x > 0 => theirs + x <= seen[c][s]
  <2> HIDE DEF mine, theirs
  <2> QED
    BY <1>3, <1>4
<1>6. given'[c] = [given[c] EXCEPT ![s] = x]
  BY <1>1 DEF TypeOK
<1> HIDE DEF x
<1>7. LoopFits(c)'
  <2>1. /\ MappedStatus' = MappedStatus /\ MappedClaim' = MappedClaim
    BY <1>1, QuietRows
  <2>2. MappedView(c)' = MappedView(c)
    BY <1>1, <2>1 DEF MappedView
  <2>3. ASSUME NEW t \in Resources, given'[c][t] > 0
        PROVE  /\ seen[c][t] # NoOffer
               /\ Reserved(MappedView(c), product, MappedClaim, m, t)
                    + given'[c][t] <= seen[c][t]
    <3>1. CASE t = s
      <4>1. given'[c][t] = x
        BY <1>1, <1>6, <3>1 DEF TypeOK, Claims
      <4> QED
        BY <1>4, <1>5, <2>3, <3>1, <4>1
    <3>2. CASE t # s
      <4>1. given'[c][t] = given[c][t]
        BY <1>1, <1>6, <3>2 DEF TypeOK, Claims
      <4> QED
        BY <1>1, <2>3, <4>1 DEF LedgerInv, LoopFits
    <3> QED
      BY <3>1, <3>2
  <2>4. seen[c] = offers[call[c].request.product]
    BY <1>1 DEF LedgerInv, LoopFits
  <2> QED
    BY <1>1, <2>1, <2>2, <2>3, <2>4 DEF LoopFits
<1> QED
  BY <1>1, <1>2, <1>6, <1>7, QuietKept DEF TypeOK

(* With one product no offer moves while a create allocates.               *)
LEMMA OffersLedger ==
  ASSUME OneProduct, LedgerInv,
         \/ \E p \in Products, s \in Resources : Upsert(p, s)
         \/ \E s \in Resources : RemoveResource(s)
  PROVE  LedgerInv' /\ LedgerStep
<1>1. /\ TransactionsInv' /\ TypeOK /\ TypeOK'
      /\ UNCHANGED <<status, product, claim, granted, revived, pc, call,
                     marked, seen, given>>
  BY OffersKeep DEF LedgerInv, TransactionsInv, Upsert, RemoveResource, rows,
     session, local, ghosts
<1>2. ASSUME NEW d \in Sessions, pc[d] = "looping"
      PROVE  offers' = offers
  <2>1. /\ call[d].request.product \in Products
        /\ <<"product", call[d].request.product>> \in Held(d)
    BY <1>2, ProductLocked DEF Requests
  <2>2. \A p \in Products : <<"product", p>> \in Held(d)
    BY <2>1 DEF OneProduct
  <2>3. PICK s \in Resources : RemoveResource(s)
    BY <2>2 DEF Upsert
  <2>4. \A p \in Products : offers[p][s] = NoOffer
    BY <2>2, <2>3 DEF RemoveResource
  <2>5. ASSUME NEW p \in Products
        PROVE  [offers[p] EXCEPT ![s] = NoOffer] = offers[p]
    BY <1>1, <2>4 DEF TypeOK
  <2>6. offers' = [p \in Products |-> [offers[p] EXCEPT ![s] = NoOffer]]
    BY <2>3 DEF RemoveResource
  <2> QED
    BY <1>1, <2>5, <2>6 DEF TypeOK
<1>3. /\ Shrinks(MappedStatus, product, MappedClaim,
                 MappedStatus', product', MappedClaim')
      /\ RevivedAreOver' /\ WritesMatch'
  BY <1>1, QuietRows DEF LedgerInv, WritesMatch
<1>4. ASSUME NEW d \in Sessions
      PROVE  LoopFits(d)'
  <2>1. LoopFits(d)
    BY DEF LedgerInv
  <2> QED
    BY <1>1, <1>2, <1>3, <2>1, LoopKept
<1>5. LedgerStep
  <2>1. Ledger!OffersMove
    BY <1>1 DEF Ledger!OffersMove
  <2>2. Ledger!Next
    BY <2>1 DEF Ledger!Next
  <2> QED
    BY <2>2 DEF LedgerStep
<1> QED
  BY <1>1, <1>3, <1>4, <1>5 DEF LedgerInv

LEMMA LedgerStepKeeps ==
  ASSUME OneProduct, LedgerInv, NEW c \in Sessions, Step(c)
  PROVE  LedgerInv' /\ LedgerStep
<1>1. CASE \E x \in Calls : Begin(c, x)
  BY <1>1, BeginLedger
<1>2. CASE Acquire(c) \/ Sweep(c)
  BY <1>2, AcquireLedger
<1>3. CASE AlreadyActivated(c) \/ ReadOther(c) \/ NothingLeft(c) \/ Abort(c)
  <2>1. Rollback(c)
    BY <1>3 DEF AlreadyActivated, ReadOther, NothingLeft, Abort
  <2> QED
    BY <2>1, RollbackLedger
<1>4. CASE Get(c) \/ KeyKnown(c)
  <2>1. CommitSweep(c) \/ Rollback(c)
    BY <1>4 DEF Get, KeyKnown
  <2> QED
    BY <2>1, CommitSweepLedger, RollbackLedger
<1>5. CASE ReadConfirmed(c)
  BY <1>5, ReadConfirmedLedger
<1>6. CASE Write(c)
  BY <1>6, WriteLedger
<1>7. CASE ReadOffers(c)
  BY <1>7, ReadOffersLedger
<1>8. CASE \E s \in Resources : VisitOffer(c, s)
  BY <1>8, VisitOfferLedger
<1>9. CASE \E r \in Reservations : Save(c, r)
  BY <1>9, SaveLedger
<1> QED
  BY <1>1, <1>2, <1>3, <1>4, <1>5, <1>6, <1>7, <1>8, <1>9 DEF Step

LEMMA LedgerNext ==
  ASSUME OneProduct
  PROVE  LedgerInv /\ [Next]_vars => LedgerInv' /\ LedgerStep
<1> SUFFICES ASSUME LedgerInv, [Next]_vars
             PROVE  LedgerInv' /\ LedgerStep
  OBVIOUS
<1>1. CASE \E c \in Sessions : Step(c)
  BY <1>1, LedgerStepKeeps
<1>2. CASE \E r \in Reservations, accepted \in SUBSET Resources :
             Settle(r, accepted)
  BY <1>2, SettleLedger
<1>3. CASE \/ \E p \in Products, s \in Resources : Upsert(p, s)
           \/ \E s \in Resources : RemoveResource(s)
  BY <1>3, OffersLedger
<1>4. CASE Tick \/ UNCHANGED vars
  <2>1. /\ TransactionsInv' /\ TypeOK /\ TypeOK'
        /\ UNCHANGED <<offers, status, product, claim, granted, revived, pc,
                       call, marked, seen, given>>
    BY <1>4, TransactionsNext DEF LedgerInv, TransactionsInv, Tick, Next,
       vars, rows, session, local, ghosts
  <2>2. /\ Shrinks(MappedStatus, product, MappedClaim,
                   MappedStatus', product', MappedClaim')
        /\ RevivedAreOver' /\ WritesMatch'
    BY <2>1, QuietRows DEF LedgerInv, WritesMatch
  <2>3. ASSUME NEW d \in Sessions
        PROVE  LoopFits(d)'
    <3>1. LoopFits(d)
      BY DEF LedgerInv
    <3> QED
      BY <2>1, <2>2, <3>1, LoopKept
  <2>4. LedgerStep
    BY <2>1 DEF LedgerStep, Ledger!vars
  <2> QED
    BY <2>1, <2>2, <2>3, <2>4 DEF LedgerInv
<1> QED
  BY <1>1, <1>2, <1>3, <1>4 DEF Next

(* As long as there is one product, PostgreSQL keeps the promise of        *)
(* CapacityLedger: transactions of any number of sessions, committed in    *)
(* any order, sell nothing twice and nothing that is not on offer, but for *)
(* reservations that were written over after their expiry (the ghost       *)
(* revived; service.py:124-202, postgres.py:303-331, 620-630).             *)
THEOREM TransactionsImplementCapacity ==
  ASSUME OneProduct
  PROVE  Spec => LedgerSpec
<1>1. Init => LedgerInv
  BY TransactionsInit
  DEF Init, LedgerInv, RevivedAreOver, WritesMatch, LoopFits
<1>2. Init => Ledger!Init
  BY DEF Init, Ledger!Init, Ledger!NoClaim, NoClaim
<1>3. LedgerInv /\ [Next]_vars => LedgerInv' /\ [Ledger!Next]_Ledger!vars
  BY LedgerNext DEF LedgerStep
<1> QED
  BY <1>1, <1>2, <1>3, PTL DEF Spec, LedgerSpec, Ledger!Spec
=============================================================================
