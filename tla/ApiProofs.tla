------------------------------ MODULE ApiProofs ------------------------------
(***************************************************************************)
(* The way of an API request.  First what it finds: a cell has one public  *)
(* value for ever, for any number of requests, cells, epochs and           *)
(* capacities.  Then how it gets there: the middlewares account for every  *)
(* request, for any number of them and any limits.                         *)
(***************************************************************************)
EXTENDS Publication, HttpAdmission, FiniteSetTheorems, TLAPS

(* Everything in a snapshot, and everything on its way there, is the one   *)
(* residual of its cell.                                                   *)
FromResidual ==
  /\ \A e \in Epochs, c \in Cells :
       snapshot[e][c] # NoValue =>
         residual[c] # NoValue /\ snapshot[e][c] = Floor(residual[c])
  /\ \A h \in Handlers, c \in Cells :
       pc[h] = "reduced" /\ got[h][c] # NoValue => got[h][c] = residual[c]

(* A cell is gone from the epoch in which it was hidden or closed; a       *)
(* request that has its value all the same was admitted by then.  What the *)
(* store returned may be of a closed cell until it is reduced.             *)
Departed ==
  /\ \A h \in Handlers : at[h] <= epoch
  /\ \A c \in Cells :
       /\ gone[c] <= epoch
       /\ gone[c] > 0 <=> c \in hidden \cup closed
  /\ \A e \in Epochs, c \in Cells : e > epoch => snapshot[e][c] = NoValue
  /\ \A h \in Handlers, c \in Cells :
       /\ pc[h] = "aggregated" /\ got[h][c] # NoValue =>
            c \in closed \/ gone[c] = 0 \/ at[h] <= gone[c]
       /\ pc[h] = "reduced" /\ got[h][c] # NoValue =>
            gone[c] = 0 \/ at[h] <= gone[c]

PublicationInv == TypeOK /\ FromResidual /\ Departed /\ GoneFromLaterEpochs

USE DEF store, ledger, request

LEMMA InvInit == Init => PublicationInv
<1> SUFFICES ASSUME Init PROVE PublicationInv
  OBVIOUS
<1>1. TypeOK
  BY PublicationAssumption
     DEF Init, TypeOK, Offers!Init, Nothing, Figures, Epochs
<1>2. FromResidual /\ Departed /\ GoneFromLaterEpochs
  BY PublicationAssumption
     DEF Init, FromResidual, Departed, GoneFromLaterEpochs, Offers!Init,
         Nothing, Epochs
<1> QED
  BY <1>1, <1>2 DEF PublicationInv

(* Departed, with the types arithmetic needs. *)
LEMMA DepartedFacts ==
  ASSUME PublicationInv
  PROVE  /\ epoch \in Nat /\ epoch > 0
         /\ \A h \in Handlers : at[h] \in Nat /\ at[h] <= epoch
         /\ \A c \in Cells : gone[c] \in Nat /\ gone[c] <= epoch
BY DEF PublicationInv, Departed, TypeOK, Epochs

LEMMA InvAdmit ==
  ASSUME PublicationInv, NEW h \in Handlers, NEW w \in Windows,
         NEW e \in 1..epoch, Admit(h, w, e)
  PROVE  PublicationInv'
<1>t. TypeOK
  BY DEF PublicationInv
<1>e. e \in Epochs /\ e <= epoch
  BY <1>t, DepartedFacts, PublicationAssumption DEF TypeOK, Epochs
<1>1. /\ UNCHANGED <<epoch, store, ledger, snapshot, got, gone>>
      /\ pc' \in [Handlers -> {"idle", "admitted", "aggregated", "reduced"}]
      /\ pc'[h] = "admitted" /\ \A g \in Handlers : g # h => pc'[g] = pc[g]
      /\ at' \in [Handlers -> Epochs]
      /\ at'[h] = e /\ \A g \in Handlers : g # h => at'[g] = at[g]
  BY <1>t, <1>e DEF Admit, TypeOK
<1>2. used' \in [Epochs -> 0..Limit] /\ window' \in [Handlers -> SUBSET Cells]
  BY <1>t, <1>e, PublicationAssumption DEF Admit, TypeOK
<1>3. TypeOK'
  BY <1>t, <1>1, <1>2 DEF TypeOK
<1>4. FromResidual' /\ GoneFromLaterEpochs'
  BY <1>1 DEF PublicationInv, FromResidual, GoneFromLaterEpochs
<1>5. Departed'
  <2>1. \A g \in Handlers : at'[g] <= epoch'
    BY <1>1, <1>e, DepartedFacts
  <2>2. \A g \in Handlers :
          pc'[g] \in {"aggregated", "reduced"} => pc'[g] = pc[g] /\ at'[g] = at[g]
    BY <1>1
  <2> QED
    BY <1>1, <2>1, <2>2 DEF PublicationInv, Departed
<1> QED
  BY <1>3, <1>4, <1>5 DEF PublicationInv

LEMMA InvQuery ==
  ASSUME PublicationInv, NEW h \in Handlers, Query(h)
  PROVE  PublicationInv'
<1>t. TypeOK
  BY DEF PublicationInv
<1>1. PICK found \in SUBSET window[h] : \E answer \in [found -> Capacities] :
        /\ \A c \in found : MayReturn(c, answer[c])
        /\ value' = [c \in Cells |-> IF c \in found THEN answer[c] ELSE value[c]]
        /\ got' = [got EXCEPT ![h] =
             [c \in Cells |-> IF c \in found THEN answer[c] ELSE NoValue]]
  BY DEF Query
<1>2. PICK answer \in [found -> Capacities] :
        /\ \A c \in found : MayReturn(c, answer[c])
        /\ value' = [c \in Cells |-> IF c \in found THEN answer[c] ELSE value[c]]
        /\ got' = [got EXCEPT ![h] =
             [c \in Cells |-> IF c \in found THEN answer[c] ELSE NoValue]]
  BY <1>1
<1>3. /\ UNCHANGED <<epoch, used, hidden, ledger, snapshot, at, window, gone>>
      /\ pc' \in [Handlers -> {"idle", "admitted", "aggregated", "reduced"}]
      /\ pc'[h] = "aggregated" /\ \A g \in Handlers : g # h => pc'[g] = pc[g]
  BY <1>t DEF Query, TypeOK
<1>4. /\ got' \in [Handlers -> [Cells -> Figures]]
      /\ \A c \in Cells : got'[h][c] # NoValue => c \notin hidden
      /\ \A g \in Handlers : g # h => got'[g] = got[g]
  <2>1. [c \in Cells |-> IF c \in found THEN answer[c] ELSE NoValue]
          \in [Cells -> Figures]
    BY PublicationAssumption DEF Figures
  <2> QED
    BY <1>t, <1>2, <2>1 DEF TypeOK, MayReturn
<1>5. TypeOK'
  <2>1. value' \in [Cells -> Capacities \cup {NoValue}]
    BY <1>t, <1>2 DEF TypeOK
  <2> QED
    BY <1>t, <1>3, <1>4, <2>1 DEF TypeOK
<1>6. FromResidual' /\ GoneFromLaterEpochs'
  BY <1>3, <1>4 DEF PublicationInv, FromResidual, GoneFromLaterEpochs
<1>7. Departed'
  <2>1. \A c \in Cells : got'[h][c] # NoValue => c \in closed \/ gone[c] = 0
    BY <1>t, <1>4 DEF PublicationInv, Departed, TypeOK
  <2> QED
    BY <1>3, <1>4, <2>1 DEF PublicationInv, Departed
<1> QED
  BY <1>5, <1>6, <1>7 DEF PublicationInv

LEMMA RestType ==
  ASSUME TypeOK, NEW h \in Handlers, NEW c \in Cells, got[h][c] # NoValue
  PROVE  Rest(h, c) \in Nat
BY PublicationAssumption DEF TypeOK, Rest, Figures

(* The residual of a cell is set once. *)
LEMMA InvReduce ==
  ASSUME PublicationInv, NEW h \in Handlers, Reduce(h)
  PROVE  PublicationInv'
<1> DEFINE found == {c \in Cells : got[h][c] # NoValue}
           shut == closed \cup {c \in found : Differs(h, c)}
           left == [c \in Cells |-> IF c \in found \ shut THEN Rest(h, c) ELSE NoValue]
<1>t. TypeOK
  BY DEF PublicationInv
<1>1. /\ pc[h] = "aggregated"
      /\ closed' = shut
      /\ residual' = [c \in Cells |-> IF left[c] # NoValue THEN left[c] ELSE residual[c]]
      /\ got' = [got EXCEPT ![h] = left]
      /\ gone' = [c \in Cells |->
                    IF c \in shut \ closed /\ gone[c] = 0 THEN epoch ELSE gone[c]]
      /\ UNCHANGED <<epoch, used, store, sold, snapshot, at, window>>
      /\ pc' \in [Handlers -> {"idle", "admitted", "aggregated", "reduced"}]
      /\ pc'[h] = "reduced" /\ \A g \in Handlers : g # h => pc'[g] = pc[g]
  BY <1>t DEF Reduce, Goes, TypeOK
<1>2. \A c \in Cells :
        left[c] # NoValue =>
          /\ left[c] = Rest(h, c) /\ left[c] \in Nat
          /\ c \notin shut /\ got[h][c] # NoValue
          /\ residual[c] \in {NoValue, left[c]}
  BY <1>t, RestType DEF Differs
<1>3. left \in [Cells -> Figures]
  BY <1>t, RestType DEF Figures
<1>4. closed \subseteq shut /\ shut \subseteq Cells
  BY <1>t DEF TypeOK
<1> HIDE DEF left, shut
<1>5. /\ residual' \in [Cells -> Figures]
      /\ \A c \in Cells :
           /\ residual[c] # NoValue => residual'[c] = residual[c]
           /\ left[c] # NoValue => residual'[c] = left[c]
  BY <1>t, <1>1, <1>2, <1>3 DEF TypeOK
<1>6. /\ got' \in [Handlers -> [Cells -> Figures]]
      /\ got'[h] = left /\ \A g \in Handlers : g # h => got'[g] = got[g]
  BY <1>t, <1>1, <1>3 DEF TypeOK
<1>7. gone' \in [Cells -> 0..MaxEpoch]
  BY <1>t, <1>1, PublicationAssumption DEF TypeOK, Epochs
<1>8. TypeOK'
  BY <1>t, <1>1, <1>4, <1>5, <1>6, <1>7 DEF TypeOK
<1>9. FromResidual'
  <2>1. \A e \in Epochs, c \in Cells :
          snapshot[e][c] # NoValue =>
            residual'[c] # NoValue /\ snapshot[e][c] = Floor(residual'[c])
    BY <1>5 DEF PublicationInv, FromResidual
  <2>2. \A g \in Handlers, c \in Cells :
          pc'[g] = "reduced" /\ got'[g][c] # NoValue => got'[g][c] = residual'[c]
    <3> SUFFICES ASSUME NEW g \in Handlers, NEW c \in Cells,
                        pc'[g] = "reduced", got'[g][c] # NoValue
                 PROVE  got'[g][c] = residual'[c]
      OBVIOUS
    <3>1. CASE g = h
      BY <3>1, <1>5, <1>6
    <3>2. CASE g # h
      BY <3>2, <1>1, <1>5, <1>6 DEF PublicationInv, FromResidual
    <3> QED
      BY <3>1, <3>2
  <2> QED
    BY <1>1, <2>1, <2>2 DEF FromResidual
<1>10. /\ \A c \in Cells :
            /\ gone[c] > 0 => gone'[c] = gone[c]
            /\ gone'[c] \in {gone[c], epoch}
            /\ gone'[c] > 0 <=> c \in hidden \cup shut
            /\ gone[c] \in Nat /\ gone[c] <= epoch
            /\ gone[c] > 0 <=> c \in hidden \cup closed
       /\ epoch \in Nat /\ epoch > 0
       /\ \A g \in Handlers : at[g] \in Nat /\ at[g] <= epoch
  BY <1>t, <1>1, <1>4 DEF PublicationInv, Departed, TypeOK, Epochs
<1>11. Departed'
  <2>1. \A c \in Cells :
          gone'[c] <= epoch' /\ (gone'[c] > 0 <=> c \in hidden' \cup closed')
    BY <1>1, <1>10
  <2>2. ASSUME NEW g \in Handlers, NEW c \in Cells,
               pc'[g] = "aggregated", got'[g][c] # NoValue
        PROVE  c \in closed' \/ gone'[c] = 0 \/ at'[g] <= gone'[c]
    <3>1. c \in closed \/ gone[c] = 0 \/ at[g] <= gone[c]
      BY <2>2, <1>1, <1>6 DEF PublicationInv, Departed
    <3> QED
      BY <3>1, <1>1, <1>4, <1>10
  <2>3. ASSUME NEW g \in Handlers, NEW c \in Cells,
               pc'[g] = "reduced", got'[g][c] # NoValue
        PROVE  gone'[c] = 0 \/ at'[g] <= gone'[c]
    <3>1. CASE g = h
      <4>1. got[h][c] # NoValue /\ c \notin closed
        BY <2>3, <3>1, <1>2, <1>4, <1>6
      <4>2. gone[c] = 0 \/ at[h] <= gone[c]
        BY <4>1, <1>1 DEF PublicationInv, Departed
      <4> QED
        BY <3>1, <4>2, <1>1, <1>10
    <3>2. CASE g # h
      <4>1. gone[c] = 0 \/ at[g] <= gone[c]
        BY <2>3, <3>2, <1>1, <1>6 DEF PublicationInv, Departed
      <4> QED
        BY <4>1, <1>1, <1>10
    <3> QED
      BY <3>1, <3>2
  <2> QED
    BY <1>1, <2>1, <2>2, <2>3 DEF PublicationInv, Departed
<1>12. GoneFromLaterEpochs'
  <2> SUFFICES ASSUME NEW e \in Epochs, NEW c \in Cells,
                      gone'[c] > 0, e > gone'[c]
               PROVE  snapshot[e][c] = NoValue
    BY <1>1 DEF GoneFromLaterEpochs
  <2>1. CASE gone[c] > 0
    BY <2>1, <1>10 DEF PublicationInv, GoneFromLaterEpochs
  <2>2. CASE ~(gone[c] > 0)
    BY <2>2, <1>10 DEF PublicationInv, Departed
  <2> QED
    BY <2>1, <2>2
<1> QED
  BY <1>8, <1>9, <1>11, <1>12 DEF PublicationInv

LEMMA InvPublish ==
  ASSUME PublicationInv, NEW h \in Handlers, Publish(h)
  PROVE  PublicationInv'
<1>t. TypeOK
  BY DEF PublicationInv
<1>1. /\ pc[h] = "reduced"
      /\ UNCHANGED <<epoch, used, store, ledger, gone>>
      /\ pc' \in [Handlers -> {"idle", "admitted", "aggregated", "reduced"}]
      /\ pc'[h] = "idle" /\ \A g \in Handlers : g # h => pc'[g] = pc[g]
      /\ at' \in [Handlers -> Epochs]
      /\ at'[h] = 1 /\ \A g \in Handlers : g # h => at'[g] = at[g]
      /\ window' \in [Handlers -> SUBSET Cells]
      /\ got' \in [Handlers -> [Cells -> Figures]]
      /\ \A g \in Handlers : g # h => got'[g] = got[g]
  BY <1>t, PublicationAssumption DEF Publish, TypeOK, Epochs, Nothing, Figures
<1>2. /\ at[h] \in Epochs
      /\ \A e \in Epochs, c \in Cells :
           snapshot'[e][c] =
             IF e # at[h] \/ Keeps(h, c) THEN snapshot[e][c] ELSE Floor(got[h][c])
  BY <1>t DEF Publish, TypeOK
<1>3. \A c \in Cells : ~Keeps(h, c) =>
        /\ got[h][c] \in Nat /\ Floor(got[h][c]) \in Nat
        /\ got[h][c] = residual[c]
        /\ gone[c] = 0 \/ at[h] <= gone[c]
  <2> SUFFICES ASSUME NEW c \in Cells, ~Keeps(h, c)
               PROVE  /\ got[h][c] \in Nat /\ Floor(got[h][c]) \in Nat
                      /\ got[h][c] = residual[c]
                      /\ gone[c] = 0 \/ at[h] <= gone[c]
    OBVIOUS
  <2>1. got[h][c] # NoValue
    BY DEF Keeps
  <2>2. got[h][c] \in Nat
    BY <1>t, <2>1 DEF TypeOK, Figures
  <2>3. Floor(got[h][c]) \in Nat
    BY <2>2, PublicationAssumption DEF Floor
  <2> QED
    BY <1>1, <2>1, <2>2, <2>3 DEF PublicationInv, FromResidual, Departed
<1>4. snapshot' \in [Epochs -> [Cells -> Figures]]
  <2>1. [c \in Cells |-> IF Keeps(h, c) THEN snapshot[at[h]][c] ELSE Floor(got[h][c])]
          \in [Cells -> Figures]
    BY <1>t, <1>2, <1>3 DEF TypeOK, Figures
  <2> QED
    BY <1>t, <1>2, <2>1 DEF Publish, TypeOK
<1>5. TypeOK'
  BY <1>t, <1>1, <1>4 DEF TypeOK
<1>6. FromResidual'
  <2>1. ASSUME NEW e \in Epochs, NEW c \in Cells, snapshot'[e][c] # NoValue
        PROVE  residual[c] # NoValue /\ snapshot'[e][c] = Floor(residual[c])
    <3>1. CASE e # at[h] \/ Keeps(h, c)
      BY <2>1, <3>1, <1>2 DEF PublicationInv, FromResidual
    <3>2. CASE ~(e # at[h] \/ Keeps(h, c))
      BY <3>2, <1>2, <1>3, PublicationAssumption
    <3> QED
      BY <3>1, <3>2
  <2>2. ASSUME NEW g \in Handlers, NEW c \in Cells,
               pc'[g] = "reduced", got'[g][c] # NoValue
        PROVE  got'[g][c] = residual[c]
    BY <2>2, <1>1 DEF PublicationInv, FromResidual
  <2> QED
    BY <1>1, <2>1, <2>2 DEF FromResidual
<1>7. Departed'
  <2>1. \A g \in Handlers : at'[g] <= epoch'
    BY <1>1, DepartedFacts
  <2>2. \A g \in Handlers :
          pc'[g] \in {"aggregated", "reduced"} =>
            pc'[g] = pc[g] /\ at'[g] = at[g] /\ got'[g] = got[g]
    BY <1>1
  <2>3. ASSUME NEW e \in Epochs, NEW c \in Cells, e > epoch
        PROVE  snapshot'[e][c] = NoValue
    <3>1. e # at[h] /\ snapshot[e][c] = NoValue
      BY <2>3, DepartedFacts DEF PublicationInv, Departed, Epochs
    <3> QED
      BY <3>1, <1>2
  <2> QED
    BY <1>1, <2>1, <2>2, <2>3 DEF PublicationInv, Departed
<1>8. GoneFromLaterEpochs'
  <2> SUFFICES ASSUME NEW e \in Epochs, NEW c \in Cells, gone[c] > 0, e > gone[c]
               PROVE  snapshot'[e][c] = NoValue
    BY <1>1 DEF GoneFromLaterEpochs
  <2>1. snapshot[e][c] = NoValue
    BY DEF PublicationInv, GoneFromLaterEpochs
  <2>2. CASE Keeps(h, c)
    BY <2>1, <2>2, <1>2
  <2>3. CASE ~Keeps(h, c)
    <3>1. e # at[h]
      BY <2>3, <1>3, DepartedFacts DEF Epochs
    <3> QED
      BY <3>1, <2>1, <1>2
  <2> QED
    BY <2>2, <2>3
<1> QED
  BY <1>5, <1>6, <1>7, <1>8 DEF PublicationInv

LEMMA InvAbort ==
  ASSUME PublicationInv, NEW h \in Handlers, Abort(h)
  PROVE  PublicationInv'
<1>t. TypeOK
  BY DEF PublicationInv
<1>1. /\ UNCHANGED <<epoch, used, store, ledger, snapshot, gone>>
      /\ pc' \in [Handlers -> {"idle", "admitted", "aggregated", "reduced"}]
      /\ pc'[h] = "idle" /\ \A g \in Handlers : g # h => pc'[g] = pc[g]
      /\ at' \in [Handlers -> Epochs]
      /\ at'[h] = 1 /\ \A g \in Handlers : g # h => at'[g] = at[g]
      /\ window' \in [Handlers -> SUBSET Cells]
      /\ got' \in [Handlers -> [Cells -> Figures]]
      /\ \A g \in Handlers : g # h => got'[g] = got[g]
  BY <1>t, PublicationAssumption DEF Abort, TypeOK, Epochs, Nothing, Figures
<1>2. TypeOK'
  BY <1>t, <1>1 DEF TypeOK
<1>3. FromResidual' /\ GoneFromLaterEpochs'
  BY <1>1 DEF PublicationInv, FromResidual, GoneFromLaterEpochs
<1>4. Departed'
  <2>1. \A g \in Handlers : at'[g] <= epoch'
    BY <1>1, DepartedFacts
  <2>2. \A g \in Handlers :
          pc'[g] \in {"aggregated", "reduced"} =>
            pc'[g] = pc[g] /\ at'[g] = at[g] /\ got'[g] = got[g]
    BY <1>1
  <2> QED
    BY <1>1, <2>1, <2>2 DEF PublicationInv, Departed
<1> QED
  BY <1>2, <1>3, <1>4 DEF PublicationInv

LEMMA InvOffersChange ==
  ASSUME PublicationInv, NEW cells \in SUBSET Cells, OffersChange(cells)
  PROVE  PublicationInv'
<1>t. TypeOK
  BY DEF PublicationInv
<1>1. /\ UNCHANGED <<epoch, used, value, ledger, snapshot, request>>
      /\ hidden' = hidden \cup cells
      /\ \A c \in Cells :
           gone'[c] = IF c \in cells /\ gone[c] = 0 THEN epoch ELSE gone[c]
      /\ gone' \in [Cells -> 0..MaxEpoch]
  BY <1>t DEF OffersChange, Offers!Hide, Goes, TypeOK, Epochs
<1>2. TypeOK'
  BY <1>t, <1>1 DEF TypeOK
<1>3. FromResidual'
  BY <1>1 DEF PublicationInv, FromResidual
<1>4. /\ epoch \in Nat /\ epoch > 0
      /\ \A c \in Cells : gone[c] \in Nat /\ gone[c] <= epoch
      /\ \A h \in Handlers : at[h] \in Nat /\ at[h] <= epoch
  BY <1>t DEF PublicationInv, Departed, TypeOK, Epochs
<1>5. Departed'
  BY <1>1, <1>4 DEF PublicationInv, Departed
<1>6. GoneFromLaterEpochs'
  BY <1>1, <1>4 DEF PublicationInv, Departed, GoneFromLaterEpochs
<1> QED
  BY <1>2, <1>3, <1>5, <1>6 DEF PublicationInv

LEMMA InvSurroundings ==
  ASSUME PublicationInv,
         \/ \E c \in Cells : ReservationsChange(c)
         \/ NextEpoch
         \/ UNCHANGED vars
  PROVE  PublicationInv'
<1>t. TypeOK
  BY DEF PublicationInv
<1>1. /\ UNCHANGED <<used, store, residual, closed, snapshot, request, gone>>
      /\ epoch' \in Epochs /\ epoch' >= epoch
      /\ sold' \in [Cells -> 0..MaxSold]
  <2>1. epoch \in Nat /\ epoch \in Epochs /\ sold \in [Cells -> 0..MaxSold]
    BY <1>t DEF TypeOK, Epochs
  <2>2. ASSUME NEW c \in Cells, ReservationsChange(c)
        PROVE  /\ UNCHANGED <<epoch, used, store, residual, closed, snapshot,
                              request, gone>>
               /\ sold' \in [Cells -> 0..MaxSold]
    BY <2>1, <2>2 DEF ReservationsChange
  <2>3. ASSUME NextEpoch
        PROVE  /\ UNCHANGED <<used, store, ledger, snapshot, request, gone>>
               /\ epoch' \in Epochs /\ epoch' >= epoch
    BY <2>1, <2>3, PublicationAssumption DEF NextEpoch, Epochs
  <2>4. CASE \E c \in Cells : ReservationsChange(c)
    BY <2>1, <2>2, <2>4
  <2>5. CASE NextEpoch
    BY <2>1, <2>3, <2>5
  <2>6. CASE UNCHANGED vars
    BY <2>1, <2>6 DEF vars
  <2> QED
    BY <2>4, <2>5, <2>6
<1>2. TypeOK'
  BY <1>t, <1>1 DEF TypeOK
<1>3. FromResidual' /\ GoneFromLaterEpochs'
  BY <1>1 DEF PublicationInv, FromResidual, GoneFromLaterEpochs
<1>4. Departed'
  BY <1>t, <1>1 DEF PublicationInv, Departed, TypeOK, Epochs
<1> QED
  BY <1>2, <1>3, <1>4 DEF PublicationInv

LEMMA PublicationInvariant == Spec => []PublicationInv
<1>1. PublicationInv /\ [Next]_vars => PublicationInv'
  <2> SUFFICES ASSUME PublicationInv, [Next]_vars PROVE PublicationInv'
    OBVIOUS
  <2>1. ASSUME NEW h \in Handlers,
               \/ \E w \in Windows, e \in 1..epoch : Admit(h, w, e)
               \/ Query(h) \/ Reduce(h) \/ Publish(h) \/ Abort(h)
        PROVE  PublicationInv'
    BY <2>1, InvAdmit, InvQuery, InvReduce, InvPublish, InvAbort
  <2>2. ASSUME NEW cells \in SUBSET Cells, OffersChange(cells)
        PROVE  PublicationInv'
    BY <2>2, InvOffersChange
  <2>3. CASE \/ \E c \in Cells : ReservationsChange(c)
             \/ NextEpoch
             \/ UNCHANGED vars
    BY <2>3, InvSurroundings
  <2> QED
    BY <2>1, <2>2, <2>3 DEF Next
<1> QED
  BY <1>1, InvInit, PTL DEF Spec

(* Types hold in every reachable state. *)
THEOREM PublicationTypes == Spec => []TypeOK
BY PublicationInvariant, PTL DEF PublicationInv

(* However requests overlap and whatever changes between their             *)
(* transactions, a cell has one public value (app.py:289-306,              *)
(* service.py:426-468).                                                    *)
THEOREM PublicationIsUnique == Spec => []OneValuePerCell
<1>1. PublicationInv => OneValuePerCell
  BY DEF PublicationInv, FromResidual, OneValuePerCell
<1> QED
  BY <1>1, PublicationInvariant, PTL

(* Cells that changed do not show up in later epochs                       *)
(* (docs/adr/004-privacidad-agregados.md:17).                              *)
THEOREM PublicationForgets == Spec => []GoneFromLaterEpochs
BY PublicationInvariant, PTL DEF PublicationInv

-----------------------------------------------------------------------------
(* No body that is kept is longer than the limit, at whatever stage.       *)
BodiesBounded == \A r \in Requests : received[r] <= MaxBytes

(* Before its response starts a request has the status 500.                *)
Unanswered ==
  \A r \in Requests :
    stage[r] \in {"new", "arrived", "entering", "reading", "handling"}
      => status[r] = 500

AdmissionInv ==
  AdmissionTypeOK /\ BodiesBounded /\ Unanswered /\ RequestsAccounted

USE DEF counters, path

One(b) == IF b THEN 1 ELSE 0

(* Counting after one request has moved.                                   *)
LEMMA CountOfMove ==
  ASSUME NEW S \in SUBSET Requests, NEW T \in SUBSET Requests,
         NEW r \in Requests,
         \A q \in Requests \ {r} : q \in S <=> q \in T
  PROVE  /\ Cardinality(S) \in Nat /\ Cardinality(T) \in Nat
         /\ Cardinality(T) = Cardinality(S) + One(r \in T) - One(r \in S)
<1>1. IsFiniteSet(S) /\ IsFiniteSet(T)
  BY AdmissionAssumption, FS_Subset
<1>2. Cardinality(S) \in Nat /\ Cardinality(T) \in Nat
  BY <1>1, FS_CardinalityType
<1>3. CASE r \in S <=> r \in T
  <2>1. S = T
    BY <1>3
  <2> QED
    BY <1>2, <2>1 DEF One
<1>4. CASE r \notin S /\ r \in T
  <2>1. T = S \cup {r}
    BY <1>4
  <2>2. Cardinality(T) = Cardinality(S) + 1
    BY <1>1, <1>4, <2>1, FS_AddElement
  <2> QED
    BY <1>2, <1>4, <2>2 DEF One
<1>5. CASE r \in S /\ r \notin T
  <2>1. T = S \ {r}
    BY <1>5
  <2>2. Cardinality(T) = Cardinality(S) - 1
    BY <1>1, <1>5, <2>1, FS_RemoveElement
  <2> QED
    BY <1>2, <1>5, <2>2 DEF One
<1> QED
  BY <1>2, <1>3, <1>4, <1>5

(* A step keeps the count of what was shed if it sheds the request or      *)
(* leaves the counter alone.                                               *)
LEMMA ShedAccounting ==
  ASSUME AdmissionInv, AdmissionTypeOK', NEW r \in Requests,
         \A q \in Requests \ {r} : status'[q] = status[q],
         status[r] = 503 => status'[r] = 503,
         \/ /\ shed' = shed
            /\ 503 \in Answers \/ (status'[r] = 503 => status[r] = 503)
         \/ shed' = shed + 1 /\ status[r] # 503 /\ status'[r] = 503
  PROVE  ShedIsCounted'
<1> DEFINE S == {q \in Requests : status[q] = 503}
           T == {q \in Requests : status'[q] = 503}
<1>1. /\ S \in SUBSET Requests /\ T \in SUBSET Requests
      /\ \A q \in Requests \ {r} : q \in S <=> q \in T
      /\ r \in S <=> status[r] = 503
      /\ r \in T <=> status'[r] = 503
  OBVIOUS
<1>2. shed <= Cardinality(S) /\ (503 \notin Answers => shed = Cardinality(S))
  BY DEF AdmissionInv, RequestsAccounted, ShedIsCounted
<1> HIDE DEF S, T
<1>3. /\ Cardinality(S) \in Nat /\ Cardinality(T) \in Nat
      /\ Cardinality(T) = Cardinality(S) + One(r \in T) - One(r \in S)
  BY <1>1, CountOfMove
<1>4. shed \in Nat
  BY DEF AdmissionInv, AdmissionTypeOK
<1>5. shed' <= Cardinality(T) /\ (503 \notin Answers => shed' = Cardinality(T))
  BY <1>1, <1>2, <1>3, <1>4 DEF One
<1> QED
  BY <1>5 DEF ShedIsCounted, T

(* A step of one request keeps the accounts if each counter follows it.    *)
LEMMA Accounting ==
  ASSUME AdmissionInv, AdmissionTypeOK', NEW r \in Requests,
         \A q \in Requests \ {r} :
           stage'[q] = stage[q] /\ status'[q] = status[q],
         active' = active + One(r \in Holding') - One(r \in Holding),
         active' <= MaxInFlight, ShedIsCounted',
         inFlight' = inFlight + One(stage'[r] \in Inside)
                              - One(stage[r] \in Inside),
         \A s \in Statuses :
           observed'[s] = observed[s]
                            + One(stage'[r] = "done" /\ status'[r] = s)
                            - One(stage[r] = "done" /\ status[r] = s)
  PROVE  RequestsAccounted'
<1> DEFINE In == {q \in Requests : stage[q] \in Inside}
           InAfter == {q \in Requests : stage'[q] \in Inside}
           Out(s) == {q \in Requests : stage[q] = "done" /\ status[q] = s}
           OutAfter(s) == {q \in Requests : stage'[q] = "done" /\ status'[q] = s}
<1>1. active' = Cardinality(Holding')
  <2>1. /\ Holding \in SUBSET Requests /\ Holding' \in SUBSET Requests
        /\ \A q \in Requests \ {r} : q \in Holding <=> q \in Holding'
    BY DEF Holding, Bypasses
  <2>2. active = Cardinality(Holding)
    BY DEF AdmissionInv, RequestsAccounted
  <2> HIDE DEF Holding
  <2> QED
    BY <2>1, <2>2, CountOfMove
<1>2. inFlight' = Cardinality(InAfter)
  <2>1. /\ In \in SUBSET Requests /\ InAfter \in SUBSET Requests
        /\ \A q \in Requests \ {r} : q \in In <=> q \in InAfter
        /\ r \in In <=> stage[r] \in Inside
        /\ r \in InAfter <=> stage'[r] \in Inside
    OBVIOUS
  <2>2. inFlight = Cardinality(In)
    BY DEF AdmissionInv, RequestsAccounted
  <2> HIDE DEF In, InAfter
  <2>3. Cardinality(InAfter) = Cardinality(In) + One(r \in InAfter) - One(r \in In)
    BY <2>1, CountOfMove
  <2> QED
    BY <2>1, <2>2, <2>3 DEF One
<1>3. ASSUME NEW s \in Statuses
      PROVE  observed'[s] = Cardinality(OutAfter(s))
  <2> DEFINE S == Out(s)
             T == OutAfter(s)
  <2>1. /\ S \in SUBSET Requests /\ T \in SUBSET Requests
        /\ \A q \in Requests \ {r} : q \in S <=> q \in T
        /\ r \in S <=> stage[r] = "done" /\ status[r] = s
        /\ r \in T <=> stage'[r] = "done" /\ status'[r] = s
    OBVIOUS
  <2>2. observed[s] = Cardinality(S)
    BY DEF AdmissionInv, RequestsAccounted
  <2> HIDE DEF S, T
  <2>3. Cardinality(T) = Cardinality(S) + One(r \in T) - One(r \in S)
    BY <2>1, CountOfMove
  <2>4. observed'[s] = Cardinality(T)
    BY <2>1, <2>2, <2>3 DEF One
  <2> QED
    BY <2>4 DEF T
<1> QED
  BY <1>1, <1>2, <1>3 DEF RequestsAccounted

LEMMA AdmissionInitInv == AdmissionInit => AdmissionInv
<1> SUFFICES ASSUME AdmissionInit PROVE AdmissionInv
  OBVIOUS
<1>1. AdmissionTypeOK /\ BodiesBounded /\ Unanswered
  BY AdmissionAssumption
  DEF AdmissionInit, AdmissionTypeOK, BodiesBounded, Unanswered, Statuses,
      Inside
<1>2. /\ Holding = {}
      /\ {r \in Requests : stage[r] \in Inside} = {}
      /\ \A s \in Statuses :
           {r \in Requests : stage[r] = "done" /\ status[r] = s} = {}
      /\ {r \in Requests : status[r] = 503} = {}
  BY DEF AdmissionInit, Holding, Inside
<1>3. RequestsAccounted
  BY <1>2, FS_EmptySet, AdmissionAssumption
  DEF AdmissionInit, RequestsAccounted, ShedIsCounted
<1> QED
  BY <1>1, <1>3 DEF AdmissionInv

LEMMA UnansweredKept ==
  ASSUME AdmissionInv, NEW r \in Requests,
         \A q \in Requests \ {r} :
           stage'[q] = stage[q] /\ status'[q] = status[q],
         stage'[r] \in {"leaving", "left", "done"} \/ status'[r] = 500
  PROVE  Unanswered'
BY DEF AdmissionInv, Unanswered

(* A request on its way between its slot and its answer moves no counter.  *)
LEMMA OnItsWay ==
  ASSUME AdmissionInv, NEW r \in Requests,
         \/ Bypass(r) \/ Disconnect(r) \/ Break(r)
         \/ \E declared \in Lengths : CheckLength(r, declared)
         \/ \E bytes \in Chunks, more \in BOOLEAN : ReceiveChunk(r, bytes, more)
         \/ \E s \in Answers : Handle(r, s)
  PROVE  AdmissionInv'
<1> DEFINE holding == {"entering", "reading", "handling", "leaving"}
<1>1. /\ stage \in [Requests -> {"new", "done"} \cup Inside]
      /\ received \in [Requests -> Nat] /\ status \in [Requests -> Statuses]
      /\ {400, 413} \cup Answers \subseteq Statuses
      /\ MaxBytes \in Nat /\ Chunks \subseteq Nat
      /\ received[r] <= MaxBytes
  BY AdmissionAssumption
  DEF AdmissionInv, AdmissionTypeOK, BodiesBounded, Statuses
<1>2. PICK next \in holding, size \in 0..MaxBytes, s \in Statuses :
        /\ stage' = [stage EXCEPT ![r] = next]
        /\ received' = [received EXCEPT ![r] = size]
        /\ status' = [status EXCEPT ![r] = s]
  <2>1. /\ 0 \in 0..MaxBytes /\ received[r] \in 0..MaxBytes
        /\ status[r] \in Statuses /\ 400 \in Statuses /\ 413 \in Statuses
        /\ received = [received EXCEPT ![r] = received[r]]
        /\ status = [status EXCEPT ![r] = status[r]]
    BY <1>1
  <2>2. CASE Bypass(r) \/ Disconnect(r)
    BY <2>1, <2>2 DEF Bypass, Disconnect, Go
  <2>3. CASE Break(r)
    BY <2>1, <2>3 DEF Break, Depart, Go
  <2>4. CASE \E declared \in Lengths : CheckLength(r, declared)
    BY <2>1, <2>4 DEF CheckLength, Answer, Depart, Go
  <2>5. ASSUME NEW bytes \in Chunks, NEW more \in BOOLEAN,
               ReceiveChunk(r, bytes, more)
        PROVE  \E next \in holding, size \in 0..MaxBytes, s \in Statuses :
                 /\ stage' = [stage EXCEPT ![r] = next]
                 /\ received' = [received EXCEPT ![r] = size]
                 /\ status' = [status EXCEPT ![r] = s]
    <3>1. CASE Whole(received[r] + bytes)
      <4>1. received[r] + bytes \in 0..MaxBytes
        BY <1>1, <3>1 DEF Whole
      <4> QED
        BY <2>1, <2>5, <3>1, <4>1 DEF ReceiveChunk, Go
    <3>2. CASE ~Whole(received[r] + bytes)
      BY <2>1, <2>5, <3>2 DEF ReceiveChunk, Answer, Depart, Go
    <3> QED
      BY <3>1, <3>2
  <2>6. CASE \E s \in Answers : Handle(r, s)
    BY <1>1, <2>1, <2>6 DEF Handle, Answer, Depart, Go
  <2> QED
    BY <2>2, <2>3, <2>4, <2>5, <2>6
<1>3. /\ UNCHANGED counters
      /\ stage[r] \in Inside
      /\ ~Bypasses(r) => stage[r] \in holding
  BY DEF Bypass, Disconnect, Break, CheckLength, ReceiveChunk, Handle, Inside
<1>4. stage' \in [Requests -> {"new", "done"} \cup Inside]
  BY <1>1, <1>2 DEF Inside
<1>5. BodiesBounded' /\ received' \in [Requests -> Nat]
  BY <1>1, <1>2 DEF AdmissionInv, BodiesBounded
<1>6. AdmissionTypeOK'
  BY <1>1, <1>2, <1>3, <1>4, <1>5
  DEF AdmissionInv, AdmissionTypeOK, BodiesBounded
<1>7. /\ r \in Holding <=> r \in Holding'
      /\ stage'[r] \in Inside /\ stage'[r] # "done" /\ stage[r] # "done"
      /\ \A q \in Requests \ {r} :
           stage'[q] = stage[q] /\ status'[q] = status[q]
  BY <1>1, <1>2, <1>3 DEF Holding, Bypasses, Inside
(* The status stays what it is until the request leaves. *)
<1>8. /\ status[r] = 500
      /\ \/ status'[r] = 500
         \/ stage'[r] = "leaving" /\ status'[r] \in {400, 413} \cup Answers
  <2>1. status[r] = 500
    BY DEF AdmissionInv, Unanswered, Bypass, Disconnect, Break, CheckLength,
           ReceiveChunk, Handle
  <2>2. CASE UNCHANGED status
    BY <2>1, <2>2
  <2>3. ASSUME NEW a \in {400, 413} \cup Answers, Answer(r, a)
        PROVE  stage'[r] = "leaving" /\ status'[r] = a
    BY <1>1, <2>3 DEF Answer, Depart, Go
  <2>4. \/ UNCHANGED status
        \/ \E a \in {400, 413} \cup Answers : Answer(r, a)
    BY DEF Bypass, Disconnect, Break, CheckLength, ReceiveChunk, Handle
  <2> QED
    BY <2>1, <2>2, <2>3, <2>4
<1>9. Unanswered' /\ ShedIsCounted'
  <2>1. Unanswered'
    BY <1>7, <1>8, UnansweredKept
  <2>2. status[r] # 503 /\ (503 \in Answers \/ status'[r] # 503)
    BY <1>8
  <2> QED
    BY <1>3, <1>6, <1>7, <2>1, <2>2, ShedAccounting
<1>10. RequestsAccounted'
  <2>1. /\ active \in Nat /\ inFlight \in Nat /\ active <= MaxInFlight
        /\ \A a \in Statuses : observed[a] \in Nat
    BY DEF AdmissionInv, AdmissionTypeOK, RequestsAccounted
  <2> QED
    BY <1>3, <1>6, <1>7, <1>9, <2>1, Accounting DEF One
<1> QED
  BY <1>5, <1>6, <1>9, <1>10 DEF AdmissionInv

(* What the steps that move a counter change of the rest.                  *)
LEMMA CountedStep ==
  ASSUME AdmissionInv, NEW r \in Requests, NEW next \in {"done"} \cup Inside,
         NEW s \in Statuses,
         stage' = [stage EXCEPT ![r] = next],
         status' = [status EXCEPT ![r] = s], UNCHANGED received,
         next # "handling",
         active' \in Nat, inFlight' \in Nat, shed' \in Nat,
         observed' \in [Statuses -> Nat]
  PROVE  /\ AdmissionTypeOK' /\ BodiesBounded'
         /\ stage'[r] = next /\ status'[r] = s
         /\ \A q \in Requests \ {r} :
              stage'[q] = stage[q] /\ status'[q] = status[q]
BY DEF AdmissionInv, AdmissionTypeOK, BodiesBounded

LEMMA ArriveInv ==
  ASSUME AdmissionInv, NEW r \in Requests, Arrive(r)
  PROVE  AdmissionInv'
<1>1. /\ stage[r] = "new" /\ stage' = [stage EXCEPT ![r] = "arrived"]
      /\ inFlight' = inFlight + 1
      /\ UNCHANGED <<received, status, active, shed, observed>>
  BY DEF Arrive, Go
<1>2. /\ active \in Nat /\ inFlight \in Nat /\ shed \in Nat
      /\ observed \in [Statuses -> Nat] /\ status[r] \in Statuses
      /\ status = [status EXCEPT ![r] = status[r]]
      /\ active <= MaxInFlight
  BY DEF AdmissionInv, AdmissionTypeOK, RequestsAccounted
<1>3. /\ AdmissionTypeOK' /\ BodiesBounded'
      /\ stage'[r] = "arrived"
      /\ \A q \in Requests \ {r} :
           stage'[q] = stage[q] /\ status'[q] = status[q]
  <2>1. "arrived" \in Inside /\ active' \in Nat /\ inFlight' \in Nat
    BY <1>1, <1>2 DEF Inside
  <2> QED
    BY <1>1, <1>2, <2>1, CountedStep
<1>4. /\ r \notin Holding /\ r \notin Holding'
      /\ stage[r] \notin Inside /\ stage'[r] \in Inside
  BY <1>1, <1>3 DEF Holding, Inside
<1>5. ShedIsCounted'
  BY <1>1, <1>2, <1>3, ShedAccounting
<1>6. RequestsAccounted'
  BY <1>1, <1>2, <1>3, <1>4, <1>5, Accounting DEF One
<1>7. Unanswered'
  <2>1. status'[r] = 500
    BY <1>1 DEF AdmissionInv, Unanswered
  <2> QED
    BY <1>3, <2>1, UnansweredKept
<1> QED
  BY <1>3, <1>6, <1>7 DEF AdmissionInv

LEMMA EnterInv ==
  ASSUME AdmissionInv, NEW r \in Requests, Enter(r)
  PROVE  AdmissionInv'
<1>1. /\ stage[r] = "arrived" /\ stage' = [stage EXCEPT ![r] = "entering"]
      /\ ~Bypasses(r) /\ active < MaxInFlight /\ active' = active + 1
      /\ UNCHANGED <<received, status, inFlight, shed, observed>>
  BY DEF Enter, Go
<1>2. /\ active \in Nat /\ inFlight \in Nat /\ shed \in Nat
      /\ observed \in [Statuses -> Nat] /\ status[r] \in Statuses
      /\ status = [status EXCEPT ![r] = status[r]]
      /\ MaxInFlight \in Nat
  BY AdmissionAssumption DEF AdmissionInv, AdmissionTypeOK
<1>3. /\ AdmissionTypeOK' /\ BodiesBounded'
      /\ stage'[r] = "entering"
      /\ \A q \in Requests \ {r} :
           stage'[q] = stage[q] /\ status'[q] = status[q]
  <2>1. "entering" \in Inside /\ active' \in Nat /\ inFlight' \in Nat
    BY <1>1, <1>2 DEF Inside
  <2> QED
    BY <1>1, <1>2, <2>1, CountedStep
<1>4. /\ r \notin Holding /\ r \in Holding'
      /\ stage[r] \in Inside /\ stage'[r] \in Inside
  BY <1>1, <1>3 DEF Holding, Inside, Bypasses
<1>5. ShedIsCounted'
  BY <1>1, <1>2, <1>3, ShedAccounting
<1>6. RequestsAccounted'
  BY <1>1, <1>2, <1>3, <1>4, <1>5, Accounting DEF One
<1>7. Unanswered'
  <2>1. status'[r] = 500
    BY <1>1 DEF AdmissionInv, Unanswered
  <2> QED
    BY <1>3, <2>1, UnansweredKept
<1> QED
  BY <1>3, <1>6, <1>7 DEF AdmissionInv

LEMMA ShedInv ==
  ASSUME AdmissionInv, NEW r \in Requests, Shed(r)
  PROVE  AdmissionInv'
<1>1. /\ stage[r] = "arrived" /\ stage' = [stage EXCEPT ![r] = "left"]
      /\ status' = [status EXCEPT ![r] = 503] /\ shed' = shed + 1
      /\ UNCHANGED <<received, active, inFlight, observed>>
  BY DEF Shed, Go
<1>2. /\ active \in Nat /\ inFlight \in Nat /\ shed \in Nat
      /\ observed \in [Statuses -> Nat] /\ 503 \in Statuses
      /\ status \in [Requests -> Statuses] /\ status[r] = 500
      /\ active <= MaxInFlight
  BY <1>1 DEF AdmissionInv, AdmissionTypeOK, RequestsAccounted, Unanswered,
              Statuses
<1>3. /\ AdmissionTypeOK' /\ BodiesBounded'
      /\ stage'[r] = "left"
      /\ \A q \in Requests \ {r} :
           stage'[q] = stage[q] /\ status'[q] = status[q]
  <2>1. /\ "left" \in Inside /\ active' \in Nat /\ inFlight' \in Nat
        /\ shed' \in Nat /\ observed' \in [Statuses -> Nat]
    BY <1>1, <1>2 DEF Inside
  <2>2. PICK s \in Statuses : status' = [status EXCEPT ![r] = s]
    <3>1. 503 \in Statuses /\ status' = [status EXCEPT ![r] = 503]
      BY <1>1, <1>2
    <3> QED
      BY <3>1
  <2>3. /\ stage' = [stage EXCEPT ![r] = "left"] /\ UNCHANGED received
        /\ "left" # "handling"
    BY <1>1
  <2> QED
    BY <2>1, <2>2, <2>3, CountedStep
<1>4. /\ r \notin Holding /\ r \notin Holding'
      /\ stage[r] \in Inside /\ stage'[r] \in Inside
  BY <1>1, <1>3 DEF Holding, Inside
<1>5. ShedIsCounted'
  BY <1>1, <1>2, <1>3, ShedAccounting
<1>6. RequestsAccounted'
  BY <1>1, <1>2, <1>3, <1>4, <1>5, Accounting DEF One
<1>7. Unanswered'
  BY <1>3, UnansweredKept
<1> QED
  BY <1>3, <1>6, <1>7 DEF AdmissionInv

(* Whoever leaves with a slot is among those that hold one, so there is    *)
(* one to give back.                                                       *)
LEMMA LeaveInv ==
  ASSUME AdmissionInv, NEW r \in Requests, Leave(r)
  PROVE  AdmissionInv'
<1>1. /\ stage[r] = "leaving" /\ stage' = [stage EXCEPT ![r] = "left"]
      /\ active' = IF Bypasses(r) THEN active ELSE active - 1
      /\ UNCHANGED <<received, status, inFlight, shed, observed>>
  BY DEF Leave, Go, Released
<1>2. /\ active \in Nat /\ inFlight \in Nat /\ shed \in Nat
      /\ observed \in [Statuses -> Nat] /\ status[r] \in Statuses
      /\ status = [status EXCEPT ![r] = status[r]]
      /\ active <= MaxInFlight /\ MaxInFlight \in Nat
      /\ active = Cardinality(Holding)
  BY AdmissionAssumption DEF AdmissionInv, AdmissionTypeOK, RequestsAccounted
<1>3. ~Bypasses(r) => active > 0
  <2> SUFFICES ASSUME ~Bypasses(r), active = 0 PROVE FALSE
    BY <1>2
  <2>1. r \in Holding
    BY <1>1 DEF Holding
  <2>2. IsFiniteSet(Holding)
    BY AdmissionAssumption, FS_Subset DEF Holding
  <2> QED
    BY <1>2, <2>1, <2>2, FS_EmptySet
<1>4. /\ AdmissionTypeOK' /\ BodiesBounded'
      /\ stage'[r] = "left"
      /\ \A q \in Requests \ {r} :
           stage'[q] = stage[q] /\ status'[q] = status[q]
  <2>1. "left" \in Inside
    BY DEF Inside
  <2>2. active' \in Nat
    BY <1>1, <1>2, <1>3
  <2> QED
    BY <1>1, <1>2, <2>1, <2>2, CountedStep
<1>5. /\ r \in Holding <=> ~Bypasses(r)
      /\ r \notin Holding'
      /\ stage[r] \in Inside /\ stage'[r] \in Inside
  BY <1>1, <1>4 DEF Holding, Inside
<1>6. active' = active + One(r \in Holding') - One(r \in Holding)
  BY <1>1, <1>2, <1>5 DEF One
<1>7. ShedIsCounted'
  BY <1>1, <1>2, <1>4, ShedAccounting
<1>8. RequestsAccounted'
  BY <1>1, <1>2, <1>4, <1>5, <1>6, <1>7, Accounting DEF One
<1>9. Unanswered'
  BY <1>4, UnansweredKept
<1> QED
  BY <1>4, <1>8, <1>9 DEF AdmissionInv

LEMMA ObserveInv ==
  ASSUME AdmissionInv, NEW r \in Requests, Observe(r)
  PROVE  AdmissionInv'
<1> DEFINE In == {q \in Requests : stage[q] \in Inside}
<1>1. /\ stage[r] = "left" /\ stage' = [stage EXCEPT ![r] = "done"]
      /\ inFlight' = inFlight - 1
      /\ observed' = [observed EXCEPT ![status[r]] = @ + 1]
      /\ UNCHANGED <<received, status, active, shed>>
  BY DEF Observe, Go, Bucket
<1>2. /\ active \in Nat /\ inFlight \in Nat /\ shed \in Nat
      /\ observed \in [Statuses -> Nat] /\ status[r] \in Statuses
      /\ status = [status EXCEPT ![r] = status[r]]
      /\ active <= MaxInFlight /\ inFlight = Cardinality(In)
  BY DEF AdmissionInv, AdmissionTypeOK, RequestsAccounted
<1>3. inFlight > 0
  <2> SUFFICES ASSUME inFlight = 0 PROVE FALSE
    BY <1>2
  <2>1. r \in In
    BY <1>1 DEF Inside
  <2>2. IsFiniteSet(In)
    BY AdmissionAssumption, FS_Subset
  <2> QED
    BY <1>2, <2>1, <2>2, FS_EmptySet
<1>4. /\ AdmissionTypeOK' /\ BodiesBounded'
      /\ stage'[r] = "done" /\ status'[r] = status[r]
      /\ \A q \in Requests \ {r} :
           stage'[q] = stage[q] /\ status'[q] = status[q]
  <2>1. inFlight' \in Nat /\ observed' \in [Statuses -> Nat]
    BY <1>1, <1>2, <1>3
  <2> QED
    BY <1>1, <1>2, <2>1, CountedStep
<1>5. /\ r \notin Holding /\ r \notin Holding'
      /\ stage[r] \in Inside /\ stage'[r] \notin Inside
  BY <1>1, <1>4 DEF Holding, Inside
<1>6. \A s \in Statuses :
        observed'[s] = observed[s]
                         + One(stage'[r] = "done" /\ status'[r] = s)
                         - One(stage[r] = "done" /\ status[r] = s)
  BY <1>1, <1>2, <1>4 DEF One
<1>7. ShedIsCounted'
  BY <1>1, <1>2, <1>4, ShedAccounting
<1>8. RequestsAccounted'
  BY <1>1, <1>2, <1>4, <1>5, <1>6, <1>7, Accounting DEF One
<1>9. Unanswered'
  BY <1>4, UnansweredKept
<1> QED
  BY <1>4, <1>8, <1>9 DEF AdmissionInv

(* The inductive invariant of admission control.                           *)
THEOREM AdmissionInvariant == AdmissionSpec => []AdmissionInv
<1>1. AdmissionInv /\ [AdmissionNext]_admission => AdmissionInv'
  <2> SUFFICES ASSUME AdmissionInv, [AdmissionNext]_admission
               PROVE  AdmissionInv'
    OBVIOUS
  <2>1. ASSUME NEW r \in Requests, Server(r)
        PROVE  AdmissionInv'
    BY <2>1, ArriveInv, EnterInv, ShedInv, LeaveInv, ObserveInv, OnItsWay
    DEF Server
  <2>2. ASSUME NEW r \in Requests, Client(r) \/ Break(r)
        PROVE  AdmissionInv'
    BY <2>2, OnItsWay DEF Client
  <2>3. CASE UNCHANGED admission
    BY <2>3
    DEF admission, AdmissionInv, AdmissionTypeOK, BodiesBounded, Unanswered,
        RequestsAccounted, ShedIsCounted, Holding
  <2> QED
    BY <2>1, <2>2, <2>3 DEF AdmissionNext
<1> QED
  BY <1>1, AdmissionInitInv, PTL DEF AdmissionSpec

(* Types hold in every reachable state, and no endpoint is called with a   *)
(* body above the limit (observability.py:175-217).                        *)
THEOREM AdmissionTypes == AdmissionSpec => []AdmissionTypeOK
BY AdmissionInvariant, PTL DEF AdmissionInv

(* Every slot comes back, and every request is counted in, out and once by *)
(* the status its client saw, for any number of requests and any limits    *)
(* (observability.py:29-44, 115-137, 219-251).                             *)
THEOREM RequestsAreAccounted == AdmissionSpec => []RequestsAccounted
BY AdmissionInvariant, PTL DEF AdmissionInv
=============================================================================
