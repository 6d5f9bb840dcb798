---------------------------- MODULE OutboxProofs ----------------------------
(***************************************************************************)
(* The outbox keeps its promises for any number of instructions and        *)
(* workers, any retry budget, and any crashes.                             *)
(***************************************************************************)
EXTENDS Outbox, FiniteSetTheorems, TLAPS

-----------------------------------------------------------------------------
(* Rows and verdicts *)

LEMMA RowFacts ==
  /\ Instructions \subseteq Rows
  /\ Final \notin Instructions
  /\ Callback => Final \in Rows
  /\ Final \in Rows => Callback
  /\ NoRow \notin Rows
BY OutboxAssumption DEF Rows, Notices, Final

LEMMA NewStatusCases ==
  ASSUME NEW w \in Workers
  PROVE  /\ NewStatus(w) \in {"DELIVERED", "DEAD", "RETRY"}
         /\ NewStatus(w) = "DELIVERED" <=> answer[w] = "delivered"
         /\ NewStatus(w) = "RETRY" <=> ~IsTerminal(w)
         /\ IsTerminal(w) <=> NewStatus(w) \in Terminal
BY DEF NewStatus, IsTerminal, Terminal

-----------------------------------------------------------------------------
(* Types *)

(* What the end of a worker's turn leaves in its batch and its registers.  *)
LEMMA DoneEffect ==
  ASSUME TypeOK, NEW w \in Workers, current[w] \in Rows, Done(w)
  PROVE  /\ hold' \in [Workers -> [Rows -> Nat]]
         /\ pc' \in [Workers -> {"ready", "answered", "resolving", "finalizing"}]
         /\ current' \in [Workers -> Rows \cup {NoRow}]
         /\ answer' \in [Workers -> {"none", "delivered", "failed", "rejected"}]
         /\ accepted' \in [Workers -> (SUBSET Instructions) \cup {NoResult}]
         /\ hold'[w][current[w]] = 0
         /\ \A t \in Rows : t # current[w] => hold'[w][t] = hold[w][t]
         /\ pc'[w] = "ready"
         /\ \A v \in Workers : v # w =>
              /\ hold'[v] = hold[v] /\ pc'[v] = pc[v]
              /\ current'[v] = current[v] /\ answer'[v] = answer[v]
              /\ accepted'[v] = accepted[v]
BY DEF TypeOK, Done

(* A worker that has an answer works on a row of its batch; inside a       *)
(* transaction that row is an instruction, still its own, about to get its *)
(* last word.  The answer is what the destination said.                    *)
Working ==
  \A w \in Workers :
    /\ pc[w] # "ready" =>
         /\ current[w] \in Rows /\ hold[w][current[w]] > 0
         /\ answer[w] # "none"
         /\ answer[w] = "delivered" => took[current[w]]
         /\ answer[w] = "rejected" => declined[current[w]]
    /\ InTransaction(w) =>
         current[w] \in Instructions /\ Owns(w) /\ IsTerminal(w)

(* The lock on the activation. *)
OneFinalizer ==
  \A w, v \in Workers : pc[w] = "finalizing" /\ pc[v] = "finalizing" => w = v

(* Without an activation there is no outbox. *)
Untouched == activation = "NONE" => \A t \in Rows : status[t] = "ABSENT"

DeliveredWasTaken == \A t \in Rows : status[t] = "DELIVERED" => took[t]

(* What a worker read under the lock on the activation is still true: no   *)
(* other instruction has been decided since.                               *)
CountedBy(w) ==
  pc[w] = "finalizing" =>
    accepted[w] =
      IF \A i \in Instructions \ {current[w]} : status[i] \in Terminal
        THEN {i \in Instructions : IF i = current[w] THEN answer[w] = "delivered"
                                                   ELSE status[i] = "DELIVERED"}
        ELSE NoResult

Counted == \A w \in Workers : CountedBy(w)

OutboxInv ==
  /\ TypeOK
  /\ Working
  /\ OneFinalizer
  /\ Counted
  /\ OneWorkerPerAttempt
  /\ Untouched
  /\ SettledTogether
  /\ BudgetIsSpent
  /\ DeliveredWasTaken

(* It stays true as long as every other worker decides nothing. *)
LEMMA CountedKept ==
  ASSUME Counted,
         \A v \in Workers :
           \/ pc'[v] # "finalizing"
           \/ /\ pc'[v] = pc[v] /\ current'[v] = current[v]
              /\ answer'[v] = answer[v] /\ accepted'[v] = accepted[v],
         \A i \in Instructions :
           \/ status'[i] = status[i]
           \/ status[i] \notin Terminal /\ status'[i] \notin Terminal
  PROVE  Counted'
<1> SUFFICES ASSUME NEW v \in Workers, pc'[v] = "finalizing"
             PROVE  CountedBy(v)'
  BY DEF Counted, CountedBy
<1>1. /\ CountedBy(v) /\ pc[v] = "finalizing"
      /\ current'[v] = current[v] /\ answer'[v] = answer[v]
      /\ accepted'[v] = accepted[v]
  BY DEF Counted
<1>2. \A i \in Instructions :
        /\ status'[i] \in Terminal <=> status[i] \in Terminal
        /\ status'[i] = "DELIVERED" <=> status[i] = "DELIVERED"
  BY DEF Terminal
<1>3. (\A i \in Instructions \ {current[v]} : status[i] \in Terminal)
        <=> \A i \in Instructions \ {current'[v]} : status'[i] \in Terminal
  BY <1>1, <1>2
<1>4. {i \in Instructions : IF i = current[v] THEN answer[v] = "delivered"
                                              ELSE status[i] = "DELIVERED"}
        = {i \in Instructions : IF i = current'[v] THEN answer'[v] = "delivered"
                                                  ELSE status'[i] = "DELIVERED"}
  BY <1>1, <1>2
<1> QED
  BY <1>1, <1>3, <1>4 DEF CountedBy

LEMMA InvInit == Init => OutboxInv
<1> SUFFICES ASSUME Init PROVE OutboxInv
  OBVIOUS
<1>1. TypeOK
  BY RowFacts, OutboxAssumption DEF Init, TypeOK, Statuses, NoCounts
<1>2. Working /\ OneFinalizer /\ Counted /\ OneWorkerPerAttempt /\ Untouched
  BY DEF Init, Working, OneFinalizer, Counted, CountedBy, OneWorkerPerAttempt,
         Untouched, InTransaction
<1>3. SettledTogether /\ BudgetIsSpent /\ DeliveredWasTaken
  BY RowFacts, OutboxAssumption
     DEF Init, SettledTogether, BudgetIsSpent, DeliveredWasTaken, Terminal
<1> QED
  BY <1>1, <1>2, <1>3 DEF OutboxInv

LEMMA InvActivate == OutboxInv /\ Activate => OutboxInv'
<1> SUFFICES ASSUME OutboxInv, Activate PROVE OutboxInv'
  OBVIOUS
<1> USE DEF OutboxInv, Activate, table, outcome, worker, ghosts
<1>1. TypeOK'
  BY DEF TypeOK, Statuses
<1>2. /\ \A t \in Rows : status[t] = "ABSENT"
      /\ \A w \in Workers, t \in Rows :
           hold[w][t] # attempts[t] \/ hold[w][t] = 0
  <2>1. \A t \in Rows : status[t] = "ABSENT"
    BY DEF Untouched
  <2>2. ASSUME NEW w \in Workers, NEW t \in Rows, hold[w][t] = attempts[t]
        PROVE  hold[w][t] = 0
    <3>1. /\ hold[w][t] = attempts[t] /\ hold[w][t] > 0 => status[t] = "PROCESSING"
          /\ hold[w][t] \in Nat
      BY DEF OneWorkerPerAttempt, TypeOK
    <3> QED
      BY <2>1, <2>2, <3>1
  <2> QED
    BY <2>1, <2>2
<1>3. \A w \in Workers : ~InTransaction(w)
  BY <1>2, RowFacts DEF Working, Owns
<1>4. Working' /\ OneFinalizer' /\ Counted'
  BY <1>3 DEF Working, OneFinalizer, Counted, CountedBy, InTransaction
<1>5. OneWorkerPerAttempt' /\ Untouched'
  BY <1>2 DEF OneWorkerPerAttempt, Untouched, TypeOK
<1>6. SettledTogether'
  BY RowFacts, OutboxAssumption DEF SettledTogether, Terminal
<1>7. BudgetIsSpent' /\ DeliveredWasTaken'
  BY DEF BudgetIsSpent, DeliveredWasTaken
<1> QED
  BY <1>1, <1>4, <1>5, <1>6, <1>7


LEMMA InvClaim ==
  ASSUME OutboxInv, NEW w \in Workers, Claim(w)
  PROVE  OutboxInv'
<1> USE DEF OutboxInv
<1>1. PICK batch \in SUBSET Eligible :
        /\ IsBatch(batch)
        /\ status' = [t \in Rows |->
                        IF t \in batch THEN "PROCESSING" ELSE status[t]]
        /\ attempts' = [t \in Rows |->
                          IF t \in batch THEN attempts[t] + 1 ELSE attempts[t]]
        /\ due' = [t \in Rows |-> due[t] /\ t \notin batch]
        /\ hold' = [hold EXCEPT ![w] =
                      [t \in Rows |-> IF t \in batch THEN attempts[t] + 1 ELSE 0]]
  BY DEF Claim, NextAttempt
<1>2. UNCHANGED <<outcome, pc, current, answer, accepted, ghosts, crashes>>
      /\ pc[w] = "ready"
  BY DEF Claim
<1> HIDE DEF OutboxInv
<1>t. TypeOK
  BY DEF OutboxInv
<1>3. /\ batch \subseteq Rows
      /\ \A t \in batch : /\ status[t] \in {"PENDING", "RETRY", "PROCESSING"}
                          /\ ~RowLocked(t)
  BY <1>1 DEF Eligible
<1>4. \A v \in Workers, t \in Rows :
        hold'[v][t] = IF v = w THEN IF t \in batch THEN attempts[t] + 1 ELSE 0
                      ELSE hold[v][t]
  BY <1>1, <1>t DEF TypeOK
<1>5. \A t \in Rows :
        /\ status'[t] = IF t \in batch THEN "PROCESSING" ELSE status[t]
        /\ attempts'[t] = IF t \in batch THEN attempts[t] + 1 ELSE attempts[t]
        /\ attempts[t] \in Nat
  BY <1>1, <1>t DEF TypeOK
<1>6. TypeOK'
  <2>1. hold' \in [Workers -> [Rows -> Nat]]
    BY <1>1, <1>t DEF TypeOK
  <2>2. /\ status' \in [Rows -> Statuses] /\ attempts' \in [Rows -> Nat]
        /\ due' \in [Rows -> BOOLEAN]
    BY <1>1, <1>t DEF TypeOK, Statuses
  <2> QED
    BY <1>2, <1>t, <2>1, <2>2 DEF TypeOK, outcome, ghosts
<1>7. Working'
  <2> SUFFICES ASSUME NEW v \in Workers, pc[v] # "ready"
               PROVE  /\ current[v] \in Rows /\ hold'[v][current[v]] > 0
                      /\ answer[v] # "none"
                      /\ answer[v] = "delivered" => took[current[v]]
                      /\ answer[v] = "rejected" => declined[current[v]]
                      /\ InTransaction(v) =>
                           /\ current[v] \in Instructions
                           /\ Owns(v)' /\ IsTerminal(v)'
    BY <1>2 DEF Working, InTransaction, outcome, ghosts
  <2>1. v # w /\ Working
    BY <1>2 DEF OutboxInv
  <2>2. InTransaction(v) => current[v] \notin batch
    BY <1>3 DEF RowLocked
  <2>3. current[v] \in Rows /\ hold'[v][current[v]] = hold[v][current[v]]
    BY <1>4, <2>1 DEF Working
  <2>4. InTransaction(v) => Owns(v)' /\ IsTerminal(v)'
    BY <1>2, <1>5, <2>1, <2>2, <2>3
       DEF Working, Owns, IsTerminal, Exhausted, outcome
  <2> QED
    BY <2>1, <2>3, <2>4 DEF Working
<1>8. OneFinalizer' /\ Counted'
  <2>1. OneFinalizer'
    BY <1>2 DEF OutboxInv, OneFinalizer
  <2>2. \A i \in Instructions :
          \/ status'[i] = status[i]
          \/ status[i] \notin Terminal /\ status'[i] \notin Terminal
    BY <1>3, <1>5, RowFacts DEF Terminal
  <2> QED
    BY <1>2, <2>1, <2>2, CountedKept DEF OutboxInv
<1>9. OneWorkerPerAttempt'
  <2> SUFFICES ASSUME NEW u \in Workers, NEW v \in Workers, NEW t \in Rows
               PROVE  /\ hold'[u][t] <= attempts'[t]
                      /\ hold'[u][t] = hold'[v][t] /\ hold'[u][t] > 0 => u = v
                      /\ hold'[u][t] = attempts'[t] /\ hold'[u][t] > 0
                           => status'[t] = "PROCESSING"
    BY DEF OneWorkerPerAttempt
  <2>1. /\ hold[u][t] <= attempts[t] /\ hold[v][t] <= attempts[t]
        /\ hold[u][t] = hold[v][t] /\ hold[u][t] > 0 => u = v
        /\ hold[u][t] = attempts[t] /\ hold[u][t] > 0 => status[t] = "PROCESSING"
        /\ hold[u][t] \in Nat /\ hold[v][t] \in Nat
    BY <1>t DEF OutboxInv, OneWorkerPerAttempt, TypeOK
  <2> QED
    BY <1>4, <1>5, <2>1
<1>10. Untouched'
  BY <1>1, <1>2, <1>3 DEF OutboxInv, Untouched, IsBatch, outcome
<1>11. SettledTogether'
  <2>1. \A i \in Instructions :
          /\ status'[i] \in Terminal <=> status[i] \in Terminal
          /\ status'[i] = "DELIVERED" <=> status[i] = "DELIVERED"
    BY <1>3, <1>5, RowFacts DEF Terminal
  <2>2. Delivered' = Delivered
    BY <2>1 DEF Delivered
  <2>3. Callback => (status'[Final] = "ABSENT" <=> status[Final] = "ABSENT")
    BY <1>3, <1>5, RowFacts
  <2>4. SettledTogether
    BY DEF OutboxInv
  <2> QED
    BY <1>2, <2>1, <2>2, <2>3, <2>4 DEF SettledTogether, outcome
<1>12. BudgetIsSpent' /\ DeliveredWasTaken'
  BY <1>2, <1>5 DEF OutboxInv, BudgetIsSpent, DeliveredWasTaken, ghosts
<1> QED
  BY <1>6, <1>7, <1>8, <1>9, <1>10, <1>11, <1>12 DEF OutboxInv

LEMMA InvDeliver ==
  ASSUME OutboxInv, NEW w \in Workers, NEW t \in Rows, Deliver(w, t)
  PROVE  OutboxInv'
<1>t. TypeOK /\ Working
  BY DEF OutboxInv
<1>1. /\ UNCHANGED <<outcome, table, hold, accepted, crashes>>
      /\ pc[w] = "ready" /\ hold[w][t] > 0
      /\ pc' = [pc EXCEPT ![w] = "answered"]
      /\ current' = [current EXCEPT ![w] = t]
  BY DEF Deliver
<1>2. /\ took' \in [Rows -> BOOLEAN] /\ declined' \in [Rows -> BOOLEAN]
      /\ \A u \in Rows : (took[u] => took'[u]) /\ (declined[u] => declined'[u])
  BY <1>t DEF Deliver, TypeOK
<1>3. /\ answer' \in [Workers -> {"none", "delivered", "failed", "rejected"}]
      /\ answer'[w] # "none"
      /\ answer'[w] = "delivered" => took'[t]
      /\ answer'[w] = "rejected" => declined'[t]
      /\ \A v \in Workers : v # w => answer'[v] = answer[v]
  BY <1>t DEF Deliver, TypeOK
<1>4. /\ pc'[w] = "answered" /\ current'[w] = t
      /\ \A v \in Workers : v # w => pc'[v] = pc[v] /\ current'[v] = current[v]
  BY <1>1, <1>t DEF TypeOK
<1>5. TypeOK'
  BY <1>1, <1>2, <1>3, <1>t DEF TypeOK, outcome, table
<1>6. Working'
  <2> SUFFICES ASSUME NEW v \in Workers
               PROVE  /\ pc'[v] # "ready" =>
                           /\ current'[v] \in Rows /\ hold'[v][current'[v]] > 0
                           /\ answer'[v] # "none"
                           /\ answer'[v] = "delivered" => took'[current'[v]]
                           /\ answer'[v] = "rejected" => declined'[current'[v]]
                      /\ InTransaction(v)' =>
                           /\ current'[v] \in Instructions
                           /\ Owns(v)' /\ IsTerminal(v)'
    BY DEF Working
  <2>1. CASE v = w
    BY <2>1, <1>1, <1>3, <1>4 DEF InTransaction
  <2>2. CASE v # w
    BY <2>2, <1>1, <1>2, <1>3, <1>4, <1>t
       DEF Working, InTransaction, Owns, IsTerminal, Exhausted, table
  <2> QED
    BY <2>1, <2>2
<1>7. OneFinalizer' /\ Counted'
  <2>1. OneFinalizer'
    BY <1>4 DEF OutboxInv, OneFinalizer
  <2> QED
    BY <1>1, <1>3, <1>4, <2>1, CountedKept DEF OutboxInv, table
<1>8. OneWorkerPerAttempt' /\ Untouched' /\ SettledTogether'
  BY <1>1 DEF OutboxInv, OneWorkerPerAttempt, Untouched, SettledTogether,
              Delivered, outcome, table
<1>9. BudgetIsSpent' /\ DeliveredWasTaken'
  BY <1>1, <1>2 DEF OutboxInv, BudgetIsSpent, DeliveredWasTaken, table
<1> QED
  BY <1>5, <1>6, <1>7, <1>8, <1>9 DEF OutboxInv

(* What all ends of a worker's turn have in common: the worker lets go of  *)
(* its row, and nobody else's row is touched.                              *)
LEMMA TurnEnds ==
  ASSUME OutboxInv, NEW w \in Workers, pc[w] # "ready", Done(w),
         UNCHANGED <<attempts, ghosts>>,
         NEW changed \in SUBSET Rows,
         \A t \in Rows \ changed : status'[t] = status[t],
         \A t \in changed :
           \/ t = current[w] /\ Owns(w)
           \/ status[t] # "PROCESSING"
  PROVE  /\ Working' /\ OneFinalizer' /\ OneWorkerPerAttempt'
<1>t. TypeOK /\ Working /\ OneWorkerPerAttempt
  BY DEF OutboxInv
<1>1. current[w] \in Rows
  BY <1>t DEF Working
<1>2. /\ hold'[w][current[w]] = 0
      /\ \A t \in Rows : t # current[w] => hold'[w][t] = hold[w][t]
      /\ pc'[w] = "ready"
      /\ \A v \in Workers : v # w =>
              /\ hold'[v] = hold[v] /\ pc'[v] = pc[v]
              /\ current'[v] = current[v] /\ answer'[v] = answer[v]
  BY <1>1, <1>t, DoneEffect
<1>3. ASSUME NEW v \in Workers, v # w, NEW t \in Rows,
             hold[v][t] = attempts[t], hold[v][t] > 0
      PROVE  status[t] = "PROCESSING" /\ status'[t] = "PROCESSING"
  <2>1. status[t] = "PROCESSING"
    BY <1>3, <1>t DEF OneWorkerPerAttempt
  <2>2. ~(t = current[w] /\ Owns(w))
    BY <1>3, <1>1, <1>t DEF OneWorkerPerAttempt, Owns
  <2> QED
    BY <2>1, <2>2
<1>4. Working'
  <2> SUFFICES ASSUME NEW v \in Workers
               PROVE  /\ pc'[v] # "ready" =>
                           /\ current'[v] \in Rows /\ hold'[v][current'[v]] > 0
                           /\ answer'[v] # "none"
                           /\ answer'[v] = "delivered" => took'[current'[v]]
                           /\ answer'[v] = "rejected" => declined'[current'[v]]
                      /\ InTransaction(v)' =>
                           /\ current'[v] \in Instructions
                           /\ Owns(v)' /\ IsTerminal(v)'
    BY DEF Working
  <2>1. CASE v = w
    BY <2>1, <1>2 DEF InTransaction
  <2>2. CASE v # w /\ pc[v] # "ready"
    <3>1. current[v] \in Rows /\ hold[v][current[v]] > 0
      BY <2>2, <1>t DEF Working
    <3>2. InTransaction(v) => Owns(v)'
      BY <2>2, <3>1, <1>2, <1>3, <1>t DEF Working, Owns
    <3> QED
      BY <2>2, <3>1, <3>2, <1>2, <1>t
         DEF Working, InTransaction, IsTerminal, Exhausted, ghosts
  <2>3. CASE v # w /\ pc[v] = "ready"
    BY <2>3, <1>2 DEF InTransaction
  <2> QED
    BY <2>1, <2>2, <2>3
<1>5. OneFinalizer'
  BY <1>2 DEF OutboxInv, OneFinalizer
<1>6. OneWorkerPerAttempt'
  <2> SUFFICES ASSUME NEW u \in Workers, NEW v \in Workers, NEW t \in Rows
               PROVE  /\ hold'[u][t] <= attempts[t]
                      /\ hold'[u][t] = hold'[v][t] /\ hold'[u][t] > 0 => u = v
                      /\ hold'[u][t] = attempts[t] /\ hold'[u][t] > 0
                           => status'[t] = "PROCESSING"
    BY DEF OneWorkerPerAttempt
  <2>1. /\ hold'[u][t] = IF u = w /\ t = current[w] THEN 0 ELSE hold[u][t]
        /\ hold'[v][t] = IF v = w /\ t = current[w] THEN 0 ELSE hold[v][t]
    BY <1>2
  <2>2. /\ hold[u][t] <= attempts[t] /\ attempts[t] \in Nat
        /\ hold[u][t] = hold[v][t] /\ hold[u][t] > 0 => u = v
        /\ hold[u][t] = attempts[t] /\ hold[u][t] > 0 => status[t] = "PROCESSING"
    BY <1>t DEF OneWorkerPerAttempt, TypeOK
  <2>3. u # w /\ hold[u][t] = attempts[t] /\ hold[u][t] > 0
          => status'[t] = "PROCESSING"
    BY <1>3
  <2>4. u = w /\ t # current[w] /\ hold[u][t] = attempts[t] /\ hold[u][t] > 0
          => status'[t] = "PROCESSING"
    BY <2>2
  <2> QED
    BY <2>1, <2>2, <2>3, <2>4
<1> QED
  BY <1>4, <1>5, <1>6

LEMMA InvResolveStale ==
  ASSUME OutboxInv, NEW w \in Workers, ResolveStale(w)
  PROVE  OutboxInv'
<1>1. /\ pc[w] # "ready" /\ Done(w)
      /\ UNCHANGED <<outcome, table, ghosts, crashes>>
  BY DEF ResolveStale
<1>2. TypeOK /\ current[w] \in Rows
  BY <1>1 DEF OutboxInv, Working
<1>3. Working' /\ OneFinalizer' /\ OneWorkerPerAttempt'
  <2>1. {} \in SUBSET Rows /\ \A t \in Rows \ {} : status'[t] = status[t]
    BY <1>1 DEF table
  <2>2. \A t \in {} : (t = current[w] /\ Owns(w)) \/ status[t] # "PROCESSING"
    OBVIOUS
  <2>3. UNCHANGED <<attempts, ghosts>>
    BY <1>1 DEF table
  <2> QED
    BY <1>1, <2>1, <2>2, <2>3, TurnEnds
<1>4. TypeOK'
  BY <1>1, <1>2, DoneEffect DEF TypeOK, outcome, table, ghosts
<1>6. Counted'
  BY <1>1, <1>2, DoneEffect, CountedKept DEF OutboxInv, table
<1>5. Untouched' /\ SettledTogether' /\ BudgetIsSpent' /\ DeliveredWasTaken'
  BY <1>1 DEF OutboxInv, Untouched, SettledTogether, Delivered,
              BudgetIsSpent, DeliveredWasTaken, outcome, table, ghosts
<1> QED
  BY <1>3, <1>4, <1>5, <1>6 DEF OutboxInv

LEMMA InvResolveRow ==
  ASSUME OutboxInv, NEW w \in Workers, ResolveRow(w)
  PROVE  OutboxInv'
<1>1. /\ pc[w] = "answered" /\ Done(w) /\ Owns(w)
      /\ current[w] \notin Instructions \/ ~IsTerminal(w)
      /\ status' = [status EXCEPT ![current[w]] = NewStatus(w)]
      /\ due' = [due EXCEPT ![current[w]] = FALSE]
      /\ UNCHANGED <<outcome, attempts, ghosts, crashes>>
  BY DEF ResolveRow
<1>2. TypeOK /\ current[w] \in Rows
  BY <1>1 DEF OutboxInv, Working
<1>3. /\ status[current[w]] = "PROCESSING"
      /\ status'[current[w]] = NewStatus(w)
      /\ \A t \in Rows : t # current[w] => status'[t] = status[t]
      /\ NewStatus(w) \in {"DELIVERED", "DEAD", "RETRY"}
      /\ NewStatus(w) = "DELIVERED" <=> answer[w] = "delivered"
      /\ NewStatus(w) = "RETRY" <=> ~IsTerminal(w)
  BY <1>1, <1>2, NewStatusCases DEF TypeOK, Owns
<1>4. Working' /\ OneFinalizer' /\ OneWorkerPerAttempt'
  <2>1. {current[w]} \in SUBSET Rows
    BY <1>2
  <2>2. \A t \in Rows \ {current[w]} : status'[t] = status[t]
    BY <1>3
  <2> QED
    BY <1>1, <2>1, <2>2, TurnEnds
<1>5. TypeOK'
  <2>1. status' \in [Rows -> Statuses] /\ due' \in [Rows -> BOOLEAN]
    BY <1>1, <1>2, <1>3 DEF TypeOK, Statuses
  <2> QED
    BY <1>1, <1>2, <2>1, DoneEffect DEF TypeOK, outcome, ghosts
<1>6. activation # "NONE"
  BY <1>2, <1>3 DEF OutboxInv, Untouched
<1>7. SettledTogether'
  <2>1. \A i \in Instructions :
          /\ status'[i] \in Terminal <=> status[i] \in Terminal
          /\ status'[i] = "DELIVERED" <=> status[i] = "DELIVERED"
    BY <1>1, <1>3, RowFacts DEF Terminal
  <2>2. Delivered' = Delivered
    BY <2>1 DEF Delivered
  <2>3. Callback => (status'[Final] = "ABSENT" <=> status[Final] = "ABSENT")
    BY <1>3, RowFacts
  <2>4. SettledTogether
    BY DEF OutboxInv
  <2> QED
    BY <1>1, <2>1, <2>2, <2>3, <2>4 DEF SettledTogether, outcome
<1>8. BudgetIsSpent'
  <2>1. NewStatus(w) = "DEAD" =>
          declined[current[w]] \/ attempts[current[w]] >= MaxAttempts
    <3>1. /\ answer[w] \in {"delivered", "failed", "rejected"}
          /\ answer[w] = "rejected" => declined[current[w]]
      BY <1>1, <1>2 DEF OutboxInv, Working, TypeOK
    <3> QED
      BY <1>3, <3>1 DEF IsTerminal, Exhausted, NewStatus
  <2>2. NewStatus(w) = "RETRY" => attempts[current[w]] < MaxAttempts
    BY <1>2, <1>3, OutboxAssumption DEF IsTerminal, Exhausted, TypeOK
  <2> QED
    BY <1>1, <1>3, <2>1, <2>2 DEF OutboxInv, BudgetIsSpent, ghosts
<1>9. DeliveredWasTaken'
  BY <1>1, <1>3 DEF OutboxInv, Working, DeliveredWasTaken, ghosts
<1>10. Counted'
  <2>1. \A i \in Instructions :
          \/ status'[i] = status[i]
          \/ status[i] \notin Terminal /\ status'[i] \notin Terminal
    BY <1>1, <1>3, RowFacts DEF Terminal
  <2> QED
    BY <1>1, <1>2, <2>1, DoneEffect, CountedKept DEF OutboxInv
<1> QED
  BY <1>1, <1>4, <1>5, <1>6, <1>7, <1>8, <1>9, <1>10
     DEF OutboxInv, Untouched, outcome

(* While an instruction is not decided, the activation is not either. *)
LEMMA StillPending ==
  ASSUME OutboxInv, NEW w \in Workers, current[w] \in Instructions, Owns(w)
  PROVE  activation = "PENDING"
<1>1. activation # "NONE"
  BY RowFacts DEF OutboxInv, Untouched, Owns
<1>2. activation \in {"COMPLETED", "FAILED"} => status[current[w]] \in Terminal
  BY DEF OutboxInv, SettledTogether
<1> QED
  BY <1>1, <1>2 DEF OutboxInv, TypeOK, Owns, Terminal

(* The statuses as the transaction of w sees them. *)
LEMMA ResolvedFacts ==
  ASSUME TypeOK, NEW w \in Workers, current[w] \in Instructions, IsTerminal(w)
  PROVE  /\ Resolved(w) \in [Rows -> Statuses]
         /\ Resolved(w)[current[w]] = NewStatus(w)
         /\ \A t \in Rows : t # current[w] => Resolved(w)[t] = status[t]
         /\ (\A i \in Instructions : Resolved(w)[i] \in Terminal)
              <=> \A i \in Instructions \ {current[w]} : status[i] \in Terminal
         /\ {i \in Instructions : Resolved(w)[i] = "DELIVERED"}
              = {i \in Instructions : IF i = current[w] THEN answer[w] = "delivered"
                                                        ELSE status[i] = "DELIVERED"}
<1>1. /\ Resolved(w) \in [Rows -> Statuses]
      /\ Resolved(w)[current[w]] = NewStatus(w)
      /\ \A t \in Rows : t # current[w] => Resolved(w)[t] = status[t]
  BY RowFacts, NewStatusCases DEF TypeOK, Statuses, Resolved
<1>2. /\ NewStatus(w) \in Terminal
      /\ NewStatus(w) = "DELIVERED" <=> answer[w] = "delivered"
  BY NewStatusCases
<1>3. \A i \in Instructions :
        Resolved(w)[i] = IF i = current[w] THEN NewStatus(w) ELSE status[i]
  BY <1>1, RowFacts
<1> QED
  BY <1>1, <1>2, <1>3

(* The worker that gets the lock on the activation reads the rows. *)
LEMMA LockCounts ==
  ASSUME OutboxInv, NEW w \in Workers, LockActivation(w)
  PROVE  CountedBy(w)'
<1>1. /\ TypeOK
      /\ current[w] \in Instructions /\ Owns(w) /\ IsTerminal(w)
  BY DEF OutboxInv, Working, LockActivation, InTransaction
<1>2. activation = "PENDING"
  BY <1>1, StillPending
<1>3. /\ UNCHANGED <<status, current, answer>>
      /\ accepted'[w] =
           IF \A i \in Instructions : Resolved(w)[i] \in Terminal
             THEN {i \in Instructions : Resolved(w)[i] = "DELIVERED"}
             ELSE NoResult
  BY <1>1, <1>2 DEF LockActivation, TypeOK, table
<1> QED
  BY <1>1, <1>3, ResolvedFacts DEF CountedBy

(* A worker that moves from one lock to the next changes nothing else. *)
LEMMA InvMoves ==
  ASSUME OutboxInv, NEW w \in Workers,
         ResolveInstruction(w) \/ LockActivation(w)
  PROVE  OutboxInv'
<1>1. /\ UNCHANGED <<outcome, table, hold, current, answer, ghosts, crashes>>
      /\ pc[w] # "ready"
      /\ current[w] \in Instructions /\ Owns(w) /\ IsTerminal(w)
      /\ \A v \in Workers : v # w => accepted'[v] = accepted[v]
      /\ accepted' \in [Workers -> (SUBSET Instructions) \cup {NoResult}]
  <2>1. CASE ResolveInstruction(w)
    BY <2>1 DEF ResolveInstruction, OutboxInv, TypeOK
  <2>2. CASE LockActivation(w)
    BY <2>2 DEF LockActivation, OutboxInv, TypeOK, Working, InTransaction
  <2> QED
    BY <2>1, <2>2
<1>2. /\ pc' \in [Workers -> {"ready", "answered", "resolving", "finalizing"}]
      /\ pc'[w] # "ready"
      /\ \A v \in Workers : v # w => pc'[v] = pc[v]
  BY DEF ResolveInstruction, LockActivation, OutboxInv, TypeOK
<1>3. TypeOK'
  BY <1>1, <1>2 DEF OutboxInv, TypeOK, outcome, table, ghosts
<1>4. Working'
  <2> SUFFICES ASSUME NEW v \in Workers
               PROVE  /\ pc'[v] # "ready" =>
                           /\ current'[v] \in Rows /\ hold'[v][current'[v]] > 0
                           /\ answer'[v] # "none"
                           /\ answer'[v] = "delivered" => took'[current'[v]]
                           /\ answer'[v] = "rejected" => declined'[current'[v]]
                      /\ InTransaction(v)' =>
                           /\ current'[v] \in Instructions
                           /\ Owns(v)' /\ IsTerminal(v)'
    BY DEF Working
  <2>1. pc'[v] # "ready" => pc[v] # "ready"
    BY <1>1, <1>2
  <2>2. InTransaction(v)' => v = w \/ InTransaction(v)
    BY <1>2 DEF InTransaction
  <2> QED
    BY <1>1, <2>1, <2>2
       DEF OutboxInv, Working, Owns, IsTerminal, Exhausted, table, ghosts
<1>5. OneFinalizer'
  <2>1. CASE ResolveInstruction(w)
    <3>1. pc'[w] = "resolving"
      BY <2>1 DEF ResolveInstruction, OutboxInv, TypeOK
    <3> QED
      BY <3>1, <1>2 DEF OutboxInv, OneFinalizer
  <2>2. CASE LockActivation(w)
    BY <2>2, <1>2 DEF LockActivation, ActivationFree, OneFinalizer
  <2> QED
    BY <2>1, <2>2
<1>6. OneWorkerPerAttempt' /\ Untouched' /\ SettledTogether'
  BY <1>1 DEF OutboxInv, OneWorkerPerAttempt, Untouched, SettledTogether,
              Delivered, outcome, table
<1>7. BudgetIsSpent' /\ DeliveredWasTaken'
  BY <1>1 DEF OutboxInv, BudgetIsSpent, DeliveredWasTaken, table, ghosts
<1>8. Counted'
  <2>1. CASE ResolveInstruction(w)
    <3>1. pc'[w] = "resolving"
      BY <2>1 DEF ResolveInstruction, OutboxInv, TypeOK
    <3> QED
      BY <3>1, <1>1, <1>2, CountedKept DEF OutboxInv, table
  <2>2. CASE LockActivation(w)
    <3>1. CountedBy(w)'
      BY <2>2, <1>1, LockCounts
    <3>2. \A v \in Workers : v # w => CountedBy(v)'
      BY <1>5, <2>2 DEF OneFinalizer, LockActivation, CountedBy, OutboxInv, TypeOK
    <3> QED
      BY <3>1, <3>2 DEF Counted
  <2> QED
    BY <2>1, <2>2
<1> QED
  BY <1>3, <1>4, <1>5, <1>6, <1>7, <1>8 DEF OutboxInv

(* What the last word on an instruction does: the activation is still      *)
(* PENDING, because the instruction is not decided yet; either another one *)
(* is open too, or the activation is settled.                              *)
LEMMA FinalizeEffect ==
  ASSUME OutboxInv, NEW w \in Workers, Finalize(w)
  PROVE  /\ current[w] \in Instructions /\ Owns(w) /\ IsTerminal(w)
         /\ activation = "PENDING"
         /\ Resolved(w) \in [Rows -> Statuses]
         /\ Resolved(w)[current[w]] = NewStatus(w)
         /\ \A t \in Rows : t # current[w] => Resolved(w)[t] = status[t]
         /\ \/ /\ \A i \in Instructions : Resolved(w)[i] \in Terminal
               /\ accepted[w]
                    = {i \in Instructions : Resolved(w)[i] = "DELIVERED"}
               /\ Settle(w)
            \/ /\ \E i \in Instructions : Resolved(w)[i] \notin Terminal
               /\ status' = Resolved(w)
               /\ UNCHANGED <<outcome, due>>
<1>1. TypeOK /\ Working /\ pc[w] = "finalizing" /\ CountedBy(w)
  BY DEF OutboxInv, Finalize, Counted
<1>2. current[w] \in Instructions /\ Owns(w) /\ IsTerminal(w)
  BY <1>1 DEF Working, InTransaction
<1>3. activation = "PENDING"
  BY <1>2, StillPending
<1>4. accepted[w] =
        IF \A i \in Instructions : Resolved(w)[i] \in Terminal
          THEN {i \in Instructions : Resolved(w)[i] = "DELIVERED"}
          ELSE NoResult
  BY <1>1, <1>2, ResolvedFacts DEF CountedBy
<1>5. {i \in Instructions : Resolved(w)[i] = "DELIVERED"} # NoResult
  BY RowFacts DEF NoResult
<1>6. \/ accepted[w] # NoResult /\ Settle(w)
      \/ /\ accepted[w] = NoResult
         /\ status' = Resolved(w) /\ UNCHANGED <<outcome, due>>
  BY DEF Finalize
<1> QED
  BY <1>1, <1>2, <1>3, <1>4, <1>5, <1>6, ResolvedFacts

LEMMA InvFinalize ==
  ASSUME OutboxInv, NEW w \in Workers, Finalize(w)
  PROVE  OutboxInv'
<1> DEFINE st == Resolved(w)
           taken == {i \in Instructions : st[i] = "DELIVERED"}
<1>1. /\ current[w] \in Instructions /\ Owns(w) /\ IsTerminal(w)
      /\ activation = "PENDING"
      /\ st \in [Rows -> Statuses]
      /\ st[current[w]] = NewStatus(w)
      /\ \A t \in Rows : t # current[w] => st[t] = status[t]
      /\ \/ /\ \A i \in Instructions : st[i] \in Terminal
            /\ accepted[w] = taken
            /\ Settle(w)
         \/ /\ \E i \in Instructions : st[i] \notin Terminal
            /\ status' = st
            /\ UNCHANGED <<outcome, due>>
  BY FinalizeEffect
<1>0. st = Resolved(w)
  OBVIOUS
<1> HIDE DEF st
<1>2. /\ pc[w] # "ready" /\ Done(w) /\ UNCHANGED <<attempts, ghosts, crashes>>
  BY DEF Finalize
<1>3. TypeOK /\ SettledTogether /\ current[w] \in Rows /\ current[w] # Final
  BY <1>1, RowFacts DEF OutboxInv
<1>4. /\ kept = Instructions /\ reservation = "ACTIVATED"
      /\ Callback => status[Final] = "ABSENT"
  BY <1>1, <1>3 DEF SettledTogether
<1>5. /\ \A t \in Rows : t # Final => status'[t] = st[t]
      /\ Final \in Rows => status'[Final] \in {"ABSENT", "PENDING"}
      /\ status' \in [Rows -> Statuses]
  <2>1. Final \in Rows => st[Final] = "ABSENT"
    BY <1>1, <1>3, <1>4, RowFacts
  <2>2. CASE Settle(w)
    BY <2>2, <1>0, <1>1 DEF Settle, Statuses
  <2>3. CASE status' = st
    BY <2>1, <2>3, <1>1
  <2> QED
    BY <1>1, <2>2, <2>3
<1>6. Working' /\ OneFinalizer' /\ OneWorkerPerAttempt'
  <2> DEFINE changed == {current[w]} \cup {t \in Rows : t = Final}
  <2>1. changed \in SUBSET Rows
    BY <1>3
  <2>2. \A t \in Rows \ changed : status'[t] = status[t]
    BY <1>1, <1>5
  <2>3. \A t \in changed :
          (t = current[w] /\ Owns(w)) \/ status[t] # "PROCESSING"
    BY <1>1, <1>4, RowFacts
  <2> HIDE DEF changed
  <2> QED
    BY <1>2, <2>1, <2>2, <2>3, TurnEnds
<1>7. Instructions \cap taken = taken
  BY DEF Delivered
<1>8. Delivered' = taken
  BY <1>5, RowFacts DEF Delivered
<1>9. /\ Cardinality(taken) \in Nat
      /\ Cardinality(Instructions \ taken) \in Nat
      /\ Cardinality(taken) + Cardinality(Instructions \ taken)
           = Cardinality(Instructions)
  <2>1. IsFiniteSet(Instructions)
    BY OutboxAssumption
  <2>2. taken \in SUBSET Instructions
    BY DEF Delivered
  <2>3. IsFiniteSet(taken) /\ IsFiniteSet(Instructions \ taken)
    BY <2>1, <2>2, FS_Subset
  <2>4. Cardinality(Instructions \ taken)
          = Cardinality(Instructions) - Cardinality(taken)
    BY <2>1, <1>7, FS_Difference
  <2>5. /\ Cardinality(Instructions) \in Nat
        /\ Cardinality(taken) \in Nat
        /\ Cardinality(Instructions \ taken) \in Nat
    BY <2>1, <2>3, FS_CardinalityType
  <2> QED
    BY <2>4, <2>5
<1>10. SettledTogether'
  <2>1. CASE /\ Settle(w) /\ accepted[w] = taken
             /\ \A i \in Instructions : st[i] \in Terminal
    <3>1. /\ activation' \in {"COMPLETED", "FAILED"}
          /\ activation' = "COMPLETED" <=> taken = Instructions
          /\ counts'.accepted = Cardinality(taken)
          /\ counts'.rejected = Cardinality(Instructions \ taken)
          /\ reservation' = activation'
          /\ kept' = taken
      BY <2>1, <1>1, <1>4, <1>7 DEF Settle
    <3>2. Callback => status'[Final] # "ABSENT"
      BY <2>1, RowFacts DEF Settle
    <3>3. \A i \in Instructions : status'[i] \in Terminal
      BY <2>1, <1>5, RowFacts
    <3> QED
      BY <3>1, <3>2, <3>3, <1>8, <1>9 DEF SettledTogether
  <2>2. CASE /\ \E i \in Instructions : st[i] \notin Terminal
             /\ status' = st /\ UNCHANGED <<outcome, due>>
    <3>1. Callback => st[Final] = "ABSENT"
      BY <1>1, <1>3, <1>4, RowFacts
    <3> QED
      BY <2>2, <3>1, <1>1, <1>4 DEF SettledTogether, outcome
  <2> QED
    BY <1>1, <2>1, <2>2
<1>11. TypeOK'
  <2>1. /\ activation' \in {"NONE", "PENDING", "COMPLETED", "FAILED"}
        /\ reservation' \in {"CONFIRMED", "ACTIVATED", "COMPLETED", "FAILED"}
        /\ counts' \in [accepted : Nat, rejected : Nat]
        /\ kept' \subseteq Instructions
        /\ due' \in [Rows -> BOOLEAN]
    <3>1. CASE Settle(w) /\ accepted[w] = taken
      <4>1. due' \in [Rows -> BOOLEAN]
        BY <3>1, <1>3 DEF Settle, TypeOK
      <4> QED
        BY <3>1, <4>1, <1>4, <1>9 DEF Settle
    <3>2. CASE UNCHANGED <<outcome, due>>
      BY <3>2, <1>3 DEF TypeOK, outcome
    <3> QED
      BY <1>1, <3>1, <3>2
  <2> QED
    BY <1>2, <1>3, <1>5, <2>1, DoneEffect DEF TypeOK, ghosts
<1>12. Untouched'
  BY <1>1 DEF Untouched, Settle, outcome
<1>13. BudgetIsSpent' /\ DeliveredWasTaken'
  <2>1. /\ st[current[w]] \in {"DELIVERED", "DEAD"}
        /\ st[current[w]] = "DELIVERED" <=> answer[w] = "delivered"
    BY <1>1, NewStatusCases
  <2>2. /\ answer[w] \in {"delivered", "failed", "rejected"}
        /\ answer[w] = "rejected" => declined[current[w]]
        /\ answer[w] = "delivered" => took[current[w]]
    BY <1>2, <1>3 DEF OutboxInv, Working, TypeOK
  <2>3. st[current[w]] = "DEAD" =>
          declined[current[w]] \/ attempts[current[w]] >= MaxAttempts
    BY <2>1, <2>2, <1>1 DEF IsTerminal, Exhausted
  <2>4. BudgetIsSpent /\ DeliveredWasTaken
    BY DEF OutboxInv
  <2> QED
    BY <1>1, <1>2, <1>3, <1>5, <2>1, <2>2, <2>3, <2>4
       DEF BudgetIsSpent, DeliveredWasTaken, ghosts
<1>14. Counted'
  <2>1. \A v \in Workers : pc'[v] # "finalizing"
    BY <1>2, <1>3, DoneEffect DEF OutboxInv, OneFinalizer, Finalize
  <2> QED
    BY <2>1 DEF Counted, CountedBy
<1> QED
  BY <1>6, <1>10, <1>11, <1>12, <1>13, <1>14 DEF OutboxInv

LEMMA InvCrash ==
  ASSUME OutboxInv, NEW w \in Workers, Crash(w)
  PROVE  OutboxInv'
<1>t. TypeOK
  BY DEF OutboxInv
<1>1. /\ \A t \in Rows : hold'[w][t] = 0
      /\ pc'[w] = "ready"
      /\ \A v \in Workers : v # w =>
           /\ hold'[v] = hold[v] /\ pc'[v] = pc[v]
           /\ current'[v] = current[v] /\ answer'[v] = answer[v]
           /\ accepted'[v] = accepted[v]
      /\ UNCHANGED <<outcome, table, ghosts>>
  BY <1>t DEF Crash, TypeOK
<1>2. TypeOK'
  BY <1>t, OutboxAssumption DEF Crash, TypeOK, outcome, table, ghosts
<1>3. Working' /\ OneFinalizer'
  BY <1>1 DEF OutboxInv, Working, OneFinalizer, InTransaction, Owns,
              IsTerminal, Exhausted, table, ghosts
<1>4. OneWorkerPerAttempt'
  <2> SUFFICES ASSUME NEW u \in Workers, NEW v \in Workers, NEW t \in Rows
               PROVE  /\ hold'[u][t] <= attempts[t]
                      /\ hold'[u][t] = hold'[v][t] /\ hold'[u][t] > 0 => u = v
                      /\ hold'[u][t] = attempts[t] /\ hold'[u][t] > 0
                           => status[t] = "PROCESSING"
    BY <1>1 DEF OneWorkerPerAttempt, table
  <2>1. /\ hold'[u][t] = IF u = w THEN 0 ELSE hold[u][t]
        /\ hold'[v][t] = IF v = w THEN 0 ELSE hold[v][t]
    BY <1>1
  <2>2. /\ hold[u][t] <= attempts[t] /\ attempts[t] \in Nat
        /\ hold[u][t] = hold[v][t] /\ hold[u][t] > 0 => u = v
        /\ hold[u][t] = attempts[t] /\ hold[u][t] > 0 => status[t] = "PROCESSING"
    BY <1>t DEF OutboxInv, OneWorkerPerAttempt, TypeOK
  <2> QED
    BY <2>1, <2>2
<1>5. Untouched' /\ SettledTogether' /\ BudgetIsSpent' /\ DeliveredWasTaken'
  BY <1>1 DEF OutboxInv, Untouched, SettledTogether, Delivered,
              BudgetIsSpent, DeliveredWasTaken, outcome, table, ghosts
<1>6. Counted'
  BY <1>1, CountedKept DEF OutboxInv, table
<1> QED
  BY <1>2, <1>3, <1>4, <1>5, <1>6 DEF OutboxInv

(* Time, and steps that change nothing. *)
LEMMA InvTimePasses ==
  ASSUME OutboxInv,
         (\E t \in Rows : TimePasses(t)) \/ UNCHANGED vars
  PROVE  OutboxInv'
<1>1. UNCHANGED <<outcome, status, attempts, worker, ghosts, crashes>>
  BY DEF TimePasses, vars, table
<1>2. due' \in [Rows -> BOOLEAN]
  BY DEF OutboxInv, TypeOK, TimePasses, vars, table
<1>3. TypeOK'
  BY <1>1, <1>2 DEF OutboxInv, TypeOK, outcome, worker, ghosts
<1>4. Working' /\ OneFinalizer' /\ OneWorkerPerAttempt'
  BY <1>1 DEF OutboxInv, Working, OneFinalizer, OneWorkerPerAttempt,
              InTransaction, Owns, IsTerminal, Exhausted, worker, ghosts
<1>5. Untouched' /\ SettledTogether' /\ BudgetIsSpent' /\ DeliveredWasTaken'
  BY <1>1 DEF OutboxInv, Untouched, SettledTogether, Delivered,
              BudgetIsSpent, DeliveredWasTaken, outcome, ghosts
<1>6. Counted'
  BY <1>1, CountedKept DEF OutboxInv, worker
<1> QED
  BY <1>3, <1>4, <1>5, <1>6 DEF OutboxInv

LEMMA InvNext == OutboxInv /\ [Next]_vars => OutboxInv'
<1> SUFFICES ASSUME OutboxInv, [Next]_vars PROVE OutboxInv'
  OBVIOUS
<1>1. CASE Activate
  BY <1>1, InvActivate
<1>2. ASSUME NEW w \in Workers, Step(w) PROVE OutboxInv'
  BY <1>2, InvClaim, InvDeliver, InvResolveStale, InvResolveRow, InvMoves,
     InvFinalize DEF Step
<1>3. ASSUME NEW w \in Workers, Crash(w) PROVE OutboxInv'
  BY <1>3, InvCrash
<1>4. CASE (\E t \in Rows : TimePasses(t)) \/ UNCHANGED vars
  BY <1>4, InvTimePasses
<1> QED
  BY <1>1, <1>2, <1>3, <1>4 DEF Next

LEMMA OutboxInvariant == Spec => []OutboxInv
BY InvInit, InvNext, PTL DEF Spec

-----------------------------------------------------------------------------
(* What the outbox promises *)

(* Types hold in every reachable state. *)
THEOREM OutboxTypes == Spec => []TypeOK
BY OutboxInvariant, PTL DEF OutboxInv

(* The attempt number is a fencing token: one worker per attempt, and only *)
(* the holder of the latest attempt can decide a row (postgres.py:632-706).*)
THEOREM OutboxFences == Spec => []OneWorkerPerAttempt
BY OutboxInvariant, PTL DEF OutboxInv

(* No row is given up before its resource declined or its attempts were    *)
(* spent (postgres.py:706-718).                                            *)
THEOREM OutboxSpendsItsBudget == Spec => []BudgetIsSpent
BY OutboxInvariant, PTL DEF OutboxInv

(* Capacity that stays sold after an activation belongs to resources that  *)
(* took their instruction (postgres.py:706-735, 761-805).                  *)
THEOREM OutboxAcceptsWhatWasTaken == Spec => []AcceptedWasTaken
<1>1. OutboxInv => AcceptedWasTaken
  <2> SUFFICES ASSUME OutboxInv PROVE AcceptedWasTaken
    OBVIOUS
  <2>1. reservation \in {"COMPLETED", "FAILED"} => kept = Delivered
    BY DEF OutboxInv, TypeOK, SettledTogether
  <2> QED
    BY <2>1, RowFacts
       DEF OutboxInv, AcceptedWasTaken, DeliveredWasTaken, Delivered
<1> QED
  BY <1>1, OutboxInvariant, PTL

(* Reservation, activation, allocations and the final webhook settle in    *)
(* one step with the last instruction (postgres.py:737-839).               *)
THEOREM OutboxSettlesTogether == Spec => []SettledTogether
BY OutboxInvariant, PTL DEF OutboxInv

(* Steps that decide no instruction leave every verdict as it was. *)
LEMMA SameVerdicts ==
  ASSUME \A i \in Instructions :
           \/ status'[i] = status[i]
           \/ status[i] \notin Terminal /\ status'[i] \notin Terminal
  PROVE  [i \in Instructions |-> Verdict(i)]'
           = [i \in Instructions |-> Verdict(i)]
<1>1. \A i \in Instructions : Verdict(i)' = Verdict(i)
  BY DEF Verdict, Terminal
<1> QED
  BY <1>1

(* The last word on an instruction is a verdict of the promise. *)
LEMMA FinalizeJudges ==
  ASSUME OutboxInv, NEW w \in Workers, Finalize(w)
  PROVE  \E i \in Instructions, v \in {"accepted", "rejected"} :
           Promise!Judge(i, v)
<1> DEFINE st == Resolved(w)
           taken == {i \in Instructions : st[i] = "DELIVERED"}
           verdict == [i \in Instructions |-> Verdict(i)]
           v == IF NewStatus(w) = "DELIVERED" THEN "accepted" ELSE "rejected"
<1>1. /\ current[w] \in Instructions /\ Owns(w) /\ IsTerminal(w)
      /\ activation = "PENDING"
      /\ st[current[w]] = NewStatus(w)
      /\ \A t \in Rows : t # current[w] => st[t] = status[t]
      /\ \/ /\ \A i \in Instructions : st[i] \in Terminal
            /\ accepted[w] = taken
            /\ Settle(w)
         \/ /\ \E i \in Instructions : st[i] \notin Terminal
            /\ status' = st
            /\ UNCHANGED <<outcome, due>>
  BY FinalizeEffect
<1>0. st = Resolved(w)
  OBVIOUS
<1> HIDE DEF st
<1>2. NewStatus(w) \in {"DELIVERED", "DEAD"}
  BY <1>1, NewStatusCases
<1>3. \A i \in Instructions : status'[i] = st[i]
  BY <1>0, <1>1, RowFacts DEF Settle
<1>4. Verdict(current[w]) = "open"
  BY <1>1 DEF Owns, Verdict
<1>5. \A i \in Instructions :
        Verdict(i)' = IF i = current[w] THEN v ELSE Verdict(i)
  BY <1>1, <1>2, <1>3, RowFacts DEF Verdict
<1>6. /\ verdict[current[w]] = "open"
      /\ verdict' = [verdict EXCEPT ![current[w]] = v]
  BY <1>1, <1>4, <1>5
<1>7. activation' = Promise!Conclusion(verdict')
  <2>1. \A i \in Instructions :
          /\ verdict'[i] = "open" <=> st[i] \notin Terminal
          /\ verdict'[i] = "rejected" <=> st[i] = "DEAD"
    BY <1>3 DEF Verdict, Terminal
  <2>2. CASE /\ Settle(w) /\ accepted[w] = taken
             /\ \A i \in Instructions : st[i] \in Terminal
    <3>1. taken = Instructions
            <=> ~ \E i \in Instructions : st[i] = "DEAD"
      BY <2>2 DEF Terminal
    <3> QED
      BY <2>1, <2>2, <3>1 DEF Settle, Promise!Conclusion
  <2>3. CASE /\ \E i \in Instructions : st[i] \notin Terminal
             /\ UNCHANGED <<outcome, due>>
    BY <2>1, <2>3, <1>1 DEF Promise!Conclusion, outcome
  <2> QED
    BY <1>1, <2>2, <2>3
<1>8. Promise!Judge(current[w], v)
  BY <1>1, <1>6, <1>7 DEF Promise!Judge
<1> QED
  BY <1>1, <1>8

(* The outbox implements ActivationOutcome: one verdict per instruction    *)
(* that is never revised, and the result with the last one, whatever       *)
(* workers crash, lose their leases or answer twice (outbox.py:35-91,      *)
(* postgres.py:632-839).                                                   *)
THEOREM OutboxKeepsItsPromise == Spec => PromiseSpec
<1>1. Init => Promise!Init
  BY RowFacts DEF Init, Promise!Init, Verdict
<1>2. OutboxInv /\ [Next]_vars => [Promise!Next]_Promise!vars
  <2> SUFFICES ASSUME OutboxInv, [Next]_vars
               PROVE  [Promise!Next]_Promise!vars
    OBVIOUS
  <2>1. ASSUME activation' = activation,
               \A i \in Instructions :
                 \/ status'[i] = status[i]
                 \/ status[i] \notin Terminal /\ status'[i] \notin Terminal
        PROVE  UNCHANGED Promise!vars
    BY <2>1, SameVerdicts DEF Promise!vars
  <2>2. CASE Activate
    <3>1. [i \in Instructions |-> Verdict(i)]'
            = [i \in Instructions |-> Verdict(i)]
      BY <2>2, RowFacts, SameVerdicts
         DEF Activate, OutboxInv, Untouched, Terminal
    <3> QED
      BY <2>2, <3>1 DEF Activate, Promise!Next, Promise!Begin
  <2>3. ASSUME NEW w \in Workers, Claim(w)
        PROVE  UNCHANGED Promise!vars
    BY <2>1, <2>3, RowFacts DEF Claim, Eligible, Terminal, outcome
  <2>4. ASSUME NEW w \in Workers, ResolveRow(w)
        PROVE  UNCHANGED Promise!vars
    <3>1. /\ current[w] \in Rows /\ status \in [Rows -> Statuses]
          /\ status' = [status EXCEPT ![current[w]] = NewStatus(w)]
          /\ current[w] \notin Instructions \/ ~IsTerminal(w)
          /\ status[current[w]] = "PROCESSING"
          /\ activation' = activation
      BY <2>4 DEF ResolveRow, OutboxInv, TypeOK, Working, Owns, outcome
    <3>2. \A i \in Instructions :
            \/ status'[i] = status[i]
            \/ status[i] \notin Terminal /\ status'[i] \notin Terminal
      BY <3>1, RowFacts, NewStatusCases DEF Terminal
    <3> QED
      BY <2>1, <3>1, <3>2
  <2>5. ASSUME NEW w \in Workers, Finalize(w)
        PROVE  Promise!Next
    BY <2>5, FinalizeJudges DEF Promise!Next
  <2>6. ASSUME UNCHANGED <<activation, status>>
        PROVE  UNCHANGED Promise!vars
    BY <2>1, <2>6
  <2>7. ASSUME NEW w \in Workers, Step(w)
        PROVE  [Promise!Next]_Promise!vars
    BY <2>3, <2>4, <2>5, <2>6, <2>7
       DEF Step, Deliver, ResolveStale, ResolveInstruction, LockActivation,
           outcome, table
  <2>8. ASSUME NEW w \in Workers, Crash(w)
        PROVE  UNCHANGED Promise!vars
    BY <2>6, <2>8 DEF Crash, outcome, table
  <2>9. CASE (\E t \in Rows : TimePasses(t)) \/ UNCHANGED vars
    BY <2>6, <2>9 DEF TimePasses, vars, outcome, table
  <2> QED
    BY <2>2, <2>7, <2>8, <2>9 DEF Next
<1> QED
  BY <1>1, <1>2, OutboxInvariant, PTL DEF Spec, PromiseSpec, Promise!Spec

=============================================================================
