------------------------------- MODULE Outbox -------------------------------
(***************************************************************************)
(* The transactional outbox: the rows one durable activation leaves in     *)
(* der_flex_outbox, and the workers that deliver them and record every     *)
(* outcome (OutboxProcessor over PostgresReservationBackend).  The queries *)
(* about a row name its event and its activation, so activations meet only *)
(* in the LIMIT of a batch.                                                *)
(*                                                                         *)
(* A worker's transactions are split where another one can come between:   *)
(* the claim and a plain resolution are one step each, a resolution that   *)
(* may end the activation holds its row lock, then takes the lock on the   *)
(* activation, then reads and writes.  Uncommitted writes are seen by      *)
(* nobody, so they appear in the state when the transaction commits.       *)
(*                                                                         *)
(* Time is reduced to one bit per row, due: the instant the row waits for  *)
(* (available_at, or locked_until while it is PROCESSING) has come.        *)
(***************************************************************************)
EXTENDS Integers, FiniteSets

CONSTANTS
  Instructions,  \* allocation indices, one RESOURCE row each
  Callback,      \* the reservation has a callback_url
  Workers,       \* processes that run OutboxProcessor
  MaxAttempts,   \* max_attempts
  BatchLimit,    \* the LIMIT of a claim
  MaxClaims,     \* bound: claims of one row while its workers are alive
  MaxCrashes,    \* bound: crashes of workers
  NoRow

Final == "activation.final"    \* activation.completed or activation.failed
Notices ==
  IF Callback THEN {"activation.accepted", "activation.started", Final} ELSE {}
Rows == Instructions \cup Notices

ASSUME OutboxAssumption ==
  /\ IsFiniteSet(Instructions) /\ Instructions # {}
  /\ Instructions \cap {"activation.accepted", "activation.started", Final} = {}
  /\ Callback \in BOOLEAN
  /\ MaxAttempts \in Nat \ {0} /\ BatchLimit \in Nat \ {0}
  /\ MaxClaims \in Nat /\ MaxClaims >= MaxAttempts /\ MaxCrashes \in Nat
  /\ NoRow \notin Rows

VARIABLES
  activation,  \* der_flex_activations.status, "NONE" before the row exists
  counts,      \* its accepted and rejected instruction counts
  reservation, \* der_flex_reservations.status
  kept,        \* allocations of the reservation that are still stored
  status,      \* der_flex_outbox.status, "ABSENT" before the row exists
  attempts,    \* der_flex_outbox.attempts
  due,         \* see above
  hold,        \* hold[w][t]: the attempt under which w has t in its batch, or 0
  pc,          \* where worker w is in run_once
  current,     \* the row worker w works on
  answer,      \* what its delivery returned
  accepted,    \* the accepted_indices it has read, if its row was the last
  took,        \* ghost: the destination acted on the row at least once
  declined,    \* ghost: the resource turned the instruction down
  crashes

table == <<status, attempts, due>>
outcome == <<activation, counts, reservation, kept>>
worker == <<hold, pc, current, answer, accepted>>
ghosts == <<took, declined>>
vars == <<outcome, table, worker, ghosts, crashes>>

Terminal == {"DELIVERED", "DEAD"}
NoResult == {NoRow}   \* what no set of accepted instructions equals
NoCounts == [accepted |-> 0, rejected |-> 0]

InTransaction(w) == pc[w] \in {"resolving", "finalizing"}
RowLocked(t) == \E w \in Workers : InTransaction(w) /\ current[w] = t

Init ==
  /\ activation = "NONE" /\ counts = NoCounts
  /\ reservation = "CONFIRMED" /\ kept = Instructions
  /\ status = [t \in Rows |-> "ABSENT"]
  /\ attempts = [t \in Rows |-> 0]
  /\ due = [t \in Rows |-> FALSE]
  /\ hold = [w \in Workers |-> [t \in Rows |-> 0]]
  /\ pc = [w \in Workers |-> "ready"]
  /\ current = [w \in Workers |-> NoRow]
  /\ answer = [w \in Workers |-> "none"]
  /\ accepted = [w \in Workers |-> NoResult]
  /\ took = [t \in Rows |-> FALSE]
  /\ declined = [t \in Rows |-> FALSE]
  /\ crashes = 0

(* _activate_durable: the activation, the new status of the reservation    *)
(* and all rows in one transaction.  A repeated call finds the activation  *)
(* and changes nothing.                                                    *)
Activate ==
  /\ activation = "NONE"
  /\ activation' = "PENDING"
  /\ reservation' = "ACTIVATED"
  /\ status' = [t \in Rows |-> IF t = Final THEN "ABSENT" ELSE "PENDING"]
  /\ due' = [t \in Rows |-> t # Final]
  /\ UNCHANGED <<counts, kept, attempts, worker, ghosts, crashes>>

-----------------------------------------------------------------------------
(* claim_outbox *)

Rank(t) ==
  CASE t = "activation.accepted" -> 0
    [] t = "activation.started" -> 1
    [] t = Final -> 3
    [] OTHER -> 2

(* Mutant of Eligible: an expired lease does not free the row. *)
EligibleUnlessClaimed ==
  {t \in Rows : status[t] \in {"PENDING", "RETRY"} /\ due[t] /\ ~RowLocked(t)}

Eligible ==
  {t \in Rows : /\ status[t] \in {"PENDING", "RETRY", "PROCESSING"}
                /\ due[t]
                /\ ~RowLocked(t)}

(* The first rows in the order of the query; rows another transaction has  *)
(* locked are skipped, and rows of other activations take a part of LIMIT. *)
IsBatch(batch) ==
  /\ batch # {}
  /\ Cardinality(batch) <= BatchLimit
  /\ \A t \in batch, u \in Eligible \ batch : Rank(t) <= Rank(u)

(* Mutant of NextAttempt: a row taken over keeps its attempt number.       *)
NextAttemptOnlyIfNew(t) ==
  IF status[t] = "PROCESSING" THEN attempts[t] ELSE attempts[t] + 1

NextAttempt(t) == attempts[t] + 1

Claim(w) ==
  /\ pc[w] = "ready" /\ \A t \in Rows : hold[w][t] = 0
  /\ \E batch \in SUBSET Eligible :
       /\ IsBatch(batch)
       /\ status' = [t \in Rows |->
                       IF t \in batch THEN "PROCESSING" ELSE status[t]]
       /\ attempts' = [t \in Rows |->
                         IF t \in batch THEN NextAttempt(t) ELSE attempts[t]]
       /\ due' = [t \in Rows |-> due[t] /\ t \notin batch]
       /\ hold' = [hold EXCEPT ![w] =
                     [t \in Rows |-> IF t \in batch THEN NextAttempt(t) ELSE 0]]
  /\ UNCHANGED <<outcome, pc, current, answer, accepted, ghosts, crashes>>

-----------------------------------------------------------------------------
(* _deliver: the batch comes back in no particular order.  A call may fail *)
(* before or after the destination acted; only a resource can refuse.      *)
Deliver(w, t) ==
  /\ pc[w] = "ready" /\ hold[w][t] > 0
  /\ \/ /\ took' = [took EXCEPT ![t] = TRUE]
        /\ answer' = [answer EXCEPT ![w] = "delivered"]
        /\ UNCHANGED declined
     \/ /\ \E acted \in BOOLEAN :
             took' = [took EXCEPT ![t] = @ \/ acted]
        /\ answer' = [answer EXCEPT ![w] = "failed"]
        /\ UNCHANGED declined
     \/ /\ t \in Instructions
        /\ declined' = [declined EXCEPT ![t] = TRUE]
        /\ answer' = [answer EXCEPT ![w] = "rejected"]
        /\ UNCHANGED took
  /\ pc' = [pc EXCEPT ![w] = "answered"]
  /\ current' = [current EXCEPT ![w] = t]
  /\ UNCHANGED <<outcome, table, hold, accepted, crashes>>

-----------------------------------------------------------------------------
(* resolve_outbox *)

(* Mutant of Exhausted: one attempt too few. *)
ExhaustedEarly(t) == attempts[t] + 1 >= MaxAttempts

Exhausted(t) == attempts[t] >= MaxAttempts

IsTerminal(w) == answer[w] # "failed" \/ Exhausted(current[w])

(* Mutant of NewStatus: a status of activations is written to the row.     *)
NewStatusMisnamed(w) ==
  IF answer[w] = "delivered" THEN "DELIVERED"
  ELSE IF IsTerminal(w) THEN "FAILED" ELSE "RETRY"

(* Mutant of NewStatus: terminal is taken for delivered. *)
NewStatusTerminal(w) ==
  IF IsTerminal(w) /\ answer[w] # "rejected" THEN "DELIVERED"
  ELSE IF IsTerminal(w) THEN "DEAD" ELSE "RETRY"

NewStatus(w) ==
  IF answer[w] = "delivered" THEN "DELIVERED"
  ELSE IF IsTerminal(w) THEN "DEAD" ELSE "RETRY"

(* Mutant of Owns: the row is not compared at all. *)
OwnsUnfenced(w) == hold[w][current[w]] > 0

(* The row is still this worker's: nobody claimed it again since. *)
Owns(w) ==
  /\ status[current[w]] = "PROCESSING"
  /\ attempts[current[w]] = hold[w][current[w]]

(* The worker is done with its current row and turns to the next one. *)
Done(w) ==
  /\ hold' = [hold EXCEPT ![w][current[w]] = 0]
  /\ pc' = [pc EXCEPT ![w] = "ready"]
  /\ current' = [current EXCEPT ![w] = NoRow]
  /\ answer' = [answer EXCEPT ![w] = "none"]
  /\ accepted' = [accepted EXCEPT ![w] = NoResult]

(* The answer comes too late and is dropped. *)
ResolveStale(w) ==
  /\ pc[w] = "answered" /\ ~RowLocked(current[w])
  /\ ~Owns(w)
  /\ Done(w)
  /\ UNCHANGED <<outcome, table, ghosts, crashes>>

(* A retry, or the last word on a webhook. *)
ResolveRow(w) ==
  /\ pc[w] = "answered" /\ ~RowLocked(current[w])
  /\ Owns(w)
  /\ current[w] \notin Instructions \/ ~IsTerminal(w)
  /\ status' = [status EXCEPT ![current[w]] = NewStatus(w)]
  /\ due' = [due EXCEPT ![current[w]] = FALSE]
  /\ Done(w)
  /\ UNCHANGED <<outcome, attempts, ghosts, crashes>>

(* The last word on an instruction: the row is updated and stays locked    *)
(* while _finalize_activation asks for the activation.                     *)
ResolveInstruction(w) ==
  /\ pc[w] = "answered" /\ ~RowLocked(current[w])
  /\ Owns(w)
  /\ current[w] \in Instructions /\ IsTerminal(w)
  /\ pc' = [pc EXCEPT ![w] = "resolving"]
  /\ UNCHANGED <<outcome, table, hold, current, answer, accepted, ghosts,
                 crashes>>

(* Mutant of ActivationFree: the activation is read without FOR UPDATE. *)
ActivationAlwaysFree == TRUE

ActivationFree == \A v \in Workers : pc[v] # "finalizing"

(* The statuses as the transaction of w sees them: what is committed, and  *)
(* its own update. *)
Resolved(w) == [status EXCEPT ![current[w]] = NewStatus(w)]

(* _finalize_activation locks the activation and reads the rows.  While it *)
(* holds the lock no other instruction gets its last word, so reading at   *)
(* once is as good as reading later. *)
LockActivation(w) ==
  /\ pc[w] = "resolving"
  /\ ActivationFree
  /\ pc' = [pc EXCEPT ![w] = "finalizing"]
  /\ accepted' = [accepted EXCEPT ![w] =
       IF activation = "PENDING"
          /\ \A i \in Instructions : Resolved(w)[i] \in Terminal
         THEN {i \in Instructions : Resolved(w)[i] = "DELIVERED"}
         ELSE NoResult]
  /\ UNCHANGED <<outcome, table, hold, current, answer, ghosts, crashes>>

(* The activation, its reservation, the stored allocations and the final   *)
(* webhook. *)
Settle(w) ==
  /\ activation' = IF accepted[w] = Instructions THEN "COMPLETED" ELSE "FAILED"
  /\ counts' = [accepted |-> Cardinality(accepted[w]),
                rejected |-> Cardinality(Instructions \ accepted[w])]
  /\ reservation' = activation'
  /\ kept' = kept \cap accepted[w]
  /\ status' = [t \in Rows |-> IF t = Final THEN "PENDING" ELSE Resolved(w)[t]]
  /\ due' = [t \in Rows |-> IF t = Final THEN TRUE ELSE due[t]]

(* The rest of _finalize_activation, and the commit. *)
Finalize(w) ==
  /\ pc[w] = "finalizing"
  /\ IF accepted[w] # NoResult
       THEN Settle(w)
       ELSE status' = Resolved(w) /\ UNCHANGED <<outcome, due>>
  /\ Done(w)
  /\ UNCHANGED <<attempts, ghosts, crashes>>

-----------------------------------------------------------------------------
(* A worker dies, or loses its connection: what it has not committed is    *)
(* rolled back, and it starts again with an empty batch.                   *)
Crash(w) ==
  /\ crashes < MaxCrashes
  /\ pc[w] # "ready" \/ \E t \in Rows : hold[w][t] > 0
  /\ hold' = [hold EXCEPT ![w] = [t \in Rows |-> 0]]
  /\ pc' = [pc EXCEPT ![w] = "ready"]
  /\ current' = [current EXCEPT ![w] = NoRow]
  /\ answer' = [answer EXCEPT ![w] = "none"]
  /\ accepted' = [accepted EXCEPT ![w] = NoResult]
  /\ crashes' = crashes + 1
  /\ UNCHANGED <<outcome, table, ghosts>>

(* A lease runs out or a retry falls due.  Bound: a worker that is alive   *)
(* loses a lease only while the row has been claimed fewer than MaxClaims  *)
(* times.                                                                  *)
TimePasses(t) ==
  /\ status[t] \in {"RETRY", "PROCESSING"} /\ ~due[t]
  /\ \/ attempts[t] < MaxClaims
     \/ \A w \in Workers : hold[w][t] # attempts[t]
  /\ due' = [due EXCEPT ![t] = TRUE]
  /\ UNCHANGED <<outcome, status, attempts, worker, ghosts, crashes>>

Step(w) ==
  \/ Claim(w)
  \/ \E t \in Rows : Deliver(w, t)
  \/ ResolveStale(w) \/ ResolveRow(w) \/ ResolveInstruction(w)
  \/ LockActivation(w) \/ Finalize(w)

Next ==
  \/ Activate
  \/ \E w \in Workers : Step(w) \/ Crash(w)
  \/ \E t \in Rows : TimePasses(t)

Spec == Init /\ [][Next]_vars

(* Workers keep running, and time goes on.  Nothing is assumed of what the *)
(* destinations answer, of crashes, or of anyone calling activate.         *)
FairSpec ==
  /\ Spec
  /\ \A w \in Workers : WF_vars(Step(w))
  /\ \A t \in Rows : WF_vars(TimePasses(t))

-----------------------------------------------------------------------------
Statuses == {"ABSENT", "PENDING", "PROCESSING", "RETRY", "DELIVERED", "DEAD"}

(* Types of the state. *)
TypeOK ==
  /\ activation \in {"NONE", "PENDING", "COMPLETED", "FAILED"}
  /\ counts \in [accepted : Nat, rejected : Nat]
  /\ reservation \in {"CONFIRMED", "ACTIVATED", "COMPLETED", "FAILED"}
  /\ kept \subseteq Instructions
  /\ status \in [Rows -> Statuses]
  /\ attempts \in [Rows -> Nat]
  /\ due \in [Rows -> BOOLEAN]
  /\ hold \in [Workers -> [Rows -> Nat]]
  /\ pc \in [Workers -> {"ready", "answered", "resolving", "finalizing"}]
  /\ current \in [Workers -> Rows \cup {NoRow}]
  /\ answer \in [Workers -> {"none", "delivered", "failed", "rejected"}]
  /\ accepted \in [Workers -> (SUBSET Instructions) \cup {NoResult}]
  /\ took \in [Rows -> BOOLEAN] /\ declined \in [Rows -> BOOLEAN]
  /\ crashes \in 0..MaxCrashes

(* The attempt number is a token: however leases run out and batches       *)
(* overlap, an attempt has one worker, nobody holds an attempt the row has *)
(* not reached, and nobody decides a row over the head of the worker that  *)
(* holds its latest attempt (postgres.py:632-683, 700-706).                *)
OneWorkerPerAttempt ==
  \A w, v \in Workers, t \in Rows :
    /\ hold[w][t] <= attempts[t]
    /\ hold[w][t] = hold[v][t] /\ hold[w][t] > 0 => w = v
    /\ hold[w][t] = attempts[t] /\ hold[w][t] > 0 => status[t] = "PROCESSING"

(* A row is given up only when its resource turned it down or when the     *)
(* attempts are spent, and it waits for a retry only while some are left   *)
(* (postgres.py:708-718).                                                  *)
BudgetIsSpent ==
  \A t \in Rows :
    /\ status[t] = "DEAD" => declined[t] \/ attempts[t] >= MaxAttempts
    /\ status[t] = "RETRY" => attempts[t] < MaxAttempts

(* Nothing is recorded as accepted that its destination did not act on:    *)
(* capacity stays sold only where a resource took the instruction          *)
(* (postgres.py:708-735, 761-813).                                         *)
AcceptedWasTaken ==
  /\ \A t \in Rows : status[t] = "DELIVERED" => took[t]
  /\ reservation \in {"COMPLETED", "FAILED"} =>
       \A i \in kept : took[i]

(* Reservation, activation and outbox settle together.  Until the last     *)
(* instruction has its outcome all is pending and no final webhook exists; *)
(* from then on status, counts, stored allocations and the final webhook   *)
(* agree with the outcomes (postgres.py:737-839).                          *)
Delivered == {i \in Instructions : status[i] = "DELIVERED"}

SettledTogether ==
  IF activation \in {"NONE", "PENDING"}
  THEN /\ kept = Instructions
       /\ reservation = IF activation = "NONE" THEN "CONFIRMED" ELSE "ACTIVATED"
       /\ \E i \in Instructions : status[i] \notin Terminal
       /\ Callback => status[Final] = "ABSENT"
  ELSE /\ kept = Delivered
       /\ reservation = activation
       /\ activation = "COMPLETED" <=> kept = Instructions
       /\ counts.accepted = Cardinality(kept)
       /\ counts.accepted + counts.rejected = Cardinality(Instructions)
       /\ \A i \in Instructions : status[i] \in Terminal
       /\ Callback => status[Final] # "ABSENT"

Verdict(i) ==
  CASE status[i] = "DELIVERED" -> "accepted"
    [] status[i] = "DEAD" -> "rejected"
    [] OTHER -> "open"

(* The outbox keeps the promise of ActivationOutcome: one verdict per      *)
(* instruction, never revised, and the result in the same step as the last *)
(* one.                                                                    *)
Promise == INSTANCE ActivationOutcome WITH
  result <- activation,
  verdict <- [i \in Instructions |-> Verdict(i)]
PromiseSpec == Promise!Spec

(* Every activation comes to a result, whatever fails, crashes or comes    *)
(* too late on the way (outbox.py:35-62, postgres.py:632-735).             *)
EveryActivationSettles ==
  activation = "PENDING" ~> activation \in {"COMPLETED", "FAILED"}

(* Every webhook is delivered or given up; the final one too.              *)
EveryNoticeEnds ==
  \A t \in Notices : status[t] = "PENDING" ~> status[t] \in Terminal

=============================================================================
