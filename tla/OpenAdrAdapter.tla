--------------------------- MODULE OpenAdrAdapter ---------------------------
(***************************************************************************)
(* OpenADRAdapter.handle_event over ReservationService with the in-memory  *)
(* backend: one event with several intervals, delivered again and again,   *)
(* also while an earlier delivery is still being handled.                  *)
(*                                                                         *)
(* create and activate each hold the lock of the backend, in between       *)
(* anybody may cancel a reservation and time may run out.  Both are taken  *)
(* apart inside the lock: create turns by turn of the allocation loop,     *)
(* activate resource by resource, each of which may take the instruction,  *)
(* refuse it, or raise.                                                    *)
(***************************************************************************)
EXTENDS AllocationLoop

CONSTANTS
  Handlers,
  LastInterval,  \* the intervals of the event are 1..LastInterval
  Requested      \* Requested[i]: the dispatch value of interval i

Intervals == 1..LastInterval

ASSUME EventAssumption ==
  /\ LastInterval \in Nat \ {0}
  /\ Requested \in [Intervals -> Powers]

VARIABLES
  stage,      \* where a handler is in handle_event, or how it left
  at,         \* the interval it is at
  held,       \* allocated_power_kw of the reservation create returned to it
  status,     \* of the reservation with the key of interval i, or "NONE"
  claim,      \* its allocations
  activation, \* its activation's status, or "NONE"
  unasked,    \* resources the running activation has still to instruct
  accepted,   \* resources that took its instruction
  reported    \* ghost: the reports that were built for interval i

handlers == <<stage, at, held>>
reservations == <<status, claim, activation>>
asking == <<unasked, accepted>>
loop == <<vars>>
all == <<loop, handlers, reservations, asking, reported>>

Inside == {"allocating", "instructing"}
Left == {"idle", "answered", "short", "raised"}

NoLoop ==
  /\ offer = [s \in Resources |-> NoOffer] /\ reserved = NoClaim
  /\ power = 0 /\ pending = {} /\ remaining = 0
  /\ allocations = NoClaim /\ outcome = "none"

LeaveLoop ==
  /\ offer' = [s \in Resources |-> NoOffer] /\ reserved' = NoClaim
  /\ power' = 0 /\ pending' = {} /\ remaining' = 0
  /\ allocations' = NoClaim /\ outcome' = "none"

AdapterInit ==
  /\ NoLoop
  /\ stage = [h \in Handlers |-> "idle"]
  /\ at = [h \in Handlers |-> 1]
  /\ held = [h \in Handlers |-> 0]
  /\ status = [i \in Intervals |-> "NONE"]
  /\ claim = [i \in Intervals |-> NoClaim]
  /\ activation = [i \in Intervals |-> "NONE"]
  /\ unasked = {} /\ accepted = {}
  /\ reported = [i \in Intervals |-> {}]

(* Mutant of Unlocked: the backend has no lock. *)
UnlockedAlways == TRUE

Unlocked == \A h \in Handlers : stage[h] \notin Inside

Go(h, next) == stage' = [stage EXCEPT ![h] = next]

(* The call ends without a result: whatever was read is gone. *)
Fail(h, how) == Go(h, how) /\ held' = [held EXCEPT ![h] = 0]

-----------------------------------------------------------------------------
Deliver(h) ==
  /\ stage[h] \in Left
  /\ Go(h, "creating")
  /\ at' = [at EXCEPT ![h] = 1]
  /\ UNCHANGED <<loop, held, reservations, asking, reported>>

(* Mutant of Known: the key of the interval is not looked up. *)
KnownNever(i) == i \notin Intervals

Known(i) == status[i] # "NONE"

(* create returns the reservation of the key whatever has become of it. *)
FindReservation(h) ==
  /\ stage[h] = "creating" /\ Unlocked
  /\ Known(at[h])
  /\ held' = [held EXCEPT ![h] = Total(claim[at[h]])]
  /\ Go(h, "activating")
  /\ UNCHANGED <<loop, at, reservations, asking, reported>>

(* Otherwise it looks for capacity: o is what the eligible offers say, c   *)
(* what other reservations hold of it.                                     *)
SeekCapacity(h, o, c) ==
  /\ stage[h] = "creating" /\ Unlocked
  /\ ~Known(at[h])
  /\ IF Cardinality(Participants(o)) < MinimumParticipants
       THEN Fail(h, "short") /\ UNCHANGED loop
       ELSE /\ offer' = o /\ reserved' = c
            /\ power' = Requested[at[h]]
            /\ remaining' = power'
            /\ pending' = Participants(o)
            /\ allocations' = NoClaim /\ outcome' = "looping"
            /\ Go(h, "allocating")
            /\ UNCHANGED held
  /\ UNCHANGED <<at, reservations, asking, reported>>

Turn == Next /\ UNCHANGED <<handlers, reservations, asking, reported>>

Confirm(h) ==
  /\ stage[h] = "allocating" /\ outcome = "confirmed"
  /\ status' = [status EXCEPT ![at[h]] = "CONFIRMED"]
  /\ claim' = [claim EXCEPT ![at[h]] = allocations]
  /\ activation' = [activation EXCEPT ![at[h]] = "NONE"]
  /\ held' = [held EXCEPT ![h] = Total(allocations)]
  /\ Go(h, "activating")
  /\ LeaveLoop
  /\ UNCHANGED <<at, asking, reported>>

RunShort(h) ==
  /\ stage[h] = "allocating" /\ outcome = "insufficient"
  /\ Fail(h, "short")
  /\ LeaveLoop
  /\ UNCHANGED <<at, reservations, asking, reported>>

-----------------------------------------------------------------------------
(* Mutant of Concluded: the status of the reservation is looked at first. *)
ConcludedIfConfirmed(i) == activation[i] # "NONE" /\ status[i] = "CONFIRMED"

(* activate returns an activation that exists. *)
Concluded(i) == activation[i] # "NONE"

(* _build_report, and on to the next interval *)
Report(h, result) ==
  /\ reported' = [reported EXCEPT ![at[h]] =
                    @ \cup {[kw |-> held[h], status |-> result]}]
  /\ held' = [held EXCEPT ![h] = 0]
  /\ IF at[h] = LastInterval
       THEN Go(h, "answered") /\ UNCHANGED at
       ELSE Go(h, "creating") /\ at' = [at EXCEPT ![h] = @ + 1]

FindActivation(h) ==
  /\ stage[h] = "activating" /\ Unlocked
  /\ Concluded(at[h])
  /\ Report(h, activation[at[h]])
  /\ UNCHANGED <<loop, reservations, asking>>

RefuseActivation(h) ==
  /\ stage[h] = "activating" /\ Unlocked
  /\ ~Concluded(at[h]) /\ status[at[h]] # "CONFIRMED"
  /\ Fail(h, "raised")
  /\ UNCHANGED <<loop, at, reservations, asking, reported>>

Activate(h) ==
  /\ stage[h] = "activating" /\ Unlocked
  /\ ~Concluded(at[h]) /\ status[at[h]] = "CONFIRMED"
  /\ unasked' = {s \in Resources : claim[at[h]][s] > 0}
  /\ Go(h, "instructing")
  /\ UNCHANGED <<loop, at, held, reservations, accepted, reported>>

(* The acceptor of s answers. *)
Instruct(h, s, takes) ==
  /\ stage[h] = "instructing"
  /\ s \in unasked /\ \A t \in unasked : s <= t
  /\ unasked' = unasked \ {s}
  /\ accepted' = IF takes THEN accepted \cup {s} ELSE accepted
  /\ UNCHANGED <<loop, handlers, reservations, reported>>

(* The acceptor of s raises: nothing is recorded. *)
InstructRaises(h, s) ==
  /\ stage[h] = "instructing"
  /\ s \in unasked /\ \A t \in unasked : s <= t
  /\ unasked' = {} /\ accepted' = {}
  /\ Fail(h, "raised")
  /\ UNCHANGED <<loop, at, reservations, reported>>

Asked(i) == {s \in Resources : claim[i][s] > 0}

(* Mutant of Result: what one resource took makes the activation complete. *)
ResultOfAny(i) == IF accepted = {} THEN "FAILED" ELSE "COMPLETED"

Result(i) == IF accepted = Asked(i) THEN "COMPLETED" ELSE "FAILED"

(* save_activation *)
Conclude(h) ==
  /\ stage[h] = "instructing" /\ unasked = {}
  /\ activation' = [activation EXCEPT ![at[h]] = Result(at[h])]
  /\ status' = [status EXCEPT ![at[h]] = Result(at[h])]
  /\ claim' = [claim EXCEPT ![at[h]] =
       [s \in Resources |-> IF s \in accepted THEN @[s] ELSE 0]]
  /\ accepted' = {}
  /\ Report(h, Result(at[h]))
  /\ UNCHANGED <<loop, unasked>>

-----------------------------------------------------------------------------
(* cancel by anybody, or expire at the beginning of any operation *)
Die(i, how) ==
  /\ Unlocked
  /\ status[i] = "CONFIRMED"
  /\ status' = [status EXCEPT ![i] = how]
  /\ UNCHANGED <<loop, handlers, claim, activation, asking, reported>>

Handle(h) ==
  \/ Deliver(h)
  \/ FindReservation(h)
  \/ \E o \in [Resources -> (0..MaxOffer) \cup {NoOffer}],
        c \in [Resources -> 0..MaxOffer] : SeekCapacity(h, o, c)
  \/ Confirm(h)
  \/ RunShort(h)
  \/ FindActivation(h)
  \/ RefuseActivation(h)
  \/ Activate(h)
  \/ \E s \in Resources : InstructRaises(h, s)
  \/ \E s \in Resources, takes \in BOOLEAN : Instruct(h, s, takes)
  \/ Conclude(h)

AdapterNext ==
  \/ \E h \in Handlers : Handle(h)
  \/ Turn
  \/ \E i \in Intervals, how \in {"CANCELLED", "EXPIRED"} : Die(i, how)

AdapterSpec == AdapterInit /\ [][AdapterNext]_all

(* A handler that holds the lock goes on, an event that was not answered   *)
(* is delivered again, and no acceptor raises for ever.                    *)
Fairness ==
  /\ WF_all(Turn)
  /\ \A h \in Handlers :
       /\ WF_all(Handle(h))
       /\ \A s \in Resources :
            SF_all(\E takes \in BOOLEAN : Instruct(h, s, takes))

FairAdapterSpec == AdapterSpec /\ Fairness

-----------------------------------------------------------------------------
(* Types of the state; the lock has one holder, and the loop and the       *)
(* instructions are his.                                                   *)
AdapterTypeOK ==
  /\ TypeOK
  /\ stage \in [Handlers -> {"creating", "activating"} \cup Inside \cup Left]
  /\ \A h, k \in Handlers : stage[h] \in Inside /\ stage[k] \in Inside => h = k
  /\ at \in [Handlers -> Intervals]
  /\ held \in [Handlers -> Nat]
  /\ status \in [Intervals -> {"NONE", "CONFIRMED", "COMPLETED", "FAILED",
                               "CANCELLED", "EXPIRED"}]
  /\ claim \in [Intervals -> Claims]
  /\ activation \in [Intervals -> {"NONE", "COMPLETED", "FAILED"}]
  /\ (outcome # "none") = (\E h \in Handlers : stage[h] = "allocating")
  /\ (\A h \in Handlers : stage[h] # "instructing") => unasked \cup accepted = {}
  /\ reported \in
       [Intervals -> SUBSET [kw : Nat, status : {"COMPLETED", "FAILED"}]]

(* However often and however concurrently the event is delivered, an       *)
(* interval has one activation: all reports of it tell the same result     *)
(* (docs/hito-4-openadr.md:38, adapter.py:74-83).                          *)
ReplayAgrees ==
  \A i \in Intervals : \A x, y \in reported[i] : x.status = y.status

(* The report gives the power read before the activation.  With confidence *)
(* 100 it is nevertheless exactly what the resources have taken, and what  *)
(* the event asked for; otherwise it is no less than what they have taken  *)
(* (adapter.py:83-84, 98-131, service.py:241-273).                         *)
ReportsCoverDelivery ==
  \A i \in Intervals : \A x \in reported[i] :
    /\ x.status = "COMPLETED" =>
         x.kw = Total(claim[i]) /\ x.kw = Requested[i]
    /\ Total(claim[i]) <= x.kw /\ x.kw <= Requested[i]

(* Once an interval has its activation no delivery fails at it any more,   *)
(* also when the reservation has left the state it was activated from: a   *)
(* delivery that broke off can be made up for by another one               *)
(* (service.py:222-233, adapter.py:74-82).                                 *)
ReplayNeverFails ==
  [][\A h \in Handlers :
       stage[h] \notin Left /\ stage'[h] \in {"short", "raised"} =>
         activation[at[h]] = "NONE"]_all

(* An event that is delivered until it is answered is answered, unless     *)
(* capacity stays short or a reservation dies before it is activated: its  *)
(* key is then used up, and every later delivery fails (adapter.py:74-82). *)
EventSettles ==
  \/ <>(\E h \in Handlers : stage[h] = "answered")
  \/ []<>(\E h \in Handlers : stage[h] = "short")
  \/ <>(\E i \in Intervals : status[i] \in {"CANCELLED", "EXPIRED"})
=============================================================================
