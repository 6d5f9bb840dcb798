---------------------------- MODULE HttpAdmission ----------------------------
(***************************************************************************)
(* The middlewares every HTTP request passes before its endpoint:          *)
(* StructuredLoggingMiddleware counts it in and out,                       *)
(* ConcurrencyLimitMiddleware gives it one of max_in_flight slots or sheds *)
(* it, RequestBodyLimitMiddleware reads its body, up to a limit, before    *)
(* the endpoint is called at all.                                          *)
(*                                                                         *)
(* Requests interleave at every await, and at every await a request may    *)
(* break off: the client is gone, the endpoint raises, the server cancels. *)
(***************************************************************************)
EXTENDS Integers, FiniteSets

CONSTANTS
  Requests,
  Observers,   \* requests for one of _BYPASS_PATHS
  MaxInFlight,
  MaxBytes,
  Chunks,      \* bound: sizes of http.request messages
  Answers,     \* statuses endpoints and exception handlers answer with
  Diligent     \* requests whose client goes on sending until the last chunk

ASSUME AdmissionAssumption ==
  /\ IsFiniteSet(Requests) /\ Diligent \subseteq Requests
  /\ Observers \subseteq Requests
  /\ MaxInFlight \in Nat \ {0} /\ MaxBytes \in Nat
  /\ Chunks \subseteq Nat /\ Answers \subseteq Nat

Statuses == Answers \cup {400, 413, 500, 503}

(* What the Content-Length of a request says. *)
Lengths == {"none", "invalid", "large", "fits"}

VARIABLES
  stage,
  received, \* bytes of the body so far
  status,   \* status_code, 500 before the response starts
  active,   \* ConcurrencyLimitMiddleware._active
  inFlight, \* MetricsRegistry._in_flight
  shed,     \* MetricsRegistry._shed
  observed  \* MetricsRegistry._requests

counters == <<active, inFlight, shed, observed>>
path == <<stage, received, status>>
admission == <<path, counters>>

AdmissionInit ==
  /\ stage = [r \in Requests |-> "new"]
  /\ received = [r \in Requests |-> 0]
  /\ status = [r \in Requests |-> 500]
  /\ active = 0 /\ inFlight = 0 /\ shed = 0
  /\ observed = [s \in Statuses |-> 0]

Go(r, next) == stage' = [stage EXCEPT ![r] = next]

(* The response starts, and the middlewares are left one by one. *)
Depart(r) == Go(r, "leaving") /\ received' = [received EXCEPT ![r] = 0]
Answer(r, s) == Depart(r) /\ status' = [status EXCEPT ![r] = s]

-----------------------------------------------------------------------------
(* StructuredLoggingMiddleware: request_started *)
Arrive(r) ==
  /\ stage[r] = "new"
  /\ inFlight' = inFlight + 1
  /\ Go(r, "arrived")
  /\ UNCHANGED <<received, status, active, shed, observed>>

(* Mutant of Bypasses: health and metrics need a slot like the others. *)
BypassesNever(r) == r \notin Requests

Bypasses(r) == r \in Observers

Bypass(r) ==
  /\ stage[r] = "arrived" /\ Bypasses(r)
  /\ Go(r, "entering")
  /\ UNCHANGED <<received, status, counters>>

Enter(r) ==
  /\ stage[r] = "arrived" /\ ~Bypasses(r)
  /\ active < MaxInFlight
  /\ active' = active + 1
  /\ Go(r, "entering")
  /\ UNCHANGED <<received, status, inFlight, shed, observed>>

(* Shed with 503; there is no slot to give back. *)
Shed(r) ==
  /\ stage[r] = "arrived" /\ ~Bypasses(r)
  /\ active >= MaxInFlight
  /\ shed' = shed + 1
  /\ status' = [status EXCEPT ![r] = 503]
  /\ Go(r, "left")
  /\ UNCHANGED <<received, active, inFlight, observed>>

-----------------------------------------------------------------------------
(* RequestBodyLimitMiddleware *)
CheckLength(r, declared) ==
  /\ stage[r] = "entering"
  /\ \/ declared = "invalid" /\ Answer(r, 400)
     \/ declared = "large" /\ Answer(r, 413)
     \/ /\ declared \in {"none", "fits"}
        /\ Go(r, "reading") /\ UNCHANGED <<received, status>>
  /\ UNCHANGED counters

(* Mutant of Whole: a declared length is relied upon. *)
WholeAsDeclared(size) == size \in Nat

Whole(size) == size <= MaxBytes

(* A chunk of the body. *)
ReceiveChunk(r, bytes, more) ==
  LET size == received[r] + bytes IN
  /\ stage[r] = "reading"
  /\ IF ~Whole(size)
       THEN Answer(r, 413)
       ELSE /\ received' = [received EXCEPT ![r] = size]
            /\ Go(r, IF more THEN "reading" ELSE "handling")
            /\ UNCHANGED status
  /\ UNCHANGED counters

(* http.disconnect ends the body, and the endpoint is called. *)
Disconnect(r) ==
  /\ stage[r] = "reading"
  /\ Go(r, "handling")
  /\ UNCHANGED <<received, status, counters>>

(* The endpoint, or an exception handler for it. *)
Handle(r, s) ==
  /\ stage[r] = "handling"
  /\ Answer(r, s)
  /\ UNCHANGED counters

(* An exception nobody handles. *)
Break(r) ==
  /\ stage[r] \in {"reading", "handling"}
  /\ Depart(r)
  /\ UNCHANGED <<status, counters>>

-----------------------------------------------------------------------------
(* Mutant of Released: a request that broke off keeps its slot. *)
ReleasedUnlessBroken(r) ==
  IF Bypasses(r) \/ status[r] = 500 THEN active ELSE active - 1

Released(r) == IF Bypasses(r) THEN active ELSE active - 1

(* finally of ConcurrencyLimitMiddleware *)
Leave(r) ==
  /\ stage[r] = "leaving"
  /\ active' = Released(r)
  /\ Go(r, "left")
  /\ UNCHANGED <<received, status, inFlight, shed, observed>>

Bucket(r) == status[r]

(* finally of StructuredLoggingMiddleware: observe *)
Observe(r) ==
  /\ stage[r] = "left"
  /\ inFlight' = inFlight - 1
  /\ observed' = [observed EXCEPT ![Bucket(r)] = @ + 1]
  /\ Go(r, "done")
  /\ UNCHANGED <<received, status, active, shed>>

-----------------------------------------------------------------------------
Server(r) ==
  \/ Arrive(r) \/ Bypass(r) \/ Enter(r) \/ Shed(r)
  \/ \E declared \in Lengths : CheckLength(r, declared)
  \/ \E s \in Answers : Handle(r, s)
  \/ Leave(r) \/ Observe(r)

Client(r) ==
  \/ \E bytes \in Chunks, more \in BOOLEAN : ReceiveChunk(r, bytes, more)
  \/ Disconnect(r)

AdmissionNext ==
  \/ \E r \in Requests : Server(r)
  \/ \E r \in Requests : Client(r)
  \/ \E r \in Requests : Break(r)

AdmissionSpec == AdmissionInit /\ [][AdmissionNext]_admission

LastChunk(r) ==
  \/ \E bytes \in Chunks : ReceiveChunk(r, bytes, FALSE)
  \/ Disconnect(r)

(* The server works on; a diligent client ends its body at last.  Nothing  *)
(* in the code makes the other clients go on. *)
Fairness ==
  /\ \A r \in Requests : WF_admission(Server(r))
  /\ \A r \in Diligent : SF_admission(LastChunk(r))

FairAdmissionSpec == AdmissionSpec /\ Fairness

-----------------------------------------------------------------------------
Inside == {"arrived", "entering", "reading", "handling", "leaving", "left"}

(* Types of the state; no endpoint is called with more than the limit.     *)
AdmissionTypeOK ==
  /\ stage \in [Requests -> {"new", "done"} \cup Inside]
  /\ received \in [Requests -> Nat]
  /\ \A r \in Requests : stage[r] = "handling" => received[r] <= MaxBytes
  /\ status \in [Requests -> Statuses]
  /\ active \in Nat /\ inFlight \in Nat /\ shed \in Nat
  /\ observed \in [Statuses -> Nat]

Holding ==
  {r \in Requests :
     ~Bypasses(r) /\ stage[r] \in {"entering", "reading", "handling", "leaving"}}

(* Nobody else's 503 is counted as shed; all are, unless endpoints answer  *)
(* 503 too. *)
ShedIsCounted ==
  LET unavailable == Cardinality({r \in Requests : status[r] = 503})
  IN  /\ shed <= unavailable
      /\ 503 \notin Answers => shed = unavailable

(* Whatever way a request leaves, answered, refused, shed, or broken off   *)
(* at any await: its slot comes back, the gauge goes down, and it is       *)
(* counted once, with the status its client saw, and as shed if it was     *)
(* (observability.py:29-44, 115-137, 219-251).                             *)
RequestsAccounted ==
  /\ active = Cardinality(Holding) /\ active <= MaxInFlight
  /\ inFlight = Cardinality({r \in Requests : stage[r] \in Inside})
  /\ \A s \in Statuses :
       observed[s] =
         Cardinality({r \in Requests : stage[r] = "done" /\ status[r] = s})
  /\ ShedIsCounted

(* A request whose client ends its body is finished however many slots     *)
(* others hold without ever sending theirs; and one for health or metrics  *)
(* is not shed, so that a full server can still be observed                *)
(* (observability.py:103, 106, 116-118, 175-188).                          *)
DiligentAnswered ==
  \A r \in Diligent :
    stage[r] = "arrived" ~>
      /\ stage[r] = "done"
      /\ r \in Observers /\ status[r] = 503 => 503 \in Answers
=============================================================================
