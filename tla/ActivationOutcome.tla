-------------------------- MODULE ActivationOutcome --------------------------
(***************************************************************************)
(* What an activation promises its buyer, whoever carries it out: it       *)
(* begins once, every instruction gets one verdict that never changes, and *)
(* the result is there as soon as the last verdict is, no sooner and no    *)
(* later.  There are no workers, attempts or leases here.                  *)
(***************************************************************************)

CONSTANT Instructions   \* one per allocation of the reservation

VARIABLES
  result,    \* "NONE", "PENDING", "COMPLETED" or "FAILED"
  verdict    \* verdict[i]: "open", "accepted" or "rejected"

vars == <<result, verdict>>

Init ==
  /\ result = "NONE"
  /\ verdict = [i \in Instructions |-> "open"]

Begin ==
  /\ result = "NONE"
  /\ result' = "PENDING"
  /\ UNCHANGED verdict

Conclusion(v) ==
  IF \E i \in Instructions : v[i] = "open" THEN "PENDING"
  ELSE IF \E i \in Instructions : v[i] = "rejected" THEN "FAILED"
  ELSE "COMPLETED"

Judge(i, v) ==
  /\ result = "PENDING"
  /\ verdict[i] = "open"
  /\ verdict' = [verdict EXCEPT ![i] = v]
  /\ result' = Conclusion(verdict')

Next ==
  \/ Begin
  \/ \E i \in Instructions, v \in {"accepted", "rejected"} : Judge(i, v)

Spec == Init /\ [][Next]_vars

=============================================================================
