--------------------------- MODULE MCProvisioning ---------------------------
EXTENDS Provisioning

Battery == [minPower |-> -6, maxPower |-> 6, minEnergy |-> 0,
            maxEnergy |-> 24, initial |-> 12, ramp |-> 6]

(* a charger: it cannot give energy back, but adjusts in one step *)
Charger == [minPower |-> 0, maxPower |-> 12, minEnergy |-> 0,
            maxEnergy |-> 24, initial |-> 6, ramp |-> 12]

MCEnvelopes == {Battery, Charger}

Announced(start, from, until) ==
  [start |-> start, from |-> from, until |-> until, offset |-> 0,
   range |-> [lowest |-> -6, highest |-> 12]]

(* aligned and not, with elements before and after the validity; the last  *)
(* five are refused or bring no offers *)
MCMessages ==
  {Announced(0, 0, 6), Announced(1, 2, 6)} \cup
  {[Announced(0, 0, 4) EXCEPT !.offset = -2],
   [Announced(0, 0, 4) EXCEPT !.offset = 2],
   [Announced(0, 0, 4) EXCEPT !.until = 9],
   [Announced(0, 0, 4) EXCEPT !.until = None],
   [Announced(0, 0, 4) EXCEPT !.range = [lowest |-> 6, highest |-> 0]]}

(* one of no length, which either resource could draw *)
MCElements ==
  [duration : 1..3, power : {None, -6, 0, 6}]
    \cup {[duration |-> 0, power |-> 6]}

Record(version, envelope, enabled) ==
  [version |-> version, owner |-> "own", enabled |-> enabled,
   envelope |-> envelope]

MCRecords ==
  {Record(1, Battery, TRUE), Record(1, Charger, TRUE),
   Record(2, Charger, TRUE), Record(2, Battery, FALSE)}
=============================================================================
