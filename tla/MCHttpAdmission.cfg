SPECIFICATION FairAdmissionSpec
CONSTANTS
  r1 = r1
  r2 = r2
  r3 = r3
  r4 = r4
  Requests = {r1, r2, r3, r4}
  Observers = {r1}
  MaxInFlight = 2
  MaxBytes = 1
  Chunks = {1, 2}
  Answers = {200}
  Diligent = {r1, r3}
INVARIANTS AdmissionTypeOK RequestsAccounted
PROPERTIES DiligentAnswered
CHECK_DEADLOCK FALSE
