CONSTANTS
  r1 = r1
  r2 = r2
  p1 = p1
  p2 = p2
  RecordId = {r1, r2}
  Payload = {p1, p2}
  PayloadOf <- MCPayloadOf
  NoRecord = NoRecord
  NoReading = NoReading
  MaxRows = 2
  MaxCopies = 1
  MaxFaults = 1
  MaxEdits = 0
  BatchSize = 1
SPECIFICATION Spec
INVARIANT TamperedMeansMismatch
CHECK_DEADLOCK FALSE
