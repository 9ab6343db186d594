CONSTANTS
  r1 = r1
  r2 = r2
  p1 = p1
  p2 = p2
  RecordId = {r1, r2}
  Payload = {p1, p2}
  PayloadOf <- MCPayloadOf
  NoRecord = NoRecord
  NoReading = NoReading
  MaxRows = 2
  MaxCopies = 2
  MaxFaults = 0
  MaxEdits = 1
  BatchSize = 1
SPECIFICATION Spec
PROPERTY VerdictOfExactRow
CHECK_DEADLOCK FALSE
