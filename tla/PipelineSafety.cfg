CONSTANTS
  r1 = r1
  r2 = r2
  p1 = p1
  p2 = p2
  RecordId = {r1, r2}
  Payload = {p1, p2}
  PayloadOf <- MCPayloadOf
  NoRecord = NoRecord
  NoReading = NoReading
  MaxRows = 3
  MaxCopies = 2
  MaxFaults = 1
  MaxEdits = 1
  BatchSize = 2
SPECIFICATION Spec
INVARIANTS TypeOK LedgerHonest IntactIsAnchored NoFalseAlarm EachFailureHarmsOneReading
PROPERTIES LedgerImmutable ImplementsWitnessedReadings
CHECK_DEADLOCK FALSE
