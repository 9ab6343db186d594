SPECIFICATION FairSpec
CONSTANTS
  d1 = d1
  d2 = d2
  a = a
  b = b
  c = c
  e = e
  Device = {d1, d2}
  Row = {a, b, c, e}
  ReadingOf <- MCReadingOf
  DeviceOf <- MCDeviceOf
  StampOf <- MCStampOf
  Stored <- MCStored
  Limit = 2
  Fetch = {f1, f2}
  NoDevice = NoDevice
  Clicked = {click1}
  MaxWrites = 1
  MaxFaults = 1
  MaxClicks = 3
INVARIANT TypeOK
INVARIANT AnswersAccountForRows
INVARIANT OutcomesBelongToRows
PROPERTY LiveViewConverges
PROPERTY VerifyAllEnds
CHECK_DEADLOCK FALSE
