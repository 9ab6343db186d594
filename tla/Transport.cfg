SPECIFICATION NetworkFairSpec
CONSTANTS
  m10 = m10
  temp = temp
  Device = {m10}
  Type = {temp}
  Gateway = {temp}
  ByHand = {temp, setup}
  setup = setup
  Empty = Empty
  Absent = Absent
  Unknown = Unknown
  TypeOf <- MCTypeOf
  MaxSeq = 2
  MaxBoots = 1
  MaxClock = 1
  MaxFaults = 2
INVARIANT NetworkTypeOK
INVARIANT OnlyRacersDiffer
INVARIANT MotesKeepTheirKey
INVARIANT RecordIdsAreUnique
INVARIANT NumbersGrowInALife
INVARIANT NumbersAreAccountedFor
PROPERTY EveryNumberArrives
CHECK_DEADLOCK FALSE
