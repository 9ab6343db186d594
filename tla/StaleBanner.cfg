SPECIFICATION Spec
CONSTANTS
  d1 = d1
  d2 = d2
  a = a
  b = b
  c = c
  e = e
  Device = {d1, d2}
  Row = {a, b, c, e}
  ReadingOf <- MCReadingOf
  DeviceOf <- MCDeviceOf
  StampOf <- MCStampOf
  Stored <- MCStored
  Limit = 2
  Fetch = {f1, f2}
  NoDevice = NoDevice
  Clicked = {click1}
  MaxWrites = 0
  MaxFaults = 0
  MaxClicks = 3
INVARIANT CleanBannerIsTrue
CHECK_DEADLOCK FALSE
