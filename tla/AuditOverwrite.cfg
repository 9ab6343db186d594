SPECIFICATION Spec
CONSTANTS
  bob = bob
  root = root
  d1 = d1
  Request = {r1, r2}
  Consumer = {bob, root}
  Role <- MCRole
  Device = {d1}
  MaxClock = 1
  SensorType = {}
  Legacy = Legacy
  Org = {orgA}
  NoPolicy = NoPolicy
  Grants <- MCGrants
  MaxPending = 1
  RoleOf <- MCRoleOf
  Asked <- MCAsked
  StampedAt <- MCStampedAt
  MaxFaults = 0
PROPERTY LogAppends
CHECK_DEADLOCK FALSE
