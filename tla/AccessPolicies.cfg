CONSTANTS
  analytics = analytics
  admin = admin
  Device = {d1}
  SensorType = {temp}
  Legacy = Legacy
  Org = {orgA, orgB}
  Role = {analytics, admin}
  NoPolicy = NoPolicy
  Grants <- MCGrants
  MaxPending = 2
  Site = orgA
  Forms <- MCForms
  NoTx = NoTx
SPECIFICATION EditorFairSpec
INVARIANTS EditorTypeOK LeastPermissiveWins CommittedIsInForce
PROPERTIES TypePolicyIsRegisteredOnce OnlyRegistrationChangesIdentity PushEnds
