-------------------------- MODULE AccessPolicyProofs --------------------------
(****************************************************************************)
(* Theorems about the access policies, for any devices, sensor types,       *)
(* organisations, roles and grants.                                         *)
(****************************************************************************)
EXTENDS AccessPolicies, TLAPS

Transaction == DeviceTransaction \cup TypeTransaction

----------------------------------------------------------------------------
(****************************************************************************)
(* CheckAccess                                                              *)
(****************************************************************************)

\* Every string has a rank, those visRank does not know the lowest.
LEMMA RankType == \A level : Rank(level) \in 0..3
BY DEF Rank

\* minVisibility returns the lower rank of the two, and denies when it does not
\* know one of the levels.
LEMMA MinVisibilityRank ==
  \A a, b : Rank(MinVisibility(a, b)) = IF Rank(a) <= Rank(b) THEN Rank(a)
                                                              ELSE Rank(b)
<1>1. \A a : a \notin Level => Rank(a) = 0
  BY DEF Level, Rank
<1>2. Rank("denied") = 0
  BY DEF Rank
<1> QED  BY <1>1, <1>2, RankType DEF MinVisibility

\* What CheckAccess answers is the least of what the applicable policies allow.
LEMMA CheckAccessIsLeast ==
  ASSUME PolicyTypeOK, NEW d \in Device, NEW role \in Role
  PROVE  LET rank == Rank(CheckAccess(d, role))
         IN  /\ \A g \in Applicable(d) : rank <= Allowed(g, role)
             /\ rank = 0 \/ \E g \in Applicable(d) : rank = Allowed(g, role)
             /\ rank = 0 => Applicable(d) = {}
                            \/ \E g \in Applicable(d) : Allowed(g, role) = 0
<1> DEFINE dev == devicePolicy[d]
           dVis == dev.grant.visibility[role]
           rank == Rank(CheckAccess(d, role))
           Goal == /\ \A g \in Applicable(d) : rank <= Allowed(g, role)
                   /\ rank = 0 \/ \E g \in Applicable(d) : rank = Allowed(g, role)
                   /\ rank = 0 => Applicable(d) = {}
                                  \/ \E g \in Applicable(d) : Allowed(g, role) = 0
<1> SUFFICES Goal
  OBVIOUS
<1>0. Rank("denied") = 0 /\ \A g : Allowed(g, role) \in 0..3
  BY RankType DEF Rank, Allowed
<1>1. CASE dev = NoPolicy
  <2>1. CheckAccess(d, role) = "denied" /\ Applicable(d) = {}
    BY <1>1 DEF CheckAccess, Applicable
  <2> QED  BY <1>0, <2>1
<1>2. CASE dev # NoPolicy /\ ~Lists(dev.grant, role)
  <2>1. CheckAccess(d, role) = "denied" /\ dev.grant \in Applicable(d)
    BY <1>2 DEF CheckAccess, Applicable
  <2>2. Allowed(dev.grant, role) = 0
    BY <1>2 DEF Allowed
  <2> QED  BY <1>0, <2>1, <2>2
<1>3. CASE /\ dev # NoPolicy /\ Lists(dev.grant, role)
           /\ dev.type = Legacy \/ typePolicy[dev.type] = NoPolicy
  <2>1. CheckAccess(d, role) = dVis
    BY <1>3 DEF CheckAccess
  <2>2. Applicable(d) = {dev.grant}
    BY <1>3, PolicyAssumption DEF Applicable
  <2>3. Allowed(dev.grant, role) = Rank(dVis)
    BY <1>3 DEF Allowed
  <2> QED  BY <1>0, <2>1, <2>2, <2>3
<1>4. CASE /\ dev # NoPolicy /\ Lists(dev.grant, role)
           /\ dev.type # Legacy /\ typePolicy[dev.type] # NoPolicy
  <2> DEFINE type == typePolicy[dev.type]
             tVis == type.grant.visibility[role]
  <2>1. dev.type \in SensorType
    BY <1>4 DEF PolicyTypeOK, DevicePolicy
  <2>2. Applicable(d) = {dev.grant, type.grant}
    BY <1>4, <2>1 DEF Applicable
  <2>3. Allowed(dev.grant, role) = Rank(dVis)
    BY <1>4 DEF Allowed
  <2>4. CASE ~Lists(type.grant, role)
    <3>1. CheckAccess(d, role) = "denied"
      BY <1>4, <2>4 DEF CheckAccess
    <3>2. Allowed(type.grant, role) = 0
      BY <2>4 DEF Allowed
    <3> QED  BY <1>0, <2>2, <3>1, <3>2
  <2>5. CASE Lists(type.grant, role)
    <3>1. CheckAccess(d, role) = MinVisibility(dVis, tVis)
      BY <1>4, <2>5 DEF CheckAccess
    <3>2. Allowed(type.grant, role) = Rank(tVis)
      BY <2>5 DEF Allowed
    <3>3. rank = IF Rank(dVis) <= Rank(tVis) THEN Rank(dVis) ELSE Rank(tVis)
      BY <3>1, MinVisibilityRank
    <3> HIDE DEF rank, dVis, tVis, dev, type
    <3> QED  BY <2>2, <2>3, <3>2, <3>3, RankType
  <2> QED  BY <2>4, <2>5
<1> QED  BY <1>1, <1>2, <1>3, <1>4

\* CheckAccess answers with a level, or with a string taken from a policy.
LEMMA CheckAccessType ==
  ASSUME PolicyTypeOK, NEW d \in Device, NEW role \in Role
  PROVE  CheckAccess(d, role) \in Visibility
<1> DEFINE dev == devicePolicy[d]
           dVis == dev.grant.visibility[role]
           tVis == typePolicy[dev.type].grant.visibility[role]
<1>1. "denied" \in Visibility /\ Level \subseteq Visibility
  BY DEF Visibility, Level
<1>2. CASE dev = NoPolicy \/ ~Lists(dev.grant, role)
  BY <1>1, <1>2 DEF CheckAccess
<1>3. CASE dev # NoPolicy /\ Lists(dev.grant, role)
  <2>1. dVis \in Visibility
    BY <1>3 DEF PolicyTypeOK, DevicePolicy, Grant
  <2>2. MinVisibility(dVis, tVis) \in Visibility
    BY <1>1 DEF MinVisibility
  <2>3. CheckAccess(d, role) \in {dVis, "denied", MinVisibility(dVis, tVis)}
    BY <1>3 DEF CheckAccess
  <2> QED  BY <1>1, <2>1, <2>2, <2>3
<1> QED  BY <1>2, <1>3

----------------------------------------------------------------------------
(****************************************************************************)
(* The inductive invariant                                                  *)
(****************************************************************************)
BasedOnPolicy(tx) == BasedOnDevicePolicy(tx) /\ BasedOnTypePolicy(tx)

\* Initially no transaction is under way.
LEMMA PolicyInductiveInit == PolicyInit => PolicyIInv
BY DEF PolicyInit, PolicyIInv, PolicyTypeOK

\* A transaction endorsed on the current state is well formed and based on it.
LEMMA EndorseStep ==
  ASSUME PolicyIInv, NEW tx \in Transaction, BasedOnPolicy(tx), Endorse(tx)
  PROVE  PolicyIInv'
<1>1. PolicyTypeOK'
  BY DEF PolicyIInv, PolicyTypeOK, Endorse, Transaction
<1>2. \A other \in pending' : BasedOnPolicy(other)
  BY DEF PolicyIInv, Endorse, BasedOnPolicy
<1> QED
  BY <1>1, <1>2
  DEF PolicyIInv, Endorse, BasedOnPolicy, BasedOnDevicePolicy, BasedOnTypePolicy

\* A block leaves those transactions under way that are still based on the
\* policy they read.
LEMMA CommitStep ==
  ASSUME PolicyIInv, NEW tx \in pending, Commit(tx)
  PROVE  PolicyIInv'
<1>1. tx \in Transaction /\ pending' \subseteq pending
      /\ \A other \in pending' : tx.key \notin other.reads
  BY DEF PolicyIInv, PolicyTypeOK, Transaction, Commit
<1>2. CASE tx \in DeviceTransaction
  <2>1. tx.key \in Device /\ tx.write \in DevicePolicy
    BY <1>2 DEF DeviceTransaction
  <2>2. devicePolicy' = [devicePolicy EXCEPT ![tx.key] = tx.write]
        /\ typePolicy' = typePolicy
    BY <2>1 DEF Commit
  <2>3. PolicyTypeOK'
    BY <1>1, <2>1, <2>2 DEF PolicyIInv, PolicyTypeOK
  <2>4. \A other \in pending' : BasedOnDevicePolicy(other)'
    BY <1>1, <2>1, <2>2 DEF PolicyIInv, PolicyTypeOK, BasedOnDevicePolicy
  <2>5. \A other \in pending' : BasedOnTypePolicy(other)'
    BY <1>1, <2>2 DEF PolicyIInv, BasedOnTypePolicy
  <2> QED  BY <2>3, <2>4, <2>5 DEF PolicyIInv
<1>3. CASE tx \in TypeTransaction
  <2>1. tx.key \in SensorType /\ tx.write \in TypePolicy
    BY <1>3 DEF TypeTransaction
  <2>2. typePolicy' = [typePolicy EXCEPT ![tx.key] = tx.write]
        /\ devicePolicy' = devicePolicy
    BY <2>1, PolicyAssumption DEF Commit
  <2>3. PolicyTypeOK'
    BY <1>1, <2>1, <2>2 DEF PolicyIInv, PolicyTypeOK
  <2>4. \A other \in pending' : BasedOnDevicePolicy(other)'
    BY <1>1, <2>2 DEF PolicyIInv, BasedOnDevicePolicy
  <2>5. \A other \in pending' : BasedOnTypePolicy(other)'
    BY <1>1, <2>1, <2>2 DEF PolicyIInv, PolicyTypeOK, BasedOnTypePolicy
  <2> QED  BY <2>3, <2>4, <2>5 DEF PolicyIInv
<1> QED  BY <1>1, <1>2, <1>3 DEF Transaction

\* Every endorsement, block and loss preserves the inductive invariant.
LEMMA PolicyInductiveStep == PolicyIInv /\ [PolicyNext]_policyVars => PolicyIInv'
<1> SUFFICES ASSUME PolicyIInv, [PolicyNext]_policyVars
             PROVE  PolicyIInv'
  OBVIOUS
<1>0. PolicyTypeOK
  BY DEF PolicyIInv
<1>1. ASSUME NEW d \in Device, NEW owner \in Org,
             NEW type \in SensorType \cup {Legacy}, NEW grant \in Grants,
             RegisterDevice(d, owner, type, grant)
      PROVE  PolicyIInv'
  <2> DEFINE tx == [fn |-> "RegisterDevice", key |-> d, reads |-> {},
                    write |-> [owner |-> owner, type |-> type, grant |-> grant]]
  <2>1. tx \in Transaction
    BY PolicyAssumption DEF Transaction, DeviceTransaction, DevicePolicy
  <2>2. BasedOnPolicy(tx)
    BY DEF BasedOnPolicy, BasedOnDevicePolicy, BasedOnTypePolicy
  <2> QED  BY <1>1, <2>1, <2>2, EndorseStep DEF RegisterDevice
<1>2. ASSUME NEW d \in Device, NEW grant \in Grants, UpdatePolicy(d, grant)
      PROVE  PolicyIInv'
  <2> DEFINE policy == [devicePolicy[d] EXCEPT !.grant = grant]
             tx == [fn |-> "UpdatePolicy", key |-> d, reads |-> {d},
                    write |-> policy]
  <2>1. devicePolicy[d] \in DevicePolicy /\ devicePolicy[d] # NoPolicy
    BY <1>0, <1>2 DEF PolicyTypeOK, UpdatePolicy
  <2>2. policy \in DevicePolicy /\ policy.owner = devicePolicy[d].owner
        /\ policy.type = devicePolicy[d].type
    BY <2>1, PolicyAssumption DEF DevicePolicy
  <2> HIDE DEF policy
  <2>3. tx \in Transaction
    BY <2>2 DEF Transaction, DeviceTransaction
  <2>4. BasedOnPolicy(tx)
    BY <2>1, <2>2 DEF BasedOnPolicy, BasedOnDevicePolicy, BasedOnTypePolicy
  <2>5. Endorse(tx)
    BY <1>2 DEF UpdatePolicy, policy
  <2> QED  BY <2>3, <2>4, <2>5, EndorseStep
<1>3. ASSUME NEW t \in SensorType, NEW owner \in Org, NEW grant \in Grants,
             RegisterTypePolicy(t, owner, grant)
      PROVE  PolicyIInv'
  <2> DEFINE tx == [fn |-> "RegisterTypePolicy", key |-> t, reads |-> {t},
                    write |-> [owner |-> owner, grant |-> grant]]
  <2>1. tx \in Transaction
    BY PolicyAssumption DEF Transaction, TypeTransaction, TypePolicy
  <2>2. BasedOnPolicy(tx)
    BY <1>3 DEF BasedOnPolicy, BasedOnDevicePolicy, BasedOnTypePolicy,
                RegisterTypePolicy
  <2> QED  BY <1>3, <2>1, <2>2, EndorseStep DEF RegisterTypePolicy
<1>4. ASSUME NEW t \in SensorType, NEW grant \in Grants,
             UpdateTypePolicy(t, grant)
      PROVE  PolicyIInv'
  <2> DEFINE policy == [typePolicy[t] EXCEPT !.grant = grant]
             tx == [fn |-> "UpdateTypePolicy", key |-> t, reads |-> {t},
                    write |-> policy]
  <2>1. typePolicy[t] \in TypePolicy /\ typePolicy[t] # NoPolicy
    BY <1>0, <1>4 DEF PolicyTypeOK, UpdateTypePolicy
  <2>2. policy \in TypePolicy /\ policy.owner = typePolicy[t].owner
    BY <2>1, PolicyAssumption DEF TypePolicy
  <2> HIDE DEF policy
  <2>3. tx \in Transaction
    BY <2>2 DEF Transaction, TypeTransaction
  <2>4. BasedOnPolicy(tx)
    BY <2>1, <2>2 DEF BasedOnPolicy, BasedOnDevicePolicy, BasedOnTypePolicy
  <2>5. Endorse(tx)
    BY <1>4 DEF UpdateTypePolicy, policy
  <2> QED  BY <2>3, <2>4, <2>5, EndorseStep
<1>5. ASSUME NEW tx \in pending, Commit(tx)
      PROVE  PolicyIInv'
  BY <1>5, CommitStep
<1>6. ASSUME NEW tx \in pending, Lose(tx)
      PROVE  PolicyIInv'
  BY <1>6 DEF Lose, PolicyIInv, PolicyTypeOK, BasedOnDevicePolicy, BasedOnTypePolicy
<1>7. CASE UNCHANGED policyVars
  BY <1>7 DEF policyVars, PolicyIInv, PolicyTypeOK, BasedOnDevicePolicy, BasedOnTypePolicy
<1> QED  BY <1>1, <1>2, <1>3, <1>4, <1>5, <1>6, <1>7 DEF PolicyNext, Invocation

\* No transaction under way is based on a policy that has changed since.
THEOREM PolicyInductive == PolicySpec => []PolicyIInv
BY PolicyInductiveInit, PolicyInductiveStep, PTL DEF PolicySpec

\* Type correctness of the policies and of the transactions under way.
THEOREM PolicyTypeCorrect == PolicySpec => []PolicyTypeOK
<1>1. PolicyIInv => PolicyTypeOK
  BY DEF PolicyIInv
<1> QED  BY <1>1, PolicyInductive, PTL

----------------------------------------------------------------------------
(****************************************************************************)
(* The theorems                                                             *)
(****************************************************************************)

\* Whatever transactions overlap, CheckAccess grants a role the least of what
\* the policies that bear on the device allow, and nothing without one.
THEOREM LeastPermissive == PolicySpec => []LeastPermissiveWins
<1>1. PolicyTypeOK => LeastPermissiveWins
  BY CheckAccessIsLeast DEF LeastPermissiveWins
<1> QED  BY <1>1, PolicyTypeCorrect, PTL

\* Two registrations of one type never both take effect, and no update changes
\* the owner of a type policy.
THEOREM TypePolicyRegisteredOnce == PolicySpec => TypePolicyIsRegisteredOnce
<1> DEFINE Kept == \A t \in SensorType :
                     typePolicy[t] # NoPolicy =>
                       /\ typePolicy'[t] # NoPolicy
                       /\ typePolicy'[t].owner = typePolicy[t].owner
<1>1. PolicyIInv /\ [PolicyNext]_policyVars => [Kept]_policyVars
  <2> SUFFICES ASSUME PolicyIInv, PolicyNext
               PROVE  Kept
    OBVIOUS
  <2>1. CASE UNCHANGED typePolicy
    BY <2>1
  <2>2. ASSUME NEW tx \in pending, Commit(tx)
        PROVE  Kept
    <3>1. CASE tx.key \in Device
      BY <2>2, <3>1 DEF Commit
    <3>2. CASE tx.key \notin Device
      <4>1. tx \in TypeTransaction
        BY <3>2 DEF PolicyIInv, PolicyTypeOK, DeviceTransaction
      <4>2. /\ tx.key \in SensorType /\ tx.write \in TypePolicy
            /\ tx.fn \in {"RegisterTypePolicy", "UpdateTypePolicy"}
        BY <4>1 DEF TypeTransaction
      <4>3. typePolicy' = [typePolicy EXCEPT ![tx.key] = tx.write]
        BY <2>2, <3>2 DEF Commit
      <4>4. typePolicy[tx.key] # NoPolicy =>
              tx.write.owner = typePolicy[tx.key].owner
        BY <4>2 DEF PolicyIInv, BasedOnTypePolicy
      <4>5. tx.write # NoPolicy
        BY <4>2, PolicyAssumption
      <4> QED  BY <4>2, <4>3, <4>4, <4>5 DEF PolicyIInv, PolicyTypeOK
    <3> QED  BY <3>1, <3>2
  <2>3. UNCHANGED typePolicy \/ \E tx \in pending : Commit(tx)
    BY DEF PolicyNext, Invocation, RegisterDevice, UpdatePolicy, RegisterTypePolicy,
           UpdateTypePolicy, Endorse, Lose
  <2> QED  BY <2>1, <2>2, <2>3
<1> QED  BY <1>1, PolicyInductive, PTL DEF PolicySpec, TypePolicyIsRegisteredOnce

\* Owner and sensor type of a registered device change by a registration only.
THEOREM IdentityOnlyByRegistration == PolicySpec => OnlyRegistrationChangesIdentity
<1> DEFINE Kept == \A d \in Device :
                     /\ devicePolicy[d] # NoPolicy
                     /\ \/ devicePolicy'[d] = NoPolicy
                        \/ devicePolicy'[d].owner # devicePolicy[d].owner
                        \/ devicePolicy'[d].type # devicePolicy[d].type
                     => \E tx \in pending :
                          tx.fn = "RegisterDevice" /\ tx.key = d
                            /\ tx.write = devicePolicy'[d]
<1>1. PolicyIInv /\ [PolicyNext]_policyVars => [Kept]_policyVars
  <2> SUFFICES ASSUME PolicyIInv, PolicyNext
               PROVE  Kept
    OBVIOUS
  <2>1. CASE UNCHANGED devicePolicy
    BY <2>1
  <2>2. ASSUME NEW tx \in pending, Commit(tx)
        PROVE  Kept
    <3>1. CASE tx.key \in Device
      <4>1. tx \in DeviceTransaction
        BY <3>1, PolicyAssumption DEF PolicyIInv, PolicyTypeOK, TypeTransaction
      <4>2. tx.write \in DevicePolicy
            /\ tx.fn \in {"RegisterDevice", "UpdatePolicy"}
        BY <4>1 DEF DeviceTransaction
      <4>3. devicePolicy' = [devicePolicy EXCEPT ![tx.key] = tx.write]
        BY <2>2, <3>1 DEF Commit
      <4>4. tx.fn = "UpdatePolicy" =>
              /\ tx.write.owner = devicePolicy[tx.key].owner
              /\ tx.write.type = devicePolicy[tx.key].type
        BY DEF PolicyIInv, BasedOnDevicePolicy
      <4>5. tx.write # NoPolicy
        BY <4>2, PolicyAssumption
      <4> QED  BY <3>1, <4>2, <4>3, <4>4, <4>5 DEF PolicyIInv, PolicyTypeOK
    <3>2. CASE tx.key \notin Device
      BY <2>2, <3>2 DEF Commit
    <3> QED  BY <3>1, <3>2
  <2>3. UNCHANGED devicePolicy \/ \E tx \in pending : Commit(tx)
    BY DEF PolicyNext, Invocation, RegisterDevice, UpdatePolicy, RegisterTypePolicy,
           UpdateTypePolicy, Endorse, Lose
  <2> QED  BY <2>1, <2>2, <2>3
<1> QED  BY <1>1, PolicyInductive, PTL DEF PolicySpec, OnlyRegistrationChangesIdentity
=============================================================================
