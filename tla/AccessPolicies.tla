---------------------------- MODULE AccessPolicies ----------------------------
(****************************************************************************)
(* The access policies of the chaincode (chaincode/iot_contract.go, v1.1    *)
(* and v1.2): one policy per device, an optional one per sensor type, and   *)
(* CheckAccess, which combines them.                                        *)
(*                                                                          *)
(* An invocation runs in two steps.  The peers simulate it on the state of  *)
(* the moment, which yields the value to write and the key that was read;   *)
(* its block comes later.  Fabric discards a transaction when the key it    *)
(* read has been written meanwhile.  RegisterDevice reads nothing, so it is *)
(* never discarded; the other three read the key they write.  This part of  *)
(* Fabric is external.                                                      *)
(****************************************************************************)
EXTENDS Naturals, FiniteSets

CONSTANTS
  Device,       \* device ids
  SensorType,   \* the types validSensorType lists, "" aside
  Legacy,       \* the sensor type "" of a device registered before v1.2
  Org,          \* owner organisations
  Role,         \* roles that policies may mention
  NoPolicy,     \* GetState's nil
  Grants,       \* the readers and visibilities administrators submit
  MaxPending    \* bound: how many transactions are under way at a time

\* The levels of visRank, least permissive first, a string visRank does not
\* know, and no entry for the role in the visibility map.
Level == {"denied", "hash-only", "aggregated", "full"}
Visibility == Level \cup {"unknown", "absent"}

Grant == [readers : SUBSET Role, visibility : [Role -> Visibility]]

DevicePolicy == [owner : Org, type : SensorType \cup {Legacy}, grant : Grant]
TypePolicy == [owner : Org, grant : Grant]

\* The keys of the two kinds of policy differ: no device is called "type_"
\* followed by a sensor type.  The gateway names devices by their node number,
\* but nobody checks it: RegisterDevice (iot_contract.go, line 204) takes any name,
\* and one like that would write the policy of the type.
ASSUME PolicyAssumption ==
  /\ Legacy \notin SensorType
  /\ Device \cap SensorType = {}
  /\ NoPolicy \notin DevicePolicy \cup TypePolicy
  /\ Grants \subseteq Grant
  /\ MaxPending \in Nat

VARIABLES
  devicePolicy,   \* the value under "policy_" + deviceID
  typePolicy,     \* the value under "policy_type_" + sensorType
  pending         \* the transactions endorsed and not yet in a block

policyVars == <<devicePolicy, typePolicy, pending>>

\* reads is the set of keys the simulation read.
DeviceTransaction ==
  [fn : {"RegisterDevice", "UpdatePolicy"}, key : Device,
   reads : SUBSET Device, write : DevicePolicy]

TypeTransaction ==
  [fn : {"RegisterTypePolicy", "UpdateTypePolicy"}, key : SensorType,
   reads : SUBSET SensorType, write : TypePolicy]

PolicyTypeOK ==
  /\ devicePolicy \in [Device -> DevicePolicy \cup {NoPolicy}]
  /\ typePolicy \in [SensorType -> TypePolicy \cup {NoPolicy}]
  /\ pending \in SUBSET (DeviceTransaction \cup TypeTransaction)

PolicyInit ==
  /\ devicePolicy = [d \in Device |-> NoPolicy]
  /\ typePolicy = [t \in SensorType |-> NoPolicy]
  /\ pending = {}

----------------------------------------------------------------------------
(****************************************************************************)
(* CheckAccess                                                              *)
(****************************************************************************)

\* A level visRank does not know has no rank of its own: minVisibility takes
\* it for "denied".
Rank(level) ==
  CASE level = "hash-only"  -> 1
    [] level = "aggregated" -> 2
    [] level = "full"       -> 3
    [] OTHER                -> 0

\* Mutant: the more permissive level of the two.
Mutant_MaxVisibility(a, b) ==
  IF a \notin Level \/ b \notin Level THEN "denied"
  ELSE IF Rank(a) >= Rank(b) THEN a
  ELSE b

MinVisibility(a, b) ==
  IF a \notin Level \/ b \notin Level THEN "denied"
  ELSE IF Rank(a) <= Rank(b) THEN a
  ELSE b

\* The role is a reader and has an entry in the visibility map.
Lists(grant, role) ==
  role \in grant.readers /\ grant.visibility[role] # "absent"

\* CheckAccess: the policy of the device is mandatory, that of its type is
\* consulted when there is one, and the least permissive level is returned.
CheckAccess(d, role) ==
  LET dev == devicePolicy[d]
      dVis == dev.grant.visibility[role]
      type == typePolicy[dev.type]
  IN  IF dev = NoPolicy \/ ~Lists(dev.grant, role) THEN "denied"
      ELSE IF dev.type = Legacy \/ type = NoPolicy THEN dVis
      ELSE IF ~Lists(type.grant, role) THEN "denied"
      ELSE MinVisibility(dVis, type.grant.visibility[role])

----------------------------------------------------------------------------
(****************************************************************************)
(* The invocations, simulated on the current state                          *)
(****************************************************************************)
Endorse(tx) ==
  /\ Cardinality(pending) < MaxPending
  /\ pending' = pending \cup {tx}
  /\ UNCHANGED <<devicePolicy, typePolicy>>

\* Provisions a device, or replaces its policy as a whole.
RegisterDevice(d, owner, type, grant) ==
  Endorse([fn |-> "RegisterDevice", key |-> d, reads |-> {},
           write |-> [owner |-> owner, type |-> type, grant |-> grant]])

\* Mutant: the policy to update is read by the API beforehand, and the
\* transaction only writes.
Mutant_UpdateReadsOffChain(d, grant) ==
  /\ devicePolicy[d] # NoPolicy
  /\ Endorse([fn |-> "UpdatePolicy", key |-> d, reads |-> {},
              write |-> [devicePolicy[d] EXCEPT !.grant = grant]])

\* Replaces readers and visibility of the policy that was read.
UpdatePolicy(d, grant) ==
  /\ devicePolicy[d] # NoPolicy
  /\ Endorse([fn |-> "UpdatePolicy", key |-> d, reads |-> {d},
              write |-> [devicePolicy[d] EXCEPT !.grant = grant]])

\* Mutant: the check for an existing policy is missing.
Mutant_RegisterTypeUnchecked(t, owner, grant) ==
  Endorse([fn |-> "RegisterTypePolicy", key |-> t, reads |-> {},
           write |-> [owner |-> owner, grant |-> grant]])

\* Creates the policy of a type that has none.
RegisterTypePolicy(t, owner, grant) ==
  /\ typePolicy[t] = NoPolicy
  /\ Endorse([fn |-> "RegisterTypePolicy", key |-> t, reads |-> {t},
              write |-> [owner |-> owner, grant |-> grant]])

\* Mutant: the policy is built anew, without its owner.
Mutant_UpdateTypeForgetsOwner(t, grant) ==
  /\ typePolicy[t] # NoPolicy
  /\ Endorse([fn |-> "UpdateTypePolicy", key |-> t, reads |-> {t},
              write |-> [grant |-> grant]])

\* Replaces readers and visibility of an existing type policy.
UpdateTypePolicy(t, grant) ==
  /\ typePolicy[t] # NoPolicy
  /\ Endorse([fn |-> "UpdateTypePolicy", key |-> t, reads |-> {t},
              write |-> [typePolicy[t] EXCEPT !.grant = grant]])

\* The block of tx is validated and written, which invalidates every other
\* transaction that read the key.
Commit(tx) ==
  /\ IF tx.key \in Device
       THEN /\ devicePolicy' = [devicePolicy EXCEPT ![tx.key] = tx.write]
            /\ UNCHANGED typePolicy
       ELSE /\ typePolicy' = [typePolicy EXCEPT ![tx.key] = tx.write]
            /\ UNCHANGED devicePolicy
  /\ pending' = {other \in pending \ {tx} : tx.key \notin other.reads}

\* The orderer never delivers tx: the client reports an error or a timeout.
Lose(tx) ==
  /\ pending' = pending \ {tx}
  /\ UNCHANGED <<devicePolicy, typePolicy>>

\* A client invokes one of the four functions.
Invocation ==
  \/ \E d \in Device, owner \in Org, type \in SensorType \cup {Legacy},
        grant \in Grants : RegisterDevice(d, owner, type, grant)
  \/ \E d \in Device, grant \in Grants : UpdatePolicy(d, grant)
  \/ \E t \in SensorType, owner \in Org, grant \in Grants :
       RegisterTypePolicy(t, owner, grant)
  \/ \E t \in SensorType, grant \in Grants : UpdateTypePolicy(t, grant)

PolicyNext == Invocation \/ \E tx \in pending : Commit(tx) \/ Lose(tx)

PolicySpec == PolicyInit /\ [][PolicyNext]_policyVars

----------------------------------------------------------------------------
(****************************************************************************)
(* The inductive invariant: a transaction that Fabric has not discarded is  *)
(* still based on the policy it read.                                       *)
(****************************************************************************)
BasedOnDevicePolicy(tx) ==
  tx.fn = "UpdatePolicy" =>
    /\ tx.reads = {tx.key}
    /\ devicePolicy[tx.key] # NoPolicy
    /\ tx.write.owner = devicePolicy[tx.key].owner
    /\ tx.write.type = devicePolicy[tx.key].type

BasedOnTypePolicy(tx) ==
  /\ tx.fn \in {"RegisterTypePolicy", "UpdateTypePolicy"} => tx.reads = {tx.key}
  /\ tx.fn = "RegisterTypePolicy" => typePolicy[tx.key] = NoPolicy
  /\ tx.fn = "UpdateTypePolicy" =>
       /\ typePolicy[tx.key] # NoPolicy
       /\ tx.write.owner = typePolicy[tx.key].owner

PolicyIInv ==
  /\ PolicyTypeOK
  /\ \A tx \in pending : BasedOnDevicePolicy(tx) /\ BasedOnTypePolicy(tx)

----------------------------------------------------------------------------
(****************************************************************************)
(* Properties                                                               *)
(****************************************************************************)

\* The grants that bear on a device: its own, and its type's if there is one.
Applicable(d) ==
  LET dev == devicePolicy[d]
  IN  IF dev = NoPolicy THEN {}
      ELSE {dev.grant} \cup
           {typePolicy[t].grant :
              t \in {s \in SensorType : s = dev.type /\ typePolicy[s] # NoPolicy}}

\* What one grant allows a role, by rank.
Allowed(grant, role) ==
  IF Lists(grant, role) THEN Rank(grant.visibility[role]) ELSE 0

\* CheckAccess is the AND of the policies that bear on a device: it is never
\* more permissive than one of them, never less permissive than all, and
\* denies when the device has no policy (iot_contract.go, lines 382-390).
LeastPermissiveWins ==
  \A d \in Device, role \in Role :
    LET rank == Rank(CheckAccess(d, role))
    IN  /\ \A g \in Applicable(d) : rank <= Allowed(g, role)
        /\ rank = 0 \/ \E g \in Applicable(d) : rank = Allowed(g, role)
        /\ rank = 0 => Applicable(d) = {}
                       \/ \E g \in Applicable(d) : Allowed(g, role) = 0

\* A type policy is registered once: it is never removed and its owner never
\* changes, even when two administrators register the type at the same time
\* or an update and a registration overlap.  This needs PolicyAssumption: a
\* device by the name of the type's key could replace the policy.
TypePolicyIsRegisteredOnce ==
  [][\A t \in SensorType :
       typePolicy[t] # NoPolicy =>
         /\ typePolicy'[t] # NoPolicy
         /\ typePolicy'[t].owner = typePolicy[t].owner]_policyVars

\* UpdatePolicy never changes owner or sensor type, not even back to those it
\* read before the device was registered anew: any such change of a registered
\* device is the write of a registration.
OnlyRegistrationChangesIdentity ==
  [][\A d \in Device :
       /\ devicePolicy[d] # NoPolicy
       /\ \/ devicePolicy'[d] = NoPolicy
          \/ devicePolicy'[d].owner # devicePolicy[d].owner
          \/ devicePolicy'[d].type # devicePolicy[d].type
       => \E tx \in pending :
            tx.fn = "RegisterDevice" /\ tx.key = d /\ tx.write = devicePolicy'[d]
    ]_policyVars
=============================================================================
