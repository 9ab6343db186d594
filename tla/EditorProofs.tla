----------------------------- MODULE EditorProofs -----------------------------
(****************************************************************************)
(* Theorems about the policy editor, for any policies, forms and clients:   *)
(* what the page calls committed is in force.                               *)
(****************************************************************************)
EXTENDS PolicyEditor, AccessPolicyProofs

----------------------------------------------------------------------------
(****************************************************************************)
(* The steps                                                                *)
(****************************************************************************)

\* Nothing has been pushed.
LEMMA EditorInitially == EditorInit => EditorIInv
<1> SUFFICES ASSUME EditorInit
             PROVE  EditorIInv
  OBVIOUS
<1>1. PolicyIInv
  BY PolicyInductiveInit DEF EditorInit
<1>2. EditorTypeOK
  BY <1>1, EditorAssumption DEF EditorInit, EditorTypeOK, PolicyIInv, PushStep
<1> QED  BY <1>1, <1>2 DEF EditorInit, EditorIInv

\* The invocation of a route is one that any client may make.
LEMMA RouteIsInvocation ==
  ASSUME EditorTypeOK, RouteInvokes
  PROVE  Invocation
BY EditorAssumption DEF EditorTypeOK, RouteInvokes, Invocation

\* The transaction of a route carries the pushed policy.
LEMMA RouteCarriesForm ==
  ASSUME EditorTypeOK, RouteInvokes, NEW tx \in pending' \ pending
  PROVE  /\ tx \in DeviceTransaction \cup TypeTransaction
         /\ tx.key = push.key /\ tx.write.grant = push.grant
<1>0. /\ push.key \in Device \cup SensorType /\ push.grant \in Grant
      /\ push.grant \in Grants
  BY PolicyAssumption DEF EditorTypeOK
<1>1. ASSUME push.key \in Device, UpdatePolicy(push.key, push.grant)
      PROVE  /\ tx \in DeviceTransaction
             /\ tx.key = push.key /\ tx.write.grant = push.grant
  <2> DEFINE policy == [devicePolicy[push.key] EXCEPT !.grant = push.grant]
             new == [fn |-> "UpdatePolicy", key |-> push.key, reads |-> {push.key},
                     write |-> policy]
  <2>1. devicePolicy[push.key] \in DevicePolicy
    BY <1>1 DEF EditorTypeOK, PolicyTypeOK, UpdatePolicy
  <2>2. policy \in DevicePolicy /\ policy.grant = push.grant
    BY <2>1, <1>0 DEF DevicePolicy
  <2>3. pending' = pending \cup {new}
    BY <1>1 DEF UpdatePolicy, Endorse
  <2>4. tx = new
    BY <2>3
  <2> HIDE DEF policy
  <2> QED  BY <1>1, <2>2, <2>4 DEF DeviceTransaction
<1>2. ASSUME push.key \in SensorType, UpdateTypePolicy(push.key, push.grant)
      PROVE  /\ tx \in TypeTransaction
             /\ tx.key = push.key /\ tx.write.grant = push.grant
  <2> DEFINE policy == [typePolicy[push.key] EXCEPT !.grant = push.grant]
             new == [fn |-> "UpdateTypePolicy", key |-> push.key, reads |-> {push.key},
                     write |-> policy]
  <2>1. typePolicy[push.key] \in TypePolicy
    BY <1>2 DEF EditorTypeOK, PolicyTypeOK, UpdateTypePolicy
  <2>2. policy \in TypePolicy /\ policy.grant = push.grant
    BY <2>1, <1>0 DEF TypePolicy
  <2>3. pending' = pending \cup {new}
    BY <1>2 DEF UpdateTypePolicy, Endorse
  <2>4. tx = new
    BY <2>3
  <2> HIDE DEF policy
  <2> QED  BY <1>2, <2>2, <2>4 DEF TypeTransaction
<1>3. ASSUME push.key \in SensorType, RegisterTypePolicy(push.key, Site, push.grant)
      PROVE  /\ tx \in TypeTransaction
             /\ tx.key = push.key /\ tx.write.grant = push.grant
  <2> DEFINE policy == [owner |-> Site, grant |-> push.grant]
             new == [fn |-> "RegisterTypePolicy", key |-> push.key, reads |-> {push.key},
                     write |-> policy]
  <2>1. policy \in TypePolicy /\ policy.grant = push.grant
    BY <1>0, EditorAssumption DEF TypePolicy
  <2>2. pending' = pending \cup {new}
    BY <1>3 DEF RegisterTypePolicy, Endorse
  <2>3. tx = new
    BY <2>2
  <2> HIDE DEF policy
  <2> QED  BY <1>3, <2>1, <2>3 DEF TypeTransaction
<1> QED  BY <1>1, <1>2, <1>3 DEF RouteInvokes

\* Whatever the editor does is, to the policies, a step of AccessPolicies.
LEMMA EditorStepIsPolicyStep ==
  ASSUME EditorTypeOK, [EditorNext]_editorAllVars
  PROVE  [PolicyNext]_policyVars
<1>1. CASE Endorsed
  BY <1>1, RouteIsInvocation DEF Endorsed, PolicyNext
<1>2. CASE Answered \/ Fails \/ TurnedAway
           \/ \E key \in Device \cup SensorType, grant \in Forms : Click(key, grant)
  BY <1>2 DEF Answered, Fails, TurnedAway, Click
<1>3. CASE BlockStep
  BY <1>3 DEF BlockStep, PolicyNext
<1>4. CASE OthersStep
  BY <1>4 DEF OthersStep, PolicyNext
<1>5. CASE UNCHANGED editorAllVars
  BY <1>5 DEF editorAllVars
<1> QED  BY <1>1, <1>2, <1>3, <1>4, <1>5 DEF EditorNext, PushProceeds

\* The policy of the push is what its key holds.
InPlace ==
  IF push.key \in Device
    THEN devicePolicy[push.key] # NoPolicy /\ devicePolicy[push.key].grant = push.grant
    ELSE typePolicy[push.key] # NoPolicy /\ typePolicy[push.key].grant = push.grant

\* A block under another key leaves the policy in place.
LEMMA OtherBlockKeeps ==
  ASSUME EditorTypeOK, NEW tx \in pending, Commit(tx), tx.key # push.key,
         InPlace, push' = push
  PROVE  InPlace'
<1>1. tx \in DeviceTransaction \cup TypeTransaction
  BY DEF EditorTypeOK, PolicyTypeOK
<1>2. push.key \in Device \cup SensorType
  BY DEF EditorTypeOK
<1>3. CASE tx.key \in Device
  BY <1>2, <1>3 DEF Commit, InPlace, EditorTypeOK, PolicyTypeOK
<1>4. CASE tx.key \notin Device
  BY <1>1, <1>2, <1>4 DEF Commit, InPlace, EditorTypeOK, PolicyTypeOK
<1> QED  BY <1>3, <1>4

\* The block of the push puts its policy in place.
LEMMA OwnBlockWrites ==
  ASSUME EditorTypeOK, NEW tx \in pending, Commit(tx), tx.key = push.key,
         tx.write.grant = push.grant,
         push'.key = push.key, push'.grant = push.grant
  PROVE  InPlace'
<1>1. tx \in DeviceTransaction \cup TypeTransaction
  BY DEF EditorTypeOK, PolicyTypeOK
<1>2. CASE tx.key \in Device
  <2>1. tx \in DeviceTransaction
    BY <1>1, <1>2, PolicyAssumption DEF TypeTransaction
  <2>2. tx.write \in DevicePolicy /\ tx.write # NoPolicy
    BY <2>1, PolicyAssumption DEF DeviceTransaction
  <2>3. devicePolicy'[push.key] = tx.write
    BY <1>2 DEF Commit, EditorTypeOK, PolicyTypeOK
  <2> QED  BY <1>2, <2>2, <2>3 DEF InPlace
<1>3. CASE tx.key \notin Device
  <2>1. tx \in TypeTransaction
    BY <1>1, <1>3 DEF DeviceTransaction
  <2>2. tx.write \in TypePolicy /\ tx.write # NoPolicy /\ tx.key \in SensorType
    BY <2>1, PolicyAssumption DEF TypeTransaction
  <2>3. typePolicy'[push.key] = tx.write
    BY <1>3, <2>2 DEF Commit, EditorTypeOK, PolicyTypeOK
  <2> QED  BY <1>3, <2>2, <2>3 DEF InPlace
<1> QED  BY <1>2, <1>3

\* What the invariant says of the push itself.
PushKnows ==
  /\ push.step = "waiting" =>
       push.tx # NoTx /\ push.tx.key = push.key /\ push.tx.write.grant = push.grant
  /\ push.step \in {"written", "committed"} /\ ~overwritten => InPlace

\* A block tells the push of its own transaction, and never makes it wrong.
LEMMA BlockKeepsPush ==
  ASSUME EditorTypeOK, PushKnows, NEW tx \in pending, Commit(tx),
         push' = IF push.step = "waiting" /\ tx = push.tx
                   THEN [push EXCEPT !.step = "written"] ELSE push,
         overwritten' =
           (overwritten \/ (push.step \in {"written", "committed"} /\ tx.key = push.key))
  PROVE  PushKnows'
<1>1. CASE push.step = "waiting" /\ tx = push.tx
  <2>1. /\ push'.step = "written"
        /\ push'.key = push.key /\ push'.grant = push.grant
    BY <1>1 DEF EditorTypeOK
  <2>2. InPlace'
    BY <1>1, <2>1, OwnBlockWrites DEF PushKnows
  <2> QED  BY <2>1, <2>2 DEF PushKnows
<1>2. CASE ~(push.step = "waiting" /\ tx = push.tx)
  <2>1. push' = push
    BY <1>2
  <2>2. ASSUME push.step \in {"written", "committed"}, ~overwritten'
        PROVE  InPlace'
    <3>1. tx.key # push.key /\ ~overwritten
      BY <2>2
    <3> QED  BY <2>1, <2>2, <3>1, OtherBlockKeeps DEF PushKnows
  <2> QED  BY <2>1, <2>2 DEF PushKnows
<1> QED  BY <1>1, <1>2

\* The push and what it knows.
LEMMA PushStays ==
  ASSUME EditorTypeOK, PushKnows, [EditorNext]_editorAllVars
  PROVE  PolicyTypeOK' => PushKnows' /\ EditorTypeOK'
<1> SUFFICES ASSUME PolicyTypeOK'
             PROVE  PushKnows' /\ EditorTypeOK'
  OBVIOUS
<1>1. ASSUME NEW key \in Device \cup SensorType, NEW grant \in Forms, Click(key, grant)
      PROVE  PushKnows' /\ EditorTypeOK'
  BY <1>1, EditorAssumption DEF Click, PushKnows, EditorTypeOK, PushStep
<1>2. CASE Endorsed
  <2>1. PICK tx \in pending' \ pending :
               push' = [push EXCEPT !.step = "waiting", !.tx = tx]
    BY <1>2 DEF Endorsed
  <2>2. /\ tx \in DeviceTransaction \cup TypeTransaction
        /\ tx.key = push.key /\ tx.write.grant = push.grant
    BY <1>2, RouteCarriesForm DEF Endorsed
  <2>3. tx # NoTx
    BY <2>2, EditorAssumption
  <2>4. EditorTypeOK'
    BY <1>2, <2>1, <2>2 DEF Endorsed, EditorTypeOK, PushStep
  <2>5. /\ push'.step = "waiting" /\ push'.tx = tx
        /\ push'.key = push.key /\ push'.grant = push.grant
    BY <2>1 DEF EditorTypeOK
  <2> QED  BY <2>2, <2>3, <2>4, <2>5 DEF PushKnows
<1>3. CASE Answered
  BY <1>3 DEF Answered, PushKnows, EditorTypeOK, PushStep, InPlace, policyVars
<1>4. CASE Fails
  BY <1>4 DEF Fails, PushKnows, EditorTypeOK, PushStep, Pushing
<1>5. CASE TurnedAway
  BY <1>5 DEF TurnedAway, PushKnows, EditorTypeOK, PushStep
<1>6. CASE BlockStep
  <2>1. PICK tx \in pending :
          /\ Commit(tx)
          /\ push' = IF push.step = "waiting" /\ tx = push.tx
                       THEN [push EXCEPT !.step = "written"] ELSE push
          /\ overwritten' = (overwritten \/ (push.step \in {"written", "committed"}
                                             /\ tx.key = push.key))
    BY <1>6 DEF BlockStep
  <2>2. PushKnows'
    BY <2>1, BlockKeepsPush
  <2>3. EditorTypeOK'
    BY <2>1 DEF EditorTypeOK, PushStep
  <2> QED  BY <2>2, <2>3
<1>7. CASE OthersStep
  <2>1. UNCHANGED editorVars
    BY <1>7 DEF OthersStep
  <2>2. EditorTypeOK'
    BY <2>1 DEF editorVars, EditorTypeOK
  <2>3. UNCHANGED <<devicePolicy, typePolicy>>
    BY <1>7 DEF OthersStep, Invocation, Lose, RegisterDevice, UpdatePolicy,
       RegisterTypePolicy, UpdateTypePolicy, Endorse
  <2> QED  BY <2>1, <2>2, <2>3 DEF editorVars, PushKnows, InPlace
<1>8. CASE UNCHANGED editorAllVars
  BY <1>8 DEF editorAllVars, editorVars, policyVars, PushKnows, EditorTypeOK, InPlace
<1> QED
  BY <1>1, <1>2, <1>3, <1>4, <1>5, <1>6, <1>7, <1>8 DEF EditorNext, PushProceeds

\* No step of editor, clients or blocks breaks the invariant.
LEMMA EditorInductiveStep == EditorIInv /\ [EditorNext]_editorAllVars => EditorIInv'
<1> SUFFICES ASSUME EditorIInv, [EditorNext]_editorAllVars
             PROVE  EditorIInv'
  OBVIOUS
<1>1. EditorTypeOK /\ PolicyIInv /\ PushKnows
  BY DEF EditorIInv, PushKnows, InPlace
<1>2. PolicyIInv'
  BY <1>1, EditorStepIsPolicyStep, PolicyInductiveStep
<1>3. PushKnows' /\ EditorTypeOK'
  BY <1>1, <1>2, PushStays DEF PolicyIInv
<1> QED  BY <1>2, <1>3 DEF EditorIInv, PushKnows, InPlace

----------------------------------------------------------------------------
(****************************************************************************)
(* The theorems                                                             *)
(****************************************************************************)

\* What the page goes by holds in every reachable state.
THEOREM EditorInductive == EditorSpec => []EditorIInv
BY EditorInitially, EditorInductiveStep, PTL DEF EditorSpec

\* Type correctness of the editor and of the policies behind it.
THEOREM EditorTypeCorrect == EditorSpec => []EditorTypeOK
<1>1. EditorIInv => EditorTypeOK
  BY DEF EditorIInv
<1> QED  BY <1>1, EditorInductive, PTL

\* The editor does to the policies what AccessPolicies allows, so what is proved
\* there holds with the page's fallback from update to registration.
THEOREM EditorImplementsPolicies == EditorSpec => PolicySpec
<1>1. EditorInit => PolicyInit
  BY DEF EditorInit
<1>2. EditorIInv /\ [EditorNext]_editorAllVars => [PolicyNext]_policyVars
  BY EditorStepIsPolicyStep DEF EditorIInv
<1> QED  BY <1>1, <1>2, EditorInductive, PTL DEF EditorSpec, PolicySpec

\* A policy that the page calls committed bounds what CheckAccess grants on all
\* the devices it is about, until another policy is written over it.
THEOREM CommittedHolds == EditorSpec => []CommittedIsInForce
<1>1. EditorIInv => CommittedIsInForce
  <2> SUFFICES ASSUME EditorIInv, push.step = "committed", ~overwritten,
                      NEW d \in Affected(push.key), NEW role \in Role
               PROVE  Rank(CheckAccess(d, role)) <= Allowed(push.grant, role)
    BY DEF CommittedIsInForce
  <2>1. /\ PolicyTypeOK /\ push.key \in Device \cup SensorType
        /\ d \in Device /\ devicePolicy[d] # NoPolicy
        /\ push.key = d \/ push.key = devicePolicy[d].type
    BY DEF EditorIInv, EditorTypeOK, Affected
  <2>2. devicePolicy[d].type \in SensorType \cup {Legacy}
    BY <2>1 DEF PolicyTypeOK, DevicePolicy
  <2>3. push.grant \in Applicable(d)
    <3>1. CASE push.key = d
      BY <2>1, <3>1 DEF EditorIInv, Applicable
    <3>2. CASE push.key # d
      <4>1. push.key \in SensorType /\ push.key \notin Device
        BY <2>1, <2>2, <3>2, PolicyAssumption, EditorAssumption
      <4>2. typePolicy[push.key] # NoPolicy /\ typePolicy[push.key].grant = push.grant
        BY <4>1 DEF EditorIInv
      <4> QED  BY <2>1, <3>2, <4>1, <4>2 DEF Applicable
    <3> QED  BY <3>1, <3>2
  <2> QED  BY <2>1, <2>3, CheckAccessIsLeast
<1> QED  BY <1>1, EditorInductive, PTL
=============================================================================
