----------------------------- MODULE PolicyEditor -----------------------------
(****************************************************************************)
(* An administrator's policy editor (dashboard/sharing.html), the routes of *)
(* the sharing API behind it (api/api_sharing.py) and _invoke, which waits  *)
(* for the block (api/fabric_access.py).  Pushing a policy tries the update *)
(* first; for a sensor type, a 500 or a broken connection makes the page    *)
(* try the registration.  Other clients go on invoking what they like.      *)
(****************************************************************************)
EXTENDS AccessPolicies

CONSTANTS
  Site,        \* the owner_org of a type policy that the page registers
  Forms,       \* what the administrator fills in
  NoTx         \* no transaction has been endorsed

ASSUME EditorAssumption ==
  /\ Site \in Org
  /\ Legacy \notin Device
  /\ Forms \subseteq Grants
  /\ NoTx \notin DeviceTransaction \cup TypeTransaction

VARIABLES
  push,          \* the push in hand, or the last one with what the page says of it
  overwritten    \* history: the pushed policy was written, and then another one

editorVars == <<push, overwritten>>

\* "called" is before the simulation, "waiting" after it, "written" after the
\* block and before the event; the last two are what the page shows.
PushStep == {"called", "waiting", "written", "committed", "rejected"}

EditorTypeOK ==
  /\ PolicyTypeOK
  /\ push \in [step : PushStep, route : {"PUT", "POST"}, key : Device \cup SensorType,
               grant : Grants, tx : DeviceTransaction \cup TypeTransaction \cup {NoTx}]
  /\ overwritten \in BOOLEAN

Pushing == push.step \in {"called", "waiting", "written"}

\* Nothing has been pushed, and the page says so.
EditorInit ==
  /\ PolicyInit
  /\ push \in [step : {"rejected"}, route : {"PUT"}, key : Device \cup SensorType,
               grant : Forms, tx : {NoTx}]
  /\ overwritten = FALSE

----------------------------------------------------------------------------

\* pushDevicePolicy, or pushTypePolicy for the tab that is shown.
Click(key, grant) ==
  /\ ~Pushing
  /\ push' = [step |-> "called", route |-> "PUT", key |-> key, grant |-> grant,
              tx |-> NoTx]
  /\ overwritten' = FALSE
  /\ UNCHANGED policyVars

\* The invocation behind the route.
RouteInvokes ==
  \/ push.key \in Device /\ UpdatePolicy(push.key, push.grant)
  \/ push.key \in SensorType /\ push.route = "PUT"
       /\ UpdateTypePolicy(push.key, push.grant)
  \/ push.key \in SensorType /\ push.route = "POST"
       /\ RegisterTypePolicy(push.key, Site, push.grant)

\* Mutant: --waitForEvent is missing, and the API answers at once.
Mutant_EndorsedIsEnough ==
  /\ push.step = "called"
  /\ RouteInvokes
  /\ \E tx \in pending' \ pending : push' = [push EXCEPT !.step = "written", !.tx = tx]
  /\ UNCHANGED overwritten

\* The peers endorse the transaction, and _invoke waits for its event.
Endorsed ==
  /\ push.step = "called"
  /\ RouteInvokes
  /\ \E tx \in pending' \ pending : push' = [push EXCEPT !.step = "waiting", !.tx = tx]
  /\ UNCHANGED overwritten

\* The event comes in time: a 200.
Answered ==
  /\ push.step = "written"
  /\ push' = [push EXCEPT !.step = "committed"]
  /\ UNCHANGED <<policyVars, overwritten>>

\* Mutant: _invoke waits for its event for ever.
Mutant_FailsNoTimeout ==
  /\ push.step = "called"
  /\ push' = IF push.route = "PUT" /\ push.key \in SensorType
               THEN [push EXCEPT !.route = "POST"]
               ELSE [push EXCEPT !.step = "rejected"]
  /\ UNCHANGED <<policyVars, overwritten>>

\* The chaincode refuses, Fabric discards the transaction, 30 s go by without
\* the event, or the connection breaks.  After a timeout the transaction may
\* still get its block; a handler whose client is gone is one of the others.
Fails ==
  /\ Pushing
  /\ push' = IF push.route = "PUT" /\ push.key \in SensorType
               THEN [push EXCEPT !.step = "called", !.route = "POST", !.tx = NoTx]
               ELSE [push EXCEPT !.step = "rejected", !.tx = NoTx]
  /\ UNCHANGED <<policyVars, overwritten>>

\* A 401, 403 or 400: the page tries nothing else.
TurnedAway ==
  /\ push.step = "called"
  /\ push' = [push EXCEPT !.step = "rejected"]
  /\ UNCHANGED <<policyVars, overwritten>>

\* A block is written: the push learns of its own transaction.
BlockStep ==
  \E tx \in pending :
    /\ Commit(tx)
    /\ push' = IF push.step = "waiting" /\ tx = push.tx
                 THEN [push EXCEPT !.step = "written"] ELSE push
    /\ overwritten' =
         (overwritten \/ (push.step \in {"written", "committed"} /\ tx.key = push.key))

\* Other clients, and transactions that get lost.
OthersStep ==
  /\ Invocation \/ \E tx \in pending : Lose(tx)
  /\ UNCHANGED editorVars

PushProceeds == Endorsed \/ Answered \/ Fails

EditorNext ==
  \/ \E key \in Device \cup SensorType, grant \in Forms : Click(key, grant)
  \/ PushProceeds \/ TurnedAway
  \/ BlockStep \/ OthersStep

editorAllVars == <<policyVars, editorVars>>

EditorSpec == EditorInit /\ [][EditorNext]_editorAllVars

\* Each wait ends, with an answer or after 30 s.
EditorFairSpec == EditorSpec /\ WF_editorAllVars(PushProceeds)

----------------------------------------------------------------------------
(****************************************************************************)
(* Properties                                                               *)
(****************************************************************************)

\* The devices a policy is about: "ALL devices of this type" (sharing.html,
\* line 730), or the one it is for.
Affected(key) ==
  {d \in Device : /\ devicePolicy[d] # NoPolicy
                  /\ key = d \/ key = devicePolicy[d].type}

\* What the page calls committed is in force, for every device it is about and
\* whatever their other policy allows, until somebody writes another one: the
\* answer is neither ahead of the block nor that of a discarded transaction.
CommittedIsInForce ==
  push.step = "committed" /\ ~overwritten =>
    \A d \in Affected(push.key), role \in Role :
      Rank(CheckAccess(d, role)) <= Allowed(push.grant, role)

\* The page does not say "pushing" for ever, whoever interferes and whatever is
\* lost.
PushEnds == Pushing ~> ~Pushing

\* What the page goes by: a transaction it waits for carries its policy, and one
\* whose block it has heard of has left it in place.
EditorIInv ==
  /\ EditorTypeOK
  /\ PolicyIInv
  /\ push.step = "waiting" =>
       push.tx # NoTx /\ push.tx.key = push.key /\ push.tx.write.grant = push.grant
  /\ push.step \in {"written", "committed"} /\ ~overwritten =>
       IF push.key \in Device
         THEN devicePolicy[push.key] # NoPolicy /\ devicePolicy[push.key].grant = push.grant
         ELSE typePolicy[push.key] # NoPolicy /\ typePolicy[push.key].grant = push.grant
=============================================================================
