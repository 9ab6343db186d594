---------------------------- MODULE SensorNetwork ----------------------------
(****************************************************************************)
(* The sensor network from its first day: the gateways of Transport have to *)
(* be started, have to agree with the motes on a master key, and hear       *)
(* nothing while they are down.                                             *)
(****************************************************************************)
EXTENDS Transport, KeyManager

ASSUME NetworkAssumption == Gateway = Type

netVars == <<vars, keyVars>>

NetworkTypeOK == TypeOK /\ KeyTypeOK

NetworkInit == Init /\ KeyInit

----------------------------------------------------------------------------

\* A mote runs once it has been flashed.
MoteStep == flashed # Empty /\ \E d \in Device : Send(d) \/ Reboot(d)

\* The gateway of the mote checks the number, then the tag.
HandleFrame ==
  \E f \in air :
    /\ step[TypeOf[f.device]] = "on"
    /\ (Understands(TypeOf[f.device]) /\ Accept(f)) \/ Reject(f)

\* No process is bound to the address, or it has a key that does not fit.
Undelivered ==
  \E f \in air :
    /\ step[TypeOf[f.device]] # "on" \/ (IsNew(f) /\ ~Understands(TypeOf[f.device]))
    /\ LoseFrame(f)

\* Steps that are none of the keys' business.
TransportStep ==
  /\ \/ MoteStep
     \/ \E f \in air : LoseFrame(f)
     \/ HandleFrame
     \/ Tick
     \/ PublishNext \/ DeliverNext
     \/ Disconnect \/ Stop \/ Start
  /\ UNCHANGED keyVars

\* Steps that are none of the transport's business.  A process that serves no
\* type, started to create the key, is stopped once it has done so, or earlier.
KeyStep ==
  /\ \/ \E g \in Gateway : Launch(g)
     \/ \E p \in ByHand : StartByHand(p)
     \/ \E p \in Process : StartUp(p)
     \/ \E p \in Process \ Gateway : Exit(p)
     \/ Flash
  /\ UNCHANGED vars

\* A gateway dies, with its window and what paho keeps; Launch starts it anew.
GatewayDies == \E t \in Type : Restart(t) /\ Exit(t)

NetworkNext == TransportStep \/ KeyStep \/ GatewayDies

NetworkSpec == NetworkInit /\ [][NetworkNext]_netVars

\* As in Transport.  A frame that nobody can read is lost in the end; a process
\* that has been started gets on, but nobody has to start it.
NetworkFairSpec ==
  /\ NetworkSpec
  /\ WF_netVars(HandleFrame /\ UNCHANGED keyVars)
  /\ WF_netVars(Undelivered /\ UNCHANGED keyVars)
  /\ WF_netVars(PublishNext /\ UNCHANGED keyVars)
  /\ WF_netVars(DeliverNext /\ UNCHANGED keyVars)
  /\ \A p \in Process : WF_netVars(StartUp(p) /\ UNCHANGED vars)
=============================================================================
