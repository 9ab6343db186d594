------------------------------ MODULE Transport ------------------------------
(****************************************************************************)
(* The way of a reading from the mote to the ingestion: the firmware        *)
(* (mote-code/udp-client.c), UDP, the gateways (gateway/                    *)
(* gateway_udp_mqtt.py), the broker, and the session in which the ingestion *)
(* subscribes (main of ingestion/ingest_mqtt_sqlite.py).                    *)
(*                                                                          *)
(* There is one gateway for each sensor type.  A frame carries the type of  *)
(* its mote and goes to the gateway of that type, so the cross-check of the *)
(* type finds nothing to drop; ciphers and tags are pure functions.         *)
(****************************************************************************)
EXTENDS Integers, Sequences

CONSTANTS
  Device,      \* the motes
  Type,        \* the sensor types, one gateway each
  Unknown,     \* the type of a node id outside every block
  TypeOf,      \* the type choose_profile finds for a mote
  MaxSeq,      \* bound: how many frames a mote sends in one life
  MaxBoots,    \* bound: how often a mote reboots
  MaxClock,    \* bound: how many milliseconds go by
  MaxFaults    \* bound: how many frames, links and processes fail

ASSUME TransportAssumption ==
  /\ TypeOf \in [Device -> Type \cup {Unknown}]
  /\ Unknown \notin Type
  /\ MaxSeq \in Nat /\ MaxBoots \in Nat /\ MaxClock \in Nat /\ MaxFaults \in Nat

VARIABLES
  mote,        \* tx_count of each mote; boot counts its reboots (history)
  air,         \* the frames on their way to a gateway
  lastSeq,     \* the replay windows, of all gateways together
  life,        \* history: how often each gateway was started anew
  clock,       \* the milliseconds of time.time() at the gateways
  accepted,    \* history: the readings made of frames, in this order
  outbox,      \* the messages the gateways' paho clients keep until a PUBACK
  session,     \* how the broker knows the ingestion
  inbox,       \* the messages the broker has for the ingestion
  received,    \* history: the readings on_message was called with
  faults       \* how many failures have happened so far

moteVars == <<mote, air>>
gatewayVars == <<lastSeq, life, clock, accepted>>
mqttVars == <<outbox, session, inbox, received>>
vars == <<moteVars, gatewayVars, mqttVars, faults>>

\* What is read of a frame.  The nonce is made of device and seq; boot is
\* history and tells the frames of two lives of a mote apart.
Frame == [device : Device, boot : 0..MaxBoots, seq : 0..MaxSeq - 1]

\* The field life of a reading is history.
Reading == [frame : Frame, ts : 0..MaxClock, life : 0..MaxFaults]

\* What is left of a reading's origin in table and ledger.
RecordId(m) == <<m.frame.device, m.ts, m.frame.seq>>

\* last_seq.get(device_id, -1) for a device that is not in the window
None == -1

\* "deaf" is a client that paho has reconnected with a clean session: main
\* subscribes once, before the loop.
Session == {"subscribed", "deaf", "down"}

TypeOK ==
  /\ mote \in [Device -> [seq : 0..MaxSeq, boot : 0..MaxBoots]]
  /\ air \in SUBSET Frame
  /\ lastSeq \in [Device -> None..MaxSeq - 1]
  /\ life \in [Type -> 0..MaxFaults]
  /\ clock \in 0..MaxClock
  /\ accepted \in Seq(Reading)
  /\ outbox \in SUBSET Reading
  /\ session \in Session
  /\ inbox \in SUBSET Reading
  /\ received \in SUBSET Reading
  /\ faults \in 0..MaxFaults

Init ==
  /\ mote = [d \in Device |-> [seq |-> 0, boot |-> 0]]
  /\ air = {}
  /\ lastSeq = [d \in Device |-> None]
  /\ life = [t \in Type |-> 0]
  /\ clock = 0
  /\ accepted = <<>>
  /\ outbox = {}
  /\ session = "subscribed"
  /\ inbox = {}
  /\ received = {}
  /\ faults = 0

Fault == faults < MaxFaults /\ faults' = faults + 1

----------------------------------------------------------------------------
(****************************************************************************)
(* A mote and its frames                                                    *)
(****************************************************************************)

\* choose_profile found a type; a mote without one halts at boot.
Transmits(d) == TypeOf[d] # Unknown

\* The timer expires and the node has a route: a frame is sent, then counted.
Send(d) ==
  /\ Transmits(d)
  /\ mote[d].seq < MaxSeq
  /\ air' = air \cup {[device |-> d, boot |-> mote[d].boot, seq |-> mote[d].seq]}
  /\ mote' = [mote EXCEPT ![d].seq = @ + 1]
  /\ UNCHANGED <<gatewayVars, mqttVars, faults>>

\* tx_count is in the mote's memory.
Reboot(d) ==
  /\ mote[d].boot < MaxBoots
  /\ mote' = [mote EXCEPT ![d] = [seq |-> 0, boot |-> @.boot + 1]]
  /\ UNCHANGED <<air, gatewayVars, mqttVars, faults>>

\* A frame is lost, or damaged: parse_frame, the tag or parse_body drops it
\* before the window moves.
LoseFrame(f) ==
  /\ Fault
  /\ air' = air \ {f}
  /\ UNCHANGED <<mote, gatewayVars, mqttVars>>

Older(f, g) ==
  /\ f.device = g.device
  /\ f.boot < g.boot \/ (f.boot = g.boot /\ f.seq < g.seq)

\* UDP hands f to the gateway.  That it overtakes another frame of the mote, or
\* that a second copy of it stays on the way, counts as a failure.
Arrives(f) ==
  \/ /\ \A g \in air : ~Older(g, f)
     /\ air' = air \ {f}
     /\ UNCHANGED faults
  \/ /\ \E g \in air : Older(g, f)
     /\ air' = air \ {f}
     /\ Fault
  \/ UNCHANGED air /\ Fault

----------------------------------------------------------------------------
(****************************************************************************)
(* A gateway                                                                *)
(****************************************************************************)

\* Mutant: the replay check compares with <, so the last number passes again.
Mutant_IsNewOrLast(f) == f.seq >= lastSeq[f.device]

\* Mutant: a device that is not in the window starts from 0.
Mutant_IsNewFromOne(f) ==
  f.seq > (IF lastSeq[f.device] = None THEN 0 ELSE lastSeq[f.device])

\* The replay check.
IsNew(f) == f.seq > lastSeq[f.device]

ReadingOf(f) == [frame |-> f, ts |-> clock, life |-> life[TypeOf[f.device]]]

\* Mutant: the window moves to the next number that is expected.
Mutant_AcceptMovesPast(f) ==
  /\ IsNew(f)
  /\ Arrives(f)
  /\ lastSeq' = [lastSeq EXCEPT ![f.device] = f.seq + 1]
  /\ accepted' = Append(accepted, ReadingOf(f))
  /\ outbox' = outbox \cup {ReadingOf(f)}
  /\ UNCHANGED <<mote, life, clock, session, inbox, received>>

\* A frame that is new moves the window, is stamped and handed to paho.
Accept(f) ==
  /\ IsNew(f)
  /\ Arrives(f)
  /\ lastSeq' = [lastSeq EXCEPT ![f.device] = f.seq]
  /\ accepted' = Append(accepted, ReadingOf(f))
  /\ outbox' = outbox \cup {ReadingOf(f)}
  /\ UNCHANGED <<mote, life, clock, session, inbox, received>>

\* Any other frame is dropped.
Reject(f) ==
  /\ ~IsNew(f)
  /\ Arrives(f)
  /\ UNCHANGED <<mote, gatewayVars, mqttVars>>

\* Mutant: the new process is there within the millisecond.
Mutant_RestartAtOnce(t) ==
  /\ Fault
  /\ lastSeq' = [d \in Device |-> IF TypeOf[d] = t THEN None ELSE lastSeq[d]]
  /\ life' = [life EXCEPT ![t] = @ + 1]
  /\ outbox' = {m \in outbox : TypeOf[m.frame.device] # t}
  /\ UNCHANGED <<moteVars, clock, accepted, session, inbox, received>>

\* The process dies and is started again: last_seq and what paho has not got
\* rid of are gone.  Starting takes more than a millisecond.
Restart(t) ==
  /\ Fault
  /\ lastSeq' = [d \in Device |-> IF TypeOf[d] = t THEN None ELSE lastSeq[d]]
  /\ life' = [life EXCEPT ![t] = @ + 1]
  /\ outbox' = {m \in outbox : TypeOf[m.frame.device] # t}
  /\ clock < MaxClock /\ clock' = clock + 1
  /\ UNCHANGED <<moteVars, accepted, session, inbox, received>>

Tick ==
  /\ clock < MaxClock
  /\ clock' = clock + 1
  /\ UNCHANGED <<moteVars, lastSeq, life, accepted, mqttVars, faults>>

----------------------------------------------------------------------------
(****************************************************************************)
(* The broker and the session of the ingestion                              *)
(****************************************************************************)

\* The gateway's paho publishes with QoS 1: when the link breaks before the
\* PUBACK, it reconnects and publishes again.  The broker keeps nothing for a
\* subscriber it does not know.
Publish(m) ==
  /\ inbox' = IF session = "subscribed" THEN inbox \cup {m} ELSE inbox
  /\ \/ outbox' = outbox \ {m} /\ UNCHANGED faults
     \/ UNCHANGED outbox /\ Fault
  /\ UNCHANGED <<moteVars, gatewayVars, session, received>>

\* on_message is called.  The subscription has QoS 0: a copy is handed on once,
\* and nothing is sent again when the link breaks.
Deliver(m) ==
  /\ inbox' = inbox \ {m}
  /\ received' = received \cup {m}
  /\ UNCHANGED <<moteVars, gatewayVars, outbox, session, faults>>

\* The ingestion's link breaks, or the broker starts again with nothing on
\* disk: paho reconnects, and the clean session has no subscription.
Disconnect ==
  /\ session = "subscribed"
  /\ Fault
  /\ session' = "deaf"
  /\ inbox' = {}
  /\ UNCHANGED <<moteVars, gatewayVars, outbox, received>>

\* The ingestion dies or is stopped.
Stop ==
  /\ session # "down"
  /\ Fault
  /\ session' = "down"
  /\ inbox' = {}
  /\ UNCHANGED <<moteVars, gatewayVars, outbox, received>>

\* main: connect and subscribe.
Start ==
  /\ session = "down"
  /\ session' = "subscribed"
  /\ UNCHANGED <<moteVars, gatewayVars, outbox, inbox, received, faults>>

----------------------------------------------------------------------------
Handle == \E f \in air : Accept(f) \/ Reject(f)
PublishNext == \E m \in outbox : Publish(m)
DeliverNext == \E m \in inbox : Deliver(m)

Next ==
  \/ \E d \in Device : Send(d) \/ Reboot(d)
  \/ \E f \in air : LoseFrame(f)
  \/ Handle
  \/ \E t \in Type : Restart(t)
  \/ Tick
  \/ PublishNext \/ DeliverNext
  \/ Disconnect \/ Stop \/ Start

Spec == Init /\ [][Next]_vars

\* What is on its way and not lost arrives: loss is a failure of its own.
\* Nobody has to send, reboot or start anything.
FairSpec ==
  Spec /\ WF_vars(Handle) /\ WF_vars(PublishNext) /\ WF_vars(DeliverNext)

----------------------------------------------------------------------------
(****************************************************************************)
(* Properties                                                               *)
(****************************************************************************)

\* The triple (device, ts, seq) is unique, as fabric_client.py (lines 78-83)
\* needs it to be, although tx_count starts again with the mote and the window
\* with the gateway, and whatever UDP delivers twice or late.
RecordIdsAreUnique ==
  \A i, j \in DOMAIN accepted :
    RecordId(accepted[i]) = RecordId(accepted[j]) => i = j

\* In one life of a gateway the numbers it accepts of a device only grow: no
\* frame is accepted twice, none late, and a mote that rebooted waits.
NumbersGrowInALife ==
  \A i, j \in DOMAIN accepted :
    /\ i < j
    /\ accepted[i].frame.device = accepted[j].frame.device
    /\ accepted[i].life = accepted[j].life
    => accepted[i].frame.seq < accepted[j].frame.seq

\* The number n of the mote d is on its way to the gateway, or has passed it.
InAir(d, n) == \E f \in air : f.device = d /\ f.seq = n

HasReading(d, n) ==
  \E m \in outbox \cup inbox \cup received : m.frame.device = d /\ m.frame.seq = n

\* Unless something fails, a number that a mote has reached is never lost from
\* sight: a frame or a reading of it is on its way, or has come through.  So the
\* replay check never drops the only frame of a number, reboots included.
NumbersAreAccountedFor ==
  faults = 0 =>
    \A d \in Device, n \in 0..MaxSeq - 1 :
      mote[d].seq > n => InAir(d, n) \/ HasReading(d, n)

\* Unless something fails, every number that a mote reaches comes through, be
\* it from a later boot: what a reboot costs are the numbers that were there
\* before, and nothing else is lost between the mote and on_message.
EveryNumberArrives ==
  [](faults = 0) =>
    \A d \in Device, n \in 0..MaxSeq - 1 :
      mote[d].seq > n ~>
        \E m \in received : m.frame.device = d /\ m.frame.seq = n

----------------------------------------------------------------------------
(****************************************************************************)
(* The inductive invariant: the window is past everything accepted in this  *)
(* millisecond or in this life of the gateway.                              *)
(****************************************************************************)
WindowCovers(m) ==
  /\ TypeOf[m.frame.device] \in Type
  /\ m.ts <= clock
  /\ m.life <= life[TypeOf[m.frame.device]]
  /\ m.ts = clock \/ m.life = life[TypeOf[m.frame.device]] =>
       m.frame.seq <= lastSeq[m.frame.device]

WindowCoversAccepted == \A i \in DOMAIN accepted : WindowCovers(accepted[i])

IInv ==
  /\ TypeOK
  /\ \A t \in Type : life[t] <= faults
  /\ \A f \in air : TypeOf[f.device] \in Type
  /\ WindowCoversAccepted
  /\ RecordIdsAreUnique
  /\ NumbersGrowInALife

Seqs == 0..MaxSeq - 1

FrameOf(d, boot, n) == [device |-> d, boot |-> boot, seq |-> n]

\* Each number below seq is on its way or behind the window.
NoGapBefore(d, boot, seq) ==
  \A n \in Seqs : n < seq => FrameOf(d, boot, n) \in air \/ n <= lastSeq[d]

\* Unless something fails, the windows leave no gap: what a mote sent before a
\* frame is still on its way or behind the window, and what is behind the window
\* became a reading, for which there is a subscriber.
NoGaps ==
  faults = 0 =>
    /\ session = "subscribed"
    /\ \A d \in Device : NoGapBefore(d, mote[d].boot, mote[d].seq)
    /\ \A f \in air : NoGapBefore(f.device, f.boot, f.seq)
    /\ \A d \in Device, n \in Seqs : n <= lastSeq[d] => HasReading(d, n)
=============================================================================
