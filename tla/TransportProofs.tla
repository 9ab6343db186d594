--------------------------- MODULE TransportProofs ---------------------------
(****************************************************************************)
(* Theorems about the way of a reading to the ingestion, for any motes,     *)
(* types and bounds.                                                        *)
(****************************************************************************)
EXTENDS Transport, TLAPS

----------------------------------------------------------------------------
(****************************************************************************)
(* Types                                                                    *)
(****************************************************************************)

\* A gateway makes a reading of a frame that is on its way.
LEMMA ReadingType ==
  ASSUME TypeOK, NEW f \in air, TypeOf[f.device] \in Type
  PROVE  ReadingOf(f) \in Reading
BY DEF TypeOK, ReadingOf, Reading

\* The count of the failures stays within its bound.
LEMMA FaultType ==
  ASSUME faults \in 0..MaxFaults, Fault
  PROVE  faults' \in 0..MaxFaults /\ faults' = faults + 1
BY TransportAssumption DEF Fault

\* A frame that arrives leaves nothing new on the way.
LEMMA ArrivesType ==
  ASSUME faults \in 0..MaxFaults, NEW f \in air, Arrives(f)
  PROVE  /\ air' \subseteq air
         /\ faults' \in 0..MaxFaults
         /\ faults' >= faults
BY FaultType DEF Arrives

\* What an accepted frame changes, but for the queues.
LEMMA AcceptType ==
  ASSUME TypeOK, NEW f \in air, TypeOf[f.device] \in Type, Accept(f)
  PROVE  /\ lastSeq' \in [Device -> None..MaxSeq - 1]
         /\ accepted' \in Seq(Reading)
         /\ outbox' \in SUBSET Reading
<1>1. ReadingOf(f) \in Reading
  BY ReadingType
<1>2. f \in Frame
  BY DEF TypeOK
<1>3. f.seq \in None..MaxSeq - 1
  BY <1>2, TransportAssumption DEF Frame, None
<1>4. lastSeq' = [lastSeq EXCEPT ![f.device] = f.seq]
  BY DEF Accept
<1>5. lastSeq' \in [Device -> None..MaxSeq - 1]
  BY <1>3, <1>4 DEF TypeOK
<1> QED  BY <1>1, <1>5 DEF Accept, TypeOK

\* What a new start of a gateway changes.
LEMMA RestartType ==
  ASSUME TypeOK, NEW t \in Type, life[t] <= faults, Restart(t)
  PROVE  /\ lastSeq' \in [Device -> None..MaxSeq - 1]
         /\ life' \in [Type -> 0..MaxFaults]
         /\ clock' \in 0..MaxClock
         /\ outbox' \in SUBSET Reading
<1>1. None \in None..MaxSeq - 1
  BY TransportAssumption DEF None
<1>2. lastSeq' \in [Device -> None..MaxSeq - 1]
  BY <1>1 DEF Restart, TypeOK
<1>3. life[t] + 1 \in 0..MaxFaults
  BY TransportAssumption DEF Restart, Fault, TypeOK
<1>4. life' \in [Type -> 0..MaxFaults]
  BY <1>3 DEF Restart, TypeOK
<1> QED  BY <1>2, <1>4, TransportAssumption DEF Restart, TypeOK

\* No step breaks the types.
LEMMA TypeStep ==
  ASSUME IInv, [Next]_vars
  PROVE  TypeOK'
<1> USE DEF IInv
<1>1. ASSUME NEW d \in Device, Send(d)
      PROVE  TypeOK'
  <2>1. [device |-> d, boot |-> mote[d].boot, seq |-> mote[d].seq] \in Frame
    BY <1>1, TransportAssumption DEF Send, TypeOK, Frame
  <2>2. mote' \in [Device -> [seq : 0..MaxSeq, boot : 0..MaxBoots]]
    <3>1. mote[d].seq + 1 \in 0..MaxSeq
      BY <1>1, TransportAssumption DEF Send, TypeOK
    <3> QED  BY <1>1, <3>1 DEF Send, TypeOK
  <2> QED  BY <1>1, <2>1, <2>2 DEF Send, TypeOK, gatewayVars, mqttVars
<1>2. ASSUME NEW d \in Device, Reboot(d)
      PROVE  TypeOK'
  <2>1. mote' \in [Device -> [seq : 0..MaxSeq, boot : 0..MaxBoots]]
    BY <1>2, TransportAssumption DEF Reboot, TypeOK
  <2> QED  BY <1>2, <2>1 DEF Reboot, TypeOK, gatewayVars, mqttVars
<1>3. ASSUME NEW f \in air, LoseFrame(f)
      PROVE  TypeOK'
  <2>1. faults' \in 0..MaxFaults
    BY <1>3, FaultType DEF LoseFrame, TypeOK
  <2> QED  BY <1>3, <2>1 DEF LoseFrame, TypeOK, gatewayVars, mqttVars
<1>4. ASSUME NEW f \in air, Accept(f)
      PROVE  TypeOK'
  <2>1. air' \subseteq air /\ faults' \in 0..MaxFaults
    BY <1>4, ArrivesType DEF Accept, TypeOK
  <2> QED  BY <1>4, <2>1, AcceptType DEF Accept, TypeOK
<1>5. ASSUME NEW f \in air, Reject(f)
      PROVE  TypeOK'
  <2>1. air' \subseteq air /\ faults' \in 0..MaxFaults
    BY <1>5, ArrivesType DEF Reject, TypeOK
  <2> QED  BY <1>5, <2>1 DEF Reject, TypeOK, gatewayVars, mqttVars
<1>6. ASSUME NEW t \in Type, Restart(t)
      PROVE  TypeOK'
  <2>1. faults' \in 0..MaxFaults
    BY <1>6, FaultType DEF Restart, TypeOK
  <2> QED  BY <1>6, <2>1, RestartType DEF Restart, TypeOK, moteVars
<1>7. CASE Tick
  BY <1>7, TransportAssumption DEF Tick, TypeOK, moteVars, mqttVars
<1>8. ASSUME NEW m \in outbox, Publish(m)
      PROVE  TypeOK'
  <2>1. faults' \in 0..MaxFaults /\ outbox' \subseteq outbox
    BY <1>8, FaultType DEF Publish, TypeOK
  <2> QED  BY <1>8, <2>1 DEF Publish, TypeOK, moteVars, gatewayVars
<1>9. ASSUME NEW m \in inbox, Deliver(m)
      PROVE  TypeOK'
  BY <1>9 DEF Deliver, TypeOK, moteVars, gatewayVars
<1>10. CASE Disconnect \/ Stop
  <2>1. faults' \in 0..MaxFaults
    BY <1>10, FaultType DEF Disconnect, Stop, TypeOK
  <2> QED  BY <1>10, <2>1 DEF Disconnect, Stop, TypeOK, Session, moteVars, gatewayVars
<1>11. CASE Start
  BY <1>11 DEF Start, TypeOK, Session, moteVars, gatewayVars
<1>12. CASE UNCHANGED vars
  BY <1>12 DEF vars, TypeOK, moteVars, gatewayVars, mqttVars
<1> QED
  BY <1>1, <1>2, <1>3, <1>4, <1>5, <1>6, <1>7, <1>8, <1>9, <1>10, <1>11, <1>12
  DEF Next, Handle, PublishNext, DeliverNext

----------------------------------------------------------------------------
(****************************************************************************)
(* The window                                                               *)
(****************************************************************************)

\* Only an accepted frame, a new start and time concern the window.
LEMMA GatewaySteps ==
  ASSUME [Next]_vars
  PROVE  \/ \E f \in air : Accept(f)
         \/ \E t \in Type : Restart(t)
         \/ Tick
         \/ UNCHANGED gatewayVars
BY DEF Next, vars, Handle, PublishNext, DeliverNext, Send, Reboot, LoseFrame, Reject,
       Publish, Deliver, Disconnect, Stop, Start

\* Motes of an unknown type send nothing; a gateway starts anew by a failure.
LEMMA KnownStep ==
  ASSUME IInv, [Next]_vars
  PROVE  /\ \A t \in Type : life'[t] <= faults'
         /\ \A f \in air' : TypeOf[f.device] \in Type
<1> USE DEF IInv
<1>1. ASSUME NEW d \in Device, Send(d)
      PROVE  /\ \A t \in Type : life'[t] <= faults'
             /\ \A f \in air' : TypeOf[f.device] \in Type
  BY <1>1, TransportAssumption DEF Send, Transmits, gatewayVars
<1>2. ASSUME NEW t \in Type, Restart(t)
      PROVE  /\ \A s \in Type : life'[s] <= faults'
             /\ \A f \in air' : TypeOf[f.device] \in Type
  BY <1>2 DEF Restart, Fault, moteVars, TypeOK
<1>3. ASSUME NEW f \in air, Accept(f) \/ Reject(f)
      PROVE  /\ \A t \in Type : life'[t] <= faults'
             /\ \A g \in air' : TypeOf[g.device] \in Type
  <2>1. air' \subseteq air /\ faults' >= faults /\ faults' \in Int
    BY <1>3, ArrivesType DEF Accept, Reject, TypeOK
  <2> QED  BY <1>3, <2>1 DEF Accept, Reject, gatewayVars, TypeOK
<1>4. CASE \/ \E d \in Device : Reboot(d)
           \/ \E f \in air : LoseFrame(f)
           \/ Tick \/ PublishNext \/ DeliverNext \/ Disconnect \/ Stop \/ Start
           \/ UNCHANGED vars
  <2>1. air' \subseteq air /\ life' = life
    BY <1>4 DEF Reboot, LoseFrame, Tick, PublishNext, Publish, DeliverNext, Deliver,
       Disconnect, Stop, Start, vars, moteVars, gatewayVars
  <2>2. faults' = faults \/ faults' = faults + 1
    BY <1>4 DEF Fault, Reboot, LoseFrame, Tick, PublishNext, Publish, DeliverNext,
       Deliver, Disconnect, Stop, Start, vars
  <2> QED  BY <2>1, <2>2 DEF TypeOK
<1> QED  BY <1>1, <1>2, <1>3, <1>4 DEF Next, Handle

\* The window stays past what was accepted before.
LEMMA CoverStays ==
  ASSUME IInv, [Next]_vars, NEW m \in Reading, WindowCovers(m)
  PROVE  WindowCovers(m)'
<1> USE DEF WindowCovers
<1>0. /\ m.frame.device \in Device /\ m.frame.seq \in Int
      /\ m.ts \in Int /\ m.life \in Int
      /\ lastSeq[m.frame.device] \in Int /\ clock \in Int
      /\ life[TypeOf[m.frame.device]] \in Int
  BY TransportAssumption DEF Reading, Frame, IInv, TypeOK, None
<1>1. ASSUME NEW f \in air, Accept(f)
      PROVE  WindowCovers(m)'
  <2>1. f.device \in Device /\ f.seq \in Int /\ lastSeq[f.device] \in Int
    BY DEF IInv, TypeOK, Frame, None
  <2>2. f.seq > lastSeq[f.device]
    BY <1>1 DEF Accept, IsNew
  <2>3. lastSeq'[m.frame.device] = IF m.frame.device = f.device
                                     THEN f.seq ELSE lastSeq[m.frame.device]
    BY <1>0, <1>1, <2>1 DEF Accept, IInv, TypeOK
  <2>4. clock' = clock /\ life' = life
    BY <1>1 DEF Accept
  <2> QED  BY <1>0, <2>1, <2>2, <2>3, <2>4
<1>2. ASSUME NEW t \in Type, Restart(t)
      PROVE  WindowCovers(m)'
  <2>1. clock' = clock + 1
    BY <1>2 DEF Restart
  <2>2. CASE TypeOf[m.frame.device] = t
    <3>1. life'[t] = life[t] + 1
      BY <1>2 DEF Restart, IInv, TypeOK
    <3> QED  BY <1>0, <2>1, <2>2, <3>1
  <2>3. CASE TypeOf[m.frame.device] # t
    <3>1. /\ life'[TypeOf[m.frame.device]] = life[TypeOf[m.frame.device]]
          /\ lastSeq'[m.frame.device] = lastSeq[m.frame.device]
      BY <1>0, <1>2, <2>3 DEF Restart, IInv, TypeOK
    <3> QED  BY <1>0, <2>1, <3>1
  <2> QED  BY <2>2, <2>3
<1>3. CASE Tick
  BY <1>0, <1>3 DEF Tick
<1>4. CASE UNCHANGED gatewayVars
  BY <1>4 DEF gatewayVars
<1> QED  BY <1>1, <1>2, <1>3, <1>4, GatewaySteps

\* The window is past the reading it has just let through, and that one is
\* ahead of everything before it.
LEMMA AcceptedIsNew ==
  ASSUME IInv, NEW f \in air, Accept(f)
  PROVE  /\ WindowCovers(ReadingOf(f))'
         /\ \A i \in DOMAIN accepted :
              /\ accepted[i].frame.device = f.device
              /\ accepted[i].ts = clock \/ accepted[i].life = life[TypeOf[f.device]]
              => accepted[i].frame.seq < f.seq
<1>0. /\ f.device \in Device /\ f.seq \in Int /\ lastSeq[f.device] \in Int
      /\ TypeOf[f.device] \in Type
  BY DEF IInv, TypeOK, Frame, None
<1>1. WindowCovers(ReadingOf(f))'
  <2>1. lastSeq'[f.device] = f.seq /\ clock' = clock /\ life' = life
    BY <1>0 DEF Accept, IInv, TypeOK
  <2>2. clock \in Int /\ life[TypeOf[f.device]] \in Int
    BY <1>0 DEF IInv, TypeOK
  <2> QED  BY <1>0, <2>1, <2>2 DEF WindowCovers, ReadingOf
<1>2. ASSUME NEW i \in DOMAIN accepted,
             accepted[i].frame.device = f.device,
             accepted[i].ts = clock \/ accepted[i].life = life[TypeOf[f.device]]
      PROVE  accepted[i].frame.seq < f.seq
  <2>1. accepted[i] \in Reading
    BY DEF IInv, TypeOK
  <2>2. accepted[i].frame.seq \in Int
    BY <2>1 DEF Reading, Frame
  <2>3. accepted[i].frame.seq <= lastSeq[f.device]
    BY <1>2 DEF IInv, WindowCoversAccepted, WindowCovers
  <2> QED  BY <1>0, <2>2, <2>3 DEF Accept, IsNew
<1> QED  BY <1>1, <1>2

\* What is said of the accepted readings holds of the next one as well.
LEMMA AcceptedStep ==
  ASSUME IInv, [Next]_vars
  PROVE  /\ WindowCoversAccepted'
         /\ RecordIdsAreUnique'
         /\ NumbersGrowInALife'
<1>0. \A i \in DOMAIN accepted : accepted[i] \in Reading
  BY DEF IInv, TypeOK
<1>1. \A m \in Reading : WindowCovers(m) => WindowCovers(m)'
  BY CoverStays
<1>2. ASSUME NEW f \in air, Accept(f)
      PROVE  /\ WindowCoversAccepted'
             /\ RecordIdsAreUnique'
             /\ NumbersGrowInALife'
  <2>1. PICK m : m = ReadingOf(f)
    OBVIOUS
  <2>2. m \in Reading
    BY <2>1, ReadingType DEF IInv
  <2>3. /\ accepted' = Append(accepted, m)
        /\ m.frame = f /\ m.ts = clock /\ m.life = life[TypeOf[f.device]]
    BY <1>2, <2>1 DEF Accept, ReadingOf
  <2>4. /\ DOMAIN accepted = 1..Len(accepted) /\ Len(accepted) \in Nat
        /\ DOMAIN accepted' = 1..(Len(accepted) + 1)
        /\ \A i \in DOMAIN accepted : accepted'[i] = accepted[i]
        /\ accepted'[Len(accepted) + 1] = m
    BY <2>2, <2>3 DEF IInv, TypeOK
  <2>5. \A i \in DOMAIN accepted' : i \in DOMAIN accepted \/ i = Len(accepted) + 1
    BY <2>4
  <2>6. WindowCovers(m)'
    <3>1. ReadingOf(f)' = m
      BY <1>2, <2>1 DEF Accept, ReadingOf
    <3> QED  BY <1>2, <3>1, AcceptedIsNew
  <2>7. \A i \in DOMAIN accepted :
          /\ accepted[i].frame.device = f.device
          /\ accepted[i].ts = clock \/ accepted[i].life = m.life
          => accepted[i].frame.seq < f.seq
    BY <1>2, <2>3, AcceptedIsNew
  <2>8. RecordIdsAreUnique'
    <3> SUFFICES ASSUME NEW i \in DOMAIN accepted', NEW j \in DOMAIN accepted',
                        RecordId(accepted'[i]) = RecordId(accepted'[j])
                 PROVE  i = j
      BY DEF RecordIdsAreUnique, RecordId
    <3>1. ASSUME NEW k \in DOMAIN accepted
          PROVE  RecordId(accepted[k]) # RecordId(m)
      <4>1. accepted[k].frame.seq \in Int
        BY <1>0 DEF Reading, Frame
      <4> QED  BY <2>3, <2>7, <4>1 DEF RecordId
    <3>2. CASE i \in DOMAIN accepted /\ j \in DOMAIN accepted
      BY <2>4, <3>2 DEF IInv, RecordIdsAreUnique
    <3> QED  BY <2>4, <2>5, <3>1, <3>2
  <2>9. NumbersGrowInALife'
    <3> SUFFICES ASSUME NEW i \in DOMAIN accepted', NEW j \in DOMAIN accepted',
                        i < j,
                        accepted'[i].frame.device = accepted'[j].frame.device,
                        accepted'[i].life = accepted'[j].life
                 PROVE  accepted'[i].frame.seq < accepted'[j].frame.seq
      BY DEF NumbersGrowInALife
    <3>1. i \in DOMAIN accepted
      BY <2>4
    <3>2. CASE j \in DOMAIN accepted
      BY <2>4, <3>1, <3>2 DEF IInv, NumbersGrowInALife
    <3>3. CASE j = Len(accepted) + 1
      BY <2>3, <2>4, <2>7, <3>1, <3>3
    <3> QED  BY <2>5, <3>2, <3>3
  <2>10. ASSUME NEW i \in DOMAIN accepted'
         PROVE  \E n : accepted'[i] = n /\ WindowCovers(n)'
    <3>1. CASE i \in DOMAIN accepted
      <4>1. PICK n \in Reading : n = accepted[i]
        BY <1>0, <3>1
      <4>2. WindowCovers(n)
        BY <3>1, <4>1 DEF IInv, WindowCoversAccepted
      <4> QED  BY <1>1, <2>4, <3>1, <4>1, <4>2
    <3>2. CASE i = Len(accepted) + 1
      BY <2>4, <2>6, <3>2
    <3> QED  BY <2>5, <3>1, <3>2
  <2>11. WindowCoversAccepted'
    BY <2>10 DEF WindowCoversAccepted, WindowCovers
  <2> QED  BY <2>8, <2>9, <2>11
<1>3. CASE ~ \E f \in air : Accept(f)
  <2>1. accepted' = accepted
    BY <1>3, GatewaySteps DEF Restart, Tick, gatewayVars
  <2>2. ASSUME NEW i \in DOMAIN accepted
        PROVE  \E n : accepted[i] = n /\ WindowCovers(n)'
    <3>1. PICK n \in Reading : n = accepted[i]
      BY <1>0
    <3>2. WindowCovers(n)
      BY <3>1 DEF IInv, WindowCoversAccepted
    <3> QED  BY <1>1, <3>1, <3>2
  <2>3. WindowCoversAccepted'
    BY <2>1, <2>2 DEF WindowCoversAccepted, WindowCovers
  <2> QED
    BY <2>1, <2>3 DEF IInv, RecordIdsAreUnique, NumbersGrowInALife, RecordId
<1> QED  BY <1>2, <1>3

----------------------------------------------------------------------------
(****************************************************************************)
(* The theorems                                                             *)
(****************************************************************************)

\* Before the first frame the invariant holds.
LEMMA InductiveInit == Init => IInv
BY TransportAssumption DEF Init, IInv, TypeOK, Session, None, WindowCoversAccepted,
   RecordIdsAreUnique, NumbersGrowInALife

\* No step breaks the invariant.
LEMMA InductiveStep == IInv /\ [Next]_vars => IInv'
BY TypeStep, KnownStep, AcceptedStep DEF IInv

\* The window covers what it has to in every reachable state.
THEOREM Inductive == Spec => []IInv
BY InductiveInit, InductiveStep, PTL DEF Spec

\* Counters, windows, queues and frames keep their types.
THEOREM TypeCorrect == Spec => []TypeOK
<1>1. IInv => TypeOK
  BY DEF IInv
<1> QED  BY <1>1, Inductive, PTL

\* No two readings share a record id, however often motes and gateways start
\* anew and whatever UDP does to the frames.
THEOREM UniqueRecordIds == Spec => []RecordIdsAreUnique
<1>1. IInv => RecordIdsAreUnique
  BY DEF IInv
<1> QED  BY <1>1, Inductive, PTL

\* The replay window: in one life of a gateway the accepted numbers of a
\* device only grow.
THEOREM WindowWorks == Spec => []NumbersGrowInALife
<1>1. IInv => NumbersGrowInALife
  BY DEF IInv
<1> QED  BY <1>1, Inductive, PTL

----------------------------------------------------------------------------
(****************************************************************************)
(* No number is lost from sight                                             *)
(****************************************************************************)

\* Without a failure so far there was none before this step, nor in it.
LEMMA NoFaultYet ==
  ASSUME TypeOK, [Next]_vars, faults' = 0
  PROVE  faults = 0 /\ ~Fault
<1>1. faults \in Nat
  BY TransportAssumption DEF TypeOK
<1>2. Fault \/ UNCHANGED faults
  BY DEF Next, Handle, PublishNext, DeliverNext, Send, Reboot, LoseFrame, Accept, Reject,
     Arrives, Restart, Tick, Publish, Deliver, Disconnect, Stop, Start, vars
<1> QED  BY <1>1, <1>2 DEF Fault

\* A frame that arrives in its turn was the only one to go, and everything its
\* mote sent before it is behind the window.
LEMMA InTurn ==
  ASSUME TypeOK, NEW f \in air, Arrives(f), ~Fault, NoGapBefore(f.device, f.boot, f.seq)
  PROVE  /\ air' = air \ {f}
         /\ \A n \in Seqs : n < f.seq => n <= lastSeq[f.device]
<1>1. /\ \A g \in air : ~Older(g, f)
      /\ air' = air \ {f}
  BY DEF Arrives
<1>2. ASSUME NEW n \in Seqs, n < f.seq
      PROVE  FrameOf(f.device, f.boot, n) \notin air
  <2>1. Older(FrameOf(f.device, f.boot, n), f)
    BY <1>2 DEF Older, FrameOf
  <2> QED  BY <1>1, <2>1
<1> QED  BY <1>1, <1>2 DEF NoGapBefore

\* While no window moves back and no frame leaves but behind a window, there is
\* no gap where there was none.
LEMMA NoGapStays ==
  ASSUME TypeOK, NEW d \in Device, NEW boot, NEW seq, NoGapBefore(d, boot, seq),
         lastSeq'[d] \in Int, lastSeq'[d] >= lastSeq[d],
         \A f \in air \ air' : f.seq <= lastSeq'[f.device]
  PROVE  \A n \in Seqs : n < seq => FrameOf(d, boot, n) \in air' \/ n <= lastSeq'[d]
<1> SUFFICES ASSUME NEW n \in Seqs, n < seq
             PROVE  FrameOf(d, boot, n) \in air' \/ n <= lastSeq'[d]
  OBVIOUS
<1>1. lastSeq[d] \in Int /\ n \in Int
  BY TransportAssumption DEF TypeOK, None, Seqs
<1>2. CASE n <= lastSeq[d]
  BY <1>1, <1>2
<1>3. CASE FrameOf(d, boot, n) \in air
  BY <1>3 DEF FrameOf
<1> QED  BY <1>2, <1>3 DEF NoGapBefore

\* A reading stays where it is or moves on: paho to the broker, the broker to
\* the ingestion.
LEMMA ReadingsStay ==
  ASSUME [Next]_vars, ~Fault, session = "subscribed"
  PROVE  /\ session' = "subscribed"
         /\ outbox \cup inbox \cup received \subseteq outbox' \cup inbox' \cup received'
BY DEF Next, Handle, PublishNext, DeliverNext, Send, Reboot, LoseFrame, Accept, Reject,
   Restart, Tick, Publish, Deliver, Disconnect, Stop, Start, vars, mqttVars

\* A frame that the gateway handles in its turn leaves no gap: either it moves
\* the window by one and becomes a reading, or its number has one.
LEMMA HandledStep ==
  ASSUME IInv, [Next]_vars, ~Fault, faults = 0, NoGaps,
         NEW f \in air, Accept(f) \/ Reject(f)
  PROVE  NoGaps'
<1>1. /\ f.device \in Device /\ f.seq \in Int /\ f \in Frame
      /\ lastSeq \in [Device -> Int]
      /\ Seqs \subseteq Int
  BY TransportAssumption DEF IInv, TypeOK, Frame, None, Seqs
<1>2. /\ air' = air \ {f}
      /\ \A n \in Seqs : n < f.seq => n <= lastSeq[f.device]
  BY InTurn DEF IInv, NoGaps, Accept, Reject
<1>3. /\ mote' = mote
      /\ lastSeq' = IF IsNew(f) THEN [lastSeq EXCEPT ![f.device] = f.seq] ELSE lastSeq
  BY DEF Accept, Reject, gatewayVars
<1>4. \A d \in Device : lastSeq'[d] \in Int /\ lastSeq'[d] >= lastSeq[d]
  <2>1. CASE IsNew(f)
    BY <1>1, <1>3, <2>1 DEF IsNew
  <2>2. CASE ~IsNew(f)
    BY <1>1, <1>3, <2>2
  <2> QED  BY <2>1, <2>2
<1>5. f.seq <= lastSeq'[f.device]
  BY <1>1, <1>3 DEF IsNew
<1>6. \A g \in air \ air' : g.seq <= lastSeq'[g.device]
  BY <1>2, <1>5
<1>7. ASSUME NEW d \in Device
      PROVE  NoGapBefore(d, mote[d].boot, mote[d].seq)'
  <2>1. NoGapBefore(d, mote[d].boot, mote[d].seq)
    BY DEF NoGaps
  <2>2. \A n \in Seqs : n < mote[d].seq =>
          FrameOf(d, mote[d].boot, n) \in air' \/ n <= lastSeq'[d]
    BY <1>4, <1>6, <2>1, NoGapStays DEF IInv
  <2> QED  BY <1>3, <2>2 DEF NoGapBefore, FrameOf, Seqs
<1>8. ASSUME NEW g \in air'
      PROVE  NoGapBefore(g.device, g.boot, g.seq)'
  <2>1. g \in air /\ g.device \in Device
    BY <1>2 DEF IInv, TypeOK, Frame
  <2>2. NoGapBefore(g.device, g.boot, g.seq)
    BY <2>1 DEF NoGaps
  <2>3. \A n \in Seqs : n < g.seq =>
          FrameOf(g.device, g.boot, n) \in air' \/ n <= lastSeq'[g.device]
    BY <1>4, <1>6, <2>1, <2>2, NoGapStays DEF IInv
  <2> QED  BY <2>3 DEF NoGapBefore, FrameOf, Seqs
<1>9. ASSUME NEW d \in Device, NEW n \in Seqs, n <= lastSeq'[d]
      PROVE  HasReading(d, n)'
  <2>1. outbox \cup inbox \cup received \subseteq outbox' \cup inbox' \cup received'
    BY ReadingsStay DEF NoGaps
  <2>2. CASE n <= lastSeq[d]
    BY <2>1, <2>2 DEF NoGaps, HasReading
  <2>3. CASE ~(n <= lastSeq[d])
    <3>1. d = f.device /\ IsNew(f)
      BY <1>1, <1>3, <1>9, <2>3
    <3>2. lastSeq'[d] = f.seq /\ n \in Int
      BY <1>1, <1>3, <3>1
    <3>3. n = f.seq
      BY <1>1, <1>2, <1>9, <2>3, <3>1, <3>2
    <3>4. ReadingOf(f) \in outbox' /\ ReadingOf(f).frame = f
      BY <3>1 DEF Accept, Reject, ReadingOf
    <3> QED  BY <3>1, <3>3, <3>4 DEF HasReading
  <2> QED  BY <2>2, <2>3
<1>10. session' = "subscribed"
  BY ReadingsStay DEF NoGaps
<1> QED  BY <1>7, <1>8, <1>9, <1>10 DEF NoGaps

\* No step makes a gap, unless something fails.
LEMMA NoGapsStep ==
  ASSUME IInv, [Next]_vars, NoGaps
  PROVE  NoGaps'
<1> SUFFICES ASSUME faults' = 0
             PROVE  NoGaps'
  BY DEF NoGaps
<1>1. faults = 0 /\ ~Fault
  BY NoFaultYet DEF IInv
<1>2. /\ session' = "subscribed"
      /\ outbox \cup inbox \cup received \subseteq outbox' \cup inbox' \cup received'
  BY <1>1, ReadingsStay DEF NoGaps
<1>3. \A d \in Device, n \in Seqs : n <= lastSeq[d] => HasReading(d, n)'
  BY <1>1, <1>2 DEF NoGaps, HasReading
<1>4. /\ \A d \in Device : lastSeq[d] \in Int
      /\ \A f \in air : f.device \in Device
      /\ Seqs \subseteq Int
  BY TransportAssumption DEF IInv, TypeOK, Frame, None, Seqs
<1>5. ASSUME NEW f \in air, Accept(f) \/ Reject(f)
      PROVE  NoGaps'
  BY <1>1, <1>5, HandledStep
<1>6. ASSUME NEW d \in Device, Send(d)
      PROVE  NoGaps'
  <2> DEFINE new == FrameOf(d, mote[d].boot, mote[d].seq)
  <2>1. /\ lastSeq' = lastSeq
        /\ air' = air \cup {new}
        /\ mote' = [mote EXCEPT ![d].seq = @ + 1]
    BY <1>6 DEF Send, gatewayVars, FrameOf
  <2>2. mote[d].seq \in Int
    BY TransportAssumption DEF IInv, TypeOK
  <2>3. \A e \in Device : NoGapBefore(e, mote[e].boot, mote[e].seq)'
           <=> \A n \in Seqs : n < mote'[e].seq =>
                 FrameOf(e, mote'[e].boot, n) \in air' \/ n <= lastSeq'[e]
    BY DEF NoGapBefore, FrameOf, Seqs
  <2>4. ASSUME NEW e \in Device, NEW n \in Seqs, n < mote'[e].seq
        PROVE  FrameOf(e, mote'[e].boot, n) \in air' \/ n <= lastSeq'[e]
    <3>1. CASE e # d
      <4>1. mote'[e] = mote[e]
        BY <2>1, <3>1 DEF IInv, TypeOK
      <4>2. FrameOf(e, mote[e].boot, n) \in air \/ n <= lastSeq[e]
        BY <1>1, <2>4, <4>1 DEF NoGaps, NoGapBefore
      <4> QED  BY <2>1, <4>1, <4>2
    <3>2. CASE e = d
      <4>1. mote'[d].seq = mote[d].seq + 1 /\ mote'[d].boot = mote[d].boot
        BY <2>1 DEF IInv, TypeOK
      <4>2. CASE n = mote[d].seq
        BY <2>1, <3>2, <4>1, <4>2
      <4>3. CASE n < mote[d].seq
        BY <1>1, <2>1, <3>2, <4>1, <4>3 DEF NoGaps, NoGapBefore
      <4> QED  BY <1>4, <2>2, <2>4, <3>2, <4>1, <4>2, <4>3
    <3> QED  BY <3>1, <3>2
  <2>5. ASSUME NEW g \in air'
        PROVE  NoGapBefore(g.device, g.boot, g.seq)'
    <3>1. CASE g \in air
      BY <1>1, <2>1, <3>1 DEF NoGaps, NoGapBefore, FrameOf, Seqs
    <3>2. CASE g = new
      <4>1. NoGapBefore(d, mote[d].boot, mote[d].seq)
        BY <1>1 DEF NoGaps
      <4>2. g.device = d /\ g.boot = mote[d].boot /\ g.seq = mote[d].seq
        BY <3>2 DEF FrameOf
      <4> QED  BY <2>1, <4>1, <4>2 DEF NoGapBefore, FrameOf, Seqs
    <3> QED  BY <2>1, <3>1, <3>2
  <2> QED  BY <1>2, <1>3, <2>1, <2>3, <2>4, <2>5 DEF NoGaps
<1>7. ASSUME NEW d \in Device, Reboot(d)
      PROVE  NoGaps'
  <2>1. /\ lastSeq' = lastSeq /\ air' = air
        /\ mote' = [mote EXCEPT ![d] = [seq |-> 0, boot |-> @.boot + 1]]
    BY <1>7 DEF Reboot, gatewayVars
  <2>2. ASSUME NEW e \in Device
        PROVE  NoGapBefore(e, mote[e].boot, mote[e].seq)'
    <3>1. CASE e # d
      <4>1. mote'[e] = mote[e]
        BY <2>1, <3>1 DEF IInv, TypeOK
      <4> QED  BY <1>1, <2>1, <4>1 DEF NoGaps, NoGapBefore, FrameOf, Seqs
    <3>2. CASE e = d
      <4>1. mote'[e].seq = 0
        BY <2>1, <3>2 DEF IInv, TypeOK
      <4> QED  BY <4>1, TransportAssumption DEF NoGapBefore, Seqs
    <3> QED  BY <3>1, <3>2
  <2>3. \A g \in air' : NoGapBefore(g.device, g.boot, g.seq)'
    BY <1>1, <2>1 DEF NoGaps, NoGapBefore, FrameOf, Seqs
  <2> QED  BY <1>2, <1>3, <2>1, <2>2, <2>3 DEF NoGaps
<1>8. CASE Tick \/ PublishNext \/ DeliverNext \/ Start \/ UNCHANGED vars
  <2>1. UNCHANGED <<mote, air, lastSeq>>
    BY <1>8 DEF Tick, PublishNext, Publish, DeliverNext, Deliver, Start, vars, moteVars,
       gatewayVars
  <2> QED
    BY <1>1, <1>2, <1>3, <2>1 DEF NoGaps, NoGapBefore, FrameOf, Seqs
<1> QED
  BY <1>1, <1>5, <1>6, <1>7, <1>8
  DEF Next, Handle, LoseFrame, Restart, Disconnect, Stop

\* Unless something fails, each number that a mote has reached is on its way or
\* has come through, however often the motes reboot.
THEOREM NothingIsDropped == Spec => []NumbersAreAccountedFor
<1>1. Init => NoGaps
  <2> SUFFICES ASSUME Init
               PROVE  NoGaps
    OBVIOUS
  <2>1. Seqs \subseteq Nat /\ air = {} /\ session = "subscribed"
    BY TransportAssumption DEF Init, Seqs
  <2>2. \A d \in Device : mote[d].seq = 0 /\ lastSeq[d] = -1
    BY DEF Init, None
  <2> QED  BY <2>1, <2>2 DEF NoGaps, NoGapBefore
<1>2. IInv /\ NoGaps /\ [Next]_vars => NoGaps'
  BY NoGapsStep
<1>3. NoGaps => NumbersAreAccountedFor
  BY DEF NoGaps, NoGapBefore, NumbersAreAccountedFor, InAir, FrameOf, Seqs
<1> QED  BY <1>1, <1>2, <1>3, Inductive, PTL DEF Spec
=============================================================================
