---------------------------- MODULE NetworkProofs ----------------------------
(****************************************************************************)
(* Theorems about the master key, for any processes and whoever is started   *)
(* by hand, and about the sensor network, for any motes, gateways and bounds: *)
(* what is proved of keys and transport holds of the two together.           *)
(****************************************************************************)
EXTENDS SensorNetwork, TransportProofs

----------------------------------------------------------------------------
(****************************************************************************)
(* The key                                                                  *)
(****************************************************************************)

\* There is no key before the first process.
LEMMA KeyInitially == KeyInit => KeyIInv
BY KeyAssumption
DEF KeyInit, KeyIInv, KeyTypeOK, Process, Step, KeysInUse, NothingBeforeTheFile,
    CreatorsRace, WritersOwnTheirKey, ScriptKeepsOut, OnlyRacersDiffer,
    MotesKeepTheirKey

\* A step after which no key is in use that was not, and nobody is newly about to
\* draw one, leaves the race and its keys alone.
LEMMA NoNewKey ==
  ASSUME KeyIInv, KeysInUse' \subseteq KeysInUse, UNCHANGED racers,
         \A p \in Process : step'[p] = "create" => step[p] = "create"
  PROVE  CreatorsRace' /\ OnlyRacersDiffer'
<1>1. CreatorsRace'
  BY DEF KeyIInv, CreatorsRace, Creating
<1>2. OnlyRacersDiffer'
  BY DEF KeyIInv, OnlyRacersDiffer
<1> QED  BY <1>1, <1>2

\* A start, by the script, which looks for the file, or by hand.
LEMMA StartKeepsKey ==
  ASSUME KeyIInv, NEW p \in Process,
         StartByHand(p), p \in ByHand \/ keyFile # Absent
  PROVE  KeyIInv'
<1>1. KeysInUse' = KeysInUse
  BY DEF StartByHand, KeysInUse
<1>2. /\ step \in [Process -> Step]
      /\ \A q \in Process : step'[q] = IF q = p THEN "check" ELSE step[q]
  BY DEF StartByHand, KeyIInv, KeyTypeOK
<1>3. CreatorsRace' /\ OnlyRacersDiffer'
  BY <1>1, <1>2, NoNewKey DEF StartByHand
<1> QED
  BY <1>1, <1>2, <1>3
  DEF StartByHand, KeyIInv, KeyTypeOK, Step, NothingBeforeTheFile,
      WritersOwnTheirKey, ScriptKeepsOut, MotesKeepTheirKey

\* A process is over, and its key with it.
LEMMA ExitKeepsKey ==
  ASSUME KeyIInv, NEW p \in Process, Exit(p)
  PROVE  KeyIInv'
<1>1. KeysInUse' \subseteq KeysInUse
  BY KeyAssumption DEF Exit, KeyIInv, KeyTypeOK, KeysInUse
<1>2. /\ step \in [Process -> Step]
      /\ \A q \in Process : step'[q] = IF q = p THEN "off" ELSE step[q]
  BY DEF Exit, KeyIInv, KeyTypeOK
<1>3. CreatorsRace' /\ OnlyRacersDiffer'
  BY <1>1, <1>2, NoNewKey DEF Exit
<1> QED
  BY <1>1, <1>2, <1>3
  DEF Exit, KeyIInv, KeyTypeOK, Step, NothingBeforeTheFile,
      WritersOwnTheirKey, ScriptKeepsOut, MotesKeepTheirKey

\* The motes get the key of the file, once.
LEMMA FlashKeepsKey ==
  ASSUME KeyIInv, Flash
  PROVE  KeyIInv'
<1>1. KeysInUse' \subseteq KeysInUse
  BY DEF Flash, KeysInUse
<1>2. CreatorsRace' /\ OnlyRacersDiffer'
  BY <1>1, NoNewKey DEF Flash
<1> QED
  BY <1>1, <1>2
  DEF Flash, KeyIInv, KeyTypeOK, NothingBeforeTheFile,
      WritersOwnTheirKey, ScriptKeepsOut, MotesKeepTheirKey

\* The look for the file.
LEMMA CheckKeepsKey ==
  ASSUME KeyIInv, NEW p \in Process, Check(p)
  PROVE  KeyIInv'
<1>1. KeysInUse' = KeysInUse
  BY DEF Check, KeysInUse
<1>2. CASE keyFile # Absent
  <2>1. /\ step \in [Process -> Step] /\ UNCHANGED racers
        /\ \A q \in Process : step'[q] = IF q = p THEN "load" ELSE step[q]
    BY <1>2 DEF Check, KeyIInv, KeyTypeOK
  <2>2. CreatorsRace' /\ OnlyRacersDiffer'
    BY <1>1, <2>1, NoNewKey
  <2> QED
    BY <1>1, <1>2, <2>1, <2>2
    DEF Check, KeyIInv, KeyTypeOK, Step, NothingBeforeTheFile,
        WritersOwnTheirKey, ScriptKeepsOut, MotesKeepTheirKey
<1>3. CASE keyFile = Absent
  <2>1. /\ step \in [Process -> Step] /\ step[p] = "check"
        /\ \A q \in Process : step'[q] = IF q = p THEN "create" ELSE step[q]
    BY <1>3 DEF Check, KeyIInv, KeyTypeOK
  <2>2. KeysInUse = {} /\ KeysInUse' = {}
    BY <1>1, <1>3 DEF KeyIInv, NothingBeforeTheFile
  <2>3. racers' = racers \cup
                    (IF Creating(p) = {} THEN {} ELSE {p} \cup Creating(p))
    BY <1>3 DEF Check
  <2>4. CreatorsRace'
    <3> SUFFICES ASSUME NEW q \in Process, step'[q] = "create",
                        NEW o \in Process \ {q}, step'[o] = "create"
                 PROVE  {q, o} \subseteq racers'
      BY <2>2 DEF CreatorsRace, Creating
    <3>1. CASE q = p \/ o = p
      BY <2>1, <2>3, <3>1 DEF Creating
    <3>2. CASE q # p /\ o # p
      BY <2>1, <2>3, <3>2 DEF KeyIInv, CreatorsRace, Creating
    <3> QED  BY <3>1, <3>2
  <2>5. p \in ByHand /\ Creating(p) \subseteq ByHand
    BY <1>3, <2>1 DEF KeyIInv, ScriptKeepsOut, Creating
  <2>6. ScriptKeepsOut'
    BY <1>3, <2>1, <2>3, <2>5 DEF Check, KeyIInv, ScriptKeepsOut
  <2>7. KeyTypeOK'
    BY <2>1, <2>3 DEF Check, KeyIInv, KeyTypeOK, Step, Creating
  <2>8. NothingBeforeTheFile' /\ OnlyRacersDiffer'
    BY <1>3, <2>1, <2>2
    DEF Check, KeyIInv, NothingBeforeTheFile, OnlyRacersDiffer
  <2>9. WritersOwnTheirKey' /\ MotesKeepTheirKey'
    BY <2>1, <2>3 DEF Check, KeyIInv, WritersOwnTheirKey, MotesKeepTheirKey
  <2> QED  BY <2>4, <2>6, <2>7, <2>8, <2>9 DEF KeyIInv
<1> QED  BY <1>2, <1>3

\* A key is drawn: whoever else has one, or is about to, was in the race.
LEMMA CreateKeepsKey ==
  ASSUME KeyIInv, NEW p \in Process, Create(p)
  PROVE  KeyIInv'
<1>1. /\ step \in [Process -> Step] /\ step[p] = "create"
      /\ \A q \in Process : step'[q] = IF q = p THEN "write" ELSE step[q]
      /\ \A q \in Process : key'[q] = IF q = p THEN p ELSE key[q]
      /\ keyFile' = Empty /\ UNCHANGED <<flashed, racers>>
  BY DEF Create, KeyIInv, KeyTypeOK
<1>2. KeysInUse' \subseteq KeysInUse \cup {p}
  BY <1>1, KeyAssumption DEF KeysInUse
<1>3. \A q \in Creating(p) \cup KeysInUse : {p, q} \subseteq racers
  BY <1>1 DEF KeyIInv, CreatorsRace
<1>4. racers \subseteq ByHand
  BY DEF KeyIInv, ScriptKeepsOut
<1>5. OnlyRacersDiffer'
  BY <1>1, <1>2, <1>3, <1>4 DEF KeyIInv, OnlyRacersDiffer
<1>6. CreatorsRace'
  <2> SUFFICES ASSUME NEW q \in Process, step'[q] = "create"
               PROVE  /\ q \notin KeysInUse'
                      /\ \A o \in Creating(q)' \cup KeysInUse' :
                           {q, o} \subseteq racers'
    BY DEF CreatorsRace
  <2>1. q # p /\ step[q] = "create" /\ Creating(q)' \subseteq Creating(q)
    BY <1>1 DEF Creating
  <2>2. p \in Creating(q)
    BY <1>1, <2>1 DEF Creating
  <2> QED  BY <1>1, <1>2, <2>1, <2>2 DEF KeyIInv, CreatorsRace
<1>7. MotesKeepTheirKey'
  <2>1. flashed # Empty => flashed \in KeysInUse
    BY DEF KeyIInv, KeyTypeOK, KeysInUse
  <2> QED  BY <1>1, <1>3, <2>1 DEF MotesKeepTheirKey
<1>8. KeyTypeOK' /\ NothingBeforeTheFile' /\ WritersOwnTheirKey'
  BY <1>1, KeyAssumption
  DEF Create, KeyIInv, KeyTypeOK, Step, NothingBeforeTheFile, WritersOwnTheirKey
<1>9. ScriptKeepsOut'
  BY <1>1, KeyAssumption DEF KeyIInv, ScriptKeepsOut
<1> QED  BY <1>5, <1>6, <1>7, <1>8, <1>9 DEF KeyIInv

\* A key is written: its process had it before.
LEMMA WriteKeepsKey ==
  ASSUME KeyIInv, NEW p \in Process, WriteKey(p)
  PROVE  KeyIInv'
<1>1. /\ step \in [Process -> Step] /\ step[p] = "write" /\ key[p] = p
      /\ \A q \in Process : step'[q] = IF q = p THEN "on" ELSE step[q]
      /\ keyFile' = p /\ UNCHANGED <<key, flashed, racers>>
  BY DEF WriteKey, KeyIInv, KeyTypeOK, WritersOwnTheirKey
<1>2. p \in KeysInUse /\ KeysInUse' \subseteq KeysInUse
  BY <1>1 DEF KeysInUse
<1>3. CreatorsRace' /\ OnlyRacersDiffer'
  BY <1>1, <1>2, NoNewKey
<1>4. MotesKeepTheirKey'
  <2>1. flashed # Empty => flashed \in KeysInUse
    BY DEF KeyIInv, KeyTypeOK, KeysInUse
  <2> QED  BY <1>1, <1>2, <2>1 DEF KeyIInv, OnlyRacersDiffer, MotesKeepTheirKey
<1>5. keyFile # Absent
  BY <1>1 DEF KeyIInv, NothingBeforeTheFile
<1>6. keyFile' # Absent
  BY <1>1, KeyAssumption
<1>7. KeyTypeOK'
  BY <1>1 DEF WriteKey, KeyIInv, KeyTypeOK, Step
<1>8. NothingBeforeTheFile'
  BY <1>6 DEF NothingBeforeTheFile
<1>9. WritersOwnTheirKey'
  BY <1>1 DEF KeyIInv, WritersOwnTheirKey
<1>10. ScriptKeepsOut'
  BY <1>1, <1>6 DEF KeyIInv, ScriptKeepsOut
<1> QED  BY <1>3, <1>4, <1>7, <1>8, <1>9, <1>10 DEF KeyIInv

\* A key is read: the file has it.
LEMMA LoadKeepsKey ==
  ASSUME KeyIInv, NEW p \in Process, Load(p)
  PROVE  KeyIInv'
<1>1. /\ step \in [Process -> Step] /\ step[p] = "load"
      /\ \A q \in Process : step'[q] = IF q = p THEN "on" ELSE step[q]
      /\ \A q \in Process : key'[q] = IF q = p THEN keyFile ELSE key[q]
      /\ UNCHANGED <<keyFile, flashed, racers>>
  BY DEF Load, KeyIInv, KeyTypeOK
<1>2. keyFile # Absent
  BY <1>1 DEF KeyIInv, NothingBeforeTheFile
<1>3. KeysInUse' \subseteq KeysInUse
  BY <1>1 DEF KeysInUse
<1>4. CreatorsRace' /\ OnlyRacersDiffer'
  BY <1>1, <1>3, NoNewKey
<1>5. KeyTypeOK'
  BY <1>1, <1>2 DEF Load, KeyIInv, KeyTypeOK, Step
<1> QED
  BY <1>1, <1>2, <1>4, <1>5
  DEF KeyIInv, NothingBeforeTheFile, WritersOwnTheirKey, ScriptKeepsOut,
      MotesKeepTheirKey

\* No step breaks what holds the keys together.
LEMMA KeyStepKeeps == KeyIInv /\ [KeyNext]_keyVars => KeyIInv'
<1> SUFFICES ASSUME KeyIInv, [KeyNext]_keyVars
             PROVE  KeyIInv'
  OBVIOUS
<1>1. CASE UNCHANGED keyVars
  BY <1>1
  DEF keyVars, KeyIInv, KeyTypeOK, KeysInUse, NothingBeforeTheFile, Creating,
      CreatorsRace, WritersOwnTheirKey, ScriptKeepsOut, OnlyRacersDiffer,
      MotesKeepTheirKey
<1>2. ASSUME NEW g \in Gateway, Launch(g)
      PROVE  KeyIInv'
  BY <1>2, StartKeepsKey DEF Launch, StartByHand, Process
<1>3. ASSUME NEW p \in ByHand, StartByHand(p)
      PROVE  KeyIInv'
  BY <1>3, StartKeepsKey DEF Process
<1>4. ASSUME NEW p \in Process, StartUp(p) \/ Exit(p)
      PROVE  KeyIInv'
  BY <1>4, CheckKeepsKey, CreateKeepsKey, WriteKeepsKey, LoadKeepsKey,
     ExitKeepsKey DEF StartUp
<1>5. CASE Flash
  BY <1>5, FlashKeepsKey
<1> QED  BY <1>1, <1>2, <1>3, <1>4, <1>5 DEF KeyNext

\* What holds the keys together does so in every reachable state, whoever is
\* started by hand and whenever.
THEOREM KeyInductive == KeySpec => []KeyIInv
BY KeyInitially, KeyStepKeeps, PTL DEF KeySpec

\* Keys, steps and the file keep their types.
THEOREM KeyTypeCorrect == KeySpec => []KeyTypeOK
<1>1. KeyIInv => KeyTypeOK
  BY DEF KeyIInv
<1> QED  BY <1>1, KeyInductive, PTL

\* Two keys in use are those of a race between processes started by hand.
THEOREM SecondKeyTakesARace == KeySpec => []OnlyRacersDiffer
<1>1. KeyIInv => OnlyRacersDiffer
  BY DEF KeyIInv
<1> QED  BY <1>1, KeyInductive, PTL

\* The file keeps the key the motes were built with, unless that is of a race.
THEOREM MotesStayUnderstood == KeySpec => []MotesKeepTheirKey
<1>1. KeyIInv => MotesKeepTheirKey
  BY DEF KeyIInv
<1> QED  BY <1>1, KeyInductive, PTL

\* Set up as the script asks for it, with one process started by hand and the
\* gateways by the script, the system has a single master key, wherever the setup
\* is interrupted and however often it is started again.
THEOREM OneSetupMakesOneKey ==
  ASSUME \A p, q \in ByHand : p = q
  PROVE  KeySpec => []SingleMasterKey
<1>1. KeyIInv => SingleMasterKey
  BY DEF KeyIInv, OnlyRacersDiffer, SingleMasterKey
<1> QED  BY <1>1, KeyInductive, PTL

\* The network starts and stops the processes of KeyManager.
THEOREM NetworkImplementsKeys == NetworkSpec => KeySpec
<1>1. NetworkInit => KeyInit
  BY DEF NetworkInit
<1>2. [NetworkNext]_netVars => [KeyNext]_keyVars
  BY NetworkAssumption
  DEF NetworkNext, TransportStep, KeyStep, GatewayDies, KeyNext, netVars, Process
<1> QED  BY <1>1, <1>2, PTL DEF NetworkSpec, KeySpec

----------------------------------------------------------------------------
(****************************************************************************)
(* The transport                                                            *)
(****************************************************************************)

\* A step of the network is one of Transport, or none.
LEMMA NetworkStepIsTransportStep == [NetworkNext]_netVars => [Next]_vars
<1> SUFFICES ASSUME [NetworkNext]_netVars
             PROVE  Next \/ UNCHANGED vars
  OBVIOUS
<1>1. CASE TransportStep
  <2>1. ASSUME HandleFrame
        PROVE  Handle
    BY <2>1 DEF HandleFrame, Handle
  <2> QED  BY <1>1, <2>1 DEF TransportStep, MoteStep, Next
<1>2. CASE KeyStep
  BY <1>2 DEF KeyStep
<1>3. CASE GatewayDies
  BY <1>3 DEF GatewayDies, Next
<1> QED  BY <1>1, <1>2, <1>3 DEF NetworkNext, netVars

\* The network implements the transport that takes keys and gateways for given.
THEOREM NetworkImplementsTransport == NetworkSpec => Spec
<1>1. NetworkInit => Init
  BY DEF NetworkInit
<1> QED  BY <1>1, NetworkStepIsTransportStep, PTL DEF NetworkSpec, Spec

\* Transport and keys keep their types.
THEOREM NetworkTypeCorrect == NetworkSpec => []NetworkTypeOK
<1>1. KeyTypeOK /\ TypeOK => NetworkTypeOK
  BY DEF NetworkTypeOK
<1> QED
  BY <1>1, KeyTypeCorrect, NetworkImplementsKeys, NetworkImplementsTransport,
     TypeCorrect, PTL

\* No two readings share a record id, whatever becomes of gateways and keys.
THEOREM NetworkRecordIds == NetworkSpec => []RecordIdsAreUnique
BY NetworkImplementsTransport, UniqueRecordIds, PTL

\* In one life of a gateway the accepted numbers of a device only grow.
THEOREM NetworkWindows == NetworkSpec => []NumbersGrowInALife
BY NetworkImplementsTransport, WindowWorks, PTL

\* Unless something fails, no number is lost from sight: a gateway that is down
\* or cannot read a frame counts as a failure.
THEOREM NetworkDropsNothing == NetworkSpec => []NumbersAreAccountedFor
BY NetworkImplementsTransport, NothingIsDropped, PTL
=============================================================================
