------------------------------ MODULE KeyManager ------------------------------
(****************************************************************************)
(* The master key: load_or_create_master_key (gateway/key_manager.py), which *)
(* each gateway process calls when it starts, whether by hand, as in the     *)
(* examples of gateway_udp_mqtt.py (lines 26-32), or by start_gateways.sh.   *)
(* A key is named by the process that drew it: a process draws a key only    *)
(* when it has found no file, and leaves one.                                *)
(****************************************************************************)

CONSTANTS
  Gateway,     \* the gateways that start_gateways.sh starts
  ByHand,      \* the processes that are started by hand
  Empty,       \* no characters: what a truncated file holds, a key that fits nothing
  Absent       \* there is no file

Process == Gateway \cup ByHand

ASSUME KeyAssumption ==
  /\ Empty \notin Process
  /\ Absent \notin Process \cup {Empty}

VARIABLES
  keyFile,     \* the content of master.key
  step,        \* where each process stands
  key,         \* MASTER_KEY of each process, Empty before it has one
  flashed,     \* the key compiled into the motes
  racers       \* history: the processes that found no file when others had
               \* found none and not yet made one

keyVars == <<keyFile, step, key, flashed, racers>>

Step == {"off", "check", "create", "write", "load", "on"}

KeyTypeOK ==
  /\ keyFile \in Process \cup {Empty, Absent}
  /\ step \in [Process -> Step]
  /\ key \in [Process -> Process \cup {Empty}]
  /\ flashed \in Process \cup {Empty}
  /\ racers \in SUBSET Process

KeyInit ==
  /\ keyFile = Absent
  /\ step = [p \in Process |-> "off"]
  /\ key = [p \in Process |-> Empty]
  /\ flashed = Empty
  /\ racers = {}

----------------------------------------------------------------------------

\* start_gateways.sh starts a gateway, provided the file is there.
Launch(g) ==
  /\ keyFile # Absent
  /\ step[g] = "off"
  /\ step' = [step EXCEPT ![g] = "check"]
  /\ UNCHANGED <<keyFile, key, flashed, racers>>

\* A process is started by hand, past the script and whatever else is starting.
StartByHand(p) ==
  /\ step[p] = "off"
  /\ step' = [step EXCEPT ![p] = "check"]
  /\ UNCHANGED <<keyFile, key, flashed, racers>>

\* The others that have found no file and not yet made one.
Creating(p) == {q \in Process \ {p} : step[q] = "create"}

\* Mutant: a file without a key counts as none.
Mutant_CheckContent(p) ==
  /\ step[p] = "check"
  /\ IF keyFile \in {Empty, Absent}
       THEN /\ step' = [step EXCEPT ![p] = "create"]
            /\ racers' = racers \cup
                 (IF Creating(p) = {} THEN {} ELSE {p} \cup Creating(p))
       ELSE step' = [step EXCEPT ![p] = "load"] /\ UNCHANGED racers
  /\ UNCHANGED <<keyFile, key, flashed>>

\* MASTER_KEY_FILE.exists()
Check(p) ==
  /\ step[p] = "check"
  /\ IF keyFile = Absent
       THEN /\ step' = [step EXCEPT ![p] = "create"]
            /\ racers' = racers \cup
                 (IF Creating(p) = {} THEN {} ELSE {p} \cup Creating(p))
       ELSE step' = [step EXCEPT ![p] = "load"] /\ UNCHANGED racers
  /\ UNCHANGED <<keyFile, key, flashed>>

\* A key is drawn; write_text opens the file, which truncates it.
Create(p) ==
  /\ step[p] = "create"
  /\ keyFile' = Empty
  /\ key' = [key EXCEPT ![p] = p]
  /\ step' = [step EXCEPT ![p] = "write"]
  /\ UNCHANGED <<flashed, racers>>

\* write_text writes the key and closes the file.
WriteKey(p) ==
  /\ step[p] = "write"
  /\ keyFile' = key[p]
  /\ step' = [step EXCEPT ![p] = "on"]
  /\ UNCHANGED <<key, flashed, racers>>

\* read_text; an empty file is loaded like any other.
Load(p) ==
  /\ step[p] = "load"
  /\ key' = [key EXCEPT ![p] = keyFile]
  /\ step' = [step EXCEPT ![p] = "on"]
  /\ UNCHANGED <<keyFile, flashed, racers>>

\* The process is stopped or dies, wherever it stands.
Exit(p) ==
  /\ step[p] # "off"
  /\ step' = [step EXCEPT ![p] = "off"]
  /\ key' = [key EXCEPT ![p] = Empty]
  /\ UNCHANGED <<keyFile, flashed, racers>>

\* The motes are built with the key that is in the file.
Flash ==
  /\ flashed = Empty
  /\ keyFile \notin {Empty, Absent}
  /\ flashed' = keyFile
  /\ UNCHANGED <<keyFile, step, key, racers>>

\* What a process does by itself once it has been started.
StartUp(p) == Check(p) \/ Create(p) \/ WriteKey(p) \/ Load(p)

\* The tag of a frame is right for the gateway g.
Understands(g) == step[g] = "on" /\ key[g] = flashed

KeyNext ==
  \/ \E g \in Gateway : Launch(g)
  \/ \E p \in ByHand : StartByHand(p)
  \/ \E p \in Process : StartUp(p) \/ Exit(p)
  \/ Flash

KeySpec == KeyInit /\ [][KeyNext]_keyVars

----------------------------------------------------------------------------
(****************************************************************************)
(* Properties                                                               *)
(****************************************************************************)

\* The keys of the processes, the file and the motes.  An empty one is none:
\* its gateway drops everything.
KeysInUse ==
  ({key[p] : p \in Process} \cup {keyFile, flashed}) \cap Process

\* Two keys are in use only when both are keys of the race that start_gateways.sh
\* (lines 7-8) is afraid of: of processes that were started by hand and found no
\* file at the same time.  The script's gateways stay out of it.  No death in the
\* midst of the setup, no truncated file and nobody who is started while it is
\* written makes a second one, not even after a race.
OnlyRacersDiffer ==
  \A k, l \in KeysInUse : k # l => {k, l} \subseteq racers \cap ByHand

\* The motes have their key for life, and only a race they were flashed in takes
\* it from the file: otherwise whatever starts later understands them.
MotesKeepTheirKey ==
  flashed # Empty /\ flashed \notin racers => keyFile = flashed

\* The single master key of README.md, line 42.  It takes a setup without a race:
\* NetworkProofs shows what is enough, and OnlyRacersDiffer what else may come.
SingleMasterKey == \A k, l \in KeysInUse : k = l

----------------------------------------------------------------------------
(****************************************************************************)
(* The inductive invariant behind them                                      *)
(****************************************************************************)

\* Before there is a file there is no key, and nobody is past the look for it.
NothingBeforeTheFile ==
  keyFile = Absent =>
    /\ KeysInUse = {}
    /\ \A p \in Process : step[p] \in {"off", "check", "create"}

\* A process about to draw a key has none in use, and shares the race with every
\* other such process and with every key that is.
CreatorsRace ==
  \A p \in Process :
    step[p] = "create" =>
      /\ p \notin KeysInUse
      /\ \A q \in Creating(p) \cup KeysInUse : {p, q} \subseteq racers

\* A process that writes a key writes its own.
WritersOwnTheirKey == \A p \in Process : step[p] = "write" => key[p] = p

\* The script's look for the file keeps its gateways out of the race.
ScriptKeepsOut ==
  /\ racers \subseteq ByHand
  /\ \A p \in Process \ ByHand :
       /\ step[p] \notin {"create", "write"}
       /\ step[p] = "check" => keyFile # Absent

KeyIInv ==
  /\ KeyTypeOK
  /\ NothingBeforeTheFile
  /\ CreatorsRace
  /\ WritersOwnTheirKey
  /\ ScriptKeepsOut
  /\ OnlyRacersDiffer
  /\ MotesKeepTheirKey
=============================================================================
