------------------------------- MODULE AuditLog -------------------------------
(****************************************************************************)
(* The audit log of the access decisions: LogAccess of the chaincode        *)
(* (chaincode/iot_contract.go) and the daemon threads that invoke it        *)
(* (log_access_async of api/fabric_access.py), one for each decision.       *)
(*                                                                          *)
(* LogAccess reads nothing, so Fabric never discards its transactions: an   *)
(* entry is under way until it is written or lost, even when its thread has *)
(* timed out and ended with the transaction still on its way.               *)
(****************************************************************************)
EXTENDS AccessPolicies

CONSTANTS
  Request,      \* the requests that clients make
  Consumer,     \* the subjects of the tokens
  MaxClock      \* bound: how many milliseconds go by

VARIABLES
  log,       \* the entries on the ledger
  workers,   \* the entries whose LogAccess is under way
  clock      \* the milliseconds of time.time()

auditVars == <<log, workers, clock>>

\* The field request is history: which decision the entry is about.
Entry ==
  [request : Request, device : Device, consumer : Consumer, role : Role,
   ts : 0..MaxClock, returned : Visibility, granted : BOOLEAN]

AuditTypeOK ==
  /\ log \in SUBSET Entry
  /\ workers \in SUBSET Entry
  /\ clock \in 0..MaxClock

AuditInit ==
  /\ log = {}
  /\ workers = {}
  /\ clock = 0

----------------------------------------------------------------------------

\* Mutant: the consumer is not part of the key.
Mutant_KeyOfMillisecond(entry) == <<entry.device, entry.ts>>

\* The composite key of an entry.
Key(entry) == <<entry.device, entry.ts, entry.consumer>>

\* A thread is started, and the request goes on without waiting for it.
LogAccessAsync(entry) == workers' = workers \cup {entry}

\* LogAccess is committed: PutState replaces the entry under the same key.
LogAccess(entry) ==
  /\ log' = {other \in log : Key(other) # Key(entry)} \cup {entry}
  /\ workers' = workers \ {entry}
  /\ UNCHANGED clock

\* The invocation fails or never reaches a block: nobody notices.
LoseEntry(entry) ==
  /\ workers' = workers \ {entry}
  /\ UNCHANGED <<log, clock>>

\* A millisecond goes by.
Tick ==
  /\ clock < MaxClock
  /\ clock' = clock + 1
  /\ UNCHANGED <<log, workers>>
=============================================================================
