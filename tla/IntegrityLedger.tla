--------------------------- MODULE IntegrityLedger ---------------------------
(****************************************************************************)
(* The v1.0 part of the chaincode (chaincode/iot_contract.go): the ledger   *)
(* that anchors the hash of each reading, and the life of one StoreHash     *)
(* invocation between the orderer and the commit of its block.  Fabric      *)
(* itself is external: it is modelled from how fabric_client.py drives it.  *)
(*                                                                          *)
(* A record id stands for the triple (device_id, ts, seq) which             *)
(* make_record_id turns into the ledger key.  SHA-256 is taken to be free   *)
(* of collisions.                                                           *)
(****************************************************************************)
EXTENDS Naturals, FiniteSets

CONSTANTS
  RecordId,     \* the triples (device_id, ts, seq) the gateways publish
  Payload,      \* the contents a row of the readings table may hold
  PayloadOf,    \* the content the gateway published under each record id
  NoRecord,     \* GetState's nil: nothing is stored under the key
  MaxFaults     \* bound: how many calls, processes or messages may fail

Digest(p) == [sha256 |-> p]

Digests == {Digest(p) : p \in Payload}

\* The hash of the message as it was published, computed by the ingestion.
HashOf(rid) == Digest(PayloadOf[rid])

ASSUME LedgerAssumption ==
  /\ PayloadOf \in [RecordId -> Payload]
  /\ NoRecord \notin Digests
  /\ MaxFaults \in Nat

VARIABLES
  ledger,    \* the world state: the hash recorded under each record id
  ordered,   \* the StoreHash transactions ordered and not yet committed
  faults     \* how many failures have happened so far

Transaction == [id : Nat, rid : RecordId, hash : Digests]

LedgerTypeOK ==
  /\ ledger \in [RecordId -> Digests \cup {NoRecord}]
  /\ ordered \in SUBSET Transaction
  /\ faults \in 0..MaxFaults

LedgerInit ==
  /\ ledger = [rid \in RecordId |-> NoRecord]
  /\ ordered = {}
  /\ faults = 0

----------------------------------------------------------------------------

\* Something fails: a call to the peer, a process, a database statement.
Fault == faults < MaxFaults /\ faults' = faults + 1

\* Both peers endorse the invocation and the orderer accepts it.  StoreHash
\* only writes, so nothing can invalidate the transaction later on.
Order(id, rid, hash) ==
  ordered' = ordered \cup {[id |-> id, rid |-> rid, hash |-> hash]}

\* The client's own view of its transaction while it waits for the event.
InFlight(id) == {tx \in ordered : tx.id = id}

\* The block of tx is written: StoreHash's blind PutState replaces whatever
\* was under the key.
Commit(tx) ==
  /\ ledger' = [ledger EXCEPT ![tx.rid] = tx.hash]
  /\ ordered' = ordered \ {tx}
  /\ UNCHANGED faults

\* The query VerifyHash: false for another hash and for a missing record.
VerifyHash(rid, hash) == ledger[rid] = hash
=============================================================================
