------------------------------ MODULE Ingestion ------------------------------
(****************************************************************************)
(* The ingestion service (ingestion/ingest_mqtt_sqlite.py) with the calls   *)
(* it makes to fabric_client.py.  paho runs on_message on one thread, so    *)
(* one message is handled at a time: inserted as 'pending', anchored on the *)
(* ledger, verified by a round trip, and given its verdict.                 *)
(*                                                                          *)
(* The same reading can arrive twice: the gateway publishes with QoS 1 and  *)
(* sends again what the broker did not acknowledge before a reconnection.   *)
(* The subscription has QoS 0: the broker hands each of the copies on at    *)
(* most once.                                                               *)
(****************************************************************************)
EXTENDS ReadingsTable

CONSTANTS
  NoReading,    \* no message is being handled
  MaxRows,      \* bound: how many messages arrive
  MaxCopies     \* bound: how many copies of a reading arrive

ASSUME IngestionAssumption ==
  /\ NoReading \notin RecordId
  /\ MaxRows \in Nat
  /\ MaxCopies \in Nat

VARIABLE ingest   \* where on_message stands, with its local variables

IngestStep == {"idle", "anchor", "await", "verify", "settle"}

Idle == [step |-> "idle", rid |-> NoReading, verdict |-> "pending"]

IngestTypeOK ==
  ingest \in [step : IngestStep, rid : RecordId \cup {NoReading},
              verdict : Verdict]

\* The row of the message being handled is the last one inserted, and its id
\* names the transaction that anchors it.
CurrentRow == Len(readings)

----------------------------------------------------------------------------

\* A message arrives and its row is committed as 'pending'.
Receive(rid) ==
  /\ ingest.step = "idle"
  /\ Len(readings) < MaxRows
  /\ Cardinality(RowsOf(rid)) < MaxCopies
  /\ Insert(rid)
  /\ ingest' = [step |-> "anchor", rid |-> rid, verdict |-> "pending"]
  /\ UNCHANGED <<ledger, ordered, faults>>

\* Mutant: the hash to anchor is read back from the table.
Mutant_SubmitStoredHash ==
  /\ ingest.step = "anchor"
  /\ Order(CurrentRow, ingest.rid, readings[CurrentRow].hash)
  /\ ingest' = [ingest EXCEPT !.step = "await"]
  /\ UNCHANGED <<ledger, faults, tableVars>>

\* store_hash: the invocation is endorsed and ordered; the client then waits
\* for the commit event.  The hash is the one computed from the message.
Submit ==
  /\ ingest.step = "anchor"
  /\ Order(CurrentRow, ingest.rid, HashOf(ingest.rid))
  /\ ingest' = [ingest EXCEPT !.step = "await"]
  /\ UNCHANGED <<ledger, faults, tableVars>>

\* Mutant: the invocation is made without --waitForEvent.
Mutant_AnchoredOnceOrdered ==
  /\ ingest.step = "await"
  /\ ingest' = [ingest EXCEPT !.step = "verify"]
  /\ UNCHANGED <<ledger, ordered, faults, tableVars>>

\* The commit event arrives: store_hash returns True.
Anchored ==
  /\ ingest.step = "await"
  /\ InFlight(CurrentRow) = {}
  /\ ingest' = [ingest EXCEPT !.step = "verify"]
  /\ UNCHANGED <<ledger, ordered, faults, tableVars>>

\* Mutant: a transaction that timed out is taken to be committed some day.
Mutant_StoreTimeoutTrusted ==
  /\ ingest.step \in {"anchor", "await"}
  /\ Fault
  /\ ordered' \in {ordered, ordered \ InFlight(CurrentRow)}
  /\ ingest' = [ingest EXCEPT !.step = "settle", !.verdict = "intact"]
  /\ UNCHANGED <<ledger, tableVars>>

\* Mutant: a verdict the schema does not know.
Mutant_StoreFailsUnreachable ==
  /\ ingest.step \in {"anchor", "await"}
  /\ Fault
  /\ ordered' \in {ordered, ordered \ InFlight(CurrentRow)}
  /\ ingest' = [ingest EXCEPT !.step = "settle", !.verdict = "unreachable"]
  /\ UNCHANGED <<ledger, tableVars>>

\* store_hash returns False: the peer reports an error, or 30 s pass without
\* the event.  The transaction may be lost, still on its way to a block, or
\* even committed.
StoreFails ==
  /\ ingest.step \in {"anchor", "await"}
  /\ Fault
  /\ ordered' \in {ordered, ordered \ InFlight(CurrentRow)}
  /\ ingest' = [ingest EXCEPT !.step = "settle", !.verdict = "failed"]
  /\ UNCHANGED <<ledger, tableVars>>

\* verify_hash: the hash of the message against the ledger.
Verify ==
  /\ ingest.step = "verify"
  /\ ingest' = [ingest EXCEPT
       !.step    = "settle",
       !.verdict = IF VerifyHash(ingest.rid, HashOf(ingest.rid))
                     THEN "intact" ELSE "tampered"]
  /\ UNCHANGED <<ledger, ordered, faults, tableVars>>

\* verify_hash answers False when the query fails or times out, and False is
\* the verdict 'tampered'.
VerifyFails ==
  /\ ingest.step = "verify"
  /\ Fault
  /\ ingest' = [ingest EXCEPT !.step = "settle", !.verdict = "tampered"]
  /\ UNCHANGED <<ledger, ordered, tableVars>>

\* Mutant: the UPDATE of the verdict is never committed.
Mutant_SettleUncommitted ==
  /\ ingest.step = "settle"
  /\ ingest' = Idle
  /\ UNCHANGED <<ledger, ordered, faults, tableVars>>

\* _set_verdict, and the callback returns.
Settle ==
  /\ ingest.step = "settle"
  /\ UpdateVerdict(ingest.rid, ingest.verdict)
  /\ ingest' = Idle
  /\ UNCHANGED <<ledger, ordered, faults>>

\* The process dies, or an exception (a locked database) ends the callback:
\* on_message catches it and the row keeps the verdict it has.
AbandonMessage ==
  /\ ingest.step # "idle"
  /\ Fault
  /\ ingest' = Idle
  /\ UNCHANGED <<ledger, ordered, tableVars>>
=============================================================================
