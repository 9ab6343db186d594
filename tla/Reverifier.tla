------------------------------ MODULE Reverifier ------------------------------
(****************************************************************************)
(* The background re-check (ingestion/Reverifier.py): a batch of the oldest *)
(* settled rows is read, then each row of this copy is compared with the    *)
(* ledger and its verdict written back.                                     *)
(****************************************************************************)
EXTENDS ReadingsTable

CONSTANT BatchSize   \* BATCH_SIZE, 50 in the code

ASSUME BatchAssumption == BatchSize \in Nat \ {0}

VARIABLES
  batch,     \* the rows read and not yet re-checked, the head being in hand
  checked    \* the ledger's answer for the head, "none" before it comes

recheckVars == <<batch, checked>>

Snapshot == [rid : RecordId, hash : Digests]

RecheckTypeOK ==
  /\ batch \in Seq(Snapshot)
  /\ checked \in {"none", "intact", "tampered"}

RecheckInit ==
  /\ batch = <<>>
  /\ checked = "none"

----------------------------------------------------------------------------

\* Mutant: rows without a verdict are re-checked too.
Mutant_DuePending ==
  {i \in DOMAIN readings :
     /\ readings[i].at < cutoff
     /\ readings[i].verified \in {"pending", "intact", "tampered"}}

\* The rows the SELECT is about: 'pending' and 'failed' are left out.
Due == {i \in DOMAIN readings :
          /\ readings[i].at < cutoff
          /\ readings[i].verified \in {"intact", "tampered"}}

\* Mutant: ORDER BY verified_at DESC.
Mutant_NewestFirst(rows) ==
  /\ \A j, k \in DOMAIN rows : j # k => rows[j] # rows[k]
  /\ \A j, k \in DOMAIN rows :
       j < k => readings[rows[j]].at >= readings[rows[k]].at
  /\ \A i \in Due : \A j \in DOMAIN rows :
       (\A k \in DOMAIN rows : rows[k] # i)
         => readings[rows[j]].at >= readings[i].at

\* ORDER BY verified_at ASC LIMIT BATCH_SIZE; rows of one second come in any
\* order.
OldestFirst(rows) ==
  /\ \A j, k \in DOMAIN rows : j # k => rows[j] # rows[k]
  /\ \A j, k \in DOMAIN rows :
       j < k => readings[rows[j]].at <= readings[rows[k]].at
  /\ \A i \in Due : \A j \in DOMAIN rows :
       (\A k \in DOMAIN rows : rows[k] # i)
         => readings[rows[j]].at <= readings[i].at

BatchLength == IF Cardinality(Due) < BatchSize THEN Cardinality(Due) ELSE BatchSize

\* fetch_aging_rows: what the batch keeps is a copy of the rows.
Fetch ==
  /\ batch = <<>>
  /\ Due # {}
  /\ \E rows \in [1..BatchLength -> Due] :
       /\ OldestFirst(rows)
       /\ batch' = [j \in 1..BatchLength |->
                      [rid  |-> readings[rows[j]].rid,
                       hash |-> readings[rows[j]].hash]]
  /\ UNCHANGED <<ledger, ordered, faults, tableVars, checked>>

\* verify_hash of the stored payload_hash, as it was when the batch was read.
Check ==
  /\ batch # <<>> /\ checked = "none"
  /\ checked' = IF VerifyHash(Head(batch).rid, Head(batch).hash)
                  THEN "intact" ELSE "tampered"
  /\ UNCHANGED <<ledger, ordered, faults, tableVars, batch>>

\* The query fails or times out: verify_hash answers False all the same.
CheckFails ==
  /\ batch # <<>> /\ checked = "none"
  /\ Fault
  /\ checked' = "tampered"
  /\ UNCHANGED <<ledger, ordered, tableVars, batch>>

\* update_verdict, whatever the row's verdict has become meanwhile.
Rewrite ==
  /\ checked # "none"
  /\ UpdateVerdict(Head(batch).rid, checked)
  /\ batch' = Tail(batch)
  /\ checked' = "none"
  /\ UNCHANGED <<ledger, ordered, faults>>

\* The process dies, or an exception ends the round: the rest of the batch is
\* dropped until the next round reads the table again.
AbandonBatch ==
  /\ batch # <<>>
  /\ Fault
  /\ batch' = <<>>
  /\ checked' = "none"
  /\ UNCHANGED <<ledger, ordered, tableVars>>
=============================================================================
