--------------------------- MODULE PipelineProofs ---------------------------
(****************************************************************************)
(* Theorems about the integrity pipeline, for any readings, payloads,       *)
(* bounds and batch size.  They rest on the inductive invariant IInv of     *)
(* module Pipeline.                                                         *)
(****************************************************************************)
EXTENDS Pipeline, SequenceTheorems, FiniteSetTheorems, TLAPS

USE LedgerAssumption, IngestionAssumption, BatchAssumption, EditAssumption

----------------------------------------------------------------------------
(****************************************************************************)
(* The statements on the table                                              *)
(****************************************************************************)

\* The hash of a published message is a digest, so it is never GetState's nil.
LEMMA HashOfType ==
  ASSUME NEW rid \in RecordId
  PROVE  HashOf(rid) \in Digests /\ HashOf(rid) # NoRecord
BY DEF HashOf, Digests

\* An UPDATE of a verdict keeps every row in its place, with its triple, its
\* content and its hash, and gives the verdict to all rows of the triple.
LEMMA UpdateVerdictRows ==
  ASSUME TableTypeOK, NEW rid \in RecordId, NEW verdict \in Verdict,
         UpdateVerdict(rid, verdict)
  PROVE  /\ TableTypeOK'
         /\ Len(readings') = Len(readings)
         /\ DOMAIN readings' = DOMAIN readings
         /\ \A i \in DOMAIN readings :
              /\ readings'[i].rid = readings[i].rid
              /\ readings'[i].payload = readings[i].payload
              /\ readings'[i].hash = readings[i].hash
              /\ readings'[i].verified =
                   IF readings[i].rid = rid THEN verdict
                                            ELSE readings[i].verified
<1> DEFINE Rows(now) == Updated(rid, verdict, now)
           Used(now) == {Rows(now)[i].at : i \in DOMAIN Rows(now)} \ {0}
           Rank(now, t) == Cardinality({u \in Used(now) : u <= t})
<1>1. PICK now :
        /\ readings' = [i \in DOMAIN Rows(now) |->
                          [Rows(now)[i] EXCEPT !.at = Rank(now, Rows(now)[i].at)]]
        /\ cutoff' = Rank(now, cutoff - 1) + 1
  BY DEF UpdateVerdict
<1>2. readings \in Seq(Row) /\ Len(readings) \in Nat
      /\ DOMAIN readings = 1..Len(readings)
  BY LenProperties DEF TableTypeOK
<1>3. DOMAIN Rows(now) = DOMAIN readings
  BY DEF Updated
<1>4. \A t : Rank(now, t) \in Nat
  <2>1. IsFiniteSet(DOMAIN Rows(now))
    BY <1>2, <1>3, FS_Interval
  <2>2. IsFiniteSet({Rows(now)[i].at : i \in DOMAIN Rows(now)})
    <3> HIDE DEF Rows
    <3> DEFINE At == [i \in DOMAIN Rows(now) |-> Rows(now)[i].at]
    <3>1. At \in Surjection(DOMAIN Rows(now),
                            {Rows(now)[i].at : i \in DOMAIN Rows(now)})
      BY DEF Surjection
    <3> QED  BY <2>1, <3>1, FS_Surjection
  <2>3. \A t : {u \in Used(now) : u <= t}
                 \subseteq {Rows(now)[i].at : i \in DOMAIN Rows(now)}
    OBVIOUS
  <2>4. \A t : IsFiniteSet({u \in Used(now) : u <= t})
    <3> HIDE DEF Rows, Used
    <3> QED  BY <2>2, <2>3, FS_Subset
  <2> HIDE DEF Rows, Used
  <2> QED  BY <2>4, FS_CardinalityType
<1> HIDE DEF Rank
<1>5. \A i \in DOMAIN readings :
        /\ readings[i] \in Row
        /\ Rows(now)[i].rid = readings[i].rid
        /\ Rows(now)[i].payload = readings[i].payload
        /\ Rows(now)[i].hash = readings[i].hash
        /\ Rows(now)[i].verified = IF readings[i].rid = rid THEN verdict
                                                  ELSE readings[i].verified
        /\ Rows(now)[i] \in
             [rid : RecordId, payload : Payload, hash : Digests,
              verified : Verdict, at : {readings[i].at, now}]
    <2> TAKE i \in DOMAIN readings
  <2>1. readings[i] \in Row
    BY <1>2
  <2>2. Rows(now)[i] = IF readings[i].rid = rid
          THEN [readings[i] EXCEPT !.verified = verdict, !.at = now]
          ELSE readings[i]
    BY DEF Updated
  <2> HIDE DEF Rows
  <2> QED  BY <2>1, <2>2 DEF Row
<1> HIDE DEF Rows
<1>6. \A i \in DOMAIN readings :
        readings'[i] = [Rows(now)[i] EXCEPT !.at = Rank(now, Rows(now)[i].at)]
  BY <1>1, <1>3
<1>7. \A i \in DOMAIN readings :
        /\ readings'[i] \in Row
        /\ readings'[i].rid = readings[i].rid
        /\ readings'[i].payload = readings[i].payload
        /\ readings'[i].hash = readings[i].hash
        /\ readings'[i].verified = IF readings[i].rid = rid THEN verdict
                                                  ELSE readings[i].verified
  <2> TAKE i \in DOMAIN readings
  <2>1. Rank(now, Rows(now)[i].at) \in Nat
    BY <1>4
  <2>2. PICK r : r = Rank(now, Rows(now)[i].at)
    OBVIOUS
  <2> QED  BY <1>5, <1>6, <2>1, <2>2 DEF Row
<1>8. readings' \in Seq(Row) /\ Len(readings') = Len(readings)
      /\ DOMAIN readings' = DOMAIN readings
  BY <1>1, <1>2, <1>3, <1>7
<1>9. cutoff' \in Nat \ {0}
  BY <1>1, <1>4
<1> QED  BY <1>7, <1>8, <1>9 DEF TableTypeOK

\* The INSERT leaves the rows there are in place and adds a genuine one.
LEMMA InsertRows ==
  ASSUME TableTypeOK, NEW rid \in RecordId, Insert(rid)
  PROVE  /\ TableTypeOK'
         /\ Len(readings') = Len(readings) + 1
         /\ DOMAIN readings' = DOMAIN readings \cup {Len(readings')}
         /\ \A i \in DOMAIN readings : readings'[i] = readings[i]
         /\ readings'[Len(readings')].rid = rid
         /\ readings'[Len(readings')].hash = HashOf(rid)
         /\ readings'[Len(readings')].verified = "pending"
<1> DEFINE row == [rid |-> rid, payload |-> PayloadOf[rid],
                   hash |-> HashOf(rid), verified |-> "pending", at |-> 0]
<1>1. row \in Row
  BY HashOfType DEF Row, Verdict, LedgerAssumption
<1>2. readings' = Append(readings, row) /\ cutoff' = cutoff
  BY DEF Insert
<1>3. row.rid = rid /\ row.hash = HashOf(rid) /\ row.verified = "pending"
  OBVIOUS
<1> HIDE DEF row
<1>4. readings \in Seq(Row) /\ Len(readings) \in Nat
      /\ DOMAIN readings = 1..Len(readings)
  BY LenProperties DEF TableTypeOK
<1>5. /\ readings' \in Seq(Row)
      /\ Len(readings') = Len(readings) + 1
      /\ \A i \in 1..Len(readings) : readings'[i] = readings[i]
      /\ readings'[Len(readings) + 1] = row
      /\ DOMAIN readings' = 1..Len(readings')
  BY <1>1, <1>2, <1>4, AppendProperties, LenProperties
<1> QED  BY <1>2, <1>3, <1>4, <1>5 DEF TableTypeOK

\* An edit of the database changes content and hash of one row of the table.
LEMMA EditRows ==
  ASSUME TableTypeOK, NEW k \in DOMAIN readings, NEW p \in Payload,
         NEW h \in Digests, EditRow(k, p, h)
  PROVE  /\ TableTypeOK'
         /\ Len(readings') = Len(readings)
         /\ DOMAIN readings' = DOMAIN readings
         /\ \A i \in DOMAIN readings :
              /\ readings'[i].rid = readings[i].rid
              /\ readings'[i].verified = readings[i].verified
              /\ i # k => readings'[i].hash = readings[i].hash
<1>1. readings \in Seq(Row) /\ Len(readings) \in Nat
      /\ DOMAIN readings = 1..Len(readings)
  BY LenProperties DEF TableTypeOK
<1>2. /\ DOMAIN readings' = DOMAIN readings
      /\ cutoff' = cutoff
      /\ \A i \in DOMAIN readings :
           readings'[i] = IF i = k
             THEN [readings[i] EXCEPT !.payload = p, !.hash = h]
             ELSE readings[i]
  BY DEF EditRow
<1>3. \A i \in DOMAIN readings :
        /\ readings'[i] \in Row
        /\ readings'[i].rid = readings[i].rid
        /\ readings'[i].verified = readings[i].verified
        /\ i # k => readings'[i].hash = readings[i].hash
  <2> TAKE i \in DOMAIN readings
  <2>1. readings[i] \in Row
    BY <1>1
  <2> QED  BY <1>2, <2>1 DEF Row
<1>4. readings' \in Seq(Row) /\ Len(readings') = Len(readings)
  <2>1. readings' = [i \in 1..Len(readings) |-> readings'[i]]
    BY <1>1 DEF EditRow
  <2> QED  BY <1>1, <1>3, <2>1
<1> QED  BY <1>2, <1>3, <1>4 DEF TableTypeOK

\* What the re-verifier reads are copies of settled rows that are due.
LEMMA FetchRows ==
  ASSUME TableTypeOK, Fetch
  PROVE  /\ batch' \in Seq(Snapshot)
         /\ \A j \in DOMAIN batch' : \E i \in DOMAIN readings :
              /\ batch'[j].rid = readings[i].rid
              /\ batch'[j].hash = readings[i].hash
              /\ readings[i].verified \in {"intact", "tampered"}
<1>1. readings \in Seq(Row) /\ Len(readings) \in Nat
      /\ DOMAIN readings = 1..Len(readings)
  BY LenProperties DEF TableTypeOK
<1>2. Due \subseteq DOMAIN readings
      /\ \A i \in Due : readings[i].verified \in {"intact", "tampered"}
  BY DEF Due
<1>3. BatchLength \in Nat
  <2>1. IsFiniteSet(DOMAIN readings)
    BY <1>1, FS_Interval
  <2>2. IsFiniteSet(Due)
    BY <1>2, <2>1, FS_Subset
  <2>3. Cardinality(Due) \in Nat
    BY <2>2, FS_CardinalityType
  <2> QED  BY <2>3 DEF BatchLength, BatchAssumption
<1>4. PICK rows \in [1..BatchLength -> Due] :
        batch' = [j \in 1..BatchLength |->
                    [rid  |-> readings[rows[j]].rid,
                     hash |-> readings[rows[j]].hash]]
  BY DEF Fetch
<1>5. \A j \in 1..BatchLength :
        /\ rows[j] \in DOMAIN readings
        /\ readings[rows[j]] \in Row
        /\ batch'[j] \in Snapshot
        /\ batch'[j].rid = readings[rows[j]].rid
        /\ batch'[j].hash = readings[rows[j]].hash
        /\ readings[rows[j]].verified \in {"intact", "tampered"}
  <2> TAKE j \in 1..BatchLength
  <2>1. rows[j] \in DOMAIN readings
        /\ readings[rows[j]].verified \in {"intact", "tampered"}
    BY <1>2
  <2>2. readings[rows[j]] \in Row
    BY <1>1, <2>1
  <2>3. batch'[j] = [rid  |-> readings[rows[j]].rid,
                     hash |-> readings[rows[j]].hash]
    BY <1>4
  <2> QED  BY <2>1, <2>2, <2>3 DEF Snapshot, Row
<1>6. DOMAIN batch' = 1..BatchLength
  BY <1>4
<1>7. batch' \in Seq(Snapshot)
  <2> HIDE DEF BatchLength
  <2>1. batch' = [j \in 1..BatchLength |-> batch'[j]]
    BY <1>4
  <2> QED  BY <1>3, <1>5, <2>1
<1> QED  BY <1>5, <1>6, <1>7

\* The re-verifier goes on with the rest of its batch.
LEMMA TailOfBatch ==
  ASSUME batch \in Seq(Snapshot), batch # <<>>, batch' = Tail(batch)
  PROVE  /\ batch' \in Seq(Snapshot)
         /\ Head(batch) \in Snapshot
         /\ Head(batch) = batch[1] /\ 1 \in DOMAIN batch
         /\ \A j \in DOMAIN batch' : j + 1 \in DOMAIN batch
                                     /\ batch'[j] = batch[j + 1]
BY HeadTailProperties, LenProperties

----------------------------------------------------------------------------
(****************************************************************************)
(* Types, and the row of the message in hand                                *)
(****************************************************************************)

\* The initial state is well typed, with no message and no answer in hand.
LEMMA TypeInit ==
  Init => WellFormed
BY DEF Init, LedgerInit, TableInit, RecheckInit, Idle, TypeOK, LedgerTypeOK,
       TableTypeOK, IngestTypeOK, RecheckTypeOK, IngestStep, Verdict, Digests,
       WellFormed, MessageInHand, AnswerForHead, LedgerAssumption

\* A failure stays within the budget.
LEMMA FaultType ==
  ASSUME LedgerTypeOK, Fault
  PROVE  faults' \in 0..MaxFaults
BY LedgerAssumption DEF Fault, LedgerTypeOK

\* While a message is in hand, its row is the last one.
LEMMA RowInHand ==
  ASSUME WellFormed, ingest.step # "idle"
  PROVE  /\ Len(readings) \in DOMAIN readings
         /\ ingest.rid = readings[Len(readings)].rid
         /\ ingest.rid \in RecordId
<1>1. /\ readings \in Seq(Row) /\ Len(readings) \in Nat
      /\ DOMAIN readings = 1..Len(readings)
  BY LenProperties DEF WellFormed, TypeOK, TableTypeOK
<1>2. Len(readings) > 0 /\ ingest.rid = readings[Len(readings)].rid
  BY DEF WellFormed, MessageInHand
<1>3. Len(readings) \in DOMAIN readings
  BY <1>1, <1>2
<1>4. readings[Len(readings)] \in Row
  BY <1>1, <1>3
<1> QED  BY <1>2, <1>3, <1>4 DEF Row

\* Every step of the ingestion keeps the types and the row of the message in
\* hand the last one of the table.
LEMMA IngestionTypeStep ==
  ASSUME WellFormed, IngestionStep
  PROVE  WellFormed'
<1> USE DEF WellFormed, AnswerForHead, TypeOK, IngestTypeOK, RecheckTypeOK
<1>0. /\ readings \in Seq(Row) /\ Len(readings) \in Nat
      /\ DOMAIN readings = 1..Len(readings)
      /\ recheckVars' = recheckVars /\ edited' = edited
  BY LenProperties DEF TableTypeOK, IngestionStep
<1>1. ASSUME NEW rid \in RecordId, Receive(rid)
      PROVE  WellFormed'
  <2>1. LedgerTypeOK' /\ RecheckTypeOK' /\ (edited \in SUBSET RecordId)'
    BY <1>0, <1>1 DEF Receive, LedgerTypeOK, recheckVars
  <2>2. Insert(rid)
        /\ ingest' = [step |-> "anchor", rid |-> rid, verdict |-> "pending"]
    BY <1>1 DEF Receive
  <2>3. TableTypeOK' /\ Len(readings') = Len(readings) + 1
        /\ readings'[Len(readings')].rid = rid
    BY <2>2, InsertRows
  <2> QED
    BY <1>0, <2>1, <2>2, <2>3 DEF IngestStep, Verdict, recheckVars, MessageInHand
<1>2. CASE Submit
  <2>1. ingest.rid \in RecordId /\ tableVars' = tableVars
        /\ UNCHANGED <<ledger, faults>>
    BY <1>2, RowInHand DEF Submit
  <2>2. [id |-> CurrentRow, rid |-> ingest.rid, hash |-> HashOf(ingest.rid)]
          \in Transaction
    BY <1>0, <2>1, HashOfType DEF CurrentRow, Transaction
  <2>3. LedgerTypeOK'
    BY <1>2, <2>1, <2>2 DEF Submit, Order, LedgerTypeOK
  <2> QED
    BY <1>0, <1>2, <2>1, <2>3
    DEF Submit, IngestStep, TableTypeOK, tableVars, recheckVars, MessageInHand
<1>3. CASE Anchored
  BY <1>0, <1>3 DEF Anchored, IngestStep, LedgerTypeOK, TableTypeOK, tableVars,
                    recheckVars, MessageInHand
<1>4. CASE StoreFails
  <2>1. faults' \in 0..MaxFaults
    BY <1>4, FaultType DEF StoreFails
  <2> QED
    BY <1>0, <1>4, <2>1
    DEF StoreFails, IngestStep, Verdict, LedgerTypeOK, TableTypeOK, tableVars,
        recheckVars, MessageInHand
<1>5. CASE Verify
  BY <1>0, <1>5 DEF Verify, IngestStep, Verdict, LedgerTypeOK, TableTypeOK,
                    tableVars, recheckVars, MessageInHand
<1>6. CASE VerifyFails
  <2>1. faults' \in 0..MaxFaults
    BY <1>6, FaultType DEF VerifyFails
  <2> QED
    BY <1>0, <1>6, <2>1
    DEF VerifyFails, IngestStep, Verdict, LedgerTypeOK, TableTypeOK, tableVars,
        recheckVars, MessageInHand
<1>7. CASE Settle
  <2>1. ingest.rid \in RecordId /\ ingest.verdict \in Verdict
    BY <1>7, RowInHand DEF Settle
  <2>2. TableTypeOK'
    BY <1>7, <2>1, UpdateVerdictRows DEF Settle
  <2> QED
    BY <1>0, <1>7, <2>2
    DEF Settle, Idle, IngestStep, Verdict, LedgerTypeOK, recheckVars,
        MessageInHand
<1>8. CASE AbandonMessage
  <2>1. faults' \in 0..MaxFaults
    BY <1>8, FaultType DEF AbandonMessage
  <2> QED
    BY <1>0, <1>8, <2>1
    DEF AbandonMessage, Idle, IngestStep, Verdict, LedgerTypeOK, TableTypeOK,
        tableVars, recheckVars, MessageInHand
<1> QED
  BY <1>1, <1>2, <1>3, <1>4, <1>5, <1>6, <1>7, <1>8 DEF IngestionStep

\* Every step of the re-verifier keeps the types, and an answer is only held
\* for the head of a batch.
LEMMA RecheckTypeStep ==
  ASSUME WellFormed, RecheckStep
  PROVE  WellFormed'
<1> USE DEF WellFormed, AnswerForHead, TypeOK, IngestTypeOK, RecheckTypeOK
<1>0. ingest' = ingest /\ edited' = edited
  BY DEF RecheckStep
<1>1. CASE Fetch
  <2>1. batch' \in Seq(Snapshot)
    BY <1>1, FetchRows
  <2> QED
    BY <1>0, <1>1, <2>1
    DEF Fetch, LedgerTypeOK, TableTypeOK, tableVars, MessageInHand
<1>2. CASE Check
  BY <1>0, <1>2 DEF Check, LedgerTypeOK, TableTypeOK, tableVars, MessageInHand
<1>3. CASE CheckFails
  <2>1. faults' \in 0..MaxFaults
    BY <1>3, FaultType DEF CheckFails
  <2> QED
    BY <1>0, <1>3, <2>1
    DEF CheckFails, LedgerTypeOK, TableTypeOK, tableVars, MessageInHand
<1>4. CASE Rewrite
  <2>1. Head(batch) \in Snapshot /\ batch' \in Seq(Snapshot)
    BY <1>4, TailOfBatch DEF Rewrite
  <2>2. Head(batch).rid \in RecordId /\ checked \in Verdict
    BY <1>4, <2>1 DEF Snapshot, Verdict, Rewrite
  <2>3. TableTypeOK' /\ Len(readings') = Len(readings)
        /\ \A i \in DOMAIN readings : readings'[i].rid = readings[i].rid
    BY <1>4, <2>2, UpdateVerdictRows DEF Rewrite
  <2>4. MessageInHand'
    BY <1>0, <2>3, RowInHand DEF MessageInHand
  <2> QED
    BY <1>0, <1>4, <2>1, <2>3, <2>4 DEF Rewrite, LedgerTypeOK
<1>5. CASE AbandonBatch
  <2>1. faults' \in 0..MaxFaults
    BY <1>5, FaultType DEF AbandonBatch
  <2> QED
    BY <1>0, <1>5, <2>1
    DEF AbandonBatch, LedgerTypeOK, TableTypeOK, tableVars, MessageInHand
<1> QED  BY <1>1, <1>2, <1>3, <1>4, <1>5 DEF RecheckStep

\* No step of the whole pipeline breaks the types.
LEMMA WellFormedStep ==
  ASSUME WellFormed, [Next]_vars
  PROVE  WellFormed'
<1> USE DEF WellFormed, AnswerForHead, TypeOK, IngestTypeOK, RecheckTypeOK
<1>1. CASE IngestionStep
  BY <1>1, IngestionTypeStep
<1>2. CASE RecheckStep
  BY <1>2, RecheckTypeStep
<1>3. CASE BlockStep
  BY <1>3
  DEF BlockStep, Commit, LedgerTypeOK, TableTypeOK, Transaction, tableVars,
      recheckVars, MessageInHand
<1>4. CASE TimeStep
  BY <1>4
  DEF TimeStep, Age, LedgerTypeOK, TableTypeOK, recheckVars, MessageInHand
<1>5. CASE EditStep
  <2>1. PICK k \in DOMAIN readings, p, q \in Payload :
          EditRow(k, p, Digest(q))
    BY <1>5 DEF EditStep
  <2>2. Digest(q) \in Digests
    BY DEF Digests
  <2>3. TableTypeOK' /\ Len(readings') = Len(readings)
        /\ \A i \in DOMAIN readings : readings'[i].rid = readings[i].rid
    BY <2>1, <2>2, EditRows
  <2>4. readings[k].rid \in RecordId
    <3>1. readings[k] \in Row
      BY LenProperties DEF TableTypeOK
    <3> QED  BY <3>1 DEF Row
  <2>5. MessageInHand'
    BY <2>1, <2>3, RowInHand DEF EditRow, MessageInHand
  <2> QED
    BY <2>1, <2>3, <2>4, <2>5 DEF EditRow, LedgerTypeOK, recheckVars
<1>6. CASE UNCHANGED vars
  BY <1>6 DEF vars, LedgerTypeOK, TableTypeOK, MessageInHand
<1> QED  BY <1>1, <1>2, <1>3, <1>4, <1>5, <1>6 DEF Next

\* Type correctness: every variable keeps its type, the table holds rows of
\* the schema and the failures stay within their budget.
THEOREM TypeCorrect == Spec => []TypeOK
<1>1. Init => WellFormed
  BY TypeInit
<1>2. WellFormed /\ [Next]_vars => WellFormed'
  BY WellFormedStep
<1>3. WellFormed => TypeOK
  BY DEF WellFormed
<1> QED  BY <1>1, <1>2, <1>3, PTL DEF Spec

----------------------------------------------------------------------------
(****************************************************************************)
(* The ledger                                                               *)
(****************************************************************************)

\* What a step may do to the ledger: a block records the hash of one honest
\* transaction, and nothing else writes it.
LEMMA LedgerStep ==
  ASSUME WellFormed, LedgerHonest, TransactionsHonest, [Next]_vars
  PROVE  /\ LedgerHonest'
         /\ \A rid \in RecordId : Recorded(rid) => ledger'[rid] = ledger[rid]
<1>1. CASE BlockStep
  <2>1. PICK tx \in ordered : Commit(tx)
    BY <1>1 DEF BlockStep
  <2>2. tx.rid \in RecordId /\ tx.hash = HashOf(tx.rid)
    BY DEF WellFormed, TypeOK, LedgerTypeOK, Transaction, TransactionsHonest
  <2>3. ledger \in [RecordId -> Digests \cup {NoRecord}]
    BY DEF WellFormed, TypeOK, LedgerTypeOK
  <2>4. \A rid \in RecordId :
          ledger'[rid] = IF rid = tx.rid THEN HashOf(rid) ELSE ledger[rid]
    BY <2>1, <2>2, <2>3 DEF Commit
  <2> QED  BY <2>4 DEF LedgerHonest, Recorded
<1>2. CASE UNCHANGED ledger
  BY <1>2 DEF LedgerHonest, Recorded, HashOf, Digest
<1>3. IngestionStep \/ RecheckStep \/ TimeStep \/ EditStep \/ UNCHANGED vars
        => UNCHANGED ledger
  BY DEF IngestionStep, Receive, Submit, Anchored, StoreFails, Verify,
         VerifyFails, Settle, AbandonMessage, RecheckStep, Fetch, Check,
         CheckFails, Rewrite, AbandonBatch, TimeStep, EditStep, EditRow, vars
<1> QED  BY <1>1, <1>2, <1>3 DEF Next

\* How row i, after the step, comes from the table before it: it is new, or it
\* is the same reading, with the same hash unless that reading was edited, and
\* with its old verdict or the one that either process holds for its reading.
NewRow(i) ==
  /\ i \notin DOMAIN readings
  /\ readings'[i].verified = "pending"
  /\ readings'[i].hash = HashOf(readings'[i].rid)
  /\ readings'[i].rid = ingest'.rid /\ ingest'.step = "anchor"

SameVerdict(i) == readings'[i].verified = readings[i].verified

SettledRow(i) ==
  /\ Settle
  /\ readings[i].rid = ingest.rid
  /\ readings'[i].verified = ingest.verdict

RecheckedRow(i) ==
  /\ Rewrite
  /\ readings[i].rid = Head(batch).rid
  /\ readings'[i].verified = checked

OldRow(i) ==
  /\ i \in DOMAIN readings
  /\ readings'[i].rid = readings[i].rid
  /\ readings[i].rid \in edited' \/ readings'[i].hash = readings[i].hash
  /\ SameVerdict(i) \/ SettledRow(i) \/ RecheckedRow(i)

\* Every row after a step is new, or one there was, changed by one of the three
\* writers of the table.
LEMMA RowsAfterStep ==
  ASSUME WellFormed, [Next]_vars
  PROVE  /\ DOMAIN readings \subseteq DOMAIN readings'
         /\ \A i \in DOMAIN readings' : NewRow(i) \/ OldRow(i)
<1> DEFINE Goal == /\ DOMAIN readings \subseteq DOMAIN readings'
                   /\ \A i \in DOMAIN readings' : NewRow(i) \/ OldRow(i)
<1>0. TableTypeOK
  BY DEF WellFormed, TypeOK
<1>1. CASE UNCHANGED readings
  BY <1>1 DEF OldRow, SameVerdict
<1>2. ASSUME NEW rid \in RecordId, Receive(rid)
      PROVE  Goal
  BY <1>0, <1>2, InsertRows DEF Receive, NewRow, OldRow, SameVerdict
<1>3. CASE Settle
  <2>1. ingest.rid \in RecordId /\ ingest.verdict \in Verdict
    BY <1>3, RowInHand DEF Settle, WellFormed, TypeOK, IngestTypeOK
  <2>2. UpdateVerdict(ingest.rid, ingest.verdict)
    BY <1>3 DEF Settle
  <2> QED
    BY <1>0, <1>3, <2>1, <2>2, UpdateVerdictRows
    DEF OldRow, SameVerdict, SettledRow
<1>4. CASE Rewrite
  <2>1. Head(batch) \in Snapshot /\ checked \in Verdict
    BY <1>4, TailOfBatch
    DEF Rewrite, WellFormed, AnswerForHead, TypeOK, RecheckTypeOK, Verdict
  <2>2. Head(batch).rid \in RecordId
    BY <2>1 DEF Snapshot
  <2>3. UpdateVerdict(Head(batch).rid, checked)
    BY <1>4 DEF Rewrite
  <2> QED
    BY <1>0, <1>4, <2>1, <2>2, <2>3, UpdateVerdictRows
    DEF OldRow, SameVerdict, RecheckedRow
<1>5. CASE EditStep
  <2>1. PICK k \in DOMAIN readings, p, q \in Payload :
          EditRow(k, p, Digest(q))
    BY <1>5 DEF EditStep
  <2>2. Digest(q) \in Digests
    BY DEF Digests
  <2>3. readings[k].rid \in edited'
    BY <2>1 DEF EditRow
  <2> QED  BY <1>0, <2>1, <2>2, <2>3, EditRows DEF OldRow, SameVerdict
<1>6. \/ UNCHANGED readings
      \/ \E rid \in RecordId : Receive(rid)
      \/ Settle \/ Rewrite \/ EditStep
  BY DEF Next, IngestionStep, Submit, Anchored, StoreFails, Verify, VerifyFails,
         AbandonMessage, RecheckStep, Fetch, Check, CheckFails, AbandonBatch,
         BlockStep, TimeStep, Age, tableVars, vars
<1> QED  BY <1>1, <1>2, <1>3, <1>4, <1>5, <1>6

\* The transactions in flight keep pointing at the row they were made for.
LEMMA TransactionsStep ==
  ASSUME WellFormed, TransactionsHonest, [Next]_vars
  PROVE  TransactionsHonest'
<1>1. ASSUME NEW tx \in ordered
      PROVE  /\ tx.hash = HashOf(tx.rid)
             /\ tx.id \in DOMAIN readings'
             /\ readings'[tx.id].rid = tx.rid
  BY <1>1, RowsAfterStep DEF TransactionsHonest, NewRow, OldRow
<1>2. CASE ordered' \subseteq ordered
  BY <1>1, <1>2 DEF TransactionsHonest, HashOf, Digest
<1>3. CASE Submit
  <2> DEFINE new == [id |-> CurrentRow, rid |-> ingest.rid,
                     hash |-> HashOf(ingest.rid)]
  <2>1. ordered' = ordered \cup {new}
    BY <1>3 DEF Submit, Order
  <2>2. /\ Len(readings) \in DOMAIN readings
        /\ ingest.rid = readings[Len(readings)].rid
        /\ readings' = readings
    BY <1>3, RowInHand DEF Submit, tableVars
  <2>3. /\ new.hash = HashOf(new.rid)
        /\ new.id \in DOMAIN readings'
        /\ readings'[new.id].rid = new.rid
    BY <2>2 DEF CurrentRow
  <2> HIDE DEF new
  <2> QED  BY <1>1, <2>1, <2>3 DEF TransactionsHonest, HashOf, Digest
<1>4. Submit \/ ordered' \subseteq ordered
  BY DEF Next, IngestionStep, Receive, Anchored, StoreFails, InFlight, Verify,
         VerifyFails, Settle, AbandonMessage, RecheckStep, Fetch, Check,
         CheckFails, Rewrite, AbandonBatch, BlockStep, Commit, TimeStep,
         EditStep, EditRow, vars
<1> QED  BY <1>2, <1>3, <1>4

----------------------------------------------------------------------------
(****************************************************************************)
(* What the processes know about the ledger                                 *)
(****************************************************************************)

\* What the callback knows about the ledger stays true: only its own steps
\* change where it stands, and a record never disappears.
LEMMA AnsweredStep ==
  ASSUME WellFormed, LedgerHonest, TransactionsHonest, AnsweredByLedger,
         [Next]_vars
  PROVE  AnsweredByLedger'
<1>0. /\ ingest.step # "idle" => /\ ingest.rid \in RecordId
                                 /\ Len(readings) \in DOMAIN readings
                                 /\ ingest.rid = readings[Len(readings)].rid
      /\ \A rid \in RecordId : Recorded(rid) => Recorded(rid)'
      /\ ingest \in [step : IngestStep, rid : RecordId \cup {NoReading},
                     verdict : Verdict]
  <2>1. \A rid \in RecordId : Recorded(rid) => Recorded(rid)'
    BY LedgerStep DEF Recorded
  <2> QED  BY <2>1, RowInHand DEF WellFormed, TypeOK, IngestTypeOK
<1>1. ASSUME NEW rid \in RecordId, Receive(rid)
      PROVE  AnsweredByLedger'
  BY <1>1 DEF Receive, AnsweredByLedger
<1>2. CASE Submit
  <2> DEFINE new == [id |-> CurrentRow, rid |-> ingest.rid,
                     hash |-> HashOf(ingest.rid)]
  <2>1. new \in ordered' /\ new.id = Len(readings')
    BY <1>2 DEF Submit, Order, CurrentRow, tableVars
  <2>2. InFlight(Len(readings))' # {}
    BY <2>1 DEF InFlight
  <2>3. ingest'.step = "await" /\ ingest'.verdict = ingest.verdict
        /\ ingest.step = "anchor"
    BY <1>0, <1>2 DEF Submit
  <2> QED  BY <2>2, <2>3 DEF AnsweredByLedger
<1>3. CASE Anchored
  <2>1. Recorded(ingest.rid) /\ ingest.verdict \notin {"intact", "tampered"}
    BY <1>3 DEF Anchored, AnsweredByLedger, CurrentRow
  <2>2. ingest'.step = "verify" /\ ingest'.verdict = ingest.verdict
        /\ ingest'.rid = ingest.rid /\ ingest.step = "await"
    BY <1>0, <1>3 DEF Anchored
  <2> QED  BY <1>0, <2>1, <2>2 DEF AnsweredByLedger, Recorded
<1>4. CASE StoreFails
  <2>1. ingest'.step = "settle" /\ ingest'.verdict = "failed"
    BY <1>0, <1>4 DEF StoreFails
  <2> QED  BY <2>1 DEF AnsweredByLedger
<1>5. CASE Verify \/ VerifyFails
  <2>1. ingest.step = "verify" /\ ingest'.step = "settle"
        /\ ingest'.rid = ingest.rid
    BY <1>0, <1>5 DEF Verify, VerifyFails
  <2>2. Recorded(ingest.rid)
    BY <2>1 DEF AnsweredByLedger
  <2> QED  BY <1>0, <2>1, <2>2 DEF AnsweredByLedger, Recorded
<1>6. CASE Settle \/ AbandonMessage
  BY <1>6 DEF Settle, AbandonMessage, Idle, AnsweredByLedger
<1>7. CASE BlockStep
  <2>1. PICK tx \in ordered : Commit(tx)
    BY <1>7 DEF BlockStep
  <2>2. ingest' = ingest /\ readings' = readings /\ ordered' = ordered \ {tx}
    BY <1>7, <2>1 DEF BlockStep, Commit, tableVars
  <2>3. CASE ingest.step = "await" /\ tx \in InFlight(Len(readings))
    <3>1. tx.rid = ingest.rid /\ tx.hash = HashOf(ingest.rid)
      BY <1>0, <2>3 DEF InFlight, TransactionsHonest
    <3>2. ledger'[ingest.rid] = HashOf(ingest.rid)
      BY <1>0, <2>1, <2>3, <3>1 DEF Commit, WellFormed, TypeOK, LedgerTypeOK
    <3>3. Recorded(ingest.rid)'
      BY <1>0, <2>2, <2>3, <3>2, HashOfType DEF Recorded
    <3> QED  BY <2>2, <2>3, <3>3 DEF AnsweredByLedger
  <2>4. CASE tx \notin InFlight(Len(readings))
    <3>1. InFlight(Len(readings))' = InFlight(Len(readings))
      BY <2>2, <2>4 DEF InFlight
    <3> QED
      BY <1>0, <2>2, <3>1 DEF AnsweredByLedger, Recorded
  <2>5. CASE ingest.step # "await"
    BY <1>0, <2>2, <2>5 DEF AnsweredByLedger, Recorded
  <2> QED  BY <2>3, <2>4, <2>5
<1>8. ASSUME UNCHANGED <<ingest, ordered>>, Len(readings') = Len(readings)
      PROVE  AnsweredByLedger'
  BY <1>0, <1>8 DEF AnsweredByLedger, Recorded, InFlight
<1>9. CASE RecheckStep
  <2>1. UNCHANGED <<ingest, ordered>>
    BY <1>9 DEF RecheckStep, Fetch, Check, CheckFails, Rewrite, AbandonBatch
  <2>2. CASE Rewrite
    <3>1. Head(batch) \in Snapshot /\ checked \in Verdict /\ TableTypeOK
      BY <2>2, TailOfBatch
      DEF Rewrite, WellFormed, AnswerForHead, TypeOK, RecheckTypeOK, Verdict
    <3>2. Head(batch).rid \in RecordId
      BY <3>1 DEF Snapshot
    <3>3. Len(readings') = Len(readings)
      BY <2>2, <3>1, <3>2, UpdateVerdictRows DEF Rewrite
    <3> QED  BY <1>8, <2>1, <3>3
  <2>3. CASE ~Rewrite
    BY <1>8, <1>9, <2>1, <2>3
    DEF RecheckStep, Fetch, Check, CheckFails, AbandonBatch, tableVars
  <2> QED  BY <2>2, <2>3
<1>10. CASE TimeStep \/ UNCHANGED vars
  BY <1>8, <1>10 DEF TimeStep, Age, vars
<1>11. CASE EditStep
  <2>1. PICK k \in DOMAIN readings, p, q \in Payload :
          EditRow(k, p, Digest(q))
    BY <1>11 DEF EditStep
  <2>2. Digest(q) \in Digests /\ TableTypeOK
    BY DEF Digests, WellFormed, TypeOK
  <2>3. UNCHANGED <<ingest, ordered>> /\ Len(readings') = Len(readings)
    BY <2>1, <2>2, EditRows DEF EditRow
  <2> QED  BY <1>8, <2>3
<1> QED
  BY <1>1, <1>2, <1>3, <1>4, <1>5, <1>6, <1>7, <1>9, <1>10, <1>11
  DEF Next, IngestionStep

\* The head of the batch is a copy of a row whose record is on the ledger.
LEMMA HeadIsRecorded ==
  ASSUME WellFormed, BatchIsRecorded, batch # <<>>
  PROVE  Head(batch).rid \in RecordId /\ Recorded(Head(batch).rid)
<1>1. Head(batch) \in Snapshot /\ Head(batch) = batch[1] /\ 1 \in DOMAIN batch
  BY HeadTailProperties, LenProperties DEF WellFormed, TypeOK, RecheckTypeOK
<1> QED  BY <1>1 DEF BatchIsRecorded, Snapshot

\* A verdict of the ledger is only written, by either process, to a row whose
\* record is on the ledger.
LEMMA SettledStep ==
  ASSUME WellFormed, LedgerHonest, TransactionsHonest, AnsweredByLedger,
         SettledIsRecorded, BatchIsRecorded, [Next]_vars
  PROVE  SettledIsRecorded'
<1>1. \A rid \in RecordId : Recorded(rid) => Recorded(rid)'
  BY LedgerStep DEF Recorded
<1>2. \A i \in DOMAIN readings' : readings'[i].rid \in RecordId
  <2>1. TableTypeOK'
    BY WellFormedStep DEF WellFormed, TypeOK
  <2>2. \A i \in DOMAIN readings' : readings'[i] \in Row
    BY <2>1, LenProperties DEF TableTypeOK
  <2> QED  BY <2>2 DEF Row
<1>3. ASSUME NEW i \in DOMAIN readings',
             readings'[i].verified \in {"intact", "tampered"}
      PROVE  Recorded(readings'[i].rid)
  <2>1. OldRow(i)
    BY <1>3, RowsAfterStep DEF NewRow
  <2>2. CASE SameVerdict(i)
    BY <1>3, <2>1, <2>2 DEF OldRow, SameVerdict, SettledIsRecorded,
                            RowsOfReadings
  <2>3. CASE SettledRow(i)
    BY <1>3, <2>1, <2>3 DEF OldRow, SettledRow, AnsweredByLedger
  <2>4. CASE RecheckedRow(i)
    BY <2>1, <2>4, HeadIsRecorded
    DEF OldRow, RecheckedRow, Rewrite, WellFormed, AnswerForHead
  <2> QED  BY <2>1, <2>2, <2>3, <2>4 DEF OldRow
<1> QED  BY <1>1, <1>2, <1>3 DEF SettledIsRecorded, RowsOfReadings, Recorded

\* How an entry of the batch, after the step, comes about: it was in the batch
\* before, or it is the copy of a settled row.
BatchEntry(j) ==
  \/ \E k \in DOMAIN batch : batch'[j] = batch[k]
  \/ \E i \in DOMAIN readings :
       /\ batch'[j].rid = readings[i].rid
       /\ batch'[j].hash = readings[i].hash
       /\ readings[i].verified \in {"intact", "tampered"}

\* Every copy the re-verifier holds after a step was in the batch before, or
\* was just read from a settled row.
LEMMA BatchAfterStep ==
  ASSUME WellFormed, [Next]_vars
  PROVE  \A j \in DOMAIN batch' : BatchEntry(j)
<1>1. CASE UNCHANGED batch
  BY <1>1 DEF BatchEntry
<1>2. CASE Fetch
  BY <1>2, FetchRows DEF WellFormed, TypeOK, BatchEntry
<1>3. CASE Rewrite
  BY <1>3, TailOfBatch
  DEF Rewrite, WellFormed, AnswerForHead, TypeOK, RecheckTypeOK, BatchEntry
<1>4. CASE AbandonBatch
  BY <1>4 DEF AbandonBatch
<1>5. UNCHANGED batch \/ Fetch \/ Rewrite \/ AbandonBatch
  BY DEF Next, IngestionStep, RecheckStep, Check, CheckFails, BlockStep,
         TimeStep, EditStep, EditRow, recheckVars, vars
<1> QED  BY <1>1, <1>2, <1>3, <1>4, <1>5

\* So the re-verifier goes on holding copies of recorded rows only.
LEMMA BatchStep ==
  ASSUME WellFormed, LedgerHonest, TransactionsHonest, SettledIsRecorded,
         BatchIsRecorded, [Next]_vars
  PROVE  BatchIsRecorded'
<1>1. \A rid \in RecordId : Recorded(rid) => Recorded(rid)'
  BY LedgerStep DEF Recorded
<1>2. \A j \in DOMAIN batch' : batch'[j].rid \in RecordId
  <2>1. batch' \in Seq(Snapshot)
    BY WellFormedStep DEF WellFormed, TypeOK, RecheckTypeOK
  <2>2. \A j \in DOMAIN batch' : batch'[j] \in Snapshot
    BY <2>1, LenProperties
  <2> QED  BY <2>2 DEF Snapshot
<1>3. \A j \in DOMAIN batch' : Recorded(batch'[j].rid)
  <2> TAKE j \in DOMAIN batch'
  <2>1. BatchEntry(j)
    BY BatchAfterStep
  <2> QED  BY <2>1 DEF BatchEntry, BatchIsRecorded, SettledIsRecorded,
                       RowsOfReadings
<1> QED  BY <1>1, <1>2, <1>3 DEF BatchIsRecorded, Recorded

\* The stored hash of an unedited reading stays the published one, in the table
\* and in the copies of it.
LEMMA UneditedStep ==
  ASSUME WellFormed, UneditedIsGenuine, [Next]_vars
  PROVE  UneditedIsGenuine'
<1>1. edited \subseteq edited'
  BY DEF Next, IngestionStep, RecheckStep, BlockStep, TimeStep, EditStep,
         EditRow, vars
<1>2. ASSUME NEW i \in DOMAIN readings', readings'[i].rid \notin edited'
      PROVE  readings'[i].hash = HashOf(readings'[i].rid)
  <2>1. CASE NewRow(i)
    BY <2>1 DEF NewRow
  <2>2. CASE OldRow(i)
    BY <1>1, <1>2, <2>2 DEF OldRow, UneditedIsGenuine, RowsOfReadings
  <2> QED  BY <2>1, <2>2, RowsAfterStep
<1>3. ASSUME NEW j \in DOMAIN batch', batch'[j].rid \notin edited'
      PROVE  batch'[j].hash = HashOf(batch'[j].rid)
  <2>1. BatchEntry(j)
    BY BatchAfterStep
  <2>2. CASE \E k \in DOMAIN batch : batch'[j] = batch[k]
    BY <1>1, <1>3, <2>2 DEF UneditedIsGenuine
  <2>3. CASE \E i \in DOMAIN readings : /\ batch'[j].rid = readings[i].rid
                                        /\ batch'[j].hash = readings[i].hash
    BY <1>1, <1>3, <2>3 DEF UneditedIsGenuine, RowsOfReadings
  <2> QED  BY <2>1, <2>2, <2>3 DEF BatchEntry
<1> QED  BY <1>2, <1>3 DEF UneditedIsGenuine, RowsOfReadings, HashOf, Digest

\* Failures are counted: while there is none, no action of a failure is taken.
LEMMA FaultsGrow ==
  ASSUME WellFormed, [Next]_vars, faults' = 0
  PROVE  faults = 0 /\ ~Fault
<1>1. faults \in Nat
  BY LedgerAssumption DEF WellFormed, TypeOK, LedgerTypeOK
<1>2. ~Fault
  BY <1>1 DEF Fault
<1>3. UNCHANGED faults
  BY <1>2 DEF Next, IngestionStep, Receive, Submit, Anchored, StoreFails, Verify,
              VerifyFails, Settle, AbandonMessage, RecheckStep, Fetch, Check,
              CheckFails, Rewrite, AbandonBatch, BlockStep, Commit, TimeStep,
              EditStep, EditRow, vars
<1> QED  BY <1>2, <1>3

\* Without failures, a verdict is bad only for a reading that was edited: the
\* hash the callback verifies is the published one, and so is the one in the
\* batch unless its row was edited.
LEMMA CausesStep ==
  ASSUME WellFormed, LedgerHonest, AnsweredByLedger, BatchIsRecorded,
         UneditedIsGenuine, BadVerdictsHaveACause, [Next]_vars
  PROVE  BadVerdictsHaveACause'
<1> SUFFICES ASSUME faults' = 0
             PROVE  /\ ingest'.verdict \notin {"tampered", "failed"}
                    /\ checked' = "tampered" => Head(batch').rid \in edited'
  BY DEF BadVerdictsHaveACause
<1>0. ingest \in [step : IngestStep, rid : RecordId \cup {NoReading},
                  verdict : Verdict]
  BY DEF WellFormed, TypeOK, IngestTypeOK
<1>1. faults = 0 /\ ~Fault
  BY FaultsGrow
<1>2. ingest'.verdict \notin {"tampered", "failed"}
  <2>1. ingest.verdict \notin {"tampered", "failed"}
    BY <1>1 DEF BadVerdictsHaveACause
  <2>2. CASE Verify
    <3>1. ingest.rid \in RecordId /\ Recorded(ingest.rid)
      BY <2>2, RowInHand DEF Verify, AnsweredByLedger
    <3>2. VerifyHash(ingest.rid, HashOf(ingest.rid))
      BY <3>1 DEF LedgerHonest, Recorded, VerifyHash
    <3> QED  BY <1>0, <2>2, <3>2 DEF Verify
  <2>3. CASE \E rid \in RecordId : Receive(rid)
    BY <2>3 DEF Receive
  <2>5. CASE Submit \/ Anchored
    BY <1>0, <2>1, <2>5 DEF Submit, Anchored
  <2>6. CASE Settle
    BY <2>6 DEF Settle, Idle
  <2>7. CASE UNCHANGED ingest
    BY <2>1, <2>7
  <2>8. \/ Verify \/ Submit \/ Anchored \/ Settle \/ UNCHANGED ingest
        \/ \E rid \in RecordId : Receive(rid)
    BY <1>1 DEF Next, IngestionStep, StoreFails, VerifyFails, AbandonMessage,
                RecheckStep, BlockStep, TimeStep, EditStep, EditRow, vars
  <2> QED  BY <2>2, <2>3, <2>5, <2>6, <2>7, <2>8
<1>3. checked' = "tampered" => Head(batch').rid \in edited'
  <2>1. CASE Check
    <3>1. Head(batch).rid \in RecordId /\ Recorded(Head(batch).rid)
      BY <2>1, HeadIsRecorded DEF Check
    <3>2. Head(batch) = batch[1] /\ 1 \in DOMAIN batch
      BY <2>1, HeadTailProperties, LenProperties
      DEF Check, WellFormed, TypeOK, RecheckTypeOK
    <3>3. ledger[Head(batch).rid] = HashOf(Head(batch).rid)
      BY <3>1 DEF LedgerHonest, Recorded
    <3>4. Head(batch).rid \notin edited => VerifyHash(Head(batch).rid, Head(batch).hash)
      BY <3>2, <3>3 DEF UneditedIsGenuine, VerifyHash
    <3>5. batch' = batch /\ edited' = edited
      BY <2>1, <1>1, <3>2
      DEF Check, Next, RecheckStep, IngestionStep, BlockStep, TimeStep,
          EditStep, EditRow, vars, recheckVars, WellFormed, TypeOK
    <3> QED  BY <2>1, <3>4, <3>5 DEF Check
  <2>2. CASE UNCHANGED <<batch, checked>>
    <3>1. edited \subseteq edited'
      BY DEF Next, IngestionStep, RecheckStep, BlockStep, TimeStep, EditStep,
             EditRow, vars
    <3> QED  BY <1>1, <2>2, <3>1 DEF BadVerdictsHaveACause
  <2>3. CASE checked' = "none"
    BY <2>3
  <2>4. Check \/ UNCHANGED <<batch, checked>> \/ checked' = "none"
        \/ (Fetch /\ checked' = checked)
    BY <1>1 DEF Next, IngestionStep, RecheckStep, Fetch, CheckFails, Rewrite,
                AbandonBatch, BlockStep, TimeStep, EditStep, EditRow,
                recheckVars, vars
  <2>5. CASE Fetch /\ checked' = checked
    BY <2>5 DEF Fetch, WellFormed, AnswerForHead
  <2> QED  BY <2>1, <2>2, <2>3, <2>4, <2>5
<1> QED  BY <1>2, <1>3

\* Without failures no step writes a bad verdict to an unedited reading.
LEMMA NoFalseAlarmStep ==
  ASSUME WellFormed, BadVerdictsHaveACause, NoFalseAlarm, [Next]_vars
  PROVE  NoFalseAlarm'
<1> SUFFICES ASSUME faults' = 0, NEW i \in DOMAIN readings'
             PROVE  /\ readings'[i].verified # "failed"
                    /\ readings'[i].verified = "tampered"
                         => readings'[i].rid \in edited'
  BY DEF NoFalseAlarm, RowsOfReadings
<1>1. faults = 0
  BY FaultsGrow
<1>2. edited \subseteq edited'
  BY DEF Next, IngestionStep, RecheckStep, BlockStep, TimeStep, EditStep,
         EditRow, vars
<1>3. CASE NewRow(i)
  BY <1>3 DEF NewRow
<1>4. CASE OldRow(i)
  <2>1. CASE SameVerdict(i)
    BY <1>1, <1>2, <1>4, <2>1
    DEF OldRow, SameVerdict, NoFalseAlarm, RowsOfReadings
  <2>2. CASE SettledRow(i)
    BY <1>1, <2>2 DEF SettledRow, BadVerdictsHaveACause
  <2>3. CASE RecheckedRow(i)
    BY <1>1, <1>2, <1>4, <2>3
    DEF OldRow, RecheckedRow, Rewrite, BadVerdictsHaveACause, WellFormed, TypeOK,
        RecheckTypeOK
  <2> QED  BY <1>4, <2>1, <2>2, <2>3 DEF OldRow
<1> QED  BY <1>3, <1>4, RowsAfterStep

\* Whoever comes to settle a row has a verdict for it.
LEMMA VerdictDecidedStep ==
  ASSUME WellFormed, VerdictIsDecided, [Next]_vars
  PROVE  VerdictIsDecided'
<1>1. ingest \in [step : IngestStep, rid : RecordId \cup {NoReading},
                  verdict : Verdict]
  BY DEF WellFormed, TypeOK, IngestTypeOK
<1>2. \/ UNCHANGED ingest
      \/ \E rid \in RecordId : Receive(rid)
      \/ Submit \/ Anchored \/ StoreFails \/ Verify \/ VerifyFails \/ Settle
      \/ AbandonMessage
  BY DEF Next, IngestionStep, RecheckStep, BlockStep, TimeStep, EditStep, EditRow, vars
<1>3. CASE UNCHANGED ingest
  BY <1>3 DEF VerdictIsDecided
<1>4. CASE \/ \E rid \in RecordId : Receive(rid)
           \/ Submit \/ Anchored \/ Settle \/ AbandonMessage
  <2>1. ingest'.step \in {"idle", "anchor", "await", "verify"}
    BY <1>1, <1>4 DEF Receive, Submit, Anchored, Settle, AbandonMessage, Idle
  <2> QED  BY <2>1 DEF VerdictIsDecided
<1>5. CASE StoreFails \/ Verify \/ VerifyFails
  <2>1. ingest'.verdict \in {"intact", "tampered", "failed"}
    BY <1>1, <1>5 DEF StoreFails, Verify, VerifyFails
  <2> QED  BY <2>1 DEF VerdictIsDecided
<1> QED  BY <1>2, <1>3, <1>4, <1>5

\* The readings that are harmed or about to be.
Hurt == Harmed \cup AboutToBeHarmed

\* A row comes to be in a bad state when it is given a bad verdict that one of
\* the processes held, or when its callback is abandoned.
LEMMA HarmedAfterStep ==
  ASSUME WellFormed, VerdictIsDecided, [Next]_vars, NEW rid \in Harmed'
  PROVE  rid \in Hurt \/ (IngestionStep /\ AbandonMessage /\ rid = ingest.rid)
<1>1. PICK i \in DOMAIN readings' :
        /\ readings'[i].rid = rid
        /\ \/ readings'[i].verified = "failed"
           \/ readings'[i].verified = "tampered" /\ rid \notin edited'
           \/ /\ readings'[i].verified = "pending"
              /\ ~(ingest'.step # "idle" /\ ingest'.rid = rid)
  BY DEF Harmed, RowsOf
<1>2. edited \subseteq edited' /\ rid \in RecordId
  BY DEF Harmed, Next, IngestionStep, RecheckStep, BlockStep, TimeStep, EditStep,
         EditRow, vars
<1>3. OldRow(i)
  BY <1>1, RowsAfterStep DEF NewRow
<1>4. i \in RowsOf(rid)
  BY <1>1, <1>3 DEF OldRow, RowsOf
<1>5. CASE SettledRow(i)
  <2>1. ingest.step = "settle" /\ ingest.rid = rid
        /\ readings'[i].verified = ingest.verdict
    BY <1>4, <1>5 DEF SettledRow, Settle, RowsOf
  <2>2. ingest.verdict # "pending"
    BY <2>1 DEF VerdictIsDecided
  <2> QED  BY <1>1, <1>2, <2>1, <2>2 DEF Hurt, AboutToBeHarmed
<1>6. CASE RecheckedRow(i)
  <2>1. checked = readings'[i].verified /\ Head(batch).rid = rid
    BY <1>4, <1>6 DEF RecheckedRow, RowsOf
  <2>2. checked \in {"none", "intact", "tampered"}
    BY DEF WellFormed, TypeOK, RecheckTypeOK
  <2>3. checked # "none"
    BY <1>6 DEF RecheckedRow, Rewrite
  <2>4. checked = "tampered" /\ rid \notin edited
    BY <1>1, <1>2, <2>1, <2>2, <2>3
  <2> QED  BY <1>2, <2>1, <2>4 DEF Hurt, AboutToBeHarmed
<1>7. CASE SameVerdict(i) /\ ~SettledRow(i)
  <2>1. CASE readings'[i].verified # "pending"
    BY <1>1, <1>2, <1>4, <1>7, <2>1 DEF SameVerdict, Hurt, Harmed
  <2>2. CASE ~(ingest.step # "idle" /\ ingest.rid = rid)
    BY <1>1, <1>2, <1>4, <1>7, <2>2 DEF SameVerdict, Hurt, Harmed
  <2>3. CASE /\ readings'[i].verified = "pending"
             /\ ingest.step # "idle" /\ ingest.rid = rid
    <3>1. ingest \in [step : IngestStep, rid : RecordId \cup {NoReading},
                      verdict : Verdict]
      BY DEF WellFormed, TypeOK, IngestTypeOK
    <3>2. \/ UNCHANGED ingest \/ Submit \/ Anchored \/ StoreFails \/ Verify
          \/ VerifyFails \/ Settle \/ (IngestionStep /\ AbandonMessage)
      BY <2>3 DEF Next, IngestionStep, Receive, RecheckStep, BlockStep, TimeStep,
                  EditStep, EditRow, vars
    <3>3. ~(UNCHANGED ingest \/ Submit \/ Anchored \/ StoreFails \/ Verify
            \/ VerifyFails)
      BY <1>1, <2>3, <3>1
      DEF Submit, Anchored, StoreFails, Verify, VerifyFails
    <3>4. ~Settle
      <4> SUFFICES ASSUME Settle
                   PROVE  FALSE
        OBVIOUS
      <4>1. TableTypeOK /\ ingest.rid \in RecordId /\ ingest.verdict \in Verdict
        BY RowInHand DEF Settle, WellFormed, TypeOK, IngestTypeOK
      <4>2. readings'[i].verified = ingest.verdict
        BY <1>4, <2>3, <4>1, UpdateVerdictRows DEF Settle, RowsOf
      <4> QED  BY <2>3, <4>2 DEF Settle, VerdictIsDecided
    <3> QED  BY <2>3, <3>2, <3>3, <3>4
  <2> QED  BY <2>1, <2>2, <2>3
<1> QED  BY <1>3, <1>5, <1>6, <1>7 DEF OldRow

\* A process comes to hold a bad verdict it should not when a call of it fails:
\* what it compares by itself is the published hash with the record of it.
LEMMA AboutToBeHarmedAfterStep ==
  ASSUME WellFormed, LedgerHonest, AnsweredByLedger, BatchIsRecorded,
         UneditedIsGenuine, [Next]_vars, NEW rid \in AboutToBeHarmed'
  PROVE  \/ rid \in Hurt
         \/ IngestionStep /\ (StoreFails \/ VerifyFails) /\ rid = ingest.rid
         \/ RecheckStep /\ CheckFails /\ rid = Head(batch).rid
<1>1. ingest \in [step : IngestStep, rid : RecordId \cup {NoReading},
                  verdict : Verdict]
  BY DEF WellFormed, TypeOK, IngestTypeOK
<1>2. edited \subseteq edited' /\ rid \in RecordId
  BY DEF AboutToBeHarmed, Next, IngestionStep, RecheckStep, BlockStep, TimeStep,
         EditStep, EditRow, vars
<1>3. CASE /\ ingest'.step = "settle" /\ ingest'.rid = rid
           /\ ingest'.verdict \in {"tampered", "failed"}
  <2>1. CASE UNCHANGED ingest
    BY <1>2, <1>3, <2>1 DEF Hurt, AboutToBeHarmed
  <2>2. CASE IngestionStep /\ (StoreFails \/ VerifyFails)
    BY <1>1, <1>3, <2>2 DEF StoreFails, VerifyFails
  <2>3. ~Verify
    <3> SUFFICES ASSUME Verify
                 PROVE  FALSE
      OBVIOUS
    <3>1. ingest.rid \in RecordId /\ Recorded(ingest.rid)
      BY RowInHand DEF Verify, AnsweredByLedger
    <3>2. VerifyHash(ingest.rid, HashOf(ingest.rid))
      BY <3>1 DEF LedgerHonest, Recorded, VerifyHash
    <3> QED  BY <1>1, <1>3, <3>2 DEF Verify
  <2>4. ~(Submit \/ Anchored \/ Settle \/ AbandonMessage)
        /\ \A r \in RecordId : ~Receive(r)
    BY <1>1, <1>3 DEF Submit, Anchored, Settle, AbandonMessage, Idle, Receive
  <2>5. UNCHANGED ingest \/ (IngestionStep /\ (StoreFails \/ VerifyFails))
    BY <2>3, <2>4 DEF Next, IngestionStep, RecheckStep, BlockStep, TimeStep,
                      EditStep, EditRow, vars
  <2> QED  BY <2>1, <2>2, <2>5
<1>4. CASE /\ checked' = "tampered" /\ Head(batch').rid = rid
           /\ rid \notin edited'
  <2>1. CASE UNCHANGED <<batch, checked>>
    BY <1>2, <1>4, <2>1 DEF Hurt, AboutToBeHarmed
  <2>2. CASE RecheckStep /\ CheckFails
    BY <1>4, <2>2 DEF CheckFails
  <2>3. ~(RecheckStep /\ Check)
    <3> SUFFICES ASSUME RecheckStep, Check
                 PROVE  FALSE
      OBVIOUS
    <3>1. Head(batch).rid \in RecordId /\ Recorded(Head(batch).rid)
      BY HeadIsRecorded DEF Check
    <3>2. Head(batch) = batch[1] /\ 1 \in DOMAIN batch
      BY HeadTailProperties, LenProperties
      DEF Check, WellFormed, TypeOK, RecheckTypeOK
    <3>3. ledger[Head(batch).rid] = HashOf(Head(batch).rid)
      BY <3>1 DEF LedgerHonest, Recorded
    <3>4. batch' = batch /\ edited' = edited
      BY DEF Check, RecheckStep
    <3>5. Head(batch).hash = HashOf(Head(batch).rid)
      BY <1>4, <3>2, <3>4 DEF UneditedIsGenuine
    <3> QED  BY <1>4, <3>3, <3>5 DEF Check, VerifyHash
  <2>4. ~(Fetch \/ Rewrite \/ AbandonBatch)
    BY <1>4 DEF Fetch, Rewrite, AbandonBatch, WellFormed, AnswerForHead
  <2>5. UNCHANGED <<batch, checked>> \/ (RecheckStep /\ CheckFails)
    BY <2>3, <2>4 DEF Next, IngestionStep, RecheckStep, BlockStep, TimeStep,
                      EditStep, EditRow, recheckVars, vars
  <2> QED  BY <2>1, <2>2, <2>5
<1> QED  BY <1>3, <1>4 DEF AboutToBeHarmed

\* So a step without a failure hurts nobody, and one with a failure no more than
\* the reading in hand.
LEMMA HarmStep ==
  ASSUME WellFormed, LedgerHonest, AnsweredByLedger, BatchIsRecorded,
         UneditedIsGenuine, VerdictIsDecided, HarmIsCounted, [Next]_vars
  PROVE  HarmIsCounted'
<1>1. faults \in Nat /\ faults' \in Nat /\ (faults' = faults \/ Fault)
  <2>1. faults' = faults \/ Fault
    BY DEF Next, IngestionStep, Receive, Submit, Anchored, StoreFails, Verify,
           VerifyFails, Settle, AbandonMessage, RecheckStep, Fetch, Check,
           CheckFails, Rewrite, AbandonBatch, BlockStep, Commit, TimeStep,
           EditStep, EditRow, vars
  <2> QED  BY <2>1, LedgerAssumption DEF WellFormed, TypeOK, LedgerTypeOK, Fault
<1>2. IsFiniteSet(Hurt) /\ Cardinality(Hurt) \in Nat /\ Cardinality(Hurt) <= faults
  BY FS_CardinalityType DEF HarmIsCounted, Hurt
<1>3. PICK c : \A rid \in Hurt' : rid \in Hurt \/ (Fault /\ rid = c)
  <2>1. ASSUME NEW rid \in Hurt'
        PROVE  \/ rid \in Hurt
               \/ /\ IngestionStep /\ rid = ingest.rid
                  /\ AbandonMessage \/ StoreFails \/ VerifyFails
               \/ RecheckStep /\ CheckFails /\ rid = Head(batch).rid
    BY HarmedAfterStep, AboutToBeHarmedAfterStep DEF Hurt
  <2>2. IngestionStep /\ (AbandonMessage \/ StoreFails \/ VerifyFails)
          => ingest' # ingest /\ Fault
    <3>1. ingest \in [step : IngestStep, rid : RecordId \cup {NoReading},
                      verdict : Verdict]
      BY DEF WellFormed, TypeOK, IngestTypeOK
    <3>2. AbandonMessage => ingest'.step # ingest.step /\ Fault
      BY DEF AbandonMessage, Idle
    <3>3. StoreFails \/ VerifyFails => ingest'.step # ingest.step /\ Fault
      BY <3>1 DEF StoreFails, VerifyFails
    <3> QED  BY <3>2, <3>3
  <2>3. RecheckStep /\ CheckFails => ingest' = ingest /\ Fault
    BY DEF RecheckStep, CheckFails
  <2> DEFINE c == IF ingest' = ingest THEN Head(batch).rid ELSE ingest.rid
  <2>4. \A rid \in Hurt' : rid \in Hurt \/ (Fault /\ rid = c)
    BY <2>1, <2>2, <2>3
  <2> QED  BY <2>4
<1>4. CASE ~Fault
  <2>1. Hurt' \subseteq Hurt
    BY <1>3, <1>4
  <2>2. IsFiniteSet(Hurt') /\ Cardinality(Hurt') <= Cardinality(Hurt)
    BY <1>2, <2>1, FS_Subset
  <2>3. Cardinality(Hurt') \in Nat
    BY <2>2, FS_CardinalityType
  <2> QED  BY <1>1, <1>2, <1>4, <2>2, <2>3 DEF HarmIsCounted, Hurt
<1>5. CASE Fault
  <2>1. Hurt' \subseteq Hurt \cup {c}
    BY <1>3
  <2>2. /\ IsFiniteSet(Hurt \cup {c})
        /\ Cardinality(Hurt \cup {c}) \in {Cardinality(Hurt), Cardinality(Hurt) + 1}
    BY <1>2, FS_AddElement
  <2>3. IsFiniteSet(Hurt') /\ Cardinality(Hurt') <= Cardinality(Hurt \cup {c})
    BY <2>1, <2>2, FS_Subset
  <2>4. Cardinality(Hurt') \in Nat
    BY <2>3, FS_CardinalityType
  <2>5. faults' = faults + 1
    BY <1>5 DEF Fault
  <2> QED  BY <1>1, <1>2, <2>2, <2>3, <2>4, <2>5 DEF HarmIsCounted, Hurt
<1> QED  BY <1>4, <1>5

----------------------------------------------------------------------------
(****************************************************************************)
(* The theorems                                                             *)
(****************************************************************************)

\* The inductive invariant holds initially.
LEMMA InductiveInit == Init => IInv
<1> SUFFICES ASSUME Init
             PROVE  IInv
  OBVIOUS
<1>1. WellFormed
  BY TypeInit
<1>2. readings = <<>> /\ batch = <<>> /\ ordered = {} /\ checked = "none"
      /\ ingest.step = "idle" /\ ingest.verdict = "pending"
      /\ \A rid \in RecordId : ledger[rid] = NoRecord
  BY DEF Init, LedgerInit, TableInit, RecheckInit, Idle
<1>3. RowsOfReadings = {}
  BY <1>2 DEF RowsOfReadings
<1>4. HarmIsCounted
  <2>1. Harmed \cup AboutToBeHarmed = {}
    BY <1>2 DEF Harmed, AboutToBeHarmed, RowsOf
  <2>2. faults = 0
    BY DEF Init, LedgerInit
  <2> QED  BY <2>1, <2>2, FS_EmptySet DEF HarmIsCounted
<1> QED
  BY <1>1, <1>2, <1>3, <1>4
  DEF IInv, LedgerHonest, TransactionsHonest, AnsweredByLedger,
      SettledIsRecorded, BatchIsRecorded, UneditedIsGenuine,
      BadVerdictsHaveACause, NoFalseAlarm, VerdictIsDecided

\* Every step of the pipeline preserves the inductive invariant.
LEMMA InductiveStep == IInv /\ [Next]_vars => IInv'
BY WellFormedStep, LedgerStep, TransactionsStep, AnsweredStep, SettledStep,
   BatchStep, UneditedStep, CausesStep, NoFalseAlarmStep,
   VerdictDecidedStep, HarmStep DEF IInv

\* What the two processes know about the ledger, at each of their steps, holds
\* in every reachable state.
THEOREM Inductive == Spec => []IInv
BY InductiveInit, InductiveStep, PTL DEF Spec

\* The ledger only ever holds the published hash of a reading, however often
\* the reading is anchored and whatever is edited in the database meanwhile.
THEOREM LedgerIsHonest == Spec => []LedgerHonest
<1>1. IInv => LedgerHonest
  BY DEF IInv
<1> QED  BY <1>1, Inductive, PTL

\* A verdict 'intact' in the table is backed by a record on the ledger, equal
\* to the stored hash for every reading that nobody edited.
THEOREM IntactIsBacked == Spec => []IntactIsAnchored
<1>1. IInv => IntactIsAnchored
  <2> SUFFICES ASSUME IInv, NEW i \in DOMAIN readings,
                      readings[i].verified = "intact"
               PROVE  /\ ledger[readings[i].rid] # NoRecord
                      /\ readings[i].rid \notin edited =>
                           readings[i].hash = ledger[readings[i].rid]
    BY DEF IntactIsAnchored, RowsOfReadings
  <2>1. Recorded(readings[i].rid)
    BY DEF IInv, SettledIsRecorded, RowsOfReadings
  <2>2. readings[i].rid \in RecordId
    <3>1. readings[i] \in Row
      BY LenProperties DEF IInv, WellFormed, TypeOK, TableTypeOK
    <3> QED  BY <3>1 DEF Row
  <2>3. ledger[readings[i].rid] = HashOf(readings[i].rid)
    BY <2>1, <2>2 DEF IInv, LedgerHonest, Recorded
  <2>4. readings[i].rid \notin edited => readings[i].hash = HashOf(readings[i].rid)
    BY DEF IInv, UneditedIsGenuine, RowsOfReadings
  <2> QED  BY <2>1, <2>3, <2>4 DEF Recorded
<1> QED  BY <1>1, Inductive, PTL

\* Without failures no unedited reading is ever called 'tampered', and none is
\* called 'failed'.
THEOREM NoAlarmWithoutCause == Spec => []NoFalseAlarm
<1>1. IInv => NoFalseAlarm
  BY DEF IInv
<1> QED  BY <1>1, Inductive, PTL

\* However many rows, readings and failures there are, and however the processes
\* interleave, a failure costs the verdict of one reading at most.
THEOREM EachFailureHarmsOne == Spec => []EachFailureHarmsOneReading
<1>1. IInv => EachFailureHarmsOneReading
  <2> SUFFICES ASSUME IInv
               PROVE  Cardinality(Harmed) <= faults
    BY DEF EachFailureHarmsOneReading
  <2>1. IsFiniteSet(Hurt) /\ Cardinality(Hurt) <= faults
    BY DEF IInv, HarmIsCounted, Hurt
  <2>2. IsFiniteSet(Harmed) /\ Cardinality(Harmed) <= Cardinality(Hurt)
    <3>1. Harmed \subseteq Hurt
      BY DEF Hurt
    <3> QED  BY <2>1, <3>1, FS_Subset
  <2>3. Cardinality(Harmed) \in Nat /\ Cardinality(Hurt) \in Nat
    BY <2>1, <2>2, FS_CardinalityType
  <2>4. faults \in Nat
    BY LedgerAssumption DEF IInv, WellFormed, TypeOK, LedgerTypeOK
  <2> QED  BY <2>1, <2>2, <2>3, <2>4
<1> QED  BY <1>1, Inductive, PTL

\* A record, once on the ledger, never changes.
THEOREM LedgerIsImmutable == Spec => LedgerImmutable
<1>1. IInv /\ [Next]_vars =>
        [\A rid \in RecordId :
           ledger[rid] # NoRecord => ledger'[rid] = ledger[rid]]_vars
  BY LedgerStep DEF IInv, Recorded
<1> QED  BY <1>1, Inductive, PTL DEF Spec, LedgerImmutable

----------------------------------------------------------------------------
(****************************************************************************)
(* The pipeline implements WitnessedReadings                                *)
(****************************************************************************)
Witnessed == {rid \in RecordId : ledger[rid] # NoRecord}
Served == {row.rid : row \in {r \in RowsOfReadings : r.verified = "intact"}}

\* Strict mode serves a reading when one of its rows is intact.
LEMMA ServedRows ==
  \A rid : rid \in Served <=>
             \E i \in DOMAIN readings : readings[i].rid = rid
                                        /\ readings[i].verified = "intact"
BY DEF Served, RowsOfReadings

\* A verdict moves one reading in or out of what is served.
LEMMA ServedAfterUpdate ==
  ASSUME TableTypeOK, NEW rid \in RecordId, NEW verdict \in Verdict,
         UpdateVerdict(rid, verdict)
  PROVE  IF verdict = "intact" THEN Served' \in {Served, Served \cup {rid}}
                               ELSE Served' = Served \ {rid}
<1>1. \A r : r \in Served' <=>
               \E i \in DOMAIN readings' : readings'[i].rid = r
                                           /\ readings'[i].verified = "intact"
  BY DEF Served, RowsOfReadings
<1>2. \A r : r # rid => (r \in Served' <=> r \in Served)
  BY <1>1, ServedRows, UpdateVerdictRows
<1>3. CASE verdict = "intact"
  <2>1. rid \in Served => rid \in Served'
    BY <1>1, <1>3, ServedRows, UpdateVerdictRows
  <2>2. Served' = Served \/ Served' = Served \cup {rid}
    BY <1>2, <2>1
  <2> QED  BY <1>3, <2>2
<1>4. CASE verdict # "intact"
  <2>1. rid \notin Served'
    BY <1>1, <1>4, UpdateVerdictRows
  <2>2. Served' = Served \ {rid}
    BY <1>2, <2>1
  <2> QED  BY <1>4, <2>2
<1> QED  BY <1>3, <1>4

\* A verdict of the ledger, given to a reading that is recorded there, serves
\* or withdraws that reading.
LEMMA UpdateImplements ==
  ASSUME TableTypeOK, NEW rid \in RecordId, NEW verdict \in Verdict,
         UpdateVerdict(rid, verdict), verdict = "intact" => Recorded(rid),
         UNCHANGED ledger
  PROVE  /\ Witnessed' = Witnessed
         /\ \/ Served' = Served
            \/ rid \in Witnessed /\ Served' = Served \cup {rid}
            \/ Served' = Served \ {rid}
<1>1. Witnessed' = Witnessed
  BY DEF Witnessed
<1>2. CASE verdict = "intact"
  BY <1>1, <1>2, ServedAfterUpdate DEF Witnessed, Recorded
<1>3. CASE verdict # "intact"
  BY <1>1, <1>3, ServedAfterUpdate
<1> QED  BY <1>2, <1>3

\* Every step of the pipeline witnesses, serves or withdraws one reading, or
\* changes none of this.
LEMMA StepImplements ==
  ASSUME IInv, [Next]_vars
  PROVE  [Abstract!Next]_<<Witnessed, Served>>
<1> DEFINE Goal == \/ \E r \in RecordId :
                        \/ /\ r \notin Witnessed
                           /\ Witnessed' = Witnessed \cup {r}
                           /\ Served' = Served
                        \/ /\ r \in Witnessed
                           /\ Served' = Served \cup {r}
                           /\ Witnessed' = Witnessed
                        \/ /\ Served' = Served \ {r}
                           /\ Witnessed' = Witnessed
                   \/ Witnessed' = Witnessed /\ Served' = Served
<1> SUFFICES Goal
  BY DEF Abstract!Next, Abstract!Witness, Abstract!Serve, Abstract!Withdraw,
         Witnessed, Served
<1>0. WellFormed /\ TableTypeOK
  BY DEF IInv, WellFormed, TypeOK
<1>1. CASE BlockStep
  <2>1. PICK tx \in ordered : Commit(tx)
    BY <1>1 DEF BlockStep
  <2>2. tx.rid \in RecordId /\ tx.hash = HashOf(tx.rid)
    BY DEF IInv, WellFormed, TypeOK, LedgerTypeOK, Transaction,
           TransactionsHonest
  <2>3. \A rid \in RecordId :
          ledger'[rid] = IF rid = tx.rid THEN HashOf(rid) ELSE ledger[rid]
    BY <2>1, <2>2 DEF Commit, IInv, WellFormed, TypeOK, LedgerTypeOK
  <2>4. Witnessed' = Witnessed \cup {tx.rid}
    BY <2>2, <2>3, HashOfType DEF Witnessed
  <2>5. Served' = Served
    BY <1>1 DEF BlockStep, tableVars, Served, RowsOfReadings
  <2>6. CASE tx.rid \in Witnessed
    BY <2>4, <2>5, <2>6
  <2>7. CASE tx.rid \notin Witnessed
    BY <2>2, <2>4, <2>5, <2>7
  <2> QED  BY <2>6, <2>7
<1>2. CASE Settle
  <2>1. ingest.rid \in RecordId /\ ingest.verdict \in Verdict
    BY <1>0, <1>2, RowInHand DEF Settle, WellFormed, TypeOK, IngestTypeOK
  <2>2. ingest.verdict = "intact" => Recorded(ingest.rid)
    BY DEF IInv, AnsweredByLedger
  <2>3. UpdateVerdict(ingest.rid, ingest.verdict) /\ UNCHANGED ledger
    BY <1>2 DEF Settle
  <2> QED  BY <1>0, <2>1, <2>2, <2>3, UpdateImplements
<1>3. CASE Rewrite
  <2>1. batch # <<>> /\ checked \in Verdict
    BY <1>0, <1>3
    DEF Rewrite, WellFormed, AnswerForHead, TypeOK, RecheckTypeOK, Verdict
  <2>2. Head(batch).rid \in RecordId /\ Recorded(Head(batch).rid)
    BY <2>1, HeadIsRecorded DEF IInv
  <2>3. UpdateVerdict(Head(batch).rid, checked) /\ UNCHANGED ledger
    BY <1>3 DEF Rewrite
  <2> QED  BY <1>0, <2>1, <2>2, <2>3, UpdateImplements
<1>4. CASE ~BlockStep /\ ~Settle /\ ~Rewrite
  <2>1. UNCHANGED ledger
    BY <1>4 DEF Next, IngestionStep, Receive, Submit, Anchored, StoreFails,
                Verify, VerifyFails, AbandonMessage, RecheckStep, Fetch, Check,
                CheckFails, AbandonBatch, TimeStep, EditStep, EditRow, vars
  <2>2. \A r : r \in Served' <=>
                 \E i \in DOMAIN readings' : readings'[i].rid = r
                                          /\ readings'[i].verified = "intact"
    BY DEF Served, RowsOfReadings
  <2>3. /\ \A i \in DOMAIN readings' : NewRow(i) \/ OldRow(i)
        /\ DOMAIN readings \subseteq DOMAIN readings'
    BY <1>0, RowsAfterStep
  <2>4. Served' = Served
    <3>1. \A i \in DOMAIN readings' :
            \/ readings'[i].verified = "pending" /\ i \notin DOMAIN readings
            \/ /\ i \in DOMAIN readings
               /\ readings'[i].rid = readings[i].rid
               /\ readings'[i].verified = readings[i].verified
      BY <1>4, <2>3
      DEF NewRow, OldRow, SameVerdict, SettledRow, RecheckedRow
    <3>2. \A r : r \in Served' => r \in Served
      BY <2>2, <3>1, ServedRows
    <3>3. \A r : r \in Served => r \in Served'
      BY <2>2, <2>3, <3>1, ServedRows
    <3> QED  BY <3>2, <3>3
  <2> QED  BY <2>1, <2>4 DEF Witnessed
<1> QED  BY <1>1, <1>2, <1>3, <1>4

\* What strict mode serves has been witnessed by the ledger, for good: the two
\* processes over table and ledger implement the abstract promise.
THEOREM PipelineImplements == Spec => ImplementsWitnessedReadings
<1>1. Init => Abstract!Init
  <2> SUFFICES ASSUME Init
               PROVE  Abstract!Init
    OBVIOUS
  <2>1. Witnessed = {} /\ RowsOfReadings = {}
    BY DEF Init, LedgerInit, TableInit, Witnessed, RowsOfReadings
  <2> QED  BY <2>1 DEF Abstract!Init, Witnessed
<1>2. IInv /\ [Next]_vars => [Abstract!Next]_<<Witnessed, Served>>
  BY StepImplements
<1> QED
  BY <1>1, <1>2, Inductive, PTL
  DEF Spec, ImplementsWitnessedReadings, Abstract!Spec, Witnessed, Served
=============================================================================
