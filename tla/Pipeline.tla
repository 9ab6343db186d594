------------------------------ MODULE Pipeline ------------------------------
(****************************************************************************)
(* The integrity pipeline: the ingestion service and the re-verifier run as *)
(* two processes over one SQLite table and one ledger, while anyone with    *)
(* access to the database file may rewrite what a row holds -- the event    *)
(* the re-verifier exists for (Reverifier.py, lines 5-9).                   *)
(****************************************************************************)
EXTENDS Ingestion, Reverifier

CONSTANT MaxEdits   \* bound: how many readings are edited in the database

ASSUME EditAssumption == MaxEdits \in Nat

VARIABLE edited     \* history: the readings of which a row has been edited

vars == <<ledger, ordered, faults, readings, cutoff, ingest, batch, checked,
          edited>>

TypeOK ==
  /\ LedgerTypeOK
  /\ TableTypeOK
  /\ IngestTypeOK
  /\ RecheckTypeOK
  /\ edited \in SUBSET RecordId

Init ==
  /\ LedgerInit
  /\ TableInit
  /\ ingest = Idle
  /\ RecheckInit
  /\ edited = {}

----------------------------------------------------------------------------

IngestionStep ==
  /\ \/ \E rid \in RecordId : Receive(rid)
     \/ Submit
     \/ Anchored
     \/ StoreFails
     \/ Verify
     \/ VerifyFails
     \/ Settle
     \/ AbandonMessage
  /\ UNCHANGED <<recheckVars, edited>>

RecheckStep ==
  /\ \/ Fetch
     \/ Check
     \/ CheckFails
     \/ Rewrite
     \/ AbandonBatch
  /\ UNCHANGED <<ingest, edited>>

\* A block is written.
BlockStep ==
  /\ \E tx \in ordered : Commit(tx)
  /\ UNCHANGED <<tableVars, ingest, recheckVars, edited>>

\* The minute after which a verdict is due for its re-check goes by.
TimeStep ==
  /\ Age
  /\ UNCHANGED <<ledger, ordered, faults, ingest, recheckVars, edited>>

\* An UPDATE on the database file changes the content, the stored hash, or
\* both, of one row; the verdict and its stamp are left alone.
EditRow(i, payload, hash) ==
  /\ readings[i].rid \notin edited
  /\ Cardinality(edited) < MaxEdits
  /\ readings[i].payload # payload \/ readings[i].hash # hash
  /\ readings' = [readings EXCEPT ![i].payload = payload, ![i].hash = hash]
  /\ edited' = edited \cup {readings[i].rid}
  /\ UNCHANGED <<ledger, ordered, faults, cutoff, ingest, recheckVars>>

EditStep ==
  \E i \in DOMAIN readings, p, q \in Payload : EditRow(i, p, Digest(q))

Next == IngestionStep \/ RecheckStep \/ BlockStep \/ TimeStep \/ EditStep

Spec == Init /\ [][Next]_vars

----------------------------------------------------------------------------
(****************************************************************************)
(* Fairness.  Neither process ever waits for anything but a call with a     *)
(* timeout (30 s and 15 s) or a sleep (30 s), so each goes on as long as it *)
(* can; what the orderer accepted is written to a block, and time passes.   *)
(* Messages, failures and edits need not happen.                            *)
(****************************************************************************)
IngestionProceeds ==
  (Submit \/ Anchored \/ Verify \/ Settle) /\ UNCHANGED <<recheckVars, edited>>

RecheckProceeds ==
  (Fetch \/ Check \/ Rewrite) /\ UNCHANGED <<ingest, edited>>

Fairness ==
  /\ WF_vars(IngestionProceeds)
  /\ WF_vars(RecheckProceeds)
  /\ WF_vars(BlockStep)
  /\ WF_vars(TimeStep)

FairSpec == Spec /\ Fairness

----------------------------------------------------------------------------
(****************************************************************************)
(* Safety                                                                   *)
(****************************************************************************)

RowsOfReadings == {readings[i] : i \in DOMAIN readings}

\* The ledger only ever holds the hash of the message as it was published:
\* the ingestion anchors the hash it computed itself, never the one the table
\* holds, so no edit of the database reaches the ledger, whenever it happens.
LedgerHonest ==
  \A rid \in RecordId : ledger[rid] \in {NoRecord, HashOf(rid)}

\* Strict mode may rely on the verdict: a row marked 'intact' by either
\* process has its record on the ledger, and stores the very hash recorded
\* there unless the database was edited.
IntactIsAnchored ==
  \A row \in RowsOfReadings :
    row.verified = "intact" =>
      /\ ledger[row.rid] # NoRecord
      /\ row.rid \notin edited => row.hash = ledger[row.rid]

\* As long as nothing fails, a reading is called 'tampered' only if one of
\* its rows was edited, and none is called 'failed': the round trip never
\* overtakes the commit it checks, and the re-check never meets a row that is
\* not anchored.
NoFalseAlarm ==
  faults = 0 =>
    \A row \in RowsOfReadings :
      /\ row.verified # "failed"
      /\ row.verified = "tampered" => row.rid \in edited

\* The readings that are worse off than they deserve: one of their rows is
\* 'failed', 'tampered' although nobody edited it, or 'pending' although nobody
\* is at work on the reading any more.
Harmed ==
  {rid \in RecordId : \E i \in RowsOf(rid) :
     \/ readings[i].verified = "failed"
     \/ readings[i].verified = "tampered" /\ rid \notin edited
     \/ readings[i].verified = "pending" /\ ~(ingest.step # "idle" /\ ingest.rid = rid)}

\* A failure -- a call that times out, a crash of either process in the midst of
\* its work -- costs the verdict of one reading, the one that was in hand, and of
\* no other: not of those in the same batch, nor of those that share its table,
\* ledger or second.
EachFailureHarmsOneReading == Cardinality(Harmed) <= faults

\* Once recorded, a hash stays on the ledger as it is, although StoreHash
\* overwrites blindly and a reading may be anchored several times: each
\* transaction for a reading carries the same hash.
LedgerImmutable ==
  [][\A rid \in RecordId :
       ledger[rid] # NoRecord => ledger'[rid] = ledger[rid]]_vars

\* Row i is the only one of its reading.
Alone(i) == RowsOf(readings[i].rid) = {i}

\* A row that has no verdict yet, or that failed, is left to the callback that
\* inserted it: the re-verifier, whose batch may have been read long before,
\* never touches it.  Only a second row of the same reading, which the UPDATE
\* cannot tell from the first, lets another's verdict in.
UnsettledRowsAreLeftAlone ==
  [][\A i \in DOMAIN readings :
       /\ Alone(i)
       /\ readings[i].verified \in {"pending", "failed"}
       /\ readings'[i].verified # readings[i].verified
       => i = Len(readings) /\ ingest.step = "settle"]_vars

\* The pipeline implements the abstract promise: what strict mode serves has
\* been witnessed by the ledger, for good.
Abstract == INSTANCE WitnessedReadings WITH
  Reading   <- RecordId,
  witnessed <- {rid \in RecordId : ledger[rid] # NoRecord},
  served    <- {row.rid : row \in {r \in RowsOfReadings : r.verified = "intact"}}

ImplementsWitnessedReadings == Abstract!Spec

\* The pipeline is the writer that the integrity API and its page are modelled
\* with (IntegrityAPI): a statement writes the rows of one reading and no other,
\* gives them one verdict, and never gives 'pending' back.  The only row of a
\* reading goes back and forth between 'intact' and 'tampered', and 'failed' is
\* final for it.
Seen == INSTANCE VerdictTable WITH
  Row       <- RecordId \X (1..MaxRows),
  ReadingOf <- [x \in RecordId \X (1..MaxRows) |-> x[1]],
  table     <- [x \in RecordId \X (1..MaxRows) |->
                  IF x[2] \in DOMAIN readings /\ readings[x[2]].rid = x[1]
                    THEN readings[x[2]].verified ELSE "absent"]

ImplementsVerdictTable == Seen!VerdictSpec

----------------------------------------------------------------------------
(****************************************************************************)
(* The inductive invariant behind the safety properties: what each process  *)
(* knows about the ledger at each of its steps.                             *)
(****************************************************************************)
Recorded(rid) == ledger[rid] # NoRecord

\* Every transaction carries the genuine hash of the row it was made for.
TransactionsHonest ==
  \A tx \in ordered :
    /\ tx.hash = HashOf(tx.rid)
    /\ tx.id \in DOMAIN readings
    /\ readings[tx.id].rid = tx.rid

\* The message in hand is the last row, which stays its row until the callback
\* returns.
MessageInHand ==
  ingest.step # "idle" =>
    /\ Len(readings) > 0
    /\ ingest.rid = readings[Len(readings)].rid

\* The re-verifier holds an answer only for the head of its batch.
AnswerForHead == checked # "none" => batch # <<>>

WellFormed == TypeOK /\ MessageInHand /\ AnswerForHead

\* The callback leaves store_hash with True, and holds a verdict of the
\* ledger, only when the record is there.
AnsweredByLedger ==
  /\ ingest.step = "await" => InFlight(Len(readings)) # {} \/ Recorded(ingest.rid)
  /\ ingest.step = "verify" => Recorded(ingest.rid)
  /\ ingest.verdict \in {"intact", "tampered"} =>
       ingest.step = "settle" /\ Recorded(ingest.rid)

\* A row that was given a verdict by the ledger has its record there.
SettledIsRecorded ==
  \A row \in RowsOfReadings :
    row.verified \in {"intact", "tampered"} => Recorded(row.rid)

\* The re-verifier only holds copies of such rows.
BatchIsRecorded == \A j \in DOMAIN batch : Recorded(batch[j].rid)

\* The stored hash is the published one as long as nobody edits the reading,
\* in the table and in the copies the re-verifier made of it.
UneditedIsGenuine ==
  /\ \A row \in RowsOfReadings :
       row.rid \notin edited => row.hash = HashOf(row.rid)
  /\ \A j \in DOMAIN batch :
       batch[j].rid \notin edited => batch[j].hash = HashOf(batch[j].rid)

\* Without a failure no process holds a bad verdict of an unedited reading.
BadVerdictsHaveACause ==
  faults = 0 =>
    /\ ingest.verdict \notin {"tampered", "failed"}
    /\ checked = "tampered" => Head(batch).rid \in edited

\* A callback that is about to settle its row has a verdict for it.
VerdictIsDecided == ingest.step = "settle" => ingest.verdict # "pending"

\* The readings about to be given a bad verdict they do not deserve.
AboutToBeHarmed ==
  {rid \in RecordId :
     \/ /\ ingest.step = "settle" /\ ingest.rid = rid
        /\ ingest.verdict \in {"tampered", "failed"}
     \/ checked = "tampered" /\ Head(batch).rid = rid /\ rid \notin edited}

\* There have been as many failures as there are such readings.
HarmIsCounted ==
  /\ IsFiniteSet(Harmed \cup AboutToBeHarmed)
  /\ Cardinality(Harmed \cup AboutToBeHarmed) <= faults

IInv ==
  /\ WellFormed
  /\ LedgerHonest
  /\ TransactionsHonest
  /\ AnsweredByLedger
  /\ SettledIsRecorded
  /\ BatchIsRecorded
  /\ UneditedIsGenuine
  /\ BadVerdictsHaveACause
  /\ NoFalseAlarm
  /\ VerdictIsDecided
  /\ HarmIsCounted

----------------------------------------------------------------------------
(****************************************************************************)
(* Liveness                                                                 *)
(****************************************************************************)

\* The rows of a reading hold one hash: they were edited alike or not at all.
Agree(rid) == \A i, j \in RowsOf(rid) : readings[i].hash = readings[j].hash

\* The verdicts of the settled rows end up right and stay right, whatever
\* failed and whatever was edited on the way: 'tampered' when the stored hash
\* differs from the ledger's, 'intact' when it does not.  Two rows of a reading
\* of which one was edited share the verdict of one of them, and are left out.
VerdictsConverge ==
  <>[](\A row \in RowsOfReadings :
         row.verified \in {"intact", "tampered"} /\ Agree(row.rid) =>
           (row.verified = "intact" <=> row.hash = ledger[row.rid]))

\* When nothing fails and nothing is edited, every reading that arrives ends
\* up intact, and stays so.
EveryReadingAccepted ==
  [](faults = 0 /\ edited = {}) =>
    <>[](\A row \in RowsOfReadings : row.verified = "intact")

----------------------------------------------------------------------------
(****************************************************************************)
(* What the documentation says and the code does not do                     *)
(****************************************************************************)

\* init_db.py, lines 12-13: 'tampered' is Fabric's own answer, an unreachable
\* Fabric gives 'failed'.  An unedited row whose hash is the one on the ledger
\* would then never be called 'tampered'.
TamperedMeansMismatch ==
  \A row \in RowsOfReadings :
    row.verified = "tampered" =>
      row.rid \in edited \/ row.hash # ledger[row.rid]

\* fabric_client.py, line 251: the hash that is verified is recomputed from
\* the current contents of the row.  In the end, then, no row whose content is
\* not the one anchored would still count as intact.
ContentEditsAreFound ==
  <>[](\A row \in RowsOfReadings :
         row.verified = "intact" => Digest(row.payload) = ledger[row.rid])

\* ingest_mqtt_sqlite.py, line 21: _set_verdict updates the exact row just
\* processed.  A verdict that another row already has would then stay as it is.
VerdictOfExactRow ==
  [][Settle => \A i \in DOMAIN readings :
       i # Len(readings) /\ readings[i].verified # "pending" =>
         readings'[i].verified = readings[i].verified]_vars
=============================================================================
