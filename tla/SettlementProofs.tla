-------------------------- MODULE SettlementProofs --------------------------
(****************************************************************************)
(* Theorems about the pipeline over a ledger that may be wiped: what the    *)
(* readers of the table see of it, from SettlementIInv of module            *)
(* Redeployment, however many rows a reading has; and what the ledger holds. *)
(****************************************************************************)
EXTENDS Redeployment, PipelineProofs

\* The rows after a step: all as they were but for what an edit changes, one
\* more that is pending, or those of one reading with another verdict.
AsBefore(i) ==
  /\ readings'[i].rid = readings[i].rid
  /\ readings'[i].verified = readings[i].verified

SameVerdicts ==
  /\ DOMAIN readings' = DOMAIN readings
  /\ \A i \in DOMAIN readings : AsBefore(i)

OneMore ==
  /\ Len(readings') = Len(readings) + 1 /\ Len(readings') <= MaxRows
  /\ DOMAIN readings' = DOMAIN readings \cup {Len(readings')}
  /\ readings'[Len(readings')].rid \in RecordId
  /\ readings'[Len(readings')].verified = "pending"
  /\ \A i \in DOMAIN readings : AsBefore(i)

\* The callback settles its own row, or the re-verifier settles one again.
SettlesRow(i, verdict) ==
  \/ /\ i = Len(readings) /\ Settle
     /\ readings[i].verified = "pending"
  \/ /\ UNCHANGED ingest
     /\ readings[i].verified \in {"intact", "tampered"}
     /\ verdict \in {"intact", "tampered"}

\* That is so for the only row of a reading; several get the verdict of one.
Settles(rid, verdict) ==
  /\ rid \in RecordId /\ RowsOf(rid) # {}
  /\ verdict \in {"intact", "tampered", "failed"}
  /\ DOMAIN readings' = DOMAIN readings
  /\ \A i \in DOMAIN readings :
       /\ readings'[i].rid = readings[i].rid
       /\ readings'[i].verified = IF readings[i].rid = rid THEN verdict
                                                         ELSE readings[i].verified
  /\ \A i \in RowsOf(rid) : Alone(i) => SettlesRow(i, verdict)

SomeSettle == \E rid \in RecordId, verdict \in Verdict : Settles(rid, verdict)

----------------------------------------------------------------------------

\* A wiped ledger leaves the types alone.
LEMMA RedeployWellFormed ==
  ASSUME WellFormed, [RedeployNext]_vars
  PROVE  WellFormed'
<1>1. CASE [Next]_vars
  BY <1>1, WellFormedStep
<1>2. CASE Wipe
  <2>1. LedgerTypeOK'
    BY <1>2, FaultType DEF Wipe, WellFormed, TypeOK, LedgerTypeOK
  <2>2. IngestTypeOK' /\ (ingest'.step # "idle" => ingest.step # "idle")
        /\ ingest'.rid = ingest.rid
    BY <1>2 DEF Wipe, WellFormed, TypeOK, IngestTypeOK, IngestStep, Verdict
  <2> QED
    BY <1>2, <2>1, <2>2
    DEF Wipe, tableVars, recheckVars, WellFormed, TypeOK, TableTypeOK,
        RecheckTypeOK, MessageInHand, AnswerForHead
<1> QED  BY <1>1, <1>2 DEF RedeployNext

\* The INSERT adds a row, of whatever reading.
LEMMA ReceiveRows ==
  ASSUME SettlementIInv, NEW rid \in RecordId, Receive(rid)
  PROVE  OneMore
<1>1. TableTypeOK
  BY DEF SettlementIInv, WellFormed, TypeOK
<1>2. readings \in Seq(Row) /\ Len(readings) \in Nat
  BY <1>1, LenProperties DEF TableTypeOK
<1>3. Insert(rid) /\ Len(readings) < MaxRows
  BY DEF Receive
<1>4. /\ Len(readings') = Len(readings) + 1
      /\ DOMAIN readings' = DOMAIN readings \cup {Len(readings')}
      /\ readings'[Len(readings')].rid = rid
      /\ readings'[Len(readings')].verified = "pending"
      /\ \A i \in DOMAIN readings : readings'[i] = readings[i]
  BY <1>1, <1>3, InsertRows
<1>5. Len(readings') <= MaxRows
  BY <1>2, <1>3, <1>4, IngestionAssumption
<1> QED  BY <1>4, <1>5 DEF OneMore, AsBefore

\* The callback's verdict goes to the row it inserted, and to its twins.
LEMMA SettleRows ==
  ASSUME SettlementIInv, Settle
  PROVE  SomeSettle
<1>1. TableTypeOK /\ ingest.rid \in RecordId /\ ingest.verdict \in Verdict
  BY RowInHand DEF Settle, SettlementIInv, WellFormed, TypeOK, IngestTypeOK
<1>2. /\ Len(readings) \in DOMAIN readings
      /\ ingest.rid = readings[Len(readings)].rid
  BY RowInHand DEF Settle, SettlementIInv
<1>3. UpdateVerdict(ingest.rid, ingest.verdict)
  BY DEF Settle
<1>4. ingest.verdict \in {"intact", "tampered", "failed"}
  BY <1>1 DEF Settle, SettlementIInv, VerdictIsDecided, Verdict
<1>5. Len(readings) \in RowsOf(ingest.rid)
  BY <1>2 DEF RowsOf
<1>6. ASSUME NEW i \in RowsOf(ingest.rid), Alone(i)
      PROVE  SettlesRow(i, ingest.verdict)
  <2>1. readings[i].rid = ingest.rid
    BY DEF RowsOf
  <2>2. i = Len(readings)
    BY <1>5, <1>6, <2>1 DEF Alone
  <2> QED
    BY <1>6, <2>2 DEF Settle, SettlementIInv, RowInHandIsPending, SettlesRow
<1>7. Settles(ingest.rid, ingest.verdict)
  BY <1>1, <1>3, <1>4, <1>5, <1>6, UpdateVerdictRows DEF Settles
<1> QED  BY <1>1, <1>7 DEF SomeSettle

\* The re-verifier's verdict goes to a reading whose row had one of the ledger,
\* if it is the only one.
LEMMA RewriteRows ==
  ASSUME SettlementIInv, Rewrite, UNCHANGED ingest
  PROVE  SomeSettle
<1>1. TableTypeOK /\ batch # <<>> /\ checked \in {"intact", "tampered"}
      /\ batch \in Seq(Snapshot)
  BY DEF Rewrite, SettlementIInv, WellFormed, AnswerForHead, TypeOK,
         RecheckTypeOK
<1>2. Head(batch) = batch[1] /\ 1 \in DOMAIN batch /\ Head(batch) \in Snapshot
  BY <1>1, HeadTailProperties, LenProperties
<1>3. Head(batch).rid \in RecordId /\ checked \in Verdict
  BY <1>1, <1>2 DEF Snapshot, Verdict
<1>4. UpdateVerdict(Head(batch).rid, checked)
  BY DEF Rewrite
<1>5. /\ RowsOf(Head(batch).rid) # {}
      /\ \A i \in RowsOf(Head(batch).rid) :
           Alone(i) => readings[i].verified \in {"intact", "tampered"}
  BY <1>2 DEF SettlementIInv, BatchIsSettled
<1>6. Settles(Head(batch).rid, checked)
  BY <1>1, <1>3, <1>4, <1>5, UpdateVerdictRows DEF Settles, SettlesRow
<1> QED  BY <1>3, <1>6 DEF SomeSettle

\* No step does anything else to the verdicts.
LEMMA VerdictsAfterStep ==
  ASSUME SettlementIInv, [RedeployNext]_vars
  PROVE  \/ SameVerdicts
         \/ OneMore
         \/ SomeSettle
<1>1. CASE UNCHANGED readings
  BY <1>1 DEF SameVerdicts, AsBefore
<1>2. ASSUME NEW rid \in RecordId, Receive(rid)
      PROVE  OneMore
  BY <1>2, ReceiveRows
<1>3. CASE Settle
  BY <1>3, SettleRows
<1>4. CASE RecheckStep /\ Rewrite
  BY <1>4, RewriteRows DEF RecheckStep
<1>5. CASE EditStep
  <2>1. PICK k \in DOMAIN readings, p, q \in Payload :
          EditRow(k, p, Digest(q))
    BY <1>5 DEF EditStep
  <2>2. Digest(q) \in Digests
    BY DEF Digests
  <2>3. TableTypeOK
    BY DEF SettlementIInv, WellFormed, TypeOK
  <2> QED  BY <2>1, <2>2, <2>3, EditRows DEF SameVerdicts, AsBefore
<1>6. \/ UNCHANGED readings
      \/ \E rid \in RecordId : Receive(rid)
      \/ Settle \/ (RecheckStep /\ Rewrite) \/ EditStep
  BY DEF RedeployNext, Wipe, Next, IngestionStep, Submit, Anchored, StoreFails,
         Verify, VerifyFails, AbandonMessage, RecheckStep, Fetch, Check,
         CheckFails, AbandonBatch, BlockStep, TimeStep, Age, tableVars, vars
<1> QED  BY <1>1, <1>2, <1>3, <1>4, <1>5, <1>6

----------------------------------------------------------------------------
(****************************************************************************)
(* The invariant                                                            *)
(****************************************************************************)

\* There is nothing in hand at first.
LEMMA SettlementInit == Init => SettlementIInv
BY TypeInit, IngestionAssumption
DEF Init, TableInit, RecheckInit, Idle, SettlementIInv, RowsFit,
    RowInHandIsPending, VerdictIsDecided, BatchIsSettled

\* Rows are never deleted nor given to another reading, so one that is alone
\* has been so all along.
LEMMA RowsStay ==
  ASSUME SettlementIInv, [RedeployNext]_vars
  PROVE  /\ \A i \in DOMAIN readings :
              i \in DOMAIN readings' /\ readings'[i].rid = readings[i].rid
         /\ \A i \in DOMAIN readings : Alone(i)' => Alone(i)
         /\ RowsFit'
<1>1. readings \in Seq(Row) /\ readings' \in Seq(Row)
  BY RedeployWellFormed DEF SettlementIInv, WellFormed, TypeOK, TableTypeOK
<1>2. \A i \in DOMAIN readings :
        i \in DOMAIN readings' /\ readings'[i].rid = readings[i].rid
  BY VerdictsAfterStep DEF SameVerdicts, OneMore, SomeSettle, Settles, AsBefore
<1>3. ASSUME NEW i \in DOMAIN readings, Alone(i)'
      PROVE  Alone(i)
  BY <1>2, <1>3 DEF Alone, RowsOf
<1>4. RowsFit'
  <2>1. DOMAIN readings' = DOMAIN readings => Len(readings') = Len(readings)
    BY <1>1, LenProperties
  <2> QED
    BY <2>1, VerdictsAfterStep
    DEF SameVerdicts, OneMore, SomeSettle, Settles, SettlementIInv, RowsFit
<1> QED  BY <1>2, <1>3, <1>4

\* The row in hand waits until its callback is done with it: the re-verifier
\* only writes to rows that have a verdict, and to their twins.
LEMMA RowInHandStep ==
  ASSUME SettlementIInv, [RedeployNext]_vars
  PROVE  RowInHandIsPending'
<1> SUFFICES ASSUME ingest'.step # "idle", Alone(Len(readings))'
             PROVE  readings'[Len(readings')].verified = "pending"
  BY DEF RowInHandIsPending
<1>1. CASE OneMore
  BY <1>1 DEF OneMore
<1>2. CASE ~OneMore
  <2>1. ingest.step # "idle"
    <3>1. ~\E rid \in RecordId : Receive(rid)
      BY <1>2, ReceiveRows
    <3> QED
      BY <3>1
      DEF RedeployNext, Wipe, Next, IngestionStep, Submit, Anchored, StoreFails,
          Verify, VerifyFails, Settle, AbandonMessage, RecheckStep, BlockStep,
          TimeStep, EditStep, EditRow, Idle, vars
  <2>2. readings \in Seq(Row) /\ readings' \in Seq(Row)
    BY RedeployWellFormed DEF SettlementIInv, WellFormed, TypeOK, TableTypeOK
  <2>3. DOMAIN readings' = DOMAIN readings => Len(readings') = Len(readings)
    BY <2>2, LenProperties
  <2>4. Len(readings') = Len(readings)
    BY <1>2, <2>3, VerdictsAfterStep DEF SameVerdicts, SomeSettle, Settles
  <2>5. Len(readings) \in DOMAIN readings
    BY <2>1, RowInHand DEF SettlementIInv
  <2>6. Alone(Len(readings))
    <3>1. PICK n \in DOMAIN readings : n = Len(readings)
      BY <2>5
    <3>2. Alone(n)'
      BY <2>4, <3>1
    <3> QED  BY <3>1, <3>2, RowsStay
  <2>7. readings[Len(readings)].verified = "pending"
    BY <2>1, <2>6 DEF SettlementIInv, RowInHandIsPending
  <2>8. CASE SameVerdicts
    BY <2>4, <2>5, <2>7, <2>8 DEF SameVerdicts, AsBefore
  <2>9. ASSUME NEW rid \in RecordId, NEW verdict \in Verdict,
               Settles(rid, verdict)
        PROVE  readings'[Len(readings')].verified = "pending"
    <3>1. ~Settle
      BY DEF Settle, Idle
    <3>2. readings[Len(readings)].rid # rid
      BY <2>5, <2>6, <2>7, <2>9, <3>1 DEF Settles, SettlesRow, RowsOf
    <3> QED  BY <2>4, <2>5, <2>7, <2>9, <3>2 DEF Settles
  <2> QED  BY <1>2, <2>8, <2>9, VerdictsAfterStep DEF SomeSettle
<1> QED  BY <1>1, <1>2

\* Each way out of the calls decides on a verdict.
LEMMA DecidedStep ==
  ASSUME SettlementIInv, [RedeployNext]_vars
  PROVE  VerdictIsDecided'
<1>1. ingest \in [step : IngestStep, rid : RecordId \cup {NoReading},
                  verdict : Verdict]
  BY DEF SettlementIInv, WellFormed, TypeOK, IngestTypeOK
<1>2. ingest.step = "settle" => ingest.verdict # "pending"
  BY DEF SettlementIInv, VerdictIsDecided
<1>3. CASE UNCHANGED ingest
  BY <1>2, <1>3 DEF VerdictIsDecided
<1>4. CASE IngestionStep \/ Wipe
  <2>1. CASE Verify
    BY <1>1, <2>1 DEF Verify, VerdictIsDecided
  <2>2. CASE StoreFails \/ VerifyFails
    BY <1>1, <2>2 DEF StoreFails, VerifyFails, VerdictIsDecided
  <2>3. CASE (\E rid \in RecordId : Receive(rid)) \/ Submit \/ Anchored
    BY <1>1, <2>3 DEF Receive, Submit, Anchored, VerdictIsDecided
  <2>4. CASE Settle \/ AbandonMessage
    BY <2>4 DEF Settle, AbandonMessage, Idle, VerdictIsDecided
  <2>5. CASE Wipe
    BY <1>1, <1>2, <2>5 DEF Wipe, VerdictIsDecided
  <2> QED  BY <1>4, <2>1, <2>2, <2>3, <2>4, <2>5 DEF IngestionStep
<1>5. UNCHANGED ingest \/ IngestionStep \/ Wipe
  BY DEF RedeployNext, Next, RecheckStep, BlockStep, TimeStep, EditStep,
         EditRow, vars
<1> QED  BY <1>3, <1>4, <1>5

\* A settled row goes on being settled as long as it is alone, so what was
\* copied of it stays true.
LEMMA BatchSettledStep ==
  ASSUME SettlementIInv, [RedeployNext]_vars
  PROVE  BatchIsSettled'
<1>1. ASSUME NEW i \in DOMAIN readings, Alone(i)',
             readings[i].verified \in {"intact", "tampered"}
      PROVE  readings'[i].verified \in {"intact", "tampered"}
  <2>1. Alone(i)
    BY <1>1, RowsStay
  <2>2. CASE SameVerdicts
    BY <1>1, <2>2 DEF SameVerdicts, AsBefore
  <2>3. CASE OneMore
    BY <1>1, <2>3 DEF OneMore, AsBefore
  <2>4. ASSUME NEW rid \in RecordId, NEW verdict \in Verdict,
               Settles(rid, verdict)
        PROVE  readings'[i].verified \in {"intact", "tampered"}
    <3>1. CASE readings[i].rid = rid
      BY <1>1, <2>1, <2>4, <3>1 DEF Settles, SettlesRow, RowsOf
    <3>2. CASE readings[i].rid # rid
      BY <1>1, <2>4, <3>2 DEF Settles
    <3> QED  BY <3>1, <3>2
  <2> QED  BY <2>2, <2>3, <2>4, VerdictsAfterStep DEF SomeSettle
<1>2. \A j \in DOMAIN batch' : BatchEntry(j)
  <2>1. CASE [Next]_vars
    BY <2>1, BatchAfterStep DEF SettlementIInv
  <2>2. CASE Wipe
    BY <2>2 DEF Wipe, recheckVars, BatchEntry
  <2> QED  BY <2>1, <2>2 DEF RedeployNext
<1> SUFFICES ASSUME NEW j \in DOMAIN batch'
             PROVE  /\ RowsOf(batch[j].rid)' # {}
                    /\ \A i \in RowsOf(batch[j].rid)' :
                         Alone(i)' => readings'[i].verified \in {"intact", "tampered"}
  BY DEF BatchIsSettled
<1> DEFINE rid == batch'[j].rid
<1>3. PICK k \in RowsOf(rid) :
        \/ \A i \in RowsOf(rid) :
             Alone(i) => readings[i].verified \in {"intact", "tampered"}
        \/ readings[k].verified \in {"intact", "tampered"}
  BY <1>2 DEF BatchEntry, SettlementIInv, BatchIsSettled, RowsOf
<1>4. k \in DOMAIN readings /\ readings[k].rid = rid
  BY DEF RowsOf
<1>5. k \in DOMAIN readings' /\ readings'[k].rid = rid
  BY <1>4, RowsStay
<1>6. ASSUME NEW i \in DOMAIN readings', readings'[i].rid = rid, Alone(i)'
      PROVE  readings'[i].verified \in {"intact", "tampered"}
  <2>1. i = k
    BY <1>5, <1>6 DEF Alone, RowsOf
  <2>2. Alone(k)
    BY <1>4, <1>6, <2>1, RowsStay
  <2>3. readings[k].verified \in {"intact", "tampered"}
    BY <1>3, <2>2
  <2> QED  BY <1>1, <1>4, <1>6, <2>1, <2>3
<1> QED  BY <1>5, <1>6 DEF RowsOf

\* The re-verifier and the callback never have the only row of a reading in
\* hand together.
THEOREM SettlementInductive == RedeploySpec => []SettlementIInv
<1>1. SettlementIInv /\ [RedeployNext]_vars => SettlementIInv'
  BY RedeployWellFormed, RowsStay, RowInHandStep, DecidedStep, BatchSettledStep
  DEF SettlementIInv
<1> QED  BY <1>1, SettlementInit, PTL DEF RedeploySpec

----------------------------------------------------------------------------
(****************************************************************************)
(* What the readers of the table see                                        *)
(****************************************************************************)

\* A row without a verdict, or that failed, is left to the callback that
\* inserted it, whatever is wiped, unless its reading has another row.
THEOREM UnsettledRowsStay == RedeploySpec => UnsettledRowsAreLeftAlone
<1>1. SettlementIInv /\ [RedeployNext]_vars =>
        [\A i \in DOMAIN readings :
           /\ Alone(i)
           /\ readings[i].verified \in {"pending", "failed"}
           /\ readings'[i].verified # readings[i].verified
           => i = Len(readings) /\ ingest.step = "settle"]_vars
  <2> SUFFICES ASSUME SettlementIInv, [RedeployNext]_vars,
                      NEW i \in DOMAIN readings, Alone(i),
                      readings[i].verified \in {"pending", "failed"},
                      readings'[i].verified # readings[i].verified
               PROVE  i = Len(readings) /\ ingest.step = "settle"
    OBVIOUS
  <2>1. PICK rid \in RecordId, verdict \in Verdict : Settles(rid, verdict)
    BY VerdictsAfterStep DEF SameVerdicts, OneMore, AsBefore, SomeSettle
  <2>2. i \in RowsOf(rid)
    BY <2>1 DEF Settles, RowsOf
  <2> QED  BY <2>1, <2>2 DEF Settles, SettlesRow, Settle
<1> QED
  BY <1>1, SettlementInductive, PTL DEF RedeploySpec, UnsettledRowsAreLeftAlone

\* The table as its readers see it: each row under its reading.
Places == RecordId \X (1..MaxRows)

Table == [x \in Places |->
            IF x[2] \in DOMAIN readings /\ readings[x[2]].rid = x[1]
              THEN readings[x[2]].verified ELSE "absent"]

\* One more row is an INSERT.
LEMMA OneMoreIsInsert ==
  ASSUME SettlementIInv, OneMore
  PROVE  \E x \in Places : Seen!Insert(x)
<1> DEFINE n == Len(readings')
           x == <<readings'[n].rid, n>>
<1>1. /\ readings \in Seq(Row) /\ Len(readings) \in Nat
      /\ DOMAIN readings = 1..Len(readings)
  BY LenProperties DEF SettlementIInv, WellFormed, TypeOK, TableTypeOK
<1>2. n \in 1..MaxRows /\ n \notin DOMAIN readings
  BY <1>1, IngestionAssumption DEF OneMore
<1>3. x \in Places /\ x[1] = readings'[n].rid /\ x[2] = n
  BY <1>2 DEF OneMore, Places
<1>4. Table[x] = "absent"
  BY <1>2, <1>3 DEF Table
<1>5. ASSUME NEW y \in Places
      PROVE  Table'[y] = IF y = x THEN "pending" ELSE Table[y]
  <2>1. y = <<y[1], y[2]>>
    BY DEF Places
  <2>2. CASE y[2] = n
    BY <1>2, <1>3, <2>1, <2>2 DEF OneMore, Table
  <2>3. CASE y[2] # n
    BY <1>3, <2>3 DEF OneMore, AsBefore, Table
  <2> QED  BY <2>2, <2>3
<1>6. Table' = [Table EXCEPT ![x] = "pending"]
  BY <1>5 DEF Table
<1> QED  BY <1>3, <1>4, <1>6 DEF Seen!Insert, Table, Places

\* A verdict for a reading is an UPDATE of its rows.
LEMMA SettlesIsUpdate ==
  ASSUME SettlementIInv, NEW rid \in RecordId, NEW verdict \in Verdict,
         Settles(rid, verdict)
  PROVE  \E x \in Places, v \in Verdict \ {"pending"} : Seen!Update(x, v)
<1>1. PICK k \in DOMAIN readings : readings[k].rid = rid
  BY DEF Settles, RowsOf
<1> DEFINE x == <<rid, k>>
<1>2. /\ readings \in Seq(Row) /\ Len(readings) \in Nat
      /\ DOMAIN readings = 1..Len(readings)
  BY LenProperties DEF SettlementIInv, WellFormed, TypeOK, TableTypeOK
<1>3. \A i \in DOMAIN readings : i \in 1..MaxRows
  BY <1>2, IngestionAssumption DEF SettlementIInv, RowsFit
<1>4. x \in Places /\ x[1] = rid /\ x[2] = k
  BY <1>1, <1>3 DEF Places
<1>5. \A i \in DOMAIN readings : readings[i].verified # "absent"
  <2>1. \A i \in DOMAIN readings : readings[i] \in Row
    BY <1>2
  <2> QED  BY <2>1 DEF Row, Verdict
<1>6. Table[x] = readings[k].verified
  BY <1>1, <1>4 DEF Table
<1> DEFINE Rows == {y \in Places : y[1] = rid /\ Table[y] # "absent"}
<1>7. \A y \in Places :
        y \in Rows <=> y[1] = rid /\ y[2] \in RowsOf(rid)
  BY <1>5 DEF Table, RowsOf
<1>8. ASSUME NEW y \in Places
      PROVE  Table'[y] = IF y \in Rows THEN verdict ELSE Table[y]
  BY <1>7 DEF Table, Settles, RowsOf
<1>9. Table' = [y \in Places |-> IF y \in Rows THEN verdict ELSE Table[y]]
  BY <1>8 DEF Table
<1>10. Rows = {x} => verdict \in Seen!NextVerdicts(Table[x])
  <2> SUFFICES ASSUME Rows = {x}
               PROVE  verdict \in Seen!NextVerdicts(Table[x])
    OBVIOUS
  <2>1. ASSUME NEW i \in RowsOf(rid)
        PROVE  i = k
    <3>1. i \in DOMAIN readings
      BY DEF RowsOf
    <3>2. <<rid, i>> \in Places
      BY <1>3, <3>1 DEF Places
    <3>3. <<rid, i>> \in Rows
      BY <1>7, <3>2
    <3> QED  BY <3>3
  <2>2. Alone(k) /\ k \in RowsOf(rid)
    BY <1>1, <2>1 DEF Alone, RowsOf
  <2>3. SettlesRow(k, verdict)
    BY <2>2 DEF Settles
  <2> QED
    BY <1>6, <2>3 DEF Settles, SettlesRow, Seen!NextVerdicts, Seen!Verdict,
                      Seen!Hidden
<1>11. Rows = Seen!Twins(x)
  BY <1>4 DEF Seen!Twins, Places, Table
<1>12. verdict \in Verdict \ {"pending"} /\ Table[x] # "absent"
  BY <1>1, <1>5, <1>6 DEF Settles
<1> HIDE DEF Rows
<1> QED
  BY <1>4, <1>9, <1>10, <1>11, <1>12 DEF Seen!Update, Table, Places

\* What a step does to the verdicts, its readers take for one write, or none.
LEMMA StepIsAWrite ==
  ASSUME SettlementIInv, [RedeployNext]_vars
  PROVE  Table' = Table \/ \E x \in Places : Seen!Write(x)
<1>1. CASE SameVerdicts
  BY <1>1 DEF SameVerdicts, AsBefore, Table
<1>2. CASE OneMore
  BY <1>2, OneMoreIsInsert DEF Seen!Write
<1>3. CASE SomeSettle
  <2>1. Seen!Verdict = Verdict
    BY DEF Seen!Verdict, Seen!Hidden, Verdict
  <2> QED  BY <1>3, <2>1, SettlesIsUpdate DEF SomeSettle, Seen!Write
<1> QED  BY <1>1, <1>2, <1>3, VerdictsAfterStep

\* The pipeline, whose ledger may be wiped and whose readings may have any number
\* of rows, writes the table in the way that the integrity API and its page are
\* modelled with.
THEOREM PipelineIsTheWriter == RedeploySpec => ImplementsVerdictTable
<1>1. Init => Seen!VerdictInit
  BY DEF Init, TableInit, Seen!VerdictInit
<1>2. SettlementIInv /\ [RedeployNext]_vars =>
        [\E x \in RecordId \X (1..MaxRows) : Seen!Write(x)]_Table
  BY StepIsAWrite DEF Places
<1> QED
  BY <1>1, <1>2, SettlementInductive, PTL
  DEF RedeploySpec, ImplementsVerdictTable, Seen!VerdictSpec, Table, Places

----------------------------------------------------------------------------
(****************************************************************************)
(* The ledger that is wiped                                                 *)
(****************************************************************************)

\* A ledger that is set up anew has nothing on it that is false, and nothing
\* on its way to it: what store_hash submits afterwards, the record of a row
\* that is still in hand included, is the published hash as before.
THEOREM WipedLedgerIsHonest == RedeploySpec => []LedgerHonest
<1> DEFINE Honest == WellFormed /\ LedgerHonest /\ TransactionsHonest
<1>1. Init => Honest
  BY InductiveInit DEF IInv
<1>2. Honest /\ [RedeployNext]_vars => Honest'
  <2> SUFFICES ASSUME Honest, [RedeployNext]_vars
               PROVE  Honest'
    OBVIOUS
  <2>1. CASE [Next]_vars
    BY <2>1, WellFormedStep, LedgerStep, TransactionsStep
  <2>2. CASE Wipe
    <3>1. LedgerHonest' /\ TransactionsHonest'
      BY <2>2 DEF Wipe, LedgerHonest, TransactionsHonest
    <3> QED  BY <3>1, RedeployWellFormed
  <2> QED  BY <2>1, <2>2 DEF RedeployNext
<1>3. Honest => LedgerHonest
  OBVIOUS
<1> QED
  <2> HIDE DEF Honest
  <2> QED  BY <1>1, <1>2, <1>3, PTL DEF RedeploySpec
=============================================================================
