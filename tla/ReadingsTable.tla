---------------------------- MODULE ReadingsTable ----------------------------
(****************************************************************************)
(* The SQLite table readings (ingestion/init_db.py) and the two statements  *)
(* that write it.  Rows are never deleted, so the table is a sequence and   *)
(* the position of a row is its AUTOINCREMENT id.                           *)
(*                                                                          *)
(* The column verified_at is only compared: with other stamps (ORDER BY)    *)
(* and with the cutoff of the re-check.  A stamp is therefore kept as its   *)
(* rank among the stamps in use, 0 being the code's "never verified".       *)
(****************************************************************************)
EXTENDS IntegrityLedger, Sequences

VARIABLES
  readings,   \* the rows, in order of insertion
  cutoff      \* rows with a stamp below it are older than RECHECK_AGE_S

tableVars == <<readings, cutoff>>

Verdict == {"pending", "intact", "tampered", "failed"}

Row == [rid : RecordId, payload : Payload, hash : Digests,
        verified : Verdict, at : Nat]

TableTypeOK ==
  /\ readings \in Seq(Row)
  /\ cutoff \in Nat \ {0}

TableInit ==
  /\ readings = <<>>
  /\ cutoff = 1

----------------------------------------------------------------------------

\* The ids of the rows that hold the reading rid: the table has no UNIQUE
\* constraint, so there may be several.
RowsOf(rid) == {i \in DOMAIN readings : readings[i].rid = rid}

\* The stamp of the latest verdict, 0 when there is none yet.
Stamps == {readings[i].at : i \in DOMAIN readings}
Newest == CHOOSE t \in Stamps \cup {0} : \A u \in Stamps : u <= t

\* The INSERT of a fresh row.
Insert(rid) ==
  /\ readings' = Append(readings,
                   [rid |-> rid, payload |-> PayloadOf[rid],
                    hash |-> HashOf(rid), verified |-> "pending", at |-> 0])
  /\ UNCHANGED cutoff

\* Mutant: the WHERE clause names the device only, and all are of one device.
Mutant_UpdatedWholeDevice(rid, verdict, now) ==
  [i \in DOMAIN readings |->
     [readings[i] EXCEPT !.verified = verdict, !.at = now]]

\* The rows after UPDATE ... SET verified, verified_at WHERE device_id AND ts
\* AND seq, executed at time now.
Updated(rid, verdict, now) ==
  [i \in DOMAIN readings |->
     IF readings[i].rid = rid
       THEN [readings[i] EXCEPT !.verified = verdict, !.at = now]
       ELSE readings[i]]

\* Every row of the triple gets the verdict.  The clock has a resolution of
\* one second, so the stamp is that of the latest verdict or a new one, and
\* never one that has already aged.
UpdateVerdict(rid, verdict) ==
  \E now \in {Newest, Newest + 1} :
    LET rows    == Updated(rid, verdict, now)
        used    == {rows[i].at : i \in DOMAIN rows} \ {0}
        Rank(t) == Cardinality({u \in used : u <= t})
    IN  /\ now >= cutoff
        /\ readings' = [i \in DOMAIN rows |->
                          [rows[i] EXCEPT !.at = Rank(rows[i].at)]]
        /\ cutoff' = Rank(cutoff - 1) + 1

\* Time passes: the oldest verdicts that were still fresh become due for the
\* re-check.
Age ==
  /\ cutoff <= Newest
  /\ cutoff' = cutoff + 1
  /\ UNCHANGED readings
=============================================================================
