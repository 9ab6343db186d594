---------------------------- MODULE VerdictTable ----------------------------
(****************************************************************************)
(* The readings table as its readers see it: rows that appear, and verdicts *)
(* that change.  The integrity API is modelled over it, and the pipeline    *)
(* implements it, however many rows a reading has.                          *)
(****************************************************************************)
CONSTANTS
  Row,         \* the rows the readings table may come to hold
  ReadingOf    \* the reading (device, ts and seq) of a row

VARIABLE table  \* the verdict of each row, "absent" before its INSERT

Hidden == {"tampered", "pending", "failed"}
Verdict == Hidden \cup {"intact"}

VerdictInit == table = [x \in Row |-> "absent"]

\* The rows there are of the reading of x.
Twins(x) == {y \in Row : ReadingOf[y] = ReadingOf[x] /\ table[y] # "absent"}

\* The verdict of the only row of a reading from one UPDATE to the next: that of
\* the ingestion, then those of the re-check.
NextVerdicts(verdict) ==
  CASE verdict = "pending"                -> Verdict \ {"pending"}
    [] verdict \in {"intact", "tampered"} -> {"intact", "tampered"}
    [] verdict = "failed"                 -> {}

\* The INSERT of row x.
Insert(x) ==
  /\ table[x] = "absent"
  /\ table' = [table EXCEPT ![x] = "pending"]

\* An UPDATE gives one verdict to every row of the reading of x.  Where there
\* are several, it is the verdict of any of them.
Update(x, verdict) ==
  /\ table[x] # "absent"
  /\ Twins(x) = {x} => verdict \in NextVerdicts(table[x])
  /\ table' = [y \in Row |-> IF y \in Twins(x) THEN verdict ELSE table[y]]

Write(x) == Insert(x) \/ \E verdict \in Verdict \ {"pending"} : Update(x, verdict)

VerdictSpec == VerdictInit /\ [][\E x \in Row : Write(x)]_table
=============================================================================
