----------------------------- MODULE IntegrityAPI -----------------------------
(****************************************************************************)
(* The integrity API (api/api.py) as its one client meets it: a request for *)
(* the readings of a device runs one query, or in strict mode two, on the   *)
(* table the pipeline writes, and its answer comes back whenever it does.   *)
(* Flask serves each request in a thread, and SQLite gives each query a     *)
(* snapshot of its own.                                                     *)
(****************************************************************************)
EXTENDS VerdictTable, Naturals, Sequences, FiniteSets

CONSTANTS
  Device,      \* the devices
  DeviceOf,    \* the device of a row
  StampOf,     \* its ts
  Limit,       \* how many rows an answer holds at most
  Fetch,       \* bound: as many requests for readings are under way at most
  MaxWrites,   \* bound: how often the pipeline writes the table
  MaxFaults    \* bound: how many requests fail

ASSUME APIAssumption ==
  /\ IsFiniteSet(Row)
  /\ DeviceOf \in [Row -> Device]
  /\ StampOf \in [Row -> Nat]
  /\ \A x, y \in Row :
       ReadingOf[x] = ReadingOf[y] =>
         DeviceOf[x] = DeviceOf[y] /\ StampOf[x] = StampOf[y]
  /\ Limit \in Nat \ {0}
  /\ MaxWrites \in Nat
  /\ MaxFaults \in Nat

VARIABLES
  fetch,     \* the requests for readings, with their local variables
  writes,    \* how often the table has been written
  faults     \* how many requests have failed

apiVars == <<table, fetch, writes, faults>>

\* A row of an answer, with the verdict it had when it was read.
Line == [row : Row, verdict : Verdict]

Lines == UNION {[1..n -> Line] : n \in 0..Limit}

\* "none" is the empty string: no one is logged in.
Token == {"none", "valid", "expired"}

\* A request is "sent", between its two queries, or "answered" while the
\* answer travels; then the slot is free again.  The answer may be an error
\* in JSON, or no JSON at all when the connection or the query broke.
FetchStep == {"free", "sent", "counting", "answered"}
Status == {"ok", "error", "broken"}

UnderWay ==
  [step : FetchStep, device : Device, strict : BOOLEAN, token : Token,
   status : Status, rows : Lines, hidden : SUBSET Row, steady : SUBSET Row]

Free == [step |-> "free"]

APITypeOK ==
  /\ table \in [Row -> Verdict \cup {"absent"}]
  /\ fetch \in [Fetch -> UnderWay \cup {Free}]
  /\ writes \in 0..MaxWrites
  /\ faults \in 0..MaxFaults

Sent(device, strict, token) ==
  [step |-> "sent", device |-> device, strict |-> strict, token |-> token,
   status |-> "ok", rows |-> <<>>, hidden |-> {}, steady |-> {}]

----------------------------------------------------------------------------

RowsOf(device) == {x \in Row : DeviceOf[x] = device /\ table[x] # "absent"}

\* WHERE device_id = ?, in strict mode AND verified = 'intact'.
Matching(device, strict) ==
  {x \in RowsOf(device) : strict => table[x] = "intact"}

\* Mutant: rows that await their verdict are not counted.
Mutant_HiddenTampered(device) ==
  {x \in RowsOf(device) : table[x] \in {"tampered", "failed"}}

\* WHERE device_id = ? AND verified != 'intact'.  The API counts these rows
\* by verdict.
HiddenRows(device) == {x \in RowsOf(device) : table[x] # "intact"}

\* Mutant: LIMIT is lost.
Mutant_AllNewest(rows) ==
  {s \in [1..Cardinality(rows) -> rows] :
     \A i, j \in DOMAIN s : i < j => s[i] # s[j] /\ StampOf[s[i]] >= StampOf[s[j]]}

\* ORDER BY ts DESC LIMIT ?: rows with one ts come in any order.
Newest(rows) ==
  LET length == IF Cardinality(rows) < Limit THEN Cardinality(rows) ELSE Limit
  IN  {s \in [1..length -> rows] :
         /\ \A i, j \in 1..length :
              i < j => s[i] # s[j] /\ StampOf[s[i]] >= StampOf[s[j]]
         /\ \A x \in rows \ {s[i] : i \in 1..length} :
              \A i \in 1..length : StampOf[x] <= StampOf[s[i]]}

\* What the query for rows may return now.
Answers(device, strict) ==
  {[i \in DOMAIN s |-> [row |-> s[i], verdict |-> table[s[i]]]] :
     s \in Newest(Matching(device, strict))}

\* require_jwt turns the request away, with an answer that has no readings.
Reject(f) ==
  /\ fetch[f].step = "sent" /\ fetch[f].token # "valid"
  /\ fetch' = [fetch EXCEPT ![f].step = "answered", ![f].status = "error"]
  /\ UNCHANGED <<table, writes, faults>>

\* The query for the rows, the only one in forensic mode.
SelectRows(f) ==
  /\ fetch[f].step = "sent" /\ fetch[f].token = "valid"
  /\ \E lines \in Answers(fetch[f].device, fetch[f].strict) :
       fetch' = [fetch EXCEPT
         ![f].step = IF fetch[f].strict THEN "counting" ELSE "answered",
         ![f].rows = lines,
         ![f].steady = RowsOf(fetch[f].device)]
  /\ UNCHANGED <<table, writes, faults>>

\* The query for the hidden summary.
CountHidden(f) ==
  /\ fetch[f].step = "counting"
  /\ fetch' = [fetch EXCEPT ![f].step = "answered",
                            ![f].hidden = HiddenRows(fetch[f].device)]
  /\ UNCHANGED <<table, writes, faults>>

\* The connection breaks, or a query raises and the answer is Flask's page.
Break(f) ==
  /\ fetch[f].step \in {"sent", "counting"}
  /\ faults < MaxFaults
  /\ faults' = faults + 1
  /\ fetch' = [fetch EXCEPT ![f].step = "answered", ![f].status = "broken"]
  /\ UNCHANGED <<table, writes>>

----------------------------------------------------------------------------

\* The pipeline inserts row x, or writes it and its twins; no request finds a row
\* unchanged any more whose verdict is another now.
PipelineWrites(x) ==
  /\ writes < MaxWrites
  /\ writes' = writes + 1
  /\ Write(x)
  /\ fetch' = [f \in Fetch |->
                 IF fetch[f].step = "free" THEN Free
                 ELSE [fetch[f] EXCEPT
                         !.steady = {y \in @ : table'[y] = table[y]}]]
  /\ UNCHANGED faults

----------------------------------------------------------------------------

\* The answer to f is full, of rows none of which is older than x.
FilledByNewer(f, x) ==
  /\ Len(fetch[f].rows) = Limit
  /\ \A i \in DOMAIN fetch[f].rows : StampOf[fetch[f].rows[i].row] >= StampOf[x]

Shows(f, x) == \E i \in DOMAIN fetch[f].rows : fetch[f].rows[i].row = x

\* An answer in strict mode accounts for every row whose verdict did not
\* change while the two queries ran (api.py, 175-190): it is among the rows
\* if it is intact, unless others as new filled the answer, and counted as
\* hidden, and not shown, if it is not.  Rows and summary are not a snapshot:
\* nothing of the kind holds of a row that was written in between.
AnswersAccountForRows ==
  \A f \in Fetch :
    /\ fetch[f].step = "answered"
    /\ fetch[f].status = "ok"
    /\ fetch[f].strict
    => \A x \in fetch[f].steady :
         IF table[x] = "intact"
           THEN /\ x \notin fetch[f].hidden
                /\ Shows(f, x) \/ FilledByNewer(f, x)
           ELSE /\ x \in fetch[f].hidden
                /\ ~Shows(f, x)

----------------------------------------------------------------------------
(****************************************************************************)
(* The inductive invariant behind AnswersAccountForRows                     *)
(****************************************************************************)

Reading(f) == fetch[f].step = "counting"

Accounted(f) ==
  fetch[f].step = "answered" /\ fetch[f].status = "ok" /\ fetch[f].strict

\* A row that nobody wrote since the first query still is what that query saw.
SteadyRowsAreSeen(f) ==
  \A x \in fetch[f].steady :
    /\ x \in RowsOf(fetch[f].device)
    /\ IF table[x] = "intact"
         THEN Shows(f, x) \/ FilledByNewer(f, x)
         ELSE ~Shows(f, x)

\* The second query saw it in the same state.
SteadyRowsAreCounted(f) ==
  \A x \in fetch[f].steady : x \in fetch[f].hidden <=> table[x] # "intact"

RequestKnows(f) ==
  /\ Reading(f) => fetch[f].strict
  /\ Reading(f) \/ Accounted(f) => SteadyRowsAreSeen(f)
  /\ Accounted(f) => SteadyRowsAreCounted(f)
=============================================================================
