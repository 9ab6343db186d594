----------------------------- MODULE ConsoleProofs -----------------------------
(****************************************************************************)
(* Theorems about the integrity API and its console, for any rows, requests *)
(* and limit, and however the user, the pipeline and the failures interleave.*)
(****************************************************************************)
EXTENDS Console, FiniteSetTheorems, FunctionTheorems, SequenceTheorems, TLAPS

----------------------------------------------------------------------------
(****************************************************************************)
(* Answers                                                                  *)
(****************************************************************************)

\* Lines are a sequence no longer than the limit.
LEMMA LinesProperties ==
  ASSUME NEW rows \in Lines
  PROVE  /\ rows \in Seq(Line) /\ Len(rows) \in 0..Limit
         /\ DOMAIN rows = 1..Len(rows)
         /\ \A i \in DOMAIN rows : rows[i] \in Line
<1>1. PICK n \in 0..Limit : rows \in [1..n -> Line]
  BY DEF Lines
<1>2. n \in Nat
  BY <1>1, APIAssumption
<1>3. rows \in Seq(Line) /\ Len(rows) = n
  BY <1>1, <1>2
<1> QED  BY <1>1, <1>2, <1>3, APIAssumption

\* What is numbered up to the limit is lines of an answer.
LEMMA LinesIntro ==
  ASSUME NEW n \in 0..Limit, NEW rows \in [1..n -> Line]
  PROVE  rows \in Lines /\ Len(rows) = n
<1>1. n \in Nat
  BY APIAssumption
<1> QED  BY <1>1 DEF Lines

\* An answer may be empty.
LEMMA NoLines == <<>> \in Lines
<1>1. 0 \in 0..Limit /\ <<>> \in [1..0 -> Line]
  BY APIAssumption
<1> QED  BY <1>1 DEF Lines

\* What ORDER BY and LIMIT leave of some rows: as many different ones as the
\* limit allows, and so all of them if they are fewer; none is older than one that
\* is left out.
LEMMA NewestProperties ==
  ASSUME NEW rows \in SUBSET Row, NEW s \in Newest(rows)
  PROVE  \E n \in 0..Limit :
           /\ s \in [1..n -> rows]
           /\ \A x \in rows :
                \/ \E i \in 1..n : s[i] = x
                \/ n = Limit /\ \A i \in 1..n : StampOf[s[i]] >= StampOf[x]
<1> DEFINE n == IF Cardinality(rows) < Limit THEN Cardinality(rows) ELSE Limit
<1>1. IsFiniteSet(rows) /\ Cardinality(rows) \in Nat
  BY APIAssumption, FS_Subset, FS_CardinalityType
<1>2. n \in 0..Limit /\ n \in Nat
  BY <1>1, APIAssumption
<1>3. /\ s \in [1..n -> rows]
      /\ \A i, j \in 1..n : i < j => s[i] # s[j]
      /\ \A x \in rows \ {s[i] : i \in 1..n} :
           \A i \in 1..n : StampOf[x] <= StampOf[s[i]]
  BY DEF Newest
<1>4. ASSUME n # Limit
      PROVE  \A x \in rows : \E i \in 1..n : s[i] = x
  <2>1. n = Cardinality(rows)
    BY <1>4
  <2>2. s \in Injection(1..n, rows)
    <3>1. ASSUME NEW i \in 1..n, NEW j \in 1..n, s[i] = s[j]
          PROVE  i = j
      BY <1>2, <1>3, <3>1
    <3> QED  BY <1>3, <3>1, Fun_IsInj
  <2>3. Cardinality(1..n) = n
    BY <1>2, FS_Interval
  <2>4. s \in Surjection(1..n, rows)
    BY <1>1, <2>1, <2>2, <2>3, FS_Injection
  <2> QED  BY <2>4 DEF Surjection
<1>5. ASSUME NEW x \in rows, ~\E i \in 1..n : s[i] = x
      PROVE  \A i \in 1..n : StampOf[s[i]] >= StampOf[x]
  <2>1. \A i \in 1..n : StampOf[x] <= StampOf[s[i]]
    BY <1>3, <1>5
  <2>2. \A y \in rows : StampOf[y] \in Nat
    BY APIAssumption
  <2> QED  BY <1>3, <2>1, <2>2
<1> QED
  <2> HIDE DEF n
  <2> QED  BY <1>2, <1>3, <1>4, <1>5

\* An answer: rows that match, as many as the limit allows or else all.
LEMMA AnswersProperties ==
  ASSUME APITypeOK, NEW device, NEW strict \in BOOLEAN,
         NEW lines \in Answers(device, strict)
  PROVE  /\ lines \in Lines
         /\ \A i \in DOMAIN lines : lines[i].row \in Matching(device, strict)
         /\ \A x \in Matching(device, strict) :
              \/ \E i \in DOMAIN lines : lines[i].row = x
              \/ /\ Len(lines) = Limit
                 /\ \A i \in DOMAIN lines : StampOf[lines[i].row] >= StampOf[x]
<1> DEFINE rows == Matching(device, strict)
<1>1. PICK s \in Newest(rows) :
        lines = [i \in DOMAIN s |-> [row |-> s[i], verdict |-> table[s[i]]]]
  BY DEF Answers
<1>2. rows \in SUBSET Row /\ \A x \in rows : table[x] \in Verdict
  BY DEF APITypeOK, Matching, RowsOf
<1>3. PICK n \in 0..Limit :
        /\ s \in [1..n -> rows]
        /\ \A x \in rows :
             \/ \E i \in 1..n : s[i] = x
             \/ n = Limit /\ \A i \in 1..n : StampOf[s[i]] >= StampOf[x]
  <2> HIDE DEF rows
  <2> QED  BY <1>1, <1>2, NewestProperties
<1> HIDE DEF rows
<1>4. /\ DOMAIN lines = 1..n
      /\ \A i \in 1..n : lines[i].row = s[i] /\ s[i] \in rows
      /\ lines \in [1..n -> Line]
  BY <1>1, <1>2, <1>3 DEF Line
<1>5. lines \in Lines /\ Len(lines) = n
  BY <1>4, LinesIntro
<1> QED  BY <1>3, <1>4, <1>5 DEF rows

----------------------------------------------------------------------------
(****************************************************************************)
(* Types                                                                    *)
(****************************************************************************)

\* A request for readings is made for a device, of someone logged in.
LEMMA FetchReadingsType ==
  ASSUME TypeOK, NEW device \in Device \cup {NoDevice}, NEW strict \in BOOLEAN,
         FetchReadings(device, strict)
  PROVE  \/ fetch' = fetch
         \/ \E f \in Fetch :
              /\ Sent(device, strict, session.token) \in UnderWay
              /\ fetch' = [fetch EXCEPT
                             ![f] = Sent(device, strict, session.token)]
<1>1. CASE device \in Device
  <2>1. session.token \in Token
    BY DEF TypeOK
  <2>2. Sent(device, strict, session.token) \in UnderWay
    BY <1>1, <2>1, NoLines
    DEF Sent, UnderWay, FetchStep, Status
  <2> QED  BY <2>2 DEF FetchReadings
<1>2. CASE device = NoDevice
  BY <1>2 DEF FetchReadings
<1> QED  BY <1>1, <1>2

\* A request under way has all its fields.
LEMMA BusyType ==
  ASSUME APITypeOK, NEW f \in Fetch, fetch[f].step # "free"
  PROVE  fetch[f] \in UnderWay
BY DEF APITypeOK, Free

\* The API keeps the types of the requests.
LEMMA APITypeStep ==
  ASSUME APITypeOK, NEW f \in Fetch,
         Reject(f) \/ SelectRows(f) \/ CountHidden(f) \/ Break(f)
  PROVE  APITypeOK'
<1>1. fetch[f] \in UnderWay
  BY BusyType DEF Reject, SelectRows, CountHidden, Break
<1>2. /\ fetch \in [Fetch -> UnderWay \cup {Free}]
      /\ {"answered", "counting"} \subseteq FetchStep
      /\ {"error", "broken"} \subseteq Status
  BY DEF APITypeOK, FetchStep, Status
<1>3. faults' \in 0..MaxFaults
  <2>1. \/ faults' = faults
        \/ faults < MaxFaults /\ faults' = faults + 1
    BY DEF Reject, SelectRows, CountHidden, Break
  <2> QED  BY <2>1, APIAssumption DEF APITypeOK
<1>4. fetch' \in [Fetch -> UnderWay \cup {Free}]
  <2>1. CASE Reject(f)
    <3>1. [fetch[f] EXCEPT !.step = "answered", !.status = "error"] \in UnderWay
      BY <1>1, <1>2 DEF UnderWay
    <3> QED  BY <1>2, <2>1, <3>1 DEF Reject
  <2>2. CASE SelectRows(f)
    <3>1. PICK lines \in Answers(fetch[f].device, fetch[f].strict) :
            fetch' = [fetch EXCEPT
              ![f].step = IF fetch[f].strict THEN "counting" ELSE "answered",
              ![f].rows = lines, ![f].steady = RowsOf(fetch[f].device)]
      BY <2>2 DEF SelectRows
    <3>2. lines \in Lines
      <4>1. fetch[f].strict \in BOOLEAN
        BY <1>1 DEF UnderWay
      <4> QED  BY <3>1, <4>1, AnswersProperties
    <3>3. RowsOf(fetch[f].device) \in SUBSET Row
      BY DEF RowsOf
    <3>4. [fetch[f] EXCEPT
             !.step = IF fetch[f].strict THEN "counting" ELSE "answered",
             !.rows = lines, !.steady = RowsOf(fetch[f].device)] \in UnderWay
      BY <1>1, <1>2, <3>2, <3>3 DEF UnderWay
    <3> QED  BY <1>2, <3>1, <3>4
  <2>3. CASE CountHidden(f)
    <3>1. HiddenRows(fetch[f].device) \in SUBSET Row
      BY DEF HiddenRows, RowsOf
    <3>2. [fetch[f] EXCEPT !.step = "answered",
                           !.hidden = HiddenRows(fetch[f].device)] \in UnderWay
      BY <1>1, <1>2, <3>1 DEF UnderWay
    <3> QED  BY <1>2, <2>3, <3>2 DEF CountHidden
  <2>4. CASE Break(f)
    <3>1. [fetch[f] EXCEPT !.step = "answered", !.status = "broken"] \in UnderWay
      BY <1>1, <1>2 DEF UnderWay
    <3> QED  BY <1>2, <2>4, <3>1 DEF Break
  <2> QED  BY <2>1, <2>2, <2>3, <2>4
<1> QED
  BY <1>3, <1>4 DEF APITypeOK, Reject, SelectRows, CountHidden, Break

\* So does the pipeline, when it writes rows.
LEMMA PipelineTypeStep ==
  ASSUME APITypeOK, NEW x \in Row, PipelineWrites(x)
  PROVE  APITypeOK'
<1>1. table' \in [Row -> Verdict \cup {"absent"}]
  <2>1. CASE Insert(x)
    BY <2>1 DEF Insert, APITypeOK, Verdict, Hidden
  <2>2. CASE \E verdict \in Verdict \ {"pending"} : Update(x, verdict)
    BY <2>2 DEF Update, APITypeOK
  <2> QED  BY <2>1, <2>2 DEF PipelineWrites, Write
<1>2. fetch' \in [Fetch -> UnderWay \cup {Free}]
  <2>1. ASSUME NEW f \in Fetch, fetch[f].step # "free"
        PROVE  [fetch[f] EXCEPT !.steady = {y \in @ : table'[y] = table[y]}]
                 \in UnderWay
    <3>1. fetch[f] \in UnderWay
      BY <2>1, BusyType
    <3>2. {y \in fetch[f].steady : table'[y] = table[y]} \in SUBSET Row
      BY <3>1 DEF UnderWay
    <3> QED  BY <3>1, <3>2 DEF UnderWay
  <2> QED  BY <2>1 DEF PipelineWrites
<1>3. writes' \in 0..MaxWrites /\ faults' = faults
  BY APIAssumption DEF PipelineWrites, APITypeOK
<1> QED  BY <1>1, <1>2, <1>3 DEF APITypeOK

\* A handler of the page only asks, forgets requests, or marks them expired.
LEMMA PageFetchType ==
  ASSUME TypeOK, UNCHANGED <<table, writes, faults>>,
         \/ \E device \in Device \cup {NoDevice}, strict \in BOOLEAN :
              FetchReadings(device, strict)
         \/ \E f \in Fetch : fetch' = [fetch EXCEPT ![f] = Free]
         \/ fetch' = [f \in Fetch |-> Free]
         \/ Expire
  PROVE  APITypeOK'
<1>1. fetch \in [Fetch -> UnderWay \cup {Free}]
  BY DEF TypeOK, APITypeOK
<1>2. fetch' \in [Fetch -> UnderWay \cup {Free}]
  <2>1. ASSUME NEW device \in Device \cup {NoDevice}, NEW strict \in BOOLEAN,
               FetchReadings(device, strict)
        PROVE  fetch' \in [Fetch -> UnderWay \cup {Free}]
    BY <1>1, <2>1, FetchReadingsType
  <2>2. CASE Expire
    <3>1. ASSUME NEW f \in Fetch, fetch[f].step = "sent"
          PROVE  [fetch[f] EXCEPT !.token = "expired"] \in UnderWay
      <4>1. fetch[f] \in UnderWay
        BY <3>1, BusyType DEF TypeOK
      <4> QED  BY <4>1 DEF UnderWay, Token
    <3> QED  BY <1>1, <2>2, <3>1 DEF Expire
  <2> QED  BY <1>1, <2>1, <2>2
<1> QED  BY <1>2 DEF TypeOK, APITypeOK

\* Rendering lines gives a screen, with a cell in each row or none.
LEMMA RenderedType ==
  ASSUME TypeOK, NEW rows \in Lines,
         NEW banner \in {"hidden", "forensic", "clean", "warn"}
  PROVE  Rendered(rows, banner) \in Screen
<1>1. /\ DOMAIN rows = 1..Len(rows) /\ Len(rows) \in 0..Limit
  BY LinesProperties
<1>2. [i \in DOMAIN rows |-> {}] \in UNION {[1..n -> SUBSET Row] : n \in 0..Limit}
  BY <1>1
<1>3. <<>> \in UNION {[1..n -> SUBSET Row] : n \in 0..Limit}
  <2>1. 0 \in 0..Limit /\ <<>> \in [1..0 -> SUBSET Row]
    BY APIAssumption
  <2> QED  BY <2>1
<1>4. session.hash \in BOOLEAN
  BY DEF TypeOK
<1> QED  BY <1>2, <1>3, <1>4 DEF Rendered, Screen

\* A cell that is there takes the row of a check.
LEMMA CellType ==
  ASSUME screen \in Screen, NEW i \in DOMAIN screen.cells,
         NEW rows \in SUBSET Row
  PROVE  /\ [screen EXCEPT !.cells[i] = rows] \in Screen
         /\ i \in 0..Limit
<1>1. PICK n \in 0..Limit : screen.cells \in [1..n -> SUBSET Row]
  BY DEF Screen
<1>2. n \in Nat
  BY APIAssumption
<1>3. [screen.cells EXCEPT ![i] = rows] \in [1..n -> SUBSET Row]
  BY <1>1
<1>4. [screen.cells EXCEPT ![i] = rows]
        \in UNION {[1..m -> SUBSET Row] : m \in 0..Limit}
  BY <1>3
<1>5. [screen EXCEPT !.cells[i] = rows]
        = [screen EXCEPT !.cells = [screen.cells EXCEPT ![i] = rows]]
  OBVIOUS
<1>6. [screen EXCEPT !.cells = [screen.cells EXCEPT ![i] = rows]] \in Screen
  BY <1>4 DEF Screen
<1>7. i \in 0..Limit
  BY <1>1, <1>2, APIAssumption
<1> QED  BY <1>5, <1>6, <1>7

\* The steps of the page that set a cell: the user asks about a row, the loop
\* asks about one of LAST_ROWS, or an answer comes.
SetsCell ==
  \/ \E c \in Clicked, i \in DOMAIN screen.cells : ClickVerify(c, i)
  \/ NextRow
  \/ \E c \in Check : CheckAnswered(c)

\* What setting a cell comes to: at most one cell is on the page for one check,
\* and takes its row, or the check is over.
LEMMA SetsCellStep ==
  ASSUME IInv, SetsCell
  PROVE  /\ UNCHANGED <<apiVars, session, lastRows>>
         /\ \/ UNCHANGED <<screen, check>>
            \/ \E c \in Check, i \in DOMAIN screen.cells :
                 /\ check' = [check EXCEPT
                       ![c] = [row |-> {screen.rows[i].row}, cell |-> i]]
                 /\ screen' = [screen EXCEPT !.cells[i] = {screen.rows[i].row}]
            \/ \E c \in Check :
                 /\ check' = [check EXCEPT ![c] = NoCheck]
                 /\ \/ UNCHANGED screen
                    \/ \E i \in DOMAIN screen.cells :
                         screen' = [screen EXCEPT
                                      !.cells[i] = {screen.rows[i].row}]
<1>1. CASE \E c \in Clicked, i \in DOMAIN screen.cells : ClickVerify(c, i)
  <2>1. Clicked \subseteq Check
    BY DEF Check
  <2> QED  BY <1>1, <2>1 DEF ClickVerify
<1>2. CASE NextRow
  <2>1. CASE \/ loop.next > Len(lastRows)
             \/ loop.next \notin DOMAIN screen.cells
    BY <1>2, <2>1 DEF NextRow
  <2>2. CASE /\ ~(loop.next > Len(lastRows))
             /\ loop.next \in DOMAIN screen.cells
    <3>1. loop.next \in DOMAIN screen.rows
      BY <2>2 DEF IInv, CellsBelongToRows
    <3>2. lastRows = screen.rows
      <4>1. screen.rows # <<>>
        BY <3>1
      <4>2. lastRows # <<>>
        <5>1. Len(<<>>) = 0 /\ loop.next \in Nat \ {0}
          BY APIAssumption DEF IInv, TypeOK
        <5> QED  BY <2>2, <5>1
      <4> QED  BY <4>1, <4>2 DEF IInv, LastRowsAreShown
    <3>3. Ask("all", loop.next) /\ UNCHANGED <<apiVars, session, lastRows>>
      BY <1>2, <2>2 DEF NextRow
    <3>4. "all" \in Check
      BY DEF Check
    <3> QED  BY <2>2, <3>2, <3>3, <3>4 DEF Ask
  <2> QED  BY <2>1, <2>2
<1>3. ASSUME NEW c \in Check, CheckAnswered(c)
      PROVE  /\ UNCHANGED <<apiVars, session, lastRows>>
             /\ check' = [check EXCEPT ![c] = NoCheck]
             /\ \/ UNCHANGED screen
                \/ \E i \in DOMAIN screen.cells :
                     screen' = [screen EXCEPT
                                  !.cells[i] = {screen.rows[i].row}]
  BY <1>3 DEF CheckAnswered, IInv, ChecksBelongToCells
<1> QED  BY <1>1, <1>2, <1>3 DEF SetsCell

\* What a step may do to the page: show lines and detach all checks, be loaded
\* again, forget LAST_ROWS, set a cell, or nothing.
LEMMA PageSteps ==
  ASSUME [Next]_vars
  PROVE  \/ UNCHANGED <<lastRows, screen, check>>
         \/ \E f \in Fetch : Deliver(f)
         \/ Reload
         \/ lastRows' = <<>> /\ UNCHANGED <<screen, check>>
         \/ SetsCell
BY DEF Next, UserStep, Login, Logout, SelectDevice, ToggleLive, ToggleMode,
       ToggleHash, ClickVerifyAll, APIStep, PageStep, Tick, Expire, SetsCell,
       consoleVars, vars

\* What is on the page keeps its type.
LEMMA ScreenTypeStep ==
  ASSUME IInv, [Next]_vars
  PROVE  /\ lastRows' \in Lines
         /\ screen' \in Screen
         /\ check' \in [Check -> [row : SUBSET Row, cell : 0..Limit]]
<1> DEFINE Checks == [Check -> [row : SUBSET Row, cell : 0..Limit]]
<1>1. lastRows \in Lines /\ screen \in Screen /\ check \in Checks /\ TypeOK
  BY DEF IInv, TypeOK
<1>2. NoCheck \in [row : SUBSET Row, cell : 0..Limit]
  BY APIAssumption DEF NoCheck
<1>3. ASSUME NEW f \in Fetch, Deliver(f)
      PROVE  lastRows' \in Lines /\ screen' \in Screen /\ check' \in Checks
  <2>1. fetch[f].rows \in Lines
    <3>1. fetch[f] \in UnderWay
      BY <1>1, <1>3, BusyType DEF Deliver, TypeOK
    <3> QED  BY <3>1 DEF UnderWay
  <2>2. screen.banner \in {"hidden", "forensic", "clean", "warn"}
    BY <1>1 DEF Screen
  <2>3. BannerFor(fetch[f].hidden) \in {"hidden", "forensic", "clean", "warn"}
    BY DEF BannerFor
  <2>4. lastRows' \in Lines /\ screen' \in Screen
    BY <1>1, <1>3, <2>1, <2>2, <2>3, NoLines, RenderedType DEF Deliver
  <2>5. check' \in Checks
    <3>1. 0 \in 0..Limit
      BY APIAssumption
    <3>2. ASSUME NEW c \in Check
          PROVE  [check[c] EXCEPT !.cell = 0] \in [row : SUBSET Row, cell : 0..Limit]
      BY <1>1, <3>1
    <3> QED  BY <1>3, <3>2 DEF Deliver, Detached
  <2> QED  BY <2>4, <2>5
<1>4. Blank \in Screen
  <2>1. 0 \in 0..Limit /\ <<>> \in [1..0 -> SUBSET Row]
    BY APIAssumption
  <2>2. <<>> \in UNION {[1..n -> SUBSET Row] : n \in 0..Limit}
    BY <2>1
  <2> QED  BY <2>2, NoLines DEF Blank, Screen
<1>5. CASE Reload
  BY <1>2, <1>4, <1>5, NoLines DEF Reload
<1>6. CASE SetsCell
  <2>1. ASSUME NEW i \in DOMAIN screen.cells
        PROVE  /\ {screen.rows[i].row} \in SUBSET Row
               /\ [screen EXCEPT !.cells[i] = {screen.rows[i].row}] \in Screen
               /\ i \in 0..Limit
    <3>1. i \in DOMAIN screen.rows /\ screen.rows \in Lines
      BY <1>1 DEF IInv, CellsBelongToRows, Screen
    <3>2. screen.rows[i].row \in Row
      BY <3>1, LinesProperties DEF Line
    <3> QED  BY <1>1, <3>2, CellType
  <2> HIDE DEF NoCheck
  <2>2. screen' \in Screen /\ lastRows' \in Lines
    BY <1>1, <1>6, <2>1, SetsCellStep
  <2>3. check' \in Checks
    BY <1>1, <1>2, <1>6, <2>1, SetsCellStep
  <2> QED  BY <2>2, <2>3
<1> QED  BY <1>1, <1>3, <1>5, <1>6, NoLines, PageSteps

----------------------------------------------------------------------------
(****************************************************************************)
(* The page                                                                 *)
(****************************************************************************)

\* Whatever is rendered, asked and answered in whatever order, LAST_ROWS, rows
\* and cells and the checks under way stay together.
LEMMA PageAgrees ==
  ASSUME IInv, [Next]_vars
  PROVE  LastRowsAreShown' /\ CellsBelongToRows' /\ ChecksBelongToCells'
<1> USE DEF LastRowsAreShown, CellsBelongToRows, ChecksBelongToCells
<1>1. /\ LastRowsAreShown /\ CellsBelongToRows /\ ChecksBelongToCells
      /\ screen \in Screen
      /\ check \in [Check -> [row : SUBSET Row, cell : 0..Limit]]
  BY DEF IInv, TypeOK
<1>2. CASE \/ UNCHANGED <<lastRows, screen, check>>
           \/ lastRows' = <<>> /\ UNCHANGED <<screen, check>>
  BY <1>1, <1>2
<1>3. ASSUME NEW f \in Fetch, Deliver(f)
      PROVE  LastRowsAreShown' /\ CellsBelongToRows' /\ ChecksBelongToCells'
  <2>1. \A c \in Check : check'[c].cell = 0
    BY <1>1, <1>3 DEF Deliver, Detached
  <2>2. \/ screen'.rows = <<>>
        \/ screen'.rows = lastRows'
    BY <1>3 DEF Deliver, Rendered
  <2>3. \A i \in DOMAIN screen'.cells : i \in DOMAIN screen'.rows /\ screen'.cells[i] = {}
    BY <1>3 DEF Deliver, Rendered
  <2> QED  BY <2>1, <2>2, <2>3
<1>4. CASE Reload
  BY <1>4 DEF Reload, Blank, NoCheck
<1>5. CASE SetsCell
  <2>1. ASSUME NEW i \in DOMAIN screen.cells,
               screen' = [screen EXCEPT !.cells[i] = {screen.rows[i].row}]
        PROVE  /\ screen'.rows = screen.rows
               /\ DOMAIN screen'.cells = DOMAIN screen.cells
               /\ CellsBelongToRows'
    <3>1. /\ screen'.rows = screen.rows
          /\ screen'.cells = [screen.cells EXCEPT ![i] = {screen.rows[i].row}]
      BY <1>1, <2>1 DEF Screen
    <3> QED  BY <1>1, <3>1
  <2>2. /\ screen'.rows = screen.rows
        /\ DOMAIN screen'.cells = DOMAIN screen.cells
        /\ CellsBelongToRows'
    BY <1>1, <1>5, <2>1, SetsCellStep
  <2>3. ChecksBelongToCells'
    <3> SUFFICES ASSUME NEW c \in Check, check'[c].cell # 0
                 PROVE  /\ check'[c].cell \in DOMAIN screen.cells
                        /\ check'[c].row = {screen.rows[check'[c].cell].row}
      BY <2>2
    <3>1. NoCheck.cell = 0
      BY DEF NoCheck
    <3>2. \/ check'[c] = check[c]
          \/ check'[c] = NoCheck
          \/ \E i \in DOMAIN screen.cells :
               check'[c] = [row |-> {screen.rows[i].row}, cell |-> i]
      <4> HIDE DEF NoCheck
      <4> QED  BY <1>1, <1>5, SetsCellStep
    <3>3. check'[c] = check[c] => check[c].cell # 0
      OBVIOUS
    <3>4. CASE check'[c] = check[c]
      BY <1>1, <3>3, <3>4
    <3>5. ASSUME NEW i \in DOMAIN screen.cells,
                 check'[c] = [row |-> {screen.rows[i].row}, cell |-> i]
          PROVE  /\ check'[c].cell \in DOMAIN screen.cells
                 /\ check'[c].row = {screen.rows[check'[c].cell].row}
      BY <3>5
    <3> QED  BY <3>1, <3>2, <3>4, <3>5
  <2>4. LastRowsAreShown'
    BY <1>1, <1>5, <2>2, SetsCellStep
  <2> QED  BY <2>2, <2>3, <2>4
<1> QED  BY <1>2, <1>3, <1>4, <1>5, PageSteps

----------------------------------------------------------------------------
(****************************************************************************)
(* The requests                                                             *)
(****************************************************************************)

\* What a step may do to the requests.
LEMMA FetchSteps ==
  ASSUME TypeOK, [Next]_vars
  PROVE  \/ \E f \in Fetch :
              Reject(f) \/ SelectRows(f) \/ CountHidden(f) \/ Break(f)
         \/ \E x \in Row : PipelineWrites(x)
         \/ /\ UNCHANGED <<table, writes, faults>>
            /\ \/ UNCHANGED fetch
               \/ \E device \in Device \cup {NoDevice}, strict \in BOOLEAN :
                    FetchReadings(device, strict)
               \/ \E f \in Fetch : fetch' = [fetch EXCEPT ![f] = Free]
               \/ fetch' = [f \in Fetch |-> Free]
               \/ Expire
<1>1. /\ session.device \in Device \cup {NoDevice}
      /\ session.strict \in BOOLEAN
  BY DEF TypeOK
<1>2. (~session.strict) \in BOOLEAN
  OBVIOUS
<1> QED
  BY <1>1, <1>2 DEF Next, UserStep, Login, Logout, Reload, SelectDevice, ToggleLive,
       ToggleMode, ToggleHash, ClickVerify, ClickVerifyAll, APIStep, PageStep,
       Deliver, Tick, Expire, NextRow, CheckAnswered, apiVars, vars

\* An answer knows the steady rows of its first query, and then of its second.
LEMMA APIKnows ==
  ASSUME APITypeOK, NEW f \in Fetch, RequestKnows(f),
         Reject(f) \/ SelectRows(f) \/ CountHidden(f) \/ Break(f)
  PROVE  RequestKnows(f)'
<1>1. fetch[f] \in UnderWay /\ fetch \in [Fetch -> UnderWay \cup {Free}]
  BY BusyType DEF Reject, SelectRows, CountHidden, Break, APITypeOK
<1>2. CASE Reject(f) \/ Break(f)
  <2>1. /\ fetch'[f].step = "answered"
        /\ fetch'[f].status \in {"error", "broken"}
    <3>1. \/ fetch' = [fetch EXCEPT ![f] = [fetch[f] EXCEPT
                         !.step = "answered", !.status = "error"]]
          \/ fetch' = [fetch EXCEPT ![f] = [fetch[f] EXCEPT
                         !.step = "answered", !.status = "broken"]]
      BY <1>2 DEF Reject, Break
    <3> QED  BY <1>1, <3>1 DEF UnderWay
  <2> QED  BY <2>1 DEF RequestKnows, Reading, Accounted
<1>3. CASE SelectRows(f)
  <2> DEFINE device == fetch[f].device
             strict == fetch[f].strict
  <2>1. PICK lines \in Answers(device, strict) :
          /\ UNCHANGED table
          /\ fetch' = [fetch EXCEPT ![f] = [fetch[f] EXCEPT
               !.step = IF strict THEN "counting" ELSE "answered",
               !.rows = lines, !.steady = RowsOf(device)]]
    BY <1>3 DEF SelectRows
  <2>2. /\ fetch'[f].step = IF strict THEN "counting" ELSE "answered"
        /\ fetch'[f].rows = lines /\ fetch'[f].steady = RowsOf(device)
        /\ fetch'[f].device = device /\ fetch'[f].strict = strict
    BY <1>1, <2>1 DEF UnderWay
  <2>3. CASE ~strict
    BY <2>2, <2>3 DEF RequestKnows, Reading, Accounted
  <2>4. CASE strict
    <3>1. strict = TRUE
      BY <1>1, <2>4 DEF UnderWay
    <3>2. /\ \A i \in DOMAIN lines : lines[i].row \in Matching(device, TRUE)
          /\ \A x \in Matching(device, TRUE) :
               \/ \E i \in DOMAIN lines : lines[i].row = x
               \/ /\ Len(lines) = Limit
                  /\ \A i \in DOMAIN lines : StampOf[lines[i].row] >= StampOf[x]
      <4>1. lines \in Answers(device, TRUE)
        BY <2>1, <3>1
      <4> HIDE DEF device, strict
      <4> QED  BY <4>1, AnswersProperties
    <3>3. SteadyRowsAreSeen(f)'
      BY <2>1, <2>2, <3>2
      DEF SteadyRowsAreSeen, Shows, FilledByNewer, Matching, RowsOf
    <3> QED  BY <2>2, <2>4, <3>3 DEF RequestKnows, Reading, Accounted
  <2> QED  BY <2>3, <2>4
<1>4. CASE CountHidden(f)
  <2> DEFINE device == fetch[f].device
  <2>1. /\ fetch[f].step = "counting" /\ UNCHANGED table
        /\ fetch' = [fetch EXCEPT ![f] = [fetch[f] EXCEPT
             !.step = "answered", !.hidden = HiddenRows(device)]]
    BY <1>4 DEF CountHidden
  <2>2. /\ fetch'[f].step = "answered" /\ fetch'[f].hidden = HiddenRows(device)
        /\ fetch'[f].device = device /\ fetch'[f].rows = fetch[f].rows
        /\ fetch'[f].steady = fetch[f].steady
    BY <1>1, <2>1 DEF UnderWay
  <2>3. SteadyRowsAreSeen(f)
    BY <2>1 DEF RequestKnows, Reading
  <2>4. SteadyRowsAreSeen(f)'
    BY <2>1, <2>2, <2>3 DEF SteadyRowsAreSeen, Shows, FilledByNewer, RowsOf
  <2>5. SteadyRowsAreCounted(f)'
    BY <2>1, <2>2, <2>3 DEF SteadyRowsAreSeen, SteadyRowsAreCounted, HiddenRows
  <2> QED  BY <2>2, <2>4, <2>5 DEF RequestKnows, Reading
<1> QED  BY <1>2, <1>3, <1>4

\* What is written is no longer steady, and the other rows are as they were.
LEMMA WriteKnows ==
  ASSUME APITypeOK, NEW f \in Fetch, RequestKnows(f),
         NEW x \in Row, PipelineWrites(x)
  PROVE  RequestKnows(f)'
<1>2. CASE fetch[f].step = "free"
  BY <1>2 DEF PipelineWrites, Free, RequestKnows, Reading, Accounted
<1>3. CASE fetch[f].step # "free"
  <2>1. fetch[f] \in UnderWay
    BY <1>3, BusyType
  <2>2. fetch'[f] = [fetch[f] EXCEPT
                       !.steady = {y \in @ : table'[y] = table[y]}]
    BY <1>3 DEF PipelineWrites
  <2>3. /\ fetch'[f].step = fetch[f].step /\ fetch'[f].status = fetch[f].status
        /\ fetch'[f].strict = fetch[f].strict /\ fetch'[f].rows = fetch[f].rows
        /\ fetch'[f].device = fetch[f].device /\ fetch'[f].hidden = fetch[f].hidden
        /\ fetch'[f].steady = {y \in fetch[f].steady : table'[y] = table[y]}
    BY <2>1, <2>2 DEF UnderWay
  <2>4. fetch[f].steady \in SUBSET Row
    BY <2>1 DEF UnderWay
  <2>5. SteadyRowsAreSeen(f) => SteadyRowsAreSeen(f)'
    BY <2>3, <2>4 DEF SteadyRowsAreSeen, Shows, FilledByNewer, RowsOf
  <2>6. SteadyRowsAreCounted(f) => SteadyRowsAreCounted(f)'
    BY <2>3, <2>4 DEF SteadyRowsAreCounted
  <2> QED  BY <2>3, <2>5, <2>6 DEF RequestKnows, Reading, Accounted
<1> QED  BY <1>2, <1>3

\* The page asks, forgets and lets tokens expire, but reads no rows itself.
LEMMA KnowsStep ==
  ASSUME TypeOK, NEW f \in Fetch, RequestKnows(f), [Next]_vars
  PROVE  RequestKnows(f)'
<1> DEFINE Same == fetch'[f] = fetch[f] /\ UNCHANGED table
           Idle == fetch'[f].step \in {"free", "sent"}
<1>1. Same => RequestKnows(f)'
  BY DEF RequestKnows, Reading, Accounted, SteadyRowsAreSeen, Shows,
         FilledByNewer, SteadyRowsAreCounted, RowsOf
<1>2. Idle => RequestKnows(f)'
  BY DEF RequestKnows, Reading, Accounted
<1>3. ASSUME NEW g \in Fetch,
             Reject(g) \/ SelectRows(g) \/ CountHidden(g) \/ Break(g)
      PROVE  RequestKnows(f)'
  <2>1. CASE g = f
    BY <1>3, <2>1, APIKnows DEF TypeOK
  <2>2. CASE g # f
    <3>1. Same
      <4>1. \E r : fetch' = [fetch EXCEPT ![g] = r]
        BY <1>3 DEF Reject, SelectRows, CountHidden, Break
      <4>2. UNCHANGED table
        BY <1>3 DEF Reject, SelectRows, CountHidden, Break
      <4> QED  BY <2>2, <4>1, <4>2 DEF TypeOK, APITypeOK
    <3> QED  BY <1>1, <3>1
  <2> QED  BY <2>1, <2>2
<1>4. ASSUME NEW x \in Row, PipelineWrites(x)
      PROVE  RequestKnows(f)'
  BY <1>4, WriteKnows DEF TypeOK
<1>5. ASSUME UNCHANGED table,
             \/ UNCHANGED fetch
             \/ \E device \in Device \cup {NoDevice}, strict \in BOOLEAN :
                  FetchReadings(device, strict)
             \/ \E g \in Fetch : fetch' = [fetch EXCEPT ![g] = Free]
             \/ fetch' = [g \in Fetch |-> Free]
             \/ Expire
      PROVE  RequestKnows(f)'
  <2>1. fetch \in [Fetch -> UnderWay \cup {Free}]
    BY DEF TypeOK, APITypeOK
  <2>2. ASSUME NEW device \in Device \cup {NoDevice}, NEW strict \in BOOLEAN,
               FetchReadings(device, strict)
        PROVE  Same \/ Idle
    BY <1>5, <2>1, <2>2 DEF FetchReadings, Sent
  <2>3. ASSUME Expire
        PROVE  Same \/ Idle
    <3>1. fetch[f].step = "sent" => fetch[f] \in UnderWay
      BY BusyType DEF TypeOK
    <3>2. fetch'[f] = IF fetch[f].step = "sent"
                      THEN [fetch[f] EXCEPT !.token = "expired"] ELSE fetch[f]
      BY <2>3 DEF Expire
    <3>3. CASE fetch[f].step = "sent"
      <4>1. [fetch[f] EXCEPT !.token = "expired"].step = "sent"
        BY <3>1, <3>3 DEF UnderWay
      <4> QED  BY <3>2, <3>3, <4>1
    <3> QED  BY <1>5, <3>2, <3>3
  <2>4. Free.step = "free"
    BY DEF Free
  <2> HIDE DEF Free
  <2>5. Same \/ Idle
    <3>1. CASE fetch' = [g \in Fetch |-> Free]
      BY <2>4, <3>1
    <3>2. CASE \E g \in Fetch : fetch' = [fetch EXCEPT ![g] = Free]
      BY <1>5, <2>1, <2>4, <3>2
    <3> QED  BY <1>5, <2>2, <2>3, <3>1, <3>2
  <2> QED  BY <1>1, <1>2, <2>5
<1> QED  BY <1>3, <1>4, <1>5, FetchSteps

----------------------------------------------------------------------------
(****************************************************************************)
(* The theorems                                                             *)
(****************************************************************************)

\* What the user and the loop keep, apart from the page.
LEMMA UserTypeStep ==
  ASSUME TypeOK, [Next]_vars
  PROVE  /\ session' \in [token : Token, device : Device \cup {NoDevice},
                          strict : BOOLEAN, live : BOOLEAN, hash : BOOLEAN]
         /\ loop' \in [on : BOOLEAN, next : 1..Limit + 1]
         /\ clicks' \in 0..MaxClicks
<1> DEFINE Sessions == [token : Token, device : Device \cup {NoDevice},
                        strict : BOOLEAN, live : BOOLEAN, hash : BOOLEAN]
           Loops == [on : BOOLEAN, next : 1..Limit + 1]
<1>1. /\ session \in Sessions /\ loop \in Loops /\ clicks \in 0..MaxClicks
      /\ lastRows \in Lines
  BY DEF TypeOK
<1>2. \A token \in Token : Opened(token) \in Sessions
  BY DEF Opened
<1>3. {"none", "valid", "expired"} \subseteq Token /\ session.token \in Token
  BY <1>1 DEF Token
<1>4. session' \in Sessions
  <2>1. CASE UserStep
    BY <1>1, <1>2, <1>3, <2>1
    DEF UserStep, Login, Logout, Reload, SelectDevice, ToggleLive, ToggleMode,
        ToggleHash, ClickVerify, ClickVerifyAll
  <2>2. CASE Expire
    BY <1>1, <1>3, <2>2 DEF Expire
  <2>3. UserStep \/ Expire \/ session' = session
    BY DEF Next, APIStep, PageStep, Deliver, Tick, NextRow, CheckAnswered,
           consoleVars, vars
  <2> QED  BY <1>1, <2>1, <2>2, <2>3
<1>5. loop' \in Loops
  <2>1. \/ loop' = loop
        \/ loop' = [on |-> FALSE, next |-> 1]
        \/ loop' = [on |-> TRUE, next |-> 1]
        \/ loop' = [loop EXCEPT !.on = FALSE]
        \/ ~(loop.next > Len(lastRows)) /\ loop' = [loop EXCEPT !.next = @ + 1]
    BY DEF Next, UserStep, Login, Logout, Reload, SelectDevice, ToggleLive,
           ToggleMode, ToggleHash, ClickVerify, ClickVerifyAll, APIStep,
           PageStep, Deliver, Tick, Expire, NextRow, CheckAnswered,
           consoleVars, vars
  <2>2. 1 \in 1..Limit + 1
    BY APIAssumption
  <2>3. ~(loop.next > Len(lastRows)) => loop.next + 1 \in 1..Limit + 1
    <3>1. Len(lastRows) \in 0..Limit
      BY <1>1, LinesProperties
    <3> QED  BY <1>1, <3>1, APIAssumption
  <2>4. CASE /\ ~(loop.next > Len(lastRows))
             /\ loop' = [loop EXCEPT !.next = @ + 1]
    BY <1>1, <2>3, <2>4
  <2>5. CASE loop' = [loop EXCEPT !.on = FALSE]
    BY <1>1, <2>5
  <2>6. [on |-> FALSE, next |-> 1] \in Loops /\ [on |-> TRUE, next |-> 1] \in Loops
    BY <2>2
  <2> QED  BY <1>1, <2>1, <2>4, <2>5, <2>6
<1>6. clicks' \in 0..MaxClicks
  <2>1. Click \/ clicks' = clicks
    BY DEF Next, UserStep, ClickVerify, APIStep, PageStep, Deliver, Tick, Expire,
           NextRow, CheckAnswered, consoleVars, vars
  <2> QED  BY <1>1, <2>1, ConsoleAssumption DEF Click
<1> QED  BY <1>4, <1>5, <1>6

\* Every variable of the API and of the page keeps its type.
LEMMA TypeStep ==
  ASSUME IInv, [Next]_vars
  PROVE  TypeOK'
<1>1. TypeOK
  BY DEF IInv
<1>2. APITypeOK'
  <2>1. APITypeOK
    BY <1>1 DEF TypeOK
  <2>2. CASE \E f \in Fetch :
               Reject(f) \/ SelectRows(f) \/ CountHidden(f) \/ Break(f)
    BY <2>1, <2>2, APITypeStep
  <2>3. CASE \E x \in Row : PipelineWrites(x)
    BY <2>1, <2>3, PipelineTypeStep
  <2>4. UNCHANGED <<table, writes, faults>> /\ UNCHANGED fetch => APITypeOK'
    BY <2>1 DEF APITypeOK
  <2> QED  BY <1>1, <2>2, <2>3, <2>4, PageFetchType, FetchSteps
<1> QED  BY <1>1, <1>2, ScreenTypeStep, UserTypeStep DEF TypeOK

\* The page that was just opened has no rows, requests or checks.
LEMMA InductiveInit == Init => IInv
<1> SUFFICES ASSUME Init
             PROVE  IInv
  OBVIOUS
<1>1. APITypeOK
  <2>1. 0 \in 0..MaxWrites /\ 0 \in 0..MaxFaults
    BY APIAssumption
  <2> QED  BY <2>1, ConsoleAssumption DEF Init, APITypeOK
<1>2. /\ screen \in Screen
      /\ screen.rows = <<>> /\ screen.cells = <<>>
  <2>1. 0 \in 0..Limit /\ <<>> \in [1..0 -> SUBSET Row]
    BY APIAssumption
  <2>2. <<>> \in UNION {[1..n -> SUBSET Row] : n \in 0..Limit}
    BY <2>1
  <2> QED  BY <2>2, NoLines DEF Init, Blank, Screen
<1>3. /\ check \in [Check -> [row : SUBSET Row, cell : 0..Limit]]
      /\ \A c \in Check : check[c].cell = 0
  BY APIAssumption DEF Init, NoCheck
<1>4. TypeOK
  <2>1. \A token \in Token :
          Opened(token) \in [token : Token, device : Device \cup {NoDevice},
                             strict : BOOLEAN, live : BOOLEAN, hash : BOOLEAN]
    BY DEF Opened
  <2>2. 1 \in 1..Limit + 1 /\ 0 \in 0..MaxClicks
    BY APIAssumption, ConsoleAssumption
  <2> QED  BY <1>1, <1>2, <1>3, <2>1, <2>2, NoLines DEF Init, TypeOK
<1>5. \A f \in Fetch : RequestKnows(f)
  BY DEF Init, Free, RequestKnows, Reading, Accounted
<1> QED
  BY <1>2, <1>3, <1>4, <1>5
  DEF IInv, LastRowsAreShown, CellsBelongToRows, ChecksBelongToCells

\* What requests, cells and checks know of the table and of one another holds
\* in every reachable state.
THEOREM Inductive == Spec => []IInv
<1>1. IInv /\ [Next]_vars => IInv'
  <2> SUFFICES ASSUME IInv, [Next]_vars
               PROVE  IInv'
    OBVIOUS
  <2>1. \A f \in Fetch : RequestKnows(f)'
    BY KnowsStep DEF IInv
  <2> QED  BY <2>1, TypeStep, PageAgrees DEF IInv
<1> QED  BY <1>1, InductiveInit, PTL DEF Spec

\* Every variable of the API and of the page keeps its type, for any number of
\* rows, requests and clicks, and any limit.
THEOREM TypeCorrect == Spec => []TypeOK
<1>1. IInv => TypeOK
  BY DEF IInv
<1> QED  BY <1>1, Inductive, PTL

\* An answer in strict mode accounts for every row that nobody wrote between
\* its two queries, however many there are and wherever LIMIT cuts.
THEOREM AnswersAccount == Spec => []AnswersAccountForRows
<1>1. IInv => AnswersAccountForRows
  <2> SUFFICES ASSUME IInv, NEW f \in Fetch, Accounted(f),
                      NEW x \in fetch[f].steady
               PROVE  IF table[x] = "intact"
                        THEN /\ x \notin fetch[f].hidden
                             /\ Shows(f, x) \/ FilledByNewer(f, x)
                        ELSE x \in fetch[f].hidden /\ ~Shows(f, x)
    BY DEF AnswersAccountForRows, Accounted
  <2>1. SteadyRowsAreSeen(f) /\ SteadyRowsAreCounted(f)
    BY DEF IInv, RequestKnows
  <2> QED
    BY <2>1 DEF SteadyRowsAreSeen, SteadyRowsAreCounted
<1> QED  BY <1>1, Inductive, PTL

\* The outcome of a manual check is shown next to the reading it is about, in
\* whatever order the page asks, renders and is answered.
THEOREM OutcomesBelong == Spec => []OutcomesBelongToRows
<1>1. IInv => OutcomesBelongToRows
  BY DEF IInv, CellsBelongToRows, OutcomesBelongToRows
<1> QED  BY <1>1, Inductive, PTL
=============================================================================
