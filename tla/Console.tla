-------------------------------- MODULE Console -------------------------------
(****************************************************************************)
(* The integrity console (dashboard/index.html): one page in a browser,     *)
(* whose handlers run one at a time but whose requests are answered later,  *)
(* in any order, after the user has clicked on.  What is on screen is the   *)
(* work of whichever answer came last.                                      *)
(****************************************************************************)
EXTENDS IntegrityAPI

CONSTANTS
  NoDevice,    \* the empty SELECTED_DEVICE
  Clicked,     \* bound: as many checks the user asked for are under way at most
  Stored,      \* the verdicts in the table when the page is opened
  MaxClicks    \* bound: how often the user does anything but ask for a check

ASSUME ConsoleAssumption ==
  /\ NoDevice \notin Device
  /\ "all" \notin Clicked
  /\ Stored \in [Row -> Verdict \cup {"absent"}]
  /\ MaxClicks \in Nat

VARIABLES
  session,     \* TOKEN, SELECTED_DEVICE, STRICT, LIVE and SHOW_HASH
  lastRows,    \* LAST_ROWS
  screen,      \* the banner, and the rows and verify cells of readingsArea
  check,       \* the manual checks under way
  loop,        \* the loop of verifyAll
  clicks       \* how often the user has done anything but ask for a check

consoleVars == <<session, lastRows, screen, check, loop, clicks>>
vars == <<apiVars, consoleVars>>

\* The checks the user asked for on single rows, and the one verifyAll awaits.
Check == Clicked \cup {"all"}

\* A cell holds nothing but its button, or the outcome of a check of a row.
Screen ==
  [area : {"message", "rows"}, rows : Lines,
   cells : UNION {[1..n -> SUBSET Row] : n \in 0..Limit},
   banner : {"hidden", "forensic", "clean", "warn"}]

TypeOK ==
  /\ APITypeOK
  /\ session \in [token : Token, device : Device \cup {NoDevice},
                  strict : BOOLEAN, live : BOOLEAN, hash : BOOLEAN]
  /\ lastRows \in Lines
  /\ screen \in Screen
  /\ check \in [Check -> [row : SUBSET Row, cell : 0..Limit]]
  /\ loop \in [on : BOOLEAN, next : 1..Limit + 1]
  /\ clicks \in 0..MaxClicks

\* A check asks about one row, or is not under way.  Its cell is 0 when the
\* cell it was asked from is no longer on the page.
NoCheck == [row |-> {}, cell |-> 0]

\* The page as the browser loads it, with the token of localStorage.
Opened(token) ==
  [token |-> token, device |-> NoDevice, strict |-> TRUE, live |-> FALSE,
   hash |-> FALSE]

Blank == [area |-> "message", rows |-> <<>>, cells |-> <<>>, banner |-> "hidden"]

Init ==
  /\ table = Stored
  /\ fetch = [f \in Fetch |-> Free]
  /\ writes = 0
  /\ faults = 0
  /\ session \in {Opened(token) : token \in Token}
  /\ lastRows = <<>>
  /\ screen = Blank
  /\ check = [c \in Check |-> NoCheck]
  /\ loop = [on |-> FALSE, next |-> 1]
  /\ clicks = 0

----------------------------------------------------------------------------
(****************************************************************************)
(* Readings                                                                 *)
(****************************************************************************)

\* fetchReadings: nothing without a token or a device, else a request.
FetchReadings(device, strict) ==
  IF session.token = "none" \/ device = NoDevice
    THEN UNCHANGED fetch
    ELSE \E f \in Fetch :
           /\ fetch[f].step = "free"
           /\ fetch' = [fetch EXCEPT ![f] = Sent(device, strict, session.token)]

\* renderBanner goes by the mode of the moment and the summary of the answer.
BannerFor(hidden) ==
  IF ~session.strict THEN "forensic"
  ELSE IF hidden = {} THEN "clean" ELSE "warn"

\* renderTable, with a cell in each row when hashes are shown.
Rendered(rows, banner) ==
  [area |-> IF rows = <<>> THEN "message" ELSE "rows", rows |-> rows,
   cells |-> IF session.hash THEN [i \in DOMAIN rows |-> {}] ELSE <<>>,
   banner |-> banner]

\* Mutant: verifyRow looks its cell up by number when the answer is there.
Mutant_StillAttached == check

\* innerHTML is assigned: the cells of the checks under way leave the page,
\* and their answers are written where no one sees them.
Detached == [c \in Check |-> [check[c] EXCEPT !.cell = 0]]

\* The answer to a request reaches the page, whatever has been selected since.
Deliver(f) ==
  /\ fetch[f].step = "answered"
  /\ IF fetch[f].status = "broken"
       THEN /\ screen' = Rendered(<<>>, screen.banner)
            /\ UNCHANGED lastRows
       ELSE /\ screen' = Rendered(fetch[f].rows, BannerFor(fetch[f].hidden))
            /\ lastRows' = fetch[f].rows
  /\ check' = Detached
  /\ fetch' = [fetch EXCEPT ![f] = Free]
  /\ UNCHANGED <<table, writes, faults, session, loop, clicks>>

\* Mutant: an empty table of readings is not refreshed.
Mutant_TickUnlessEmpty ==
  /\ session.live /\ lastRows # <<>>
  /\ FetchReadings(session.device, session.strict)
  /\ UNCHANGED <<table, writes, faults, consoleVars>>

\* The timer, which is set exactly while LIVE is, asks again.
Tick ==
  /\ session.live
  /\ FetchReadings(session.device, session.strict)
  /\ UNCHANGED <<table, writes, faults, consoleVars>>

\* The token's hour is over, for the requests on their way too.
Expire ==
  /\ session.token = "valid"
  /\ session' = [session EXCEPT !.token = "expired"]
  /\ fetch' = [f \in Fetch |->
                 IF fetch[f].step = "sent"
                   THEN [fetch[f] EXCEPT !.token = "expired"] ELSE fetch[f]]
  /\ UNCHANGED <<table, writes, faults, lastRows, screen, check, loop, clicks>>

----------------------------------------------------------------------------
(****************************************************************************)
(* Manual checks                                                            *)
(****************************************************************************)

\* verifyRow for row i of LAST_ROWS, up to the await: the cell says that the
\* check is under way.
Ask(c, i) ==
  /\ check' = [check EXCEPT ![c] = [row |-> {lastRows[i].row}, cell |-> i]]
  /\ screen' = [screen EXCEPT !.cells[i] = {lastRows[i].row}]

\* Mutant: verifyRow does not look whether its cell is there, and the
\* exception leaves verifyAll with its button disabled.
Mutant_NextRowNeedsCell ==
  /\ loop.on /\ check["all"] = NoCheck
  /\ IF loop.next > Len(lastRows)
       THEN /\ loop' = [loop EXCEPT !.on = FALSE]
            /\ UNCHANGED <<screen, check>>
       ELSE /\ loop' = [loop EXCEPT !.next = @ + 1]
            /\ loop.next \in DOMAIN screen.cells
            /\ Ask("all", loop.next)
  /\ UNCHANGED <<apiVars, session, lastRows, clicks>>

\* verifyAll goes on to the next of the rows there are now, or ends.  Without
\* a cell, verifyRow returns at once.
NextRow ==
  /\ loop.on /\ check["all"] = NoCheck
  /\ IF loop.next > Len(lastRows)
       THEN /\ loop' = [loop EXCEPT !.on = FALSE]
            /\ UNCHANGED <<screen, check>>
       ELSE /\ loop' = [loop EXCEPT !.next = @ + 1]
            /\ IF loop.next \in DOMAIN screen.cells
                 THEN Ask("all", loop.next)
                 ELSE UNCHANGED <<screen, check>>
  /\ UNCHANGED <<apiVars, session, lastRows, clicks>>

\* The answer of /verify, an error or an exception is written into the cell
\* that verifyRow holds.
CheckAnswered(c) ==
  /\ check[c].row # {}
  /\ screen' = IF check[c].cell = 0 THEN screen
               ELSE [screen EXCEPT !.cells[check[c].cell] = check[c].row]
  /\ check' = [check EXCEPT ![c] = NoCheck]
  /\ UNCHANGED <<apiVars, session, lastRows, loop, clicks>>

----------------------------------------------------------------------------
(****************************************************************************)
(* The user                                                                 *)
(****************************************************************************)

Click == clicks < MaxClicks /\ clicks' = clicks + 1

LoggedIn == session.token # "none"

Login ==
  /\ ~LoggedIn
  /\ session' = [session EXCEPT !.token = "valid"]
  /\ UNCHANGED <<apiVars, lastRows, screen, check, loop>>

\* Variables and timer are reset; what readingsArea shows is only hidden, and
\* requests and checks go on.
Logout ==
  /\ LoggedIn
  /\ session' = Opened("none")
  /\ lastRows' = <<>>
  /\ UNCHANGED <<apiVars, screen, check, loop>>

\* The page is loaded again: init, with the token that was saved.
Reload ==
  /\ session' = Opened(session.token)
  /\ lastRows' = <<>>
  /\ screen' = Blank
  /\ check' = [c \in Check |-> NoCheck]
  /\ loop' = [on |-> FALSE, next |-> 1]
  /\ fetch' = [f \in Fetch |-> Free]
  /\ UNCHANGED <<table, writes, faults>>

\* The list of devices holds those with readings.
SelectDevice(device) ==
  /\ LoggedIn /\ RowsOf(device) # {}
  /\ session' = [session EXCEPT !.device = device]
  /\ FetchReadings(device, session.strict)
  /\ UNCHANGED <<table, writes, faults, lastRows, screen, check, loop>>

ToggleLive ==
  /\ LoggedIn
  /\ session' = [session EXCEPT !.live = ~@]
  /\ UNCHANGED <<apiVars, lastRows, screen, check, loop>>

ToggleMode ==
  /\ LoggedIn
  /\ session' = [session EXCEPT !.strict = ~@]
  /\ FetchReadings(session.device, ~session.strict)
  /\ UNCHANGED <<table, writes, faults, lastRows, screen, check, loop>>

ToggleHash ==
  /\ LoggedIn
  /\ session' = [session EXCEPT !.hash = ~@]
  /\ FetchReadings(session.device, session.strict)
  /\ UNCHANGED <<table, writes, faults, lastRows, screen, check, loop>>

\* A click on the button in cell i, whatever other checks are under way.
ClickVerify(c, i) ==
  /\ LoggedIn /\ check[c] = NoCheck
  /\ screen.cells[i] = {}
  /\ check' = [check EXCEPT ![c] = [row |-> {screen.rows[i].row}, cell |-> i]]
  /\ screen' = [screen EXCEPT !.cells[i] = {screen.rows[i].row}]
  /\ UNCHANGED <<apiVars, session, lastRows, loop, clicks>>

\* The button is shown with the hashes and disabled while the loop runs.
ClickVerifyAll ==
  /\ LoggedIn /\ session.hash /\ ~loop.on
  /\ lastRows # <<>>
  /\ loop' = [on |-> TRUE, next |-> 1]
  /\ UNCHANGED <<apiVars, session, lastRows, screen, check>>

UserStep ==
  \/ /\ Click
     /\ \/ Login
        \/ Logout
        \/ Reload
        \/ \E device \in Device : SelectDevice(device)
        \/ ToggleLive
        \/ ToggleMode
        \/ ToggleHash
        \/ ClickVerifyAll
  \/ \E c \in Clicked, i \in DOMAIN screen.cells : ClickVerify(c, i)

APIStep ==
  /\ \/ \E f \in Fetch : Reject(f) \/ SelectRows(f) \/ CountHidden(f) \/ Break(f)
     \/ \E x \in Row : PipelineWrites(x)
  /\ UNCHANGED consoleVars

PageStep ==
  \/ \E f \in Fetch : Deliver(f)
  \/ Tick
  \/ Expire
  \/ NextRow
  \/ \E c \in Check : CheckAnswered(c)

Next == UserStep \/ APIStep \/ PageStep

Spec == Init /\ [][Next]_vars

----------------------------------------------------------------------------
(****************************************************************************)
(* Fairness.  The API answers or the connection breaks, so every await of   *)
(* the page ends, and browsers run timers and the continuations of handlers.*)
(* The user, the pipeline, the expiry and the failures need not happen.     *)
(****************************************************************************)
Proceeds(f) ==
  \/ (Reject(f) \/ SelectRows(f) \/ CountHidden(f)) /\ UNCHANGED consoleVars
  \/ Deliver(f)

Fairness ==
  /\ \A f \in Fetch : WF_vars(Proceeds(f))
  /\ \A c \in Check : WF_vars(CheckAnswered(c))
  /\ WF_vars(NextRow)
  /\ WF_vars(Tick)

FairSpec == Spec /\ Fairness

----------------------------------------------------------------------------
(****************************************************************************)
(* Properties                                                               *)
(****************************************************************************)

\* What a verify cell says is about the reading in its row -- the device and
\* ts that /verify was asked for (index.html, 727-748) -- although other rows
\* may have been rendered between the question and the answer, and verifyAll
\* takes its rows from LAST_ROWS and its cells from the page.
OutcomesBelongToRows ==
  \A i \in DOMAIN screen.cells :
    \A x \in screen.cells[i] :
      /\ DeviceOf[x] = DeviceOf[screen.rows[i].row]
      /\ StampOf[x] = StampOf[screen.rows[i].row]

\* The page shows what the API would answer for the device and mode selected.
ViewIsCurrent ==
  /\ screen.rows \in Answers(session.device, session.strict)
  /\ screen.banner = BannerFor(HiddenRows(session.device))

\* LIVE makes up for answers that came late, out of order or not at all
\* (index.html, 764-771): once the user and the pipeline come to rest with
\* LIVE on, a device selected and a token that is still good, the page
\* comes to show the current answer and keeps showing it.
LiveViewConverges ==
  <>[](session.live /\ session.token = "valid" /\ session.device # NoDevice
         => ViewIsCurrent)

\* verifyAll ends and its button is enabled again (index.html, 750-762),
\* whatever the rows, the hashes and the answers do meanwhile.
VerifyAllEnds == loop.on ~> ~loop.on

\* The promise of the banner, "all rows intact.", and of "Switch back to
\* strict for a safe view." (index.html, 672-693): once every answer has
\* come, no one who is logged in sees a row with another verdict next to the clean
\* banner.
CleanBannerIsTrue ==
  /\ LoggedIn
  /\ \A f \in Fetch : fetch[f].step = "free"
  /\ screen.banner = "clean"
  => \A i \in DOMAIN screen.rows : screen.rows[i].verdict = "intact"

----------------------------------------------------------------------------
(****************************************************************************)
(* The inductive invariant behind OutcomesBelongToRows                      *)
(****************************************************************************)

\* LAST_ROWS and the page part only when one of them is empty: after a logout,
\* or when the last answer was no JSON.
LastRowsAreShown ==
  \/ lastRows = <<>>
  \/ screen.rows = <<>>
  \/ lastRows = screen.rows

\* A cell shows an outcome of the reading in its row, or none.
CellsBelongToRows ==
  \A i \in DOMAIN screen.cells :
    /\ i \in DOMAIN screen.rows
    /\ screen.cells[i] \subseteq {screen.rows[i].row}

\* A check whose cell is on the page asked about the reading in its row.
ChecksBelongToCells ==
  \A c \in Check :
    check[c].cell # 0 =>
      /\ check[c].cell \in DOMAIN screen.cells
      /\ check[c].row = {screen.rows[check[c].cell].row}

IInv ==
  /\ TypeOK
  /\ \A f \in Fetch : RequestKnows(f)
  /\ LastRowsAreShown
  /\ CellsBelongToRows
  /\ ChecksBelongToCells
=============================================================================
