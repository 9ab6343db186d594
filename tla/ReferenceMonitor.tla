--------------------------- MODULE ReferenceMonitor ---------------------------
(****************************************************************************)
(* What the sharing API promises to those who share their data and to those *)
(* who audit it: every request is decided at one moment, by the level that  *)
(* is in force at that moment; a decision is final, only a grant is ever    *)
(* served, and a record of a decision says what was decided.                *)
(*                                                                          *)
(* A request may be denied at any time, since a policy that cannot be       *)
(* looked up denies.  Records may be missing: the API answers before it     *)
(* records, and the thread that does may die.                               *)
(****************************************************************************)
CONSTANTS
  Request,   \* the requests
  Subject,   \* what a level is in force for
  Level      \* the levels of access

VARIABLES
  level,     \* the level in force for each subject
  ask,       \* what each request is about
  granted,   \* the requests that were granted
  denied,    \* the requests that were denied
  served,    \* the requests that were served
  log        \* the records of the decisions

monitorVars == <<level, ask, granted, denied, served, log>>

Init ==
  /\ level \in [Subject -> Level]
  /\ ask \in [Request -> [subject : Subject, level : Level]]
  /\ granted = {}
  /\ denied = {}
  /\ served = {}
  /\ log = {}

Change ==
  /\ level' \in [Subject -> Level]
  /\ UNCHANGED <<ask, granted, denied, served, log>>

Grant(r) ==
  /\ r \notin granted \cup denied
  /\ level[ask[r].subject] = ask[r].level
  /\ granted' = granted \cup {r}
  /\ UNCHANGED <<level, ask, denied, served, log>>

Deny(r) ==
  /\ r \notin granted \cup denied
  /\ denied' = denied \cup {r}
  /\ UNCHANGED <<level, ask, granted, served, log>>

Serve(r) ==
  /\ r \in granted \ served
  /\ served' = served \cup {r}
  /\ UNCHANGED <<level, ask, granted, denied, log>>

\* A record is written, perhaps in the place of others.
Record(r) ==
  LET entry == [request |-> r, granted |-> r \in granted]
  IN  /\ r \in granted \cup denied
      /\ entry \in log'
      /\ log' \subseteq log \cup {entry}
      /\ UNCHANGED <<level, ask, granted, denied, served>>

Next ==
  \/ Change
  \/ \E r \in Request : Grant(r) \/ Deny(r) \/ Serve(r) \/ Record(r)

Spec == Init /\ [][Next]_monitorVars
=============================================================================
