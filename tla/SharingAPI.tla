------------------------------ MODULE SharingAPI ------------------------------
(****************************************************************************)
(* The sharing API (api/api_sharing.py): a request for readings passes the  *)
(* role check of the token, asks CheckAccess, leaves an audit entry to a    *)
(* thread of its own, and selects and projects the rows.  Flask serves each *)
(* request in a thread, so requests interleave with one another, with the   *)
(* audit threads and with the transactions of the administrators.           *)
(****************************************************************************)
EXTENDS AuditLog

CONSTANTS
  RoleOf,      \* the role in the token of a consumer
  Asked,       \* the (consumer, device, expected level) requests are about
  StampedAt,   \* when the readings were stamped, in 10^6 s since the epoch
  MaxFaults    \* bound: how many queries, threads or processes fail

VARIABLES
  request,     \* where each request stands, with its local variables
  entitled,    \* history: the requests whose level was in force meanwhile
  stored,      \* the devices that have rows in the readings table
  faults       \* how many failures have happened so far

apiVars == <<request, entitled, stored, faults>>
vars == <<policyVars, auditVars, apiVars>>

\* The three routes, by the level each one enforces.
Expected == {"full", "aggregated", "hash-only"}

AllowedRoles(expected) ==
  CASE expected = "full"       -> {"owner", "admin"}
    [] expected = "aggregated" -> {"analytics", "admin"}
    [] expected = "hash-only"  -> {"auditor", "admin"}

Ask == [consumer : Consumer, device : Device, expected : Expected]

ASSUME SharingAssumption ==
  /\ RoleOf \in [Consumer -> Role]
  /\ Asked \subseteq Ask
  /\ StampedAt \in Nat
  /\ MaxClock \in Nat
  /\ MaxFaults \in Nat

\* "denied" and "forbidden" are the two 403 answers, of the chaincode and of
\* the role check, "refused" is a 401 or 400, "raised" a 500 before and "error"
\* one after the decision, and "lost" a connection that broke.
Step == {"new", "query", "enforce", "select",
         "served", "denied", "forbidden", "refused", "raised", "error", "lost"}

InProgress == {"query", "enforce", "select"}

TypeOK ==
  /\ PolicyTypeOK
  /\ AuditTypeOK
  /\ request \in [Request -> [step : Step, ask : Ask, returned : Visibility,
                              at : 0..MaxClock]]
  /\ entitled \in SUBSET Request
  /\ stored \in SUBSET Device
  /\ faults \in 0..MaxFaults

RoleIn(r) == RoleOf[request[r].ask.consumer]

Init ==
  /\ PolicyInit
  /\ AuditInit
  /\ request \in [Request -> [step : {"new"}, ask : Asked,
                              returned : {"denied"}, at : {0}]]
  /\ entitled = {}
  /\ stored = {}
  /\ faults = 0

----------------------------------------------------------------------------
(****************************************************************************)
(* A request                                                                *)
(****************************************************************************)

\* The level in force for each device and role.
InForce ==
  [x \in Device \X Role |-> CheckAccess(x[1], x[2])]

LevelFor(r) == InForce[<<request[r].ask.device, RoleIn(r)>>]

Fault == faults < MaxFaults /\ faults' = faults + 1

\* The request reaches its route: require_auth compares the token's role with
\* the roles of the route.
Arrive(r) ==
  /\ request[r].step = "new"
  /\ request' = [request EXCEPT ![r].step =
       IF RoleIn(r) \in AllowedRoles(request[r].ask.expected)
         THEN "query" ELSE "forbidden"]
  /\ entitled' = entitled \cup
       (IF LevelFor(r) = request[r].ask.expected THEN {r} ELSE {})
  /\ UNCHANGED <<policyVars, auditVars, stored, faults>>

\* No token, one that has expired or is not of this API, or no device_id: the
\* request goes no further.
Refuse(r) ==
  /\ request[r].step = "new"
  /\ request' = [request EXCEPT ![r].step = "refused"]
  /\ UNCHANGED <<policyVars, auditVars, entitled, stored, faults>>

\* Mutant: a level that was in force when the request came need not be asked for.
Mutant_QueryRemembers(r) ==
  /\ request[r].step = "query"
  /\ request' = [request EXCEPT ![r].step = "enforce",
       ![r].returned = IF r \in entitled THEN request[r].ask.expected ELSE LevelFor(r)]
  /\ UNCHANGED <<policyVars, auditVars, entitled, stored, faults>>

\* A peer answers the query CheckAccess.
Query(r) ==
  /\ request[r].step = "query"
  /\ request' = [request EXCEPT ![r].step = "enforce", ![r].returned = LevelFor(r)]
  /\ UNCHANGED <<policyVars, auditVars, entitled, stored, faults>>

\* Mutant: an unanswered query leaves the decision to the role check.
Mutant_QueryFailsOpen(r) ==
  /\ request[r].step = "query"
  /\ Fault
  /\ request' = [request EXCEPT ![r].step = "enforce",
                                ![r].returned = request[r].ask.expected]
  /\ UNCHANGED <<policyVars, auditVars, entitled, stored>>

\* Mutant: check_access passes the None of _query on.
Mutant_QueryFailsWithNone(r) ==
  /\ request[r].step = "query"
  /\ Fault
  /\ request' = [request EXCEPT ![r].step = "enforce", ![r].returned = "None"]
  /\ UNCHANGED <<policyVars, auditVars, entitled, stored>>

\* The query fails or times out, which check_access takes for "denied".
QueryFails(r) ==
  /\ request[r].step = "query"
  /\ Fault
  /\ request' = [request EXCEPT ![r].step = "enforce", ![r].returned = "denied"]
  /\ UNCHANGED <<policyVars, auditVars, entitled, stored>>

\* The query cannot be started at all: _query catches the timeout only, and the
\* request ends in a 500 with neither a decision nor an entry.
QueryRaises(r) ==
  /\ request[r].step = "query"
  /\ Fault
  /\ request' = [request EXCEPT ![r].step = "raised"]
  /\ UNCHANGED <<policyVars, auditVars, entitled, stored>>

Granted(r) == request[r].returned = request[r].ask.expected

\* What _enforce_chain_access hands to the thread.
EntryOf(r, at, granted) ==
  [request |-> r, device |-> request[r].ask.device,
   consumer |-> request[r].ask.consumer, role |-> RoleIn(r), ts |-> at,
   returned |-> request[r].returned, granted |-> granted]

\* Mutant: denials are answered without an entry.
Mutant_EnforceLogsGrants(r) ==
  /\ request[r].step = "enforce"
  /\ IF Granted(r) THEN LogAccessAsync(EntryOf(r, clock, TRUE))
                   ELSE UNCHANGED workers
  /\ request' = [request EXCEPT ![r].step = IF Granted(r) THEN "select" ELSE "denied",
                                ![r].at = clock]
  /\ UNCHANGED <<policyVars, log, clock, entitled, stored, faults>>

\* Mutant: whatever the chain returned but "denied" is logged as granted.
Mutant_EnforceLogsReturned(r) ==
  /\ request[r].step = "enforce"
  /\ LogAccessAsync(EntryOf(r, clock, request[r].returned # "denied"))
  /\ request' = [request EXCEPT ![r].step = IF Granted(r) THEN "select" ELSE "denied",
                                ![r].at = clock]
  /\ UNCHANGED <<policyVars, log, clock, entitled, stored, faults>>

\* The rest of _enforce_chain_access: exactly the expected level will do, and
\* grants and denials are logged alike.
Enforce(r) ==
  /\ request[r].step = "enforce"
  /\ LogAccessAsync(EntryOf(r, clock, Granted(r)))
  /\ request' = [request EXCEPT ![r].step = IF Granted(r) THEN "select" ELSE "denied",
                                ![r].at = clock]
  /\ UNCHANGED <<policyVars, log, clock, entitled, stored, faults>>

\* The gateway stamps milliseconds, which fromtimestamp takes for seconds; it
\* raises after the year 9999.
Stamp(seconds) == seconds * 1000
LastSecond == 253402
Convertible(ts) == ts <= LastSecond

\* The rows are selected and projected.  Only the aggregates convert ts.
Select(r) ==
  /\ request[r].step = "select"
  /\ request' = [request EXCEPT ![r].step =
       IF /\ request[r].ask.expected = "aggregated"
          /\ request[r].ask.device \in stored
          /\ ~Convertible(Stamp(StampedAt))
         THEN "error" ELSE "served"]
  /\ UNCHANGED <<policyVars, auditVars, entitled, stored, faults>>

\* The database is locked or out of reach: the exception makes it a 500, with
\* the grant already on its way to the log.
SelectFails(r) ==
  /\ request[r].step = "select"
  /\ Fault
  /\ request' = [request EXCEPT ![r].step = "error"]
  /\ UNCHANGED <<policyVars, auditVars, entitled, stored>>

\* The process dies: the requests in progress break, and of the audit threads
\* only those get through whose transaction is already with the orderer.
Crash ==
  /\ Fault
  /\ workers' \in SUBSET workers
  /\ request' = [r \in Request |->
       IF request[r].step \in InProgress
         THEN [request[r] EXCEPT !.step = "lost"] ELSE request[r]]
  /\ UNCHANGED <<policyVars, log, clock, entitled, stored>>

----------------------------------------------------------------------------
(****************************************************************************)
(* What goes on next to the requests                                        *)
(****************************************************************************)

\* The routes that edit the policies, and the blocks their transactions are in.
PolicyStep ==
  /\ PolicyNext
  /\ entitled' = entitled \cup
       {r \in Request :
          /\ request[r].step \in InProgress
          /\ InForce'[<<request[r].ask.device, RoleIn(r)>>] = request[r].ask.expected}
  /\ UNCHANGED <<auditVars, request, stored, faults>>

AuditStep ==
  /\ \E entry \in workers : LogAccess(entry)
  /\ UNCHANGED <<policyVars, apiVars>>

AuditFails ==
  /\ Fault
  /\ \E entry \in workers : LoseEntry(entry)
  /\ UNCHANGED <<policyVars, request, entitled, stored>>

TimeStep == Tick /\ UNCHANGED <<policyVars, apiVars>>

\* The ingestion stores a first reading of a device.
Ingested ==
  /\ \E d \in Device \ stored : stored' = stored \cup {d}
  /\ UNCHANGED <<policyVars, auditVars, request, entitled, faults>>

Serving ==
  \E r \in Request : Query(r) \/ Enforce(r) \/ Select(r)

Next ==
  \/ \E r \in Request :
       Arrive(r) \/ Refuse(r) \/ QueryFails(r) \/ QueryRaises(r) \/ SelectFails(r)
  \/ Serving \/ Crash
  \/ PolicyStep \/ AuditStep \/ AuditFails \/ TimeStep \/ Ingested

Spec == Init /\ [][Next]_vars

\* A request waits for a query with a timeout of 10 s and for the database;
\* what a thread submits gets into a block.  Administrators do as they like.
FairSpec == Spec /\ WF_vars(Serving) /\ WF_vars(AuditStep)

----------------------------------------------------------------------------
(****************************************************************************)
(* Properties                                                               *)
(****************************************************************************)

\* Whoever is served had been granted exactly that level while the request was
\* in progress: neither a transaction that overlaps, nor a failing query, nor
\* an earlier grant revoked before the request came leads to an answer.
ServedWithinGrant ==
  \A r \in Request :
    request[r].step = "served" =>
      /\ r \in entitled
      /\ RoleIn(r) \in AllowedRoles(request[r].ask.expected)

\* The log agrees with what happened, although it is written later and by
\* others: a granted entry is of a request that was not refused and whose level
\* was in force, a denied one is of a request that was served nothing.
AuditAgrees ==
  \A e \in log :
    LET r == e.request
    IN  IF e.granted
          THEN /\ request[r].step \in {"select", "served", "error", "lost"}
               /\ r \in entitled
          ELSE request[r].step = "denied"

\* The log loses an entry only to another one of the same consumer for the
\* same device in the same millisecond.
OnlySameMillisecondIsOverwritten ==
  [][\A e \in log \ log' :
       \E f \in workers : /\ f.request # e.request
                          /\ f.consumer = e.consumer
                          /\ f.device = e.device
                          /\ f.ts = e.ts]_vars

Decided(r) ==
  request[r].step \in {"select", "served", "denied", "error"}

\* An entry under the key of a decision: of its consumer, device and millisecond.
Covers(e, r) ==
  /\ e.consumer = request[r].ask.consumer
  /\ e.device = request[r].ask.device
  /\ e.ts = request[r].at

\* Unless something fails, a decision of the chaincode, denials too, is not
\* forgotten: an entry under its key is written or on its way, although another
\* decision's entry may have taken the place of its own.
DecisionsAreKept ==
  faults = 0 =>
    \A r \in Request :
      Decided(r) => \E e \in log \cup workers : Covers(e, r)

\* Unless something fails, each decision ends up in the log.
DecisionsAreAudited ==
  [](faults = 0) =>
    \A r \in Request :
      Decided(r) ~> \E e \in log : Covers(e, r)

\* What the requests, the decisions and the entries are to an outsider.
AskOf ==
  [r \in Request |-> [subject |-> <<request[r].ask.device, RoleIn(r)>>,
                     level |-> request[r].ask.expected]]

GrantedOnes == {r \in Request : Granted(r)}

AtStep(step) == {r \in Request : request[r].step = step}

Records == {[request |-> e.request, granted |-> e.granted] : e \in log}

\* The API with its threads and the chaincode is a reference monitor: a grant
\* takes place when the query is answered, a denial when it is enforced.
Monitor == INSTANCE ReferenceMonitor WITH
  Subject <- Device \X Role, Level <- Visibility, level <- InForce, ask <- AskOf,
  granted <- GrantedOnes, denied <- AtStep("denied"), served <- AtStep("served"),
  log <- Records

ImplementsReferenceMonitor == Monitor!Spec

----------------------------------------------------------------------------
(****************************************************************************)
(* The inductive invariant behind the safety properties                     *)
(****************************************************************************)

\* Past the role check, the role fits the route; a level in force is one the
\* request is entitled to, and so is the answer it goes on with.
RequestKnows(r) ==
  /\ request[r].step \notin {"new", "forbidden", "refused"} =>
       RoleIn(r) \in AllowedRoles(request[r].ask.expected)
  /\ request[r].step \in InProgress /\ LevelFor(r) = request[r].ask.expected =>
       r \in entitled
  /\ request[r].step \in {"new", "query"} => request[r].returned = "denied"
  /\ Granted(r) => r \in entitled
  /\ request[r].step \in {"select", "served", "error"} => Granted(r)
  /\ request[r].step = "denied" => ~Granted(r)

\* An entry, written or still on its way, is about a decided request.
EntryAgrees(e) ==
  IF e.granted
    THEN /\ request[e.request].step \in {"select", "served", "error", "lost"}
         /\ Granted(e.request)
    ELSE request[e.request].step = "denied"

OneEntryEach ==
  \A e, f \in log \cup workers : e.request = f.request => e = f

IInv ==
  /\ TypeOK
  /\ PolicyIInv
  /\ \A r \in Request : RequestKnows(r)
  /\ \A e \in log \cup workers : EntryAgrees(e)
  /\ OneEntryEach

----------------------------------------------------------------------------
(****************************************************************************)
(* What the documentation says and the code does not do                     *)
(****************************************************************************)

\* iot_contract.go, line 440: LogAccess appends one decision to the log.
LogAppends == [][log \subseteq log']_vars

\* README.md, line 44: each role gets its projection of the data.  A granted
\* request would then be served unless the process dies.
GrantedIsServed ==
  \A r \in Request :
    request[r].step = "select" ~> request[r].step \in {"served", "lost"}
=============================================================================
