---------------------------- MODULE SharingProofs ----------------------------
(****************************************************************************)
(* Theorems about the sharing API and its audit log, for any requests,      *)
(* consumers, roles and policies, and any number of failures.               *)
(****************************************************************************)
EXTENDS SharingAPI, AccessPolicyProofs

----------------------------------------------------------------------------
(****************************************************************************)
(* Types                                                                    *)
(****************************************************************************)

\* What is in force for a request is one of the strings of the policies.
LEMMA LevelType ==
  ASSUME TypeOK, NEW r \in Request
  PROVE  LevelFor(r) \in Visibility
<1>1. request[r].ask.device \in Device /\ request[r].ask.consumer \in Consumer
  BY DEF TypeOK, Ask
<1>2. RoleIn(r) \in Role
  BY <1>1, SharingAssumption DEF RoleIn
<1>3. LevelFor(r) = CheckAccess(request[r].ask.device, RoleIn(r))
  BY <1>1, <1>2 DEF LevelFor, InForce
<1> QED  BY <1>1, <1>2, <1>3, CheckAccessType DEF TypeOK

\* While the policies stay, so does the level in force for a request.
LEMMA LevelStays ==
  ASSUME UNCHANGED policyVars, NEW r \in Request,
         request'[r].ask = request[r].ask
  PROVE  LevelFor(r)' = LevelFor(r)
<1>1. InForce' = InForce
  BY DEF policyVars, InForce, CheckAccess
<1> QED  BY <1>1 DEF LevelFor, RoleIn

\* The count of the failures stays within its bound.
LEMMA FaultType ==
  ASSUME faults \in 0..MaxFaults, Fault
  PROVE  faults' \in 0..MaxFaults
BY SharingAssumption DEF Fault

\* The entry handed to a thread is an entry.
LEMMA EntryType ==
  ASSUME TypeOK, NEW r \in Request, NEW granted \in BOOLEAN
  PROVE  EntryOf(r, clock, granted) \in Entry
<1>1. /\ request[r].ask \in Ask
      /\ request[r].returned \in Visibility
      /\ clock \in 0..MaxClock
  BY DEF TypeOK, AuditTypeOK
<1>2. RoleIn(r) \in Role
  BY <1>1, SharingAssumption DEF RoleIn, Ask
<1> QED  BY <1>1, <1>2 DEF EntryOf, Entry, Ask

\* The policies are changed by their own transactions only.
LEMMA PolicyPart ==
  ASSUME PolicyIInv, [Next]_vars
  PROVE  PolicyIInv'
<1>1. PolicyNext \/ UNCHANGED policyVars
  BY DEF Next, vars, Arrive, Refuse, QueryFails, QueryRaises, SelectFails,
     Serving, Query, Enforce, Select, Crash,
         PolicyStep, AuditStep, AuditFails, TimeStep, Ingested
<1> QED  BY <1>1, PolicyInductiveStep

\* No step breaks the types.
LEMMA TypeStep ==
  ASSUME TypeOK, PolicyTypeOK', [Next]_vars
  PROVE  TypeOK'
<1> USE DEF TypeOK, AuditTypeOK
<1>0. {"query", "forbidden", "refused", "enforce", "select", "denied", "raised",
       "error", "served", "lost"} \subseteq Step /\ "denied" \in Visibility
  BY DEF Step, Visibility, Level
<1>1. ASSUME NEW r \in Request, Arrive(r)
      PROVE  TypeOK'
  BY <1>0, <1>1 DEF Arrive, policyVars, auditVars
<1>13. ASSUME NEW r \in Request, Refuse(r)
       PROVE  TypeOK'
  BY <1>0, <1>13 DEF Refuse, policyVars, auditVars
<1>14. ASSUME NEW r \in Request, SelectFails(r)
       PROVE  TypeOK'
  <2>1. faults' \in 0..MaxFaults
    BY <1>14, FaultType DEF SelectFails
  <2>2. request' \in [Request -> [step : Step, ask : Ask, returned : Visibility,
                                  at : 0..MaxClock]]
    BY <1>0, <1>14 DEF SelectFails
  <2> QED  BY <1>14, <2>1, <2>2 DEF SelectFails, auditVars
<1>2. ASSUME NEW r \in Request, Query(r)
      PROVE  TypeOK'
  BY <1>0, <1>2, LevelType DEF Query, policyVars, auditVars
<1>3. ASSUME NEW r \in Request, QueryFails(r) \/ QueryRaises(r)
      PROVE  TypeOK'
  <2>1. faults' \in 0..MaxFaults
    BY <1>3, FaultType DEF QueryFails, QueryRaises
  <2>2. request' \in [Request -> [step : Step, ask : Ask, returned : Visibility,
                                  at : 0..MaxClock]]
    BY <1>0, <1>3 DEF QueryFails, QueryRaises
  <2> QED  BY <1>3, <2>1, <2>2 DEF QueryFails, QueryRaises, auditVars
<1>4. ASSUME NEW r \in Request, Enforce(r)
      PROVE  TypeOK'
  <2>1. EntryOf(r, clock, Granted(r)) \in Entry
    BY EntryType DEF Granted
  <2>2. workers' \in SUBSET Entry
    BY <1>4, <2>1 DEF Enforce, LogAccessAsync
  <2> QED  BY <1>0, <1>4, <2>2 DEF Enforce, policyVars
<1>5. ASSUME NEW r \in Request, Select(r)
      PROVE  TypeOK'
  BY <1>0, <1>5 DEF Select, policyVars, auditVars
<1>6. CASE Crash
  <2>1. faults' \in 0..MaxFaults
    BY <1>6, FaultType DEF Crash
  <2>2. request' \in [Request -> [step : Step, ask : Ask, returned : Visibility,
                                  at : 0..MaxClock]]
    BY <1>0, <1>6 DEF Crash
  <2> QED  BY <1>6, <2>1, <2>2 DEF Crash
<1>7. CASE PolicyStep
  BY <1>7 DEF PolicyStep, auditVars
<1>8. CASE AuditStep
  BY <1>8 DEF AuditStep, LogAccess, policyVars, apiVars
<1>9. CASE AuditFails
  <2>1. faults' \in 0..MaxFaults
    BY <1>9, FaultType DEF AuditFails
  <2> QED  BY <1>9, <2>1 DEF AuditFails, LoseEntry
<1>10. CASE TimeStep
  BY <1>10, SharingAssumption DEF TimeStep, Tick, policyVars, apiVars
<1>11. CASE Ingested
  BY <1>11 DEF Ingested, policyVars, auditVars
<1>12. CASE UNCHANGED vars
  BY <1>12 DEF vars, policyVars, auditVars, apiVars
<1> QED
  BY <1>1, <1>2, <1>3, <1>4, <1>5, <1>6, <1>7, <1>8, <1>9, <1>10, <1>11, <1>12,
     <1>13, <1>14
  DEF Next, Serving

----------------------------------------------------------------------------
(****************************************************************************)
(* What the requests know                                                   *)
(****************************************************************************)

\* The level the routes expect is never "denied".
LEMMA AskType ==
  ASSUME TypeOK, NEW r \in Request
  PROVE  request[r].ask.expected # "denied"
<1>1. request[r].ask.expected \in Expected
  BY DEF TypeOK, Ask
<1> QED  BY <1>1 DEF Expected

\* What a request knows stays true while others move on and the policies stay.
LEMMA Untouched ==
  ASSUME UNCHANGED policyVars, NEW r \in Request, RequestKnows(r),
         request'[r] = request[r], entitled \subseteq entitled'
  PROVE  RequestKnows(r)'
<1>1. LevelFor(r)' = LevelFor(r)
  BY LevelStays
<1>2. RoleIn(r)' = RoleIn(r) /\ Granted(r)' = Granted(r)
  BY DEF RoleIn, Granted
<1> QED  BY <1>1, <1>2 DEF RequestKnows

\* What a request knows stays true when the policies change: the levels that
\* come into force are counted among those it is entitled to.
LEMMA KnowsPolicyStep ==
  ASSUME NEW r \in Request, RequestKnows(r), PolicyStep
  PROVE  RequestKnows(r)'
<1>1. request' = request /\ entitled \subseteq entitled'
  BY DEF PolicyStep
<1>2. RoleIn(r)' = RoleIn(r) /\ Granted(r)' = Granted(r)
  BY <1>1 DEF RoleIn, Granted
<1>3. LevelFor(r)' = InForce'[<<request[r].ask.device, RoleIn(r)>>]
  BY <1>1, <1>2 DEF LevelFor
<1>4. ASSUME request[r].step \in InProgress, LevelFor(r)' = request[r].ask.expected
      PROVE  r \in entitled'
  BY <1>3, <1>4 DEF PolicyStep
<1> QED  BY <1>1, <1>2, <1>4 DEF RequestKnows

\* What a request knows stays true when it moves on itself.
LEMMA KnowsOwnStep ==
  ASSUME TypeOK, NEW r \in Request, RequestKnows(r),
         \/ Arrive(r) \/ Refuse(r) \/ Query(r) \/ QueryFails(r) \/ QueryRaises(r)
         \/ Enforce(r) \/ Select(r) \/ SelectFails(r)
  PROVE  RequestKnows(r)'
<1>1. /\ request'[r].ask = request[r].ask
      /\ UNCHANGED policyVars
      /\ entitled \subseteq entitled'
  BY DEF TypeOK, Arrive, Refuse, Query, QueryFails, QueryRaises, Enforce,
         Select, SelectFails
<1>2. LevelFor(r)' = LevelFor(r) /\ RoleIn(r)' = RoleIn(r)
  BY <1>1, LevelStays DEF RoleIn
<1>3. request[r].ask.expected # "denied"
  BY AskType
<1>4. CASE Arrive(r)
  <2>1. /\ request'[r].step = IF RoleIn(r) \in AllowedRoles(request[r].ask.expected)
                                THEN "query" ELSE "forbidden"
        /\ request'[r].returned = "denied"
    BY <1>4 DEF TypeOK, Arrive, RequestKnows
  <2>2. LevelFor(r) = request[r].ask.expected => r \in entitled'
    BY <1>4 DEF Arrive
  <2> QED  BY <1>1, <1>2, <1>3, <2>1, <2>2 DEF RequestKnows, Granted, InProgress
<1>5. CASE Query(r)
  <2>1. /\ request[r].step = "query" /\ request'[r].step = "enforce"
        /\ request'[r].returned = LevelFor(r)
        /\ entitled' = entitled
    BY <1>5 DEF TypeOK, Query
  <2> QED  BY <1>1, <1>2, <2>1 DEF RequestKnows, Granted, InProgress
<1>6. CASE QueryFails(r) \/ QueryRaises(r)
  <2>1. /\ request[r].step = "query" /\ request'[r].step \in {"enforce", "raised"}
        /\ request'[r].returned = "denied"
        /\ entitled' = entitled
    BY <1>6 DEF TypeOK, RequestKnows, QueryFails, QueryRaises
  <2> QED  BY <1>1, <1>2, <1>3, <2>1 DEF RequestKnows, Granted, InProgress
<1>7. CASE Enforce(r)
  <2>1. /\ request[r].step = "enforce"
        /\ request'[r].step = IF Granted(r) THEN "select" ELSE "denied"
        /\ request'[r].returned = request[r].returned
        /\ entitled' = entitled
    BY <1>7 DEF TypeOK, Enforce
  <2> QED  BY <1>1, <1>2, <2>1 DEF RequestKnows, Granted, InProgress
<1>8. CASE Select(r)
  <2>1. /\ request[r].step = "select" /\ request'[r].step \in {"served", "error"}
        /\ request'[r].returned = request[r].returned
        /\ entitled' = entitled
    BY <1>8 DEF TypeOK, Select
  <2> QED  BY <1>1, <1>2, <2>1 DEF RequestKnows, Granted, InProgress
<1>9. CASE Refuse(r)
  <2>1. /\ request[r].step = "new" /\ request'[r].step = "refused"
        /\ request'[r].returned = request[r].returned
        /\ entitled' = entitled
    BY <1>9 DEF TypeOK, Refuse
  <2> QED  BY <1>1, <1>2, <2>1 DEF RequestKnows, Granted, InProgress
<1>10. CASE SelectFails(r)
  <2>1. /\ request[r].step = "select" /\ request'[r].step = "error"
        /\ request'[r].returned = request[r].returned
        /\ entitled' = entitled
    BY <1>10 DEF TypeOK, SelectFails
  <2> QED  BY <1>1, <1>2, <2>1 DEF RequestKnows, Granted, InProgress
<1> QED  BY <1>4, <1>5, <1>6, <1>7, <1>8, <1>9, <1>10

\* No step makes a request wrong about what it knows.
LEMMA KnowsStep ==
  ASSUME TypeOK, [Next]_vars, NEW r \in Request, RequestKnows(r)
  PROVE  RequestKnows(r)'
<1>1. ASSUME NEW s \in Request,
             \/ Arrive(s) \/ Refuse(s) \/ Query(s) \/ QueryFails(s)
             \/ QueryRaises(s)
             \/ Enforce(s) \/ Select(s) \/ SelectFails(s)
      PROVE  RequestKnows(r)'
  <2>1. CASE s = r
    BY <1>1, <2>1, KnowsOwnStep
  <2>2. CASE s # r
    <3>1. /\ request'[r] = request[r]
          /\ UNCHANGED policyVars
          /\ entitled \subseteq entitled'
      BY <1>1, <2>2 DEF TypeOK, Arrive, Refuse, Query, QueryFails, QueryRaises,
         Enforce, Select, SelectFails
    <3> QED  BY <3>1, Untouched
  <2> QED  BY <2>1, <2>2
<1>2. CASE Crash
  <2>1. /\ request'[r].ask = request[r].ask
        /\ request'[r].returned = request[r].returned
        /\ request'[r].step = IF request[r].step \in InProgress
                                THEN "lost" ELSE request[r].step
        /\ UNCHANGED <<policyVars, entitled>>
    BY <1>2 DEF TypeOK, Crash
  <2>2. LevelFor(r)' = LevelFor(r) /\ RoleIn(r)' = RoleIn(r)
    BY <2>1, LevelStays DEF RoleIn
  <2> QED  BY <2>1, <2>2 DEF RequestKnows, Granted, InProgress
<1>3. CASE PolicyStep
  BY <1>3, KnowsPolicyStep
<1>4. CASE AuditStep \/ AuditFails \/ TimeStep \/ Ingested \/ UNCHANGED vars
  <2>1. UNCHANGED <<policyVars, request, entitled>>
    BY <1>4 DEF AuditStep, AuditFails, TimeStep, Ingested, vars, apiVars
  <2> QED  BY <2>1, Untouched
<1> QED  BY <1>1, <1>2, <1>3, <1>4 DEF Next, Serving

----------------------------------------------------------------------------
(****************************************************************************)
(* What the entries say                                                     *)
(****************************************************************************)

\* What an entry says of its request stays true.
LEMMA EntryStays ==
  ASSUME TypeOK, [Next]_vars, NEW e \in Entry, EntryAgrees(e)
  PROVE  EntryAgrees(e)'
<1> DEFINE q == e.request
<1>0. q \in Request /\ e.granted \in BOOLEAN
  BY DEF Entry
<1>2. SUFFICES /\ request'[q].ask = request[q].ask
               /\ request'[q].returned = request[q].returned
               /\ \/ request'[q].step = request[q].step
                  \/ /\ request[q].step = "select"
                     /\ request'[q].step \in {"served", "error", "lost"}
  BY <1>0 DEF EntryAgrees, Granted
<1>3. request[q].step \in {"select", "served", "error", "lost", "denied"}
  BY DEF EntryAgrees
<1>4. ASSUME NEW r \in Request,
             \/ Arrive(r) \/ Refuse(r) \/ Query(r) \/ QueryFails(r)
             \/ QueryRaises(r) \/ Enforce(r)
      PROVE  request'[q] = request[q]
  <2>1. r # q
    BY <1>3, <1>4 DEF Arrive, Refuse, Query, QueryFails, QueryRaises, Enforce
  <2> QED  BY <1>0, <1>4, <2>1 DEF TypeOK, Arrive, Refuse, Query, QueryFails,
     QueryRaises,
                                      Enforce
<1>5. ASSUME NEW r \in Request, Select(r) \/ SelectFails(r)
      PROVE  /\ request'[q].ask = request[q].ask
             /\ request'[q].returned = request[q].returned
             /\ \/ request'[q].step = request[q].step
                \/ /\ request[q].step = "select"
                   /\ request'[q].step \in {"served", "error"}
  BY <1>0, <1>5 DEF TypeOK, Select, SelectFails
<1>6. CASE Crash
  BY <1>0, <1>3, <1>6 DEF TypeOK, Crash, InProgress
<1>7. CASE PolicyStep \/ AuditStep \/ AuditFails \/ TimeStep \/ Ingested
           \/ UNCHANGED vars
  BY <1>7 DEF PolicyStep, AuditStep, AuditFails, TimeStep, Ingested, vars, apiVars
<1> QED  BY <1>4, <1>5, <1>6, <1>7 DEF Next, Serving

\* Only _enforce_chain_access makes an entry; LogAccess moves it to the log.
LEMMA NewEntries ==
  ASSUME TypeOK, [Next]_vars,
         ~ \E r \in Request : Enforce(r)
  PROVE  log' \cup workers' \subseteq log \cup workers
<1>1. CASE AuditStep
  BY <1>1 DEF AuditStep, LogAccess
<1>2. CASE AuditFails
  BY <1>2 DEF AuditFails, LoseEntry
<1>3. CASE Crash
  BY <1>3 DEF Crash
<1>4. ASSUME NEW r \in Request,
             \/ Arrive(r) \/ Refuse(r) \/ Query(r) \/ QueryFails(r)
             \/ QueryRaises(r)
             \/ Select(r) \/ SelectFails(r)
      PROVE  UNCHANGED <<log, workers>>
  BY <1>4 DEF Arrive, Refuse, Query, QueryFails, QueryRaises, Select,
     SelectFails, auditVars
<1>5. CASE PolicyStep \/ TimeStep \/ Ingested \/ UNCHANGED vars
  BY <1>5 DEF PolicyStep, TimeStep, Tick, Ingested, vars, auditVars
<1> QED  BY <1>1, <1>2, <1>3, <1>4, <1>5 DEF Next, Serving

\* The entry of a decision says what was decided, and is the only one of its
\* request, which had none when it was about to be decided.
LEMMA EntriesStep ==
  ASSUME TypeOK, [Next]_vars, \A r \in Request : RequestKnows(r),
         \A e \in log \cup workers : EntryAgrees(e), OneEntryEach
  PROVE  /\ \A e \in log' \cup workers' : EntryAgrees(e)'
         /\ OneEntryEach'
<1>0. log \cup workers \subseteq Entry
  BY DEF TypeOK, AuditTypeOK
<1>1. \A e \in log \cup workers : EntryAgrees(e)'
  BY <1>0, EntryStays
<1>2. ASSUME NEW r \in Request, Enforce(r)
      PROVE  /\ \A e \in log' \cup workers' : EntryAgrees(e)'
             /\ OneEntryEach'
  <2>1. PICK new \in Entry : new = EntryOf(r, clock, Granted(r))
    BY EntryType DEF Granted
  <2>2. /\ log' \cup workers' = log \cup workers \cup {new}
        /\ new.request = r /\ new.granted = Granted(r)
    BY <1>2, <2>1 DEF Enforce, LogAccessAsync, EntryOf
  <2>3. /\ request[r].step = "enforce"
        /\ request'[r].step = IF Granted(r) THEN "select" ELSE "denied"
    BY <1>2 DEF TypeOK, Enforce
  <2>4. Granted(r)' = Granted(r)
    BY <1>2 DEF TypeOK, Enforce, Granted
  <2>5. EntryAgrees(new)'
    <3>1. CASE Granted(r)
      BY <2>2, <2>3, <2>4, <3>1 DEF EntryAgrees
    <3>2. CASE ~Granted(r)
      BY <2>2, <2>3, <3>2 DEF EntryAgrees
    <3> QED  BY <3>1, <3>2
  <2>6. \A e \in log \cup workers : e.request # r
    BY <2>3 DEF EntryAgrees
  <2>7. OneEntryEach'
    BY <2>2, <2>6 DEF OneEntryEach
  <2> QED  BY <1>1, <2>2, <2>5, <2>7
<1>3. CASE ~ \E r \in Request : Enforce(r)
  <2>1. log' \cup workers' \subseteq log \cup workers
    BY <1>3, NewEntries
  <2> QED  BY <1>1, <2>1 DEF OneEntryEach
<1> QED  BY <1>2, <1>3

----------------------------------------------------------------------------
(****************************************************************************)
(* The theorems                                                             *)
(****************************************************************************)

\* Before the first request the invariant holds.
LEMMA SharingInductiveInit ==
  Init => IInv
<1> SUFFICES ASSUME Init
             PROVE  IInv
  OBVIOUS
<1>1. PolicyIInv
  BY PolicyInductiveInit DEF Init
<1>2. TypeOK
  BY <1>1, SharingAssumption DEF Init, AuditInit, TypeOK, AuditTypeOK, PolicyIInv,
     Step, Visibility, Level
<1>3. ASSUME NEW r \in Request
      PROVE  RequestKnows(r)
  <2>1. request[r].step = "new" /\ request[r].returned = "denied"
    BY DEF Init
  <2>2. request[r].ask.expected # "denied"
    BY <1>2, AskType
  <2> QED  BY <2>1, <2>2 DEF RequestKnows, Granted, InProgress
<1>4. log \cup workers = {}
  BY DEF Init, AuditInit
<1> QED  BY <1>1, <1>2, <1>3, <1>4 DEF IInv, OneEntryEach

\* No step breaks the invariant.
LEMMA SharingInductiveStep ==
  IInv /\ [Next]_vars => IInv'
<1> SUFFICES ASSUME IInv, [Next]_vars
             PROVE  IInv'
  OBVIOUS
<1>1. PolicyIInv'
  BY PolicyPart DEF IInv
<1>2. TypeOK'
  BY <1>1, TypeStep DEF IInv, PolicyIInv
<1>3. \A r \in Request : RequestKnows(r)'
  BY KnowsStep DEF IInv
<1>4. /\ \A e \in log' \cup workers' : EntryAgrees(e)'
      /\ OneEntryEach'
  BY EntriesStep DEF IInv
<1> QED  BY <1>1, <1>2, <1>3, <1>4 DEF IInv

\* The invariant holds in every reachable state, however the requests, the
\* audit threads, the administrators and the failures interleave.
THEOREM SharingInductive == Spec => []IInv
BY SharingInductiveInit, SharingInductiveStep, PTL DEF Spec

\* What the administrators do through the API is what the chaincode lets them, so
\* that the theorems about the policies hold of it.
THEOREM SharingKeepsPolicies == Spec => PolicySpec
<1>1. Init => PolicyInit
  BY DEF Init
<1>2. [Next]_vars => [PolicyNext]_policyVars
  BY DEF Next, vars, Arrive, Refuse, QueryFails, QueryRaises, SelectFails,
     Serving, Query, Enforce, Select, Crash,
         PolicyStep, AuditStep, AuditFails, TimeStep, Ingested
<1> QED  BY <1>1, <1>2, PTL DEF Spec, PolicySpec

\* Requests, entries and policies are of their types: in particular a failed
\* query never leaves a level the policies do not know.
THEOREM SharingTypeCorrect == Spec => []TypeOK
<1>1. IInv => TypeOK
  BY DEF IInv
<1> QED  BY <1>1, SharingInductive, PTL

\* A request is served only at a level that was in force for its role and
\* device at some moment while the request was in progress.
THEOREM RequestsAreServedWithinGrant == Spec => []ServedWithinGrant
<1>1. IInv => ServedWithinGrant
  BY DEF IInv, RequestKnows, ServedWithinGrant
<1> QED  BY <1>1, SharingInductive, PTL

\* Whatever is lost or delayed, a written audit entry agrees with what the
\* request of its decision went on to do.
THEOREM AuditLogAgrees == Spec => []AuditAgrees
<1>1. ASSUME IInv, NEW e \in log
      PROVE  e.request \in Request
  BY <1>1 DEF IInv, TypeOK, AuditTypeOK, Entry
<1>2. IInv => AuditAgrees
  BY <1>1 DEF IInv, EntryAgrees, RequestKnows, AuditAgrees
<1> QED  BY <1>2, SharingInductive, PTL

\* An entry of the log is replaced only by one of another request with the
\* same device, millisecond and consumer.
THEOREM OverwritingIsConfined == Spec => OnlySameMillisecondIsOverwritten
<1>1. ASSUME IInv, [Next]_vars, NEW e \in log \ log'
      PROVE  \E f \in workers : /\ f.request # e.request
                                /\ f.consumer = e.consumer
                                /\ f.device = e.device
                                /\ f.ts = e.ts
  <2>1. AuditStep
    BY <1>1 DEF Next, Serving, Arrive, Refuse, Query, QueryFails, QueryRaises,
       Enforce, Select, SelectFails, Crash,
       PolicyStep, AuditFails, LoseEntry, TimeStep, Tick, Ingested, vars, auditVars
  <2>2. PICK f \in workers : log' = {other \in log : Key(other) # Key(f)} \cup {f}
    BY <2>1 DEF AuditStep, LogAccess
  <2>3. e # f /\ Key(e) = Key(f)
    BY <2>2
  <2>4. f.request # e.request
    BY <1>1, <2>3 DEF IInv, OneEntryEach
  <2> QED  BY <2>3, <2>4 DEF Key
<1>2. IInv /\ [Next]_vars =>
        [\A e \in log \ log' :
           \E f \in workers : /\ f.request # e.request
                              /\ f.consumer = e.consumer
                              /\ f.device = e.device
                              /\ f.ts = e.ts]_vars
  BY <1>1
<1> QED
  BY <1>2, SharingInductive, PTL DEF Spec, OnlySameMillisecondIsOverwritten

----------------------------------------------------------------------------
(****************************************************************************)
(* Decisions are not forgotten                                              *)
(****************************************************************************)

\* Unless something fails, the key of an entry stays among those that are
\* written or on their way, although the entry itself may be overwritten.
LEMMA KeysStay ==
  ASSUME [Next]_vars, ~Fault, NEW e \in log \cup workers
  PROVE  \E f \in log' \cup workers' : Key(f) = Key(e)
<1>1. CASE AuditStep
  <2>1. PICK g \in workers : /\ log' = {other \in log : Key(other) # Key(g)} \cup {g}
                             /\ workers' = workers \ {g}
    BY <1>1 DEF AuditStep, LogAccess
  <2>2. CASE Key(e) = Key(g)
    BY <2>1, <2>2
  <2>3. CASE Key(e) # Key(g)
    BY <2>1, <2>3
  <2> QED  BY <2>2, <2>3
<1>2. CASE ~AuditStep
  <2>1. log \cup workers \subseteq log' \cup workers'
    BY <1>2 DEF Next, Serving, Arrive, Refuse, Query, QueryFails, QueryRaises,
       Enforce, LogAccessAsync,
       Select, SelectFails, Crash, PolicyStep, AuditFails, TimeStep, Tick, Ingested,
       vars, auditVars
  <2> QED  BY <2>1
<1> QED  BY <1>1, <1>2

\* A decision is one of _enforce_chain_access, or was one before.
LEMMA DecidedBefore ==
  ASSUME TypeOK, [Next]_vars, NEW r \in Request, Decided(r)', ~Enforce(r)
  PROVE  /\ Decided(r)
         /\ request'[r].ask = request[r].ask
         /\ request'[r].at = request[r].at
<1>1. ASSUME NEW s \in Request,
             \/ Arrive(s) \/ Refuse(s) \/ Query(s) \/ QueryFails(s)
             \/ QueryRaises(s)
             \/ Select(s) \/ SelectFails(s)
      PROVE  /\ Decided(r)
             /\ request'[r].ask = request[r].ask
             /\ request'[r].at = request[r].at
  BY <1>1 DEF TypeOK, Decided, Arrive, Refuse, Query, QueryFails, QueryRaises,
     Select, SelectFails
<1>2. ASSUME NEW s \in Request, s # r, Enforce(s)
      PROVE  request'[r] = request[r]
  BY <1>2 DEF TypeOK, Enforce
<1>3. CASE Crash
  BY <1>3 DEF TypeOK, Decided, Crash, InProgress
<1>4. CASE PolicyStep \/ AuditStep \/ AuditFails \/ TimeStep \/ Ingested
           \/ UNCHANGED vars
  BY <1>4 DEF Decided, PolicyStep, AuditStep, AuditFails, TimeStep, Ingested,
     vars, apiVars
<1> QED  BY <1>1, <1>2, <1>3, <1>4 DEF Next, Serving, Decided

\* No step forgets a decision, unless something fails.
LEMMA KeptStep ==
  ASSUME TypeOK, [Next]_vars, DecisionsAreKept
  PROVE  DecisionsAreKept'
<1> SUFFICES ASSUME faults' = 0, NEW r \in Request, Decided(r)'
             PROVE  \E e \in log' \cup workers' : Covers(e, r)'
  BY DEF DecisionsAreKept
<1>1. faults = 0 /\ ~Fault
  <2>1. faults \in Nat
    BY SharingAssumption DEF TypeOK
  <2>2. Fault \/ UNCHANGED faults
    BY DEF Next, Serving, Arrive, Refuse, Query, QueryFails, QueryRaises,
       Enforce, Select, SelectFails, Crash, PolicyStep, AuditStep, AuditFails, TimeStep, Ingested,
       vars, apiVars
  <2> QED  BY <2>1, <2>2 DEF Fault
<1>2. CASE Enforce(r)
  <2>1. EntryOf(r, clock, Granted(r)) \in workers'
    BY <1>2 DEF Enforce, LogAccessAsync
  <2>2. request'[r].at = clock /\ request'[r].ask = request[r].ask
    BY <1>2 DEF TypeOK, Enforce
  <2> QED  BY <2>1, <2>2 DEF Covers, EntryOf
<1>3. CASE ~Enforce(r)
  <2>1. /\ Decided(r)
        /\ request'[r].ask = request[r].ask
        /\ request'[r].at = request[r].at
    BY <1>3, DecidedBefore
  <2>2. PICK e \in log \cup workers : Covers(e, r)
    BY <1>1, <2>1 DEF DecisionsAreKept
  <2>3. PICK f \in log' \cup workers' : Key(f) = Key(e)
    BY <1>1, KeysStay
  <2> QED  BY <2>1, <2>2, <2>3 DEF Covers, Key
<1> QED  BY <1>2, <1>3

\* Unless something fails, there is an entry for each decision, in the log or
\* on its way to it, however many decisions fall into one millisecond.
THEOREM DecisionsAreNotForgotten == Spec => []DecisionsAreKept
<1>1. Init => DecisionsAreKept
  <2>1. ASSUME Init, NEW r \in Request
        PROVE  ~Decided(r)
    BY <2>1 DEF Init, Decided
  <2> QED  BY <2>1 DEF DecisionsAreKept
<1>2. TypeOK /\ DecisionsAreKept /\ [Next]_vars => DecisionsAreKept'
  BY KeptStep
<1> QED  BY <1>1, <1>2, SharingTypeCorrect, PTL DEF Spec

----------------------------------------------------------------------------
(****************************************************************************)
(* The API implements ReferenceMonitor                                      *)
(****************************************************************************)

\* What is in force is a level for each device and role.
LEMMA InForceType ==
  ASSUME PolicyTypeOK
  PROVE  InForce \in [Device \X Role -> Visibility]
BY CheckAccessType DEF InForce

\* What a request asks for is what it was sent with.
LEMMA AsksStay ==
  ASSUME TypeOK, [Next]_vars
  PROVE  AskOf' = AskOf
<1>1. ASSUME NEW r \in Request
      PROVE  request'[r].ask = request[r].ask
  <2>1. ASSUME NEW s \in Request,
               \/ Arrive(s) \/ Refuse(s) \/ Query(s) \/ QueryFails(s)
               \/ QueryRaises(s)
               \/ Enforce(s) \/ Select(s) \/ SelectFails(s)
        PROVE  request'[r].ask = request[r].ask
    BY <2>1 DEF TypeOK, Arrive, Refuse, Query, QueryFails, QueryRaises, Enforce,
       Select, SelectFails
  <2>2. CASE Crash
    BY <2>2 DEF TypeOK, Crash
  <2>3. CASE PolicyStep \/ AuditStep \/ AuditFails \/ TimeStep \/ Ingested
             \/ UNCHANGED vars
    BY <2>3 DEF PolicyStep, AuditStep, AuditFails, TimeStep, Ingested, vars, apiVars
  <2> QED  BY <2>1, <2>2, <2>3 DEF Next, Serving
<1> QED  BY <1>1 DEF AskOf, RoleIn

\* A step that decides nothing, serves nothing and writes nothing is none for
\* the monitor.
LEMMA NothingSeen ==
  ASSUME TypeOK, [Next]_vars, UNCHANGED <<policyVars, log>>,
         \A r \in Request :
           /\ Granted(r)' = Granted(r)
           /\ (request'[r].step = "denied") = (request[r].step = "denied")
           /\ (request'[r].step = "served") = (request[r].step = "served")
  PROVE  UNCHANGED Monitor!monitorVars
<1>1. InForce' = InForce
  BY DEF policyVars, InForce, CheckAccess
<1>2. /\ GrantedOnes' = GrantedOnes
      /\ AtStep("denied")' = AtStep("denied")
      /\ AtStep("served")' = AtStep("served")
  BY DEF GrantedOnes, AtStep
<1>3. Records' = Records
  BY DEF Records
<1> QED  BY <1>1, <1>2, <1>3, AsksStay DEF Monitor!monitorVars

\* A granting query is a grant, at the level then in force; another is nothing
\* yet.
LEMMA QueryGrants ==
  ASSUME IInv, [Next]_vars, NEW r \in Request, Query(r)
  PROVE  Monitor!Grant(r) \/ UNCHANGED Monitor!monitorVars
<1>1. /\ request[r].step = "query" /\ request[r].returned = "denied"
      /\ request[r].ask.expected # "denied"
  BY AskType DEF Query, IInv, RequestKnows
<1>2. /\ request' = [request EXCEPT ![r].step = "enforce", ![r].returned = LevelFor(r)]
      /\ UNCHANGED <<policyVars, log>>
  BY DEF Query, auditVars
<1>3. \A s \in Request : s # r => request'[s] = request[s]
  BY <1>2 DEF IInv, TypeOK
<1>4. /\ request'[r].step = "enforce" /\ request'[r].returned = LevelFor(r)
      /\ request'[r].ask = request[r].ask
  BY <1>2 DEF IInv, TypeOK
<1>5. ~Granted(r)
  BY <1>1 DEF Granted
<1>6. CASE LevelFor(r) = request[r].ask.expected
  <2>1. Granted(r)'
    BY <1>4, <1>6 DEF Granted
  <2>2. GrantedOnes' = GrantedOnes \cup {r}
    BY <1>3, <2>1 DEF GrantedOnes, Granted
  <2>3. /\ AtStep("denied")' = AtStep("denied")
        /\ AtStep("served")' = AtStep("served")
    BY <1>1, <1>3, <1>4 DEF AtStep
  <2>4. r \notin GrantedOnes \cup AtStep("denied")
    BY <1>1, <1>5 DEF GrantedOnes, AtStep
  <2>5. InForce[AskOf[r].subject] = AskOf[r].level
    BY <1>6 DEF AskOf, LevelFor
  <2>6. InForce' = InForce /\ Records' = Records
    BY <1>2 DEF policyVars, InForce, CheckAccess, Records
  <2>7. AskOf' = AskOf
    BY AsksStay DEF IInv
  <2> QED  BY <2>2, <2>3, <2>4, <2>5, <2>6, <2>7 DEF Monitor!Grant
<1>7. CASE LevelFor(r) # request[r].ask.expected
  <2>1. ~Granted(r)'
    BY <1>4, <1>7 DEF Granted
  <2>2. \A s \in Request :
          /\ Granted(s)' = Granted(s)
          /\ (request'[s].step = "denied") = (request[s].step = "denied")
          /\ (request'[s].step = "served") = (request[s].step = "served")
    BY <1>1, <1>3, <1>4, <1>5, <2>1 DEF Granted
  <2> QED  BY <1>2, <2>2, NothingSeen DEF IInv
<1> QED  BY <1>6, <1>7

\* _enforce_chain_access denies what was not granted, for good.
LEMMA EnforceDenies ==
  ASSUME IInv, [Next]_vars, NEW r \in Request, Enforce(r)
  PROVE  Monitor!Deny(r) \/ UNCHANGED Monitor!monitorVars
<1>1. /\ request[r].step = "enforce"
      /\ request'[r].step = IF Granted(r) THEN "select" ELSE "denied"
      /\ UNCHANGED <<policyVars, log>>
  BY DEF IInv, TypeOK, Enforce
<1>2. /\ \A s \in Request : s # r => request'[s] = request[s]
      /\ \A s \in Request : Granted(s)' = Granted(s)
  BY DEF IInv, TypeOK, Enforce, Granted
<1>3. CASE Granted(r)
  <2>1. \A s \in Request :
          /\ (request'[s].step = "denied") = (request[s].step = "denied")
          /\ (request'[s].step = "served") = (request[s].step = "served")
    BY <1>1, <1>2, <1>3
  <2> QED  BY <1>1, <1>2, <2>1, NothingSeen DEF IInv
<1>4. CASE ~Granted(r)
  <2>1. AtStep("denied")' = AtStep("denied") \cup {r}
    BY <1>1, <1>2, <1>4 DEF AtStep
  <2>2. AtStep("served")' = AtStep("served") /\ GrantedOnes' = GrantedOnes
    BY <1>1, <1>2, <1>4 DEF AtStep, GrantedOnes
  <2>3. r \notin GrantedOnes \cup AtStep("denied")
    BY <1>1, <1>4 DEF AtStep, GrantedOnes
  <2>4. InForce' = InForce /\ Records' = Records
    BY <1>1 DEF policyVars, InForce, CheckAccess, Records
  <2>5. AskOf' = AskOf
    BY AsksStay DEF IInv
  <2> QED  BY <2>1, <2>2, <2>3, <2>4, <2>5 DEF Monitor!Deny
<1> QED  BY <1>3, <1>4

\* Only a granted request gets as far as the rows.
LEMMA SelectServes ==
  ASSUME IInv, [Next]_vars, NEW r \in Request, Select(r)
  PROVE  Monitor!Serve(r) \/ UNCHANGED Monitor!monitorVars
<1>1. /\ request[r].step = "select"
      /\ request'[r].step \in {"served", "error"}
      /\ UNCHANGED <<policyVars, log>>
  BY DEF IInv, TypeOK, Select, auditVars
<1>2. /\ \A s \in Request : s # r => request'[s] = request[s]
      /\ \A s \in Request : Granted(s)' = Granted(s)
  BY DEF IInv, TypeOK, Select, Granted
<1>3. CASE request'[r].step = "error"
  <2>1. \A s \in Request :
          /\ (request'[s].step = "denied") = (request[s].step = "denied")
          /\ (request'[s].step = "served") = (request[s].step = "served")
    BY <1>1, <1>2, <1>3
  <2> QED  BY <1>1, <1>2, <2>1, NothingSeen DEF IInv
<1>4. CASE request'[r].step = "served"
  <2>1. AtStep("served")' = AtStep("served") \cup {r}
    BY <1>1, <1>2, <1>4 DEF AtStep
  <2>2. AtStep("denied")' = AtStep("denied") /\ GrantedOnes' = GrantedOnes
    BY <1>1, <1>2, <1>4 DEF AtStep, GrantedOnes
  <2>3. r \in GrantedOnes \ AtStep("served")
    BY <1>1 DEF IInv, RequestKnows, AtStep, GrantedOnes
  <2>4. InForce' = InForce /\ Records' = Records
    BY <1>1 DEF policyVars, InForce, CheckAccess, Records
  <2>5. AskOf' = AskOf
    BY AsksStay DEF IInv
  <2> QED  BY <2>1, <2>2, <2>3, <2>4, <2>5 DEF Monitor!Serve
<1> QED  BY <1>1, <1>3, <1>4

\* LogAccess writes down what was decided, perhaps over another record.
LEMMA AuditRecords ==
  ASSUME IInv, [Next]_vars, AuditStep
  PROVE  \E r \in Request : Monitor!Record(r)
<1>1. PICK f \in workers : log' = {other \in log : Key(other) # Key(f)} \cup {f}
  BY DEF AuditStep, LogAccess
<1>2. UNCHANGED <<policyVars, request>>
  BY DEF AuditStep, apiVars
<1> DEFINE q == f.request
           entry == [request |-> q, granted |-> q \in GrantedOnes]
<1>3. f \in Entry /\ q \in Request /\ f.granted \in BOOLEAN
  BY DEF IInv, TypeOK, AuditTypeOK, Entry
<1>4. EntryAgrees(f) /\ RequestKnows(q)
  BY <1>3 DEF IInv
<1>5. f.granted = (q \in GrantedOnes) /\ q \in GrantedOnes \cup AtStep("denied")
  <2>1. CASE f.granted
    BY <1>3, <1>4, <2>1 DEF EntryAgrees, GrantedOnes
  <2>2. CASE ~f.granted
    BY <1>3, <1>4, <2>2 DEF EntryAgrees, RequestKnows, GrantedOnes, AtStep
  <2> QED  BY <1>3, <2>1, <2>2
<1>6. entry \in Records'
  BY <1>1, <1>5 DEF Records
<1>7. Records' \subseteq Records \cup {entry}
  BY <1>1, <1>5 DEF Records
<1>8. /\ InForce' = InForce /\ GrantedOnes' = GrantedOnes
      /\ AtStep("denied")' = AtStep("denied")
      /\ AtStep("served")' = AtStep("served")
  BY <1>2 DEF policyVars, InForce, CheckAccess, GrantedOnes, Granted, AtStep
<1>9. AskOf' = AskOf
  BY AsksStay DEF IInv
<1> QED  BY <1>3, <1>5, <1>6, <1>7, <1>8, <1>9 DEF Monitor!Record

\* Each step is one of the monitor or goes unseen.
LEMMA MonitorStep ==
  /\ IInv /\ [Next]_vars
  /\ (InForce \in [Device \X Role -> Visibility])'
  => [Monitor!Next]_(Monitor!monitorVars)
<1> SUFFICES ASSUME IInv, [Next]_vars, InForce' \in [Device \X Role -> Visibility]
             PROVE  Monitor!Next \/ UNCHANGED Monitor!monitorVars
  OBVIOUS
<1>1. ASSUME NEW r \in Request, Query(r)
      PROVE  Monitor!Next \/ UNCHANGED Monitor!monitorVars
  BY <1>1, QueryGrants DEF Monitor!Next
<1>2. ASSUME NEW r \in Request, Enforce(r)
      PROVE  Monitor!Next \/ UNCHANGED Monitor!monitorVars
  BY <1>2, EnforceDenies DEF Monitor!Next
<1>3. ASSUME NEW r \in Request, Select(r)
      PROVE  Monitor!Next \/ UNCHANGED Monitor!monitorVars
  BY <1>3, SelectServes DEF Monitor!Next
<1>4. CASE AuditStep
  BY <1>4, AuditRecords DEF Monitor!Next
<1>5. CASE PolicyStep
  <2>1. UNCHANGED <<request, log>>
    BY <1>5 DEF PolicyStep, auditVars
  <2>2. /\ GrantedOnes' = GrantedOnes /\ Records' = Records
        /\ AtStep("denied")' = AtStep("denied")
        /\ AtStep("served")' = AtStep("served")
    BY <2>1 DEF GrantedOnes, Granted, AtStep, Records
  <2>3. AskOf' = AskOf
    BY AsksStay DEF IInv
  <2> QED  BY <2>2, <2>3 DEF Monitor!Next, Monitor!Change
<1>6. ASSUME NEW r \in Request,
             Arrive(r) \/ Refuse(r) \/ QueryFails(r) \/ QueryRaises(r) \/ SelectFails(r)
      PROVE  UNCHANGED Monitor!monitorVars
  <2>1. /\ \A s \in Request : s # r => request'[s] = request[s]
        /\ request'[r].ask = request[r].ask
        /\ UNCHANGED <<policyVars, log>>
    BY <1>6 DEF IInv, TypeOK, Arrive, Refuse, QueryFails, QueryRaises,
       SelectFails, auditVars
  <2>2. request'[r].returned = request[r].returned
    BY <1>6 DEF IInv, TypeOK, RequestKnows, Arrive, Refuse, QueryFails,
       QueryRaises, SelectFails
  <2>3. {request[r].step, request'[r].step} \cap {"denied", "served"} = {}
    BY <1>6 DEF IInv, TypeOK, Arrive, Refuse, QueryFails, QueryRaises, SelectFails
  <2>4. \A s \in Request :
          /\ Granted(s)' = Granted(s)
          /\ (request'[s].step = "denied") = (request[s].step = "denied")
          /\ (request'[s].step = "served") = (request[s].step = "served")
    BY <2>1, <2>2, <2>3 DEF Granted
  <2> QED  BY <2>1, <2>4, NothingSeen DEF IInv
<1>7. CASE Crash
  <2>1. UNCHANGED <<policyVars, log>>
    BY <1>7 DEF Crash
  <2>2. \A s \in Request :
          /\ Granted(s)' = Granted(s)
          /\ (request'[s].step = "denied") = (request[s].step = "denied")
          /\ (request'[s].step = "served") = (request[s].step = "served")
    BY <1>7 DEF IInv, TypeOK, Crash, InProgress, Granted
  <2> QED  BY <2>1, <2>2, NothingSeen DEF IInv
<1>8. CASE AuditFails \/ TimeStep \/ Ingested \/ UNCHANGED vars
  <2>1. UNCHANGED <<policyVars, log, request>>
    BY <1>8 DEF AuditFails, LoseEntry, TimeStep, Tick, Ingested, vars, auditVars,
       apiVars
  <2>2. \A s \in Request : Granted(s)' = Granted(s)
    BY <2>1 DEF Granted
  <2> QED  BY <2>1, <2>2, NothingSeen DEF IInv
<1> QED
  BY <1>1, <1>2, <1>3, <1>4, <1>5, <1>6, <1>7, <1>8 DEF Next, Serving

\* The API with its requests, threads and policies is a reference monitor: each
\* request is decided once, by the level in force at that moment, whatever else
\* is under way; only grants are served, and records say what was decided.
THEOREM SharingImplements == Spec => ImplementsReferenceMonitor
<1>1. Init => Monitor!Init
  <2> SUFFICES ASSUME Init
               PROVE  Monitor!Init
    OBVIOUS
  <2>1. IInv
    BY SharingInductiveInit
  <2>2. InForce \in [Device \X Role -> Visibility]
    BY <2>1, InForceType DEF IInv, TypeOK
  <2>3. AskOf \in [Request -> [subject : Device \X Role, level : Visibility]]
    <3>1. ASSUME NEW r \in Request
          PROVE  /\ request[r].ask.device \in Device
                 /\ RoleIn(r) \in Role
                 /\ request[r].ask.expected \in Visibility
      BY <2>1, SharingAssumption
      DEF IInv, TypeOK, RoleIn, Ask, Expected, Visibility, Level
    <3> QED  BY <3>1 DEF AskOf
  <2>4. GrantedOnes = {}
    BY <2>1, AskType DEF Init, IInv, GrantedOnes, Granted
  <2>5. AtStep("denied") = {} /\ AtStep("served") = {} /\ Records = {}
    BY DEF Init, AuditInit, AtStep, Records
  <2> QED  BY <2>2, <2>3, <2>4, <2>5 DEF Monitor!Init
<1>2. IInv => InForce \in [Device \X Role -> Visibility]
  BY InForceType DEF IInv, TypeOK
<1> QED
  BY <1>1, <1>2, MonitorStep, SharingInductive, PTL
  DEF Spec, ImplementsReferenceMonitor, Monitor!Spec
=============================================================================
