# A TLA+ model of the IoT integrity and sharing platform

The platform takes readings from simulated motes, anchors a hash of each on a
Hyperledger Fabric ledger, keeps the reading in SQLite, checks again and again
that the two still agree, and shares the readings by role under policies kept
on the ledger.  This directory holds TLA+ modules of its core, the TLC runs
that check them, and proofs that TLAPS checks.  Paths are relative to `src/`.

## The system

| part | code | state it keeps | operations |
|---|---|---|---|
| Mote firmware | `mote-code/udp-client.c` | `tx_count`, the sensor profile | send one encrypted frame about every 10 s |
| Gateway | `gateway/gateway_udp_mqtt.py` | `last_seq` of each device, in memory | type check, replay check, decryption, publish with QoS 1 |
| Key manager | `gateway/key_manager.py`, `start_gateways.sh` | `master.key` | load or create the master key, derive a device key |
| MQTT broker | `infra/` | sessions and queued messages (external) | take with QoS 1, hand on with QoS 0 |
| Ingestion service | `ingestion/ingest_mqtt_sqlite.py` | local variables of one callback | insert as `pending`, anchor, verify, set the verdict |
| Readings table | `ingestion/init_db.py` | rows with `payload_hash`, `verified`, `verified_at` | INSERT, two UPDATEs |
| Re-verifier | `ingestion/Reverifier.py` | a batch copied from the table | fetch the oldest settled rows, verify, rewrite the verdict |
| Ledger bridge | `ingestion/fabric_client.py` | none | `store_hash` (30 s), `verify_hash` (15 s) |
| Chaincode, integrity | `chaincode/iot_contract.go`, v1.0 | hash under `<device>_<ts>_<seq>` | `StoreHash`, `VerifyHash`, `GetRecord` |
| Chaincode, policies | same, v1.1 and v1.2 | one policy per device, one per sensor type | `RegisterDevice`, `UpdatePolicy`, `RegisterTypePolicy`, `UpdateTypePolicy`, `CheckAccess` |
| Chaincode, audit log | same, v1.1 | entries under (device, ms, consumer) | `LogAccess`, `GetAccessLog` |
| Policy bridge | `api/fabric_access.py` | daemon threads that log | `_invoke`, `_query`, `check_access`, `log_access_async` |
| Sharing API | `api/api_sharing.py` | the request in hand | three projections of the readings, audit, policy editing |
| Integrity API | `api/api.py` | the request in hand | strict and forensic reading, manual check |
| Integrity console | `dashboard/index.html` | token, device, mode, what is on screen | select, refresh every 5 s, switch modes, verify one row or all |
| Sharing dashboard | `dashboard/sharing.html` | what the page shows | reading by role, policy editing |
| Deployment | `full_fabric_start.sh` | none | wipe and rebuild the Fabric network |

How they interact.  Mote to gateway is UDP; gateway to ingestion is MQTT; the
ingestion and the re-verifier are two processes that share nothing but the
SQLite file and the ledger; the integrity API reads the verdicts they leave in
the file; the sharing API asks the chaincode on every request and reads the
file afterwards; administrators change the policies through the sharing API, mostly from the
sharing dashboard.  The gateways share one master key with the motes.

What is hard about it.

* The ingestion handles a message in four steps with a slow call in between.
  A call may time out while its transaction is still on the way.
* The re-verifier works on a copy of rows that change under it, and both
  processes write the verdict of the same rows without a lock.
* A reading may have several rows, since the gateway publishes again what the broker
  did not acknowledge (QoS 1) and the table has no UNIQUE constraint.
* A verdict of "no" and an unanswered query are the same value.
* Fabric runs a transaction in two phases: what it read may have changed when
  its block is written.
* Windows, threads and keys live in memory and go with a restart.
* Whoever starts first creates the master key, after a look for the file and in two
  writes, and everything else depends on there being one.
* The policy editor takes a timed-out update for a missing policy and registers one,
  next to a transaction that may still get its block.
* The ledger can be wiped under services that run on.
* The console has several requests under way at a time, and shows the answer that
  comes last, not the one that was asked for last.

`PROJECT.json` lists every such hazard at its line, with the properties that
cover it or the reason why none does yet.

### What makes each part correct

* **Pipeline** (ingestion, table, re-verifier, integrity records): a verdict is
  never better than the evidence (`IntactIsAnchored`), nor worse without a cause
  (`NoFalseAlarm`), and a failure costs the verdict of one reading and of no other
  (`EachFailureHarmsOneReading`); no edit of the database reaches the ledger
  (`LedgerHonest`), whose records never change (`LedgerImmutable`); in the end
  verdicts are right (`VerdictsConverge`).  Nobody but its callback changes a row without a
  verdict that is its reading's only one (`UnsettledRowsAreLeftAlone`), and readers of the
  table see the writer they are modelled with (`ImplementsVerdictTable`).
* **Access policies**: the least permissive policy wins whatever overlaps, and
  concurrent administrators do not undo each other's registrations.
* **Audit log and sharing API**: a request is served only at a level that was in
  force while it was in progress (`ServedWithinGrant`); an entry is truthful
  whoever dies or overlaps (`AuditAgrees`); without failures each decision leaves
  one (`DecisionsAreAudited`) and is never forgotten on the way (`DecisionsAreKept`); taken
  together, the API is a reference monitor (`ImplementsReferenceMonitor`).
* **Transport**: the triple that names a record is unique (`RecordIdsAreUnique`),
  which is what the ledger relies on; a life of a gateway accepts growing numbers
  only (`NumbersGrowInALife`); without failures every number a mote reaches comes
  through (`EveryNumberArrives`) and is in sight until then (`NumbersAreAccountedFor`).
* **Integrity API and console**: an answer accounts for every row that keeps its
  verdict (`AnswersAccountForRows`); the outcome of a manual check is shown next to
  the reading it is about (`OutcomesBelongToRows`); with LIVE on, the page comes to
  show the present state (`LiveViewConverges`); `verifyAll` ends (`VerifyAllEnds`).
* **Key manager**: two keys are in use only after the race that the start script is afraid
  of (`OnlyRacersDiffer`), and but for such a race the file keeps the key that the motes were
  built with (`MotesKeepTheirKey`).  The single master key of the README takes a setup by one
  process (`OneSetupMakesOneKey`); two gateways started by hand may run with two.
* **Policy editor**: what the page calls committed is in force (`CommittedIsInForce`),
  and a push ends (`PushEnds`).

## The modules

| module | models | variables | actions |
|---|---|---|---|
| `IntegrityLedger` | v1.0 chaincode, life of a transaction | `ledger`, `ordered`, `faults` | `Order`, `Commit`; `VerifyHash`, `InFlight` |
| `ReadingsTable` | the SQLite table | `readings`, `cutoff` | `Insert`, `UpdateVerdict`, `Age` |
| `Ingestion` | `on_message` and the calls it makes | `ingest` | `Receive`, `Submit`, `Anchored`, `StoreFails`, `Verify`, `VerifyFails`, `Settle`, `AbandonMessage` |
| `Reverifier` | the re-check loop | `batch`, `checked` | `Fetch`, `Check`, `CheckFails`, `Rewrite`, `AbandonBatch` |
| `Pipeline` | the composition of the four, edits of the database, passing time | `edited` (history) | `IngestionStep`, `RecheckStep`, `BlockStep`, `TimeStep`, `EditStep` |
| `Redeployment` | `Pipeline` over a ledger that is set up anew | | `Wipe` |
| `VerdictTable` | the readings table as its readers see it, abstractly | `table` | `Insert`, `Update` |
| `WitnessedReadings` | what the pipeline promises, abstractly | `witnessed`, `served` | `Witness`, `Serve`, `Withdraw` |
| `AccessPolicies` | v1.1 and v1.2 chaincode | `devicePolicy`, `typePolicy`, `pending` | the four invocations (`Invocation`), `Commit`, `Lose` |
| `PolicyEditor` | the editor of `sharing.html`, the routes behind it and `_invoke`, next to other clients | `push`, `overwritten` (history) | `Click`, `Endorsed`, `Answered`, `Fails`, `TurnedAway`; `BlockStep`, `OthersStep` |
| `AuditLog` | `LogAccess` and the threads that invoke it | `log`, `workers`, `clock` | `LogAccessAsync`, `LogAccess`, `LoseEntry`, `Tick` |
| `SharingAPI` | the reading routes, composed with policies and audit log | `request`, `stored`, `faults`, `entitled` (history) | `Arrive`, `Refuse`, `Query`, `QueryFails`, `QueryRaises`, `Enforce`, `Select`, `SelectFails`, `Crash`; `PolicyStep`, `AuditStep`, `AuditFails`, `TimeStep`, `Ingested` |
| `ReferenceMonitor` | what the sharing API promises, abstractly | `level`, `ask`, `granted`, `denied`, `served`, `log` | `Change`, `Grant`, `Deny`, `Serve`, `Record` |
| `Transport` | mote, UDP, gateways, broker, the ingestion's session | `mote`, `air`, `lastSeq`, `clock`, `outbox`, `session`, `inbox`, `faults`; history: `life`, `accepted`, `received` | `Send`, `Reboot`, `LoseFrame`, `Accept`, `Reject`, `Restart`, `Tick`, `Publish`, `Deliver`, `Disconnect`, `Stop`, `Start` |
| `KeyManager` | `load_or_create_master_key` in each process, the scripts, the motes' key | `keyFile`, `step`, `key`, `flashed`, `racers` (history) | `Launch`, `StartByHand`, `Check`, `Create`, `WriteKey`, `Load`, `Exit`, `Flash` |
| `SensorNetwork` | `Transport` with gateways that must be running and hold the motes' key | | `TransportStep`, `KeyStep`, `GatewayDies` |
| `IntegrityAPI` | the readings of a device, in both modes, over a table that changes | `fetch`, `writes`, `faults` | `Reject`, `SelectRows`, `CountHidden`, `Break`; `PipelineWrites` |
| `Console` | the page of the integrity console, composed with the API | `session`, `lastRows`, `screen`, `check`, `loop`, `clicks` | the user's `Login`, `Logout`, `Reload`, `SelectDevice`, `ToggleLive`, `ToggleMode`, `ToggleHash`, `ClickVerify`, `ClickVerifyAll`; `Deliver`, `Tick`, `Expire`, `NextRow`, `CheckAnswered` |
| `PipelineProofs`, `SettlementProofs`, `AccessPolicyProofs`, `EditorProofs`, `SharingProofs`, `TransportProofs`, `NetworkProofs`, `ConsoleProofs` | the theorems | | |
| `MCPipeline`, `MCAccessPolicies`, `MCSharingAPI`, `MCTransport`, `MCConsole` | values of the constants for TLC | | |

`Ingestion` and `Reverifier` both extend `ReadingsTable`, which extends
`IntegrityLedger`; `Pipeline` extends both and adds to every step what it leaves
alone.  Likewise `AuditLog` extends `AccessPolicies` (one chaincode), and
`SharingAPI` extends `AuditLog` and adds the requests.  `PolicyEditor` extends
`AccessPolicies` too, with one administrator in the foreground.  `SensorNetwork`
extends `Transport` and `KeyManager` and says which steps of the two go together;
`Redeployment` adds one action to `Pipeline`.  `IntegrityAPI` extends
`VerdictTable`, which `Pipeline` implements (`ImplementsVerdictTable`): so what the API
and the page are modelled over is what the two processes do, duplicate rows included.

### State and code

* A *record id* is the triple (device_id, ts, seq).  `make_record_id` joins it
  with underscores.  A device id is `mote-<n>`, so this is one to one.
* A *payload* stands for the content of a row; `Digest` for SHA-256, taken to
  have no collisions.
* The table is a sequence, as rows are never deleted and `id` counts up.
* `verified_at` is only ever compared, so a stamp is kept as its rank among the
  stamps in use.  The clock has a resolution of one second: an UPDATE takes the
  newest stamp there is or a new one.  `cutoff` separates the stamps older than
  60 s from the rest; `Age` moves it.
* `ingest.step` is the statement of `insert_reading` that comes next: `anchor`
  before `store_hash`, `await` inside it, `verify`, `settle`.
* A StoreHash transaction carries the id of the row it was made for.  It is in
  `ordered` from the orderer's acceptance to its block.
* `StoreFails` covers every exit of `store_hash` with False.  Afterwards the
  transaction is gone, or still in `ordered` (and its block may come at any
  time), or was committed already.
* `VerifyFails` and `CheckFails` are the exits of `verify_hash` other than an
  answer.  They give `tampered`, as the code does.
* `AbandonMessage` and `AbandonBatch` are the death of the process and an
  exception in a database statement.  Both processes start again with nothing in
  hand; the table keeps what was committed.
* In `AccessPolicies` an invocation simulates on the current state and joins
  `pending` with the keys it read and the value to write.  `Commit` writes it
  and discards those that had read the key.  `RegisterDevice` reads nothing, so
  it is never discarded.
* In `PolicyEditor` a push is at `called` before its transaction is endorsed, `waiting`
  until its block, `written` until `_invoke` hears of it; `committed` and `rejected` are
  what the page says.  `Fails` is every exit of `_invoke` with False and every broken
  connection, at any of these steps: whatever became of the transaction, the page goes
  on to POST, or gives up.  A handler whose page has given up is one of the other
  clients (`OthersStep`), and so is a second click while the first is under way.
  `overwritten` is history: it forgives what somebody else commits later.
* In `Redeployment` the ingestion's callback in `store_hash` gets its False when its
  transaction is wiped; a row, a batch or an answer in hand stays as it is.  A `Wipe`
  counts as a failure.
* In `SharingAPI` each request is one Flask thread.  `request[r].step` is the
  statement that comes next: `query` before `check_access`, `enforce` before the
  rest of `_enforce_chain_access`, `select` before the SELECT.  The final steps
  are the answers: `served`, `denied` and `forbidden` (the two 403), `raised` and `error` (a
  500 before and after the decision), `refused` (a 401 or 400), and `lost` for a connection
  that broke.  `SelectFails` is a
  database that is locked or out of reach, after the grant went to the log.
* `Query` reads the policies at one moment; they may change before and after.
  `QueryFails` is every exit of `_query` with None, which `check_access` turns into
  `denied`.  `QueryRaises` is the exit that `_query` does not catch, a peer binary that cannot
  be started: the request ends with neither a decision nor an entry.
* An audit entry is in `workers` from `log_access_async` until its block, or until
  it is lost.  A `Crash` of the API loses any of them: daemon threads die with the
  process, but a transaction that the orderer has gets its block.
* `Stamp` and `Convertible` are the units of `ts` in 10^6 s: the gateway writes
  milliseconds, the route for aggregates reads seconds, up to the year 9999.
* In `Transport` a frame is what the gateway reads of it: device and number.  The
  field `boot` tells the lives of a mote apart and is history, as is `life` for the
  gateway.  `Arrives` is `recvfrom`; overtaking and doubling are failures, so that a
  behaviour without failures is one in which UDP keeps the order.
* `outbox` is the store of the gateway's paho for messages without PUBACK, which it publishes
  again after a reconnection, and which dies with the process.  This is the only source of
  second copies: the ingestion subscribes with the default QoS 0, so what the broker hands on
  (`Deliver`) comes once or, when the link breaks, not at all.
* `session` is the broker's view of the ingestion.  `main` subscribes once, before
  the loop: after a reconnection with a clean session the client is `deaf` until the
  service is started anew.
* `Restart` takes at least a millisecond of `clock`.  Record ids are unique for that
  reason only: the first frames after a restart may repeat a number of the mote.
  The clock is taken not to go back.
* In `KeyManager` a key is named by the process that drew it, and `Empty` is what
  `write_text` leaves between truncating and writing.  `step` is the statement of
  `load_or_create_master_key` that comes next: `check` before `exists()`, `create` before the
  key is drawn.  `Launch` is the script, guard included.  `StartByHand` has no guard: any
  process of `ByHand` may be started at any moment, as in the examples of
  `gateway_udp_mqtt.py` (lines 27-32), and a gateway may be started in both ways.
  `racers` is history: the processes that found no file while another one stood between its
  own look and its `write_text`.  `Flash` copies the file into the firmware once.
* In `SensorNetwork` a gateway takes part in `Accept` and `Reject` only while it runs, and
  in `Accept` only with the motes' key.  A frame to a gateway that is down or cannot read
  it is a lost frame and counts as a failure (`Undelivered`).  That a process without a type listens
  on all addresses while it runs is left out.
* In `IntegrityAPI` a row is known by its verdict, device, stamp and reading: the API reads
  nothing else of it that the page's behaviour depends on.  An `Update` of `VerdictTable` gives
  one verdict to all rows of a reading (`Twins`).  `NextVerdicts` is what the statements of the
  pipeline may make of a verdict in a row that is its reading's only one; where there are two,
  any verdict but `pending` may come of the other's callback or re-check.  A request between its
  two queries is `counting`; `answered` means that the answer is on its way to the page.
  `hidden` holds the rows behind the counts of the summary.  `steady` is history.
* In `Console` a handler runs up to its `await` in one step, as JavaScript does, and
  its continuation is a step of its own (`Deliver`, `CheckAnswered`, `NextRow`).
* `verifyRow` holds the element of its cell, not its number.  When `innerHTML` is
  assigned, the old cells leave the page: `Detached` sets the `cell` of each check
  under way to 0, and its outcome is then written where no one sees it.
* `Clicked` names the checks of single rows that may be under way together; `verifyAll`
  awaits one more.
* A cell on screen holds the row whose outcome it shows, or nothing but its button;
  what the outcome is makes no difference to the page.
* The timer is set exactly while LIVE is on, so it has no variable.  It reads the
  device and the mode when it fires.
* `Logout` resets the variables and hides the dashboard, but does not clear what is
  in it; requests on their way are rendered there when they are answered.
* `entitled` and the field `request` of an entry are history variables: nothing
  in the code reads them.

### External parts

Fabric is modelled from what the code relies on: an accepted transaction is
written at most once, in some order (`BlockStep`, `Commit`), and a transaction
whose read set is stale is invalidated.  An edit of the database (`EditStep`) is
the event the re-verifier exists for (`Reverifier.py`, lines 5-9); it changes
content or hash of a row, not its verdict.

## The runs

| run | what it asks |
|---|---|
| `pipeline_safety` | Do ledger and verdicts keep their promises in every interleaving, is a failure confined to one reading, and does the pipeline implement `WitnessedReadings`? |
| `pipeline_liveness` | With duplicate rows and a ledger that may be wiped: does the re-check leave rows in progress alone, do the readers of the table see a `VerdictTable`, do the verdicts end up right, and is every reading accepted when nothing fails? |
| `unreachable_ledger` | Is `tampered` Fabric's own answer, as `init_db.py` says? **No.** |
| `content_edits` | Does the re-check recompute the hash, as `fabric_client.py` and the README say? **No.** |
| `duplicate_rows` | Does `_set_verdict` update the exact row, as its comment says? **No.** |
| `access_policies` | Is `CheckAccess` the AND of the policies, do overlapping transactions keep owner and type, is in force what the page calls committed, and does a push end? |
| `sharing_api` | Is the API a reference monitor, is only served what was in force, is the log truthful, and does every decision reach it when nothing fails? |
| `audit_overwrite` | Does `LogAccess` append, as its comment and the README say? **No.** |
| `aggregates` | Is a granted request served? **No.** |
| `console` | Does an answer account for every row, does LIVE bring the page up to date, is an outcome next to its reading whatever checks are under way, and does `verifyAll` end? |
| `stale_banner` | Is the view safe again after the switch back to strict mode? **No.** |
| `transport` | Are record ids unique, does the replay window work, and does everything stay in sight and arrive when nothing fails, from the setup of the key on?  Does a second key take a race of processes started by hand, and do the motes keep theirs otherwise? |

### Bounds

* `pipeline_safety`: two readings, two payloads, three rows (`MaxRows`), at most
  two of one reading (`MaxCopies`), one failure, one edited reading, batches of
  two.  This is the smallest instance with a duplicate *and* another reading next to it,
  with two rows in a batch while a third arrives, and with an edit between any
  two steps.  About 231,000 states.  The same run with two failures passes too.
* `pipeline_liveness`: two readings, three rows, at most two of one reading, one edit, one failure
  (a wipe, a crash, a query without an answer, a transaction that is lost or late), and a
  batch of one.  The batch is smaller than the number of rows due, so that a row could
  starve.  Two rows of a reading that hold different hashes, since one of them was edited, take
  turns with one verdict (the last one wins, see `duplicate_rows`); `VerdictsConverge` leaves
  them out (`Agree`).  About 248,000 states.  With two rows and two failures, a wipe and a
  missed answer on top for instance, it passes too, and so it does with three rows, two failures
  and no edit.
* `duplicate_rows`: two rows, one edit and no failure at all, so that what the trace shows is
  not the fault of one.
* `access_policies`: one device, one type (and the legacy type), two owners, a
  role for the reader and one for the administrator, three grants that together differ
  in reader, in level, in a missing and in an unknown level, one form that is pushed,
  and two transactions at a time, which is what
  it takes for two administrators to overlap, and for the update that timed out to meet
  the registration that replaces it.  About 412,000 states.

* `sharing_api`: two requests, each of one of two consumers (bob is analytics,
  root an admin) for one legacy device, an administrator's transaction at a
  time, two milliseconds, one failure of a query, a thread or the process.  Two
  requests are what it takes to meet under one key; one transaction and its
  successors grant, change and revoke in the midst of a request.  Types are left
  to `access_policies`, since a request sees the result of `CheckAccess` only.
  About 404,000 states.

* `transport`: a mote with two numbers and one reboot, a gateway that is started by the script or
  by hand, and a process that is started by hand, two failures (a restart and a
  doubled frame, for instance), one tick.  Two processes started by hand are what it takes to race
  for the key, and to be met by the other, or by a later life of one, in any state of the file.
  That the script keeps its own gateways out of a race needs one that is not started by
  hand too, and is left to the proof; so is a mote of an unknown type, which halts at boot.
  About 647,000 states.  `Transport` alone passes with three numbers too.

* `console`: three clicks of any kind, to which the checks the user asks for do not count, two
  requests for readings and two manual checks at a time (one of a single row, one of
  `verifyAll`), one failing request, one write of the pipeline, answers of two rows (`Limit`, for
  the page's 50).  One device has three rows, two of them of one reading and so with the same
  stamp, so that answers are cut; the other's only row is still to come.  Three clicks are what it
  takes to switch to forensic mode and back, to select and turn LIVE on, or to select, show
  hashes and start `verifyAll` next to any checks.  That more checks of single rows may be under
  way together is in the model (`Clicked`), and the theorem `OutcomesBelong` holds for any
  number.  About 318,000 states.

A request is made once, so `sharing_api` and its two companions come to an end
and do not check for deadlock; nor does `transport`, where a mote stops at
`MaxSeq`, nor `console`, where the user stops after `MaxClicks`.
The pipeline stops when `MaxRows` messages have come and all their rows are
`pending` or `failed`, so its configurations do not check for deadlock.
`access_policies` does.

### Fairness

`FairSpec` asks for weak fairness of four things.  The ingestion goes on with
the message in hand: each of its waits has a timeout.  The re-verifier goes on
with its batch, and fetches another when rows are due: it sleeps 30 s at most
(`LOOP_SLEEP_S`) and catches every exception.  What the orderer accepted gets
into a block.  Time passes.  Nothing forces a message, a failure or an edit.

That of `SharingAPI` asks for weak fairness of two: requests go on (the query
has a timeout of 10 s, SQLite one of its own), and a `LogAccess` under way gets
into a block.  Nothing forces a request, an administrator or a failure.

That of `Transport` asks for weak fairness of three: what is on its way by UDP and
not lost is handled by the gateway, which blocks on nothing; paho publishes what it
has; the broker delivers.  Loss is an action of its own and counts as a failure, so
fairness hides none.

That of `SensorNetwork` asks for the same of `HandleFrame`, publishing and delivering, and
besides that a frame no process can read is lost in the end, and that a process that was
started gets through `load_or_create_master_key`: neither waits for anything.  Nothing
forces the setup, the script or a death.

That of `PolicyEditor` asks for weak fairness of the push: each of its waits ends, with an
answer or after the 30 s of `_invoke`.  Nothing forces a block, a click or another client.

That of `Redeployment` is that of `Pipeline`: nobody has to wipe the ledger.

That of `Console` asks for weak fairness of the answers to requests and checks (the
API answers or the connection breaks; either ends the `await`), of the loop of
`verifyAll` and of the timer.  Nothing forces the user, the pipeline, the expiry of
the token or a failure.

No strong fairness is assumed anywhere.

## Where code and documentation part

* `unreachable_ledger`: `verify_hash` returns False for a query that failed, and
  both callers map False to `tampered`.  Their `failed` branch is never taken.
* `content_edits`: the re-verifier compares the *stored* hash.  An edit of
  `value` or `payload` alone is invisible to it for ever.
* `duplicate_rows`: the UPDATE matches both rows of a reading that was published twice.
  A second copy's `intact`, answered before, takes the place of the `tampered` that the
  re-check has found in the edited first row meanwhile; nothing fails on the way.
* `audit_overwrite`: the key of an entry is device, millisecond and consumer, and
  `PutState` overwrites, where the comment says "appends".
* `aggregates`: `fromtimestamp` is given milliseconds and raises outside the
  `try`, so hourly aggregates end in a 500 once the device has readings.
* `stale_banner`: the page judges the answer to an earlier request by the mode of
  the present.  A forensic answer that comes after the switch back to strict mode is
  shown, with every tampered row, under "all rows intact."

## The proofs

`tlapm` checks the eight proof modules to the last leaf.  The theorems hold for every
value of the constants that satisfies the named assumptions: `LedgerAssumption`
(the published contents are payloads, the nil of `GetState` is no digest),
`IngestionAssumption`, `BatchAssumption` (a positive batch size),
`EditAssumption`, `PolicyAssumption` (keys of devices and types differ, which the
code does not check: see below; the nil value is no policy), `SharingAssumption` (each consumer has a role, the
requests are about known devices and routes), `TransportAssumption` (each mote
has a type, perhaps unknown), `KeyAssumption` (no key
is the empty one, and neither is "no file"), `NetworkAssumption` (a gateway for each type),
`EditorAssumption` (the page registers for a known owner, the legacy type is no
device, the nil value is no transaction), `APIAssumption` (the table has finitely many
rows, each with a device and a stamp, and an answer may hold at least one) and
`ConsoleAssumption` (the page's nil value is no device, each row has a verdict or is yet to
come).

**Pipeline.**  `IntactIsAnchored` and `NoFalseAlarm` are not inductive: whether
a verdict about to be written is right depends on what the process learnt some
steps before.  `IInv` says what each process knows at each of its steps:

1. `WellFormed`: types; the message in hand is the last row; the re-verifier
   holds an answer only for the head of a batch.
2. `TransactionsHonest`: each transaction carries the published hash of the row
   it was made for.  So whichever block comes next, `LedgerHonest` stays true,
   and with it `LedgerImmutable`.
3. `AnsweredByLedger`: while the ingestion waits, its transaction is in flight
   or its record is there; when it verifies, the record is there.
4. `SettledIsRecorded`, `BatchIsRecorded`: a settled row, and every copy the
   re-verifier made of one, has its record.  That is why the re-check never
   takes a missing record for a mismatch, in spite of `VerifyHash` giving the
   same answer.
5. `VerdictIsDecided`: a callback that comes to settle its row has a verdict.
6. `UneditedIsGenuine`, `BadVerdictsHaveACause`: what is stored or copied of an
   unedited reading is the published hash; without a failure nobody holds a bad
   verdict of it.
7. `HarmIsCounted`, behind `EachFailureHarmsOneReading`: the readings that are harmed, and
   those about to be (`AboutToBeHarmed`: a process holds a bad verdict that is not written
   yet), number no more than the failures.  `HarmStep` shows that a step without a failure
   makes no reading join them, and one with a failure at most one, that of the process it
   befalls; the others of its batch stay settled, whatever verdicts they have.

`RowsAfterStep` and `BatchAfterStep` say once what any step may do to a row and
to the batch; the preservation of each part then needs the cases that matter to it.
`PipelineImplements` maps a step to `Witness` (a block with a new record),
`Serve` or `Withdraw` (a verdict is written) or a stutter.

**Settlement.**  That a pending row is left alone is not inductive: the re-verifier
writes to a row it copied long before, and the callback to one it inserted before two
slow calls.  `SettlementIInv` says that the two never hold the only row of a reading together:
the row in hand stays `pending`, the rows in the batch are settled and stay so, and the callback
holds a verdict when it comes to write.  Of a reading with several rows nothing of the kind
holds (`duplicate_rows`), and nothing is assumed: `Alone` is a condition on the row, not on the
instance, and other readings may have any number of rows meanwhile.  The theorems are
about `RedeploySpec`, the ledger being wiped at any moment included.  `VerdictsAfterStep`
says what any step does to the rows; each of its cases is one `Write` of `VerdictTable`, or
none (`PipelineIsTheWriter`): an INSERT is an `Insert`, and the UPDATE gives all the `Twins` one
verdict.  `WipedLedgerIsHonest`: a wipe takes the transactions on their way with it, and those
that follow carry the published hash.

**Access policies.**  `PolicyIInv` says that a transaction under way is based on the
policy it read, unless it read none.  `CheckAccessIsLeast` is the argument about
the combination of levels, by the cases of `CheckAccess`.

**Policy editor.**  That a push is `written` says nothing of policies by itself.  `EditorIInv`
adds that the transaction it waits for carries its key and grant, so that its block puts
them in place; afterwards only a block with the same key can change that, and that one is
remembered in `overwritten`.  `CommittedHolds` then follows from the argument about
`CheckAccess`: the least of two policies is at most each.  `EditorImplementsPolicies` maps
every step to one of `AccessPolicies` or a stutter, whence `PolicyIInv`.

**Sharing API.**  `ServedWithinGrant` and `AuditAgrees` speak of requests that are
over and of entries that are written; `IInv` of `SharingAPI` speaks of those on
their way.  `RequestKnows`: an answer held is one the request is entitled to,
and so is whatever is in force while it waits.  `EntryAgrees`: an entry, written or
in a thread, is about a decided request, whose outcome can no longer contradict
it.  `OneEntryEach`: a request has one entry at most; this is why an overwritten
entry is always *another* request's (`OverwritingIsConfined`).  `Untouched` says once
that a step of others leaves what a request knows alone, so that the steps of the
request itself (`KnowsOwnStep`) and of the administrators (`KnowsPolicyStep`) remain.
`PolicyIInv` is part of the invariant: the policies are those of
`AccessPolicies` (`SharingKeepsPolicies`), and their theorems carry over.

`SharingImplements` needs no history variable.  A request is granted when the query is
answered (`QueryGrants`), by the level in force at that very moment, and denied one step
later (`EnforceDenies`); a crash in between decides nothing.  It is served only after a
grant (`SelectServes`), and `EntryAgrees` is what makes `LogAccess`, much later, a `Record` of
what was decided (`AuditRecords`).  `NothingSeen` disposes of the other steps.  The
refinement says more than `ServedWithinGrant`: an API that remembered a level seen earlier in
the request would satisfy that one, and is no reference monitor.  `DecisionsAreNotForgotten`
is the safety part of `DecisionsAreAudited`: what overwrites an entry has its key (`KeysStay`).

**Transport.**  `RecordIdsAreUnique` is not inductive: that the next frame gives a
new id depends on the window, which a restart empties.  `IInv` adds
`WindowCoversAccepted`: the window is past everything accepted in this millisecond
or in this life of the gateway.  A restart empties the window, but ends the
millisecond and the life with it.  `CoverStays` proves that, `AcceptedIsNew` that
the next reading is ahead of all it could clash with.

`NumbersAreAccountedFor`, the safety part of `EveryNumberArrives`, is not inductive either: it
does not say why a dropped frame was not the only one of its number.  `NoGaps` does: what a
mote sent before a frame is on its way too or behind the window, and whatever is behind the
window became a reading.  A frame that arrives in its turn then moves the window by exactly one
(`HandledStep`), also when frames of two lives of a mote are under way.

**Master key.**  `OnlyRacersDiffer` is not inductive: two processes that both stand before
`create` would break it unless they are known to have raced.  `KeyIInv` adds that before there
is a file there is no key and nobody past the look for it (`NothingBeforeTheFile`), that a
process before `create` shares the race with every other such process and with every key in
use (`CreatorsRace`), and that the script's gateways never get that far (`ScriptKeepsOut`).  The
file never goes away, so this survives every interruption.  `OneSetupMakesOneKey` draws the
conclusion for a setup as `start_gateways.sh` asks for it, with one process started by hand:
nobody is there to race, and the key is single.

**Sensor network.**  `NetworkImplementsTransport` and `NetworkImplementsKeys` map each step to
one of `Transport` and of `KeyManager` or a stutter; `NetworkRecordIds`, `NetworkWindows` and
`NetworkDropsNothing` follow from the theorems there.

**Integrity API and console.**  `AnswersAccountForRows` is about an answer that is complete; it
is decided by two queries, with the pipeline writing in between.  `RequestKnows` says what
the first query leaves behind: every row that nobody has written since is in the answer, or
rightly not, or the answer is full of rows none of which is older (`FilledByNewer`).  That rests on
`NewestProperties`: the newest rows number `Limit` or are all there are, and nothing newer is left out.  A write
takes every row it changes out of `steady`, so it leaves the rest alone (`WriteKnows`).

`OutcomesBelongToRows` is about cells, while an outcome comes from a check that may have been
started long before.  `ChecksBelongToCells`: a check whose cell is still on the page asked about
the reading in its row.  Rendering empties the cells and detaches the checks, and neither
alone would do.  `LastRowsAreShown` carries it over to `verifyAll`, which takes its rows from
`LAST_ROWS` and its cells from the page: the two differ only while one of them is empty.

**Only model-checked.**  `VerdictsConverge`, `EveryReadingAccepted`, `DecisionsAreAudited`,
`EveryNumberArrives`, `PushEnds`, `LiveViewConverges` and `VerifyAllEnds` need fairness,
which the prover does not handle.  Of the second to the fourth the safety part is proved:
`NoFalseAlarm` with `EachFailureHarmsOneReading`, `DecisionsAreKept` and `NumbersAreAccountedFor`
say that nothing is lost or goes wrong meanwhile.  Every invariant and every action property of
a passing run is a theorem.

## What is not modelled

Left out for good: ciphers and key derivation (pure functions), Contiki-NG and RPL,
Mosquitto, Fabric beyond its use here, logins and tokens (but for the console's), and layout.

* Of the sharing dashboard, what only shows an answer: the probes, the audit panel, and
  the loading of the forms.  `PolicyEditor` lets any form be pushed, so what it says holds
  whatever a form was filled with; that a late answer may fill the wrong one is listed as a
  hazard.
* Of the deployment, all but the wiped ledger: the script is linear and runs alone.  That
  it also removes policies and audit log needs no model: a request is then denied.
* Of the sharing API, the routes that only read (audit, policies, health) and `login`, which
  signs a token and keeps nothing.
* Two gateways of one type, as from starting the script twice: which socket gets a frame is
  up to the kernel.  That each may have a master key of its own is in `KeyManager`.
* A device by the name of `type_` and a sensor type.  `RegisterDevice` (`iot_contract.go:204`)
  and `/devices/register` take any name, and that one's key is the key of the type's policy.
  `PolicyAssumption` excludes it, and `TypePolicyIsRegisteredOnce` needs that; the gateway only
  ever names devices `mote-<n>`.

## Plan

Written, in this order: the pipeline first, as the platform's main claim rests
on it, then the policies, then the audit log and the sharing API on top of them,
then the transport, then the integrity API and its console, then the key manager below
the transport, the policy editor above the policies, the wiped ledger, and last `VerdictTable` between the
pipeline and the integrity API.  What may follow:

1. `Transport` composed with `Pipeline`, so that the bound on copies becomes a
   consequence of the broker's behaviour.
2. The loading of forms in the sharing dashboard.

Theorems that may follow: that the copies of a reading in the table are bounded by the
failures of `Transport`, once the two are composed.
