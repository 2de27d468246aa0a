# A TLA+ model of DRIFTGATE

DRIFTGATE watches the JSON payloads of APIs: it infers a schema from each payload, records
a new version when the schema changes, classifies the change, tells the subscribed
consumers, and keeps what could not be told in dead-letter queues.  This directory holds
TLA+ modules of its stateful parts, the TLC configurations that check them on small
instances, and TLAPS proofs of the properties that matter most.

Contents: 1 inventory of the system, 2 modules and their correspondence to the code,
3 runs, 4 bounds and fairness, 5 proofs, 6 findings, 7 what is not modelled, 8 plan.

## 1. Inventory

Four programs: an Angular console (`frontend/`), a Fastify webhook gateway (`gateway/`), a
FastAPI runtime (`app/`) and a scheduled monitor with its own API (`backend/`).  The runtime
and the monitor keep their state in PostgreSQL; documents go to MongoDB.

| component (source) | state | operations | called by / calls |
|---|---|---|---|
| webhook gateway (`gateway/src/*.ts`) | set of idempotency keys in memory | `POST /webhooks/:source` | calls the runtime's `POST /track` |
| contract registry (`app/runtime/registry.py`, `service.py:127-227`) | `contract_registry_endpoints`, `contract_schema_versions`, advisory locks | `track_contract`, `upsert_schema_version`, `get_current_schema` | `POST /track`; calls the classifier, the outbox, the event publisher |
| webhook outbox and worker (`service.py:40-124`, `webhook.py`, `workers/outbox_worker.py`) | `webhook_outbox`, `webhook_delivery_attempts`, `webhook_delivery_dlq` | enqueue, inline delivery, poll, deliver, retry, give up | registry's transaction; a task per runtime process (`main.py:51-63`) |
| webhook DLQ replay (`webhook.py:239-306`) | the same tables | `replay_dlq_entry` | reliability API |
| subscriptions (`subscriptions.py`) | `consumer_subscriptions` | create, update, select affected | subscription API, outbox |
| drift events (`events.py`, `event_backends.py`, `drift_event_dlq.py`) | `drift_event_dlq`, a gauge, tasks in flight | publish with retries, record failure, replay | registry; reliability API |
| legacy snapshots (`core/engine.py`, `main.py:127-191`) | `api_endpoints`, `schema_snapshots`, `contract_drift_violations` | register snapshot, promote baseline, log violations | `POST /track` after the registry's commit |
| classifier (`classifier.py`, `canonical.py`, `models.py`) | none | canonicalize, diff, classify, summarize | registry |
| monitor (`backend/app/workers/monitor_runner.py`, `core/locking.py`) | runs, snapshots, diffs, a session lock | `run_monitor` | scheduler and API |
| schema inference and diff (`backend/app/core/schema_*.py`) | none | infer, diff, severity | monitor |
| changelog (`backend/app/core/changelog.py`) | cached texts | generate per endpoint and day | changelog API |
| review workflow (`app/runtime/contract_review.py`) | a graph's state per request | collect, ask a model, check grounding, fall back, store | AI API; reads the document store and six tables |
| document store (`document_store.py`) | documents per collection | insert, list the newest | registry, validation handler, reviews |

What is hard in them: concurrent `/track` requests on one endpoint; several runtime
processes, each with a delivery worker; transactions that commit in the middle of a caller's
work; crashes between two commits; answers of consumers and of the runtime that are lost
after the work was done; a process memory that a restart forgets; state read before an
`await` or a commit and used after it.  `PROJECT.json` lists each hazard at its line, with
the properties that cover it, or why none does.

What makes each component correct:

* registry: one gapless, immutable chain of versions per endpoint, one current version, the
  committed classification is the verdict against the predecessor, no request is refused by
  a UNIQUE constraint, every request ends;
* outbox: a version and its outbox rows are committed together, a row called DELIVERED was
  received, a row given up is in the DLQ, attempts are bounded, settled rows stay settled,
  every row settles;
* gateway: only verified deliveries reach the runtime, 202 and 409 say the truth about what
  the runtime has done, an accepted key is not forwarded again;
* drift events: an event is published or in the DLQ, a replayed entry stays replayed, the
  gauge counts the entries;
* legacy baseline: no insert without ON CONFLICT is refused, an endpoint with a baseline keeps one,
  and it has one only (asserted by `tests/test_runtime_track.py`) unless a promotion overtook another;
* the whole way of a payload: what is answered with 202 is in the tables of both halves, the
  announcements of changes and the committed versions belong together;
* the three comparisons of payloads: their verdicts fit what was lost between the payloads, and
  fit each other;
* monitor: one run at a time, a run that ends is recorded, the tables are those
  of runs that happen one after another, so each diff is between consecutive snapshots;
* review: what is stored rests on the collected evidence, and what was known when the request
  came is not overlooked.

## 2. Modules

### SchemaRegistry (and VersionHistory, the abstract specification)

One request is one PostgreSQL transaction at READ COMMITTED; one action is one SQL statement.
`table` and `endpoints` are the committed rows.  The uncommitted writes of a transaction are
kept apart in `creates` (the endpoint row), `demotes` (the cleared `is_current`) and `draft`
(the inserted row), and `Written` applies them at the `Commit`.  A request inserts at most one
row, so a row's id is the request that inserted it.

| action | code |
|---|---|
| `EnsureEndpoint` | `ensure_endpoint`, `registry.py:21-70`; ON CONFLICT waits for an uncommitted row of the same key |
| `FastLookup` | the lookup outside the lock, `registry.py:122-141` |
| `AcquireLock` | `pg_advisory_xact_lock`, `registry.py:143-146`; `LockId` is not injective |
| `ReadCurrent`, `Recheck` | `registry.py:148`, `150-169` |
| `Demote`, `InsertVersion` | `registry.py:174-180`, `171-216` |
| `ClassifyVersion` | `service.py:180-227` |
| `Commit`, `Abort` | `main.py:122`, and the rollback by PostgreSQL when anything fails |

The UNIQUE constraints are deliberately not guards: `UniqueConstraints` states that the lock
already makes them hold for committed and uncommitted rows together.  `Verdict` is any
function of two schemas.  With inline delivery the same transaction commits earlier, inside
`deliver_with_retry` (`webhook.py:101/137`), after all of the registry's statements: for the
registry the two commits are the same step.  A failure after that commit answers the client
with an error about a version that is committed; the model then has the request "done".

`VersionHistory` is what readers are promised: a sequence of pairwise different schemas per
endpoint that only grows at its end.  `ImplementsHistory` is that specification under the
mapping that reads version `1 .. Latest(k)` off the table.

### OutboxDelivery (and DeliveryPromise, the abstract specification)

A request (`track`) goes through `Detect`, `InsertRow`, and with `INLINE_WEBHOOK_DELIVERY`
`InlinePost`, `InlineLog` (which commits) and `InlineSettle` per subscription, then
`FinishTrack`.  A worker goes through `Poll`, and per row `MarkDelivering` (which commits and
so releases the whole batch), `LookupSubscription`, `WorkerPost`, `WorkerLog` and one of
`SettleDelivered`, `SettleExhausted`, `SettleRetry`.  `rowLock` holds the row locks of FOR
UPDATE and of uncommitted updates.  `Post` gives the consumer the choice to have received the
webhook whether or not the answer is good, but not a good answer without having received it.
`CrashTrack` and `CrashWorker` are a death of the process, a cancelled task and a failed
statement: the code reacts to all three by losing the transaction and, in the worker, by
starting a new poll (`outbox_worker.py:158-170`).  `Toggle` is the PATCH of a subscription's
active flag.  The runtime always starts a worker (`main.py:54`) and delivers inline by default
(`service.py:56`), so both at once is the normal deployment.

A replay of a dead letter is `OpenReplay` (the entry and the consumer's newest subscription, any row
that shares the key), `ReplayPost` and `ReplayLog`, or it ends in `CrashReplay`.  It sends the payload
again and commits an attempt of its own; the entry and the outbox row stay what they are
(`webhook.py:239-306`), so a FAILED row stays FAILED although the consumer has the webhook now, and
replays are not counted by anything.

The branch for a missing subscription (`outbox_worker.py:67-74`) is left out: nothing in the
program deletes a subscription, and the foreign key removes the outbox row with it.

`DeliveryPromise` is what the tables show to the one who changes a contract: `Find` chooses the
affected subscriptions, `Record` makes the change and all its notices appear at once, `Receive` is
a consumer's receipt of an open notice or of one with a dead letter, `Deliver` and `GiveUp` end an
open notice for good.  `ImplementsPromise` is that specification under the mapping that reads
PENDING and DELIVERING as open; the uncommitted inserts, batches, locks and retries disappear.

### Gateway

`Refuse` and `Forward` are the handler of `server.ts` up to an early return or up to its
`await`, `Accept` and `Fail` what follows the await; JavaScript runs each of them without
interruption.  `Refusal` has the early returns in their order, the duplicate check before the
signature check.  `RuntimeTracks` and `RuntimeRefuses` are the other side of `forward.ts`,
free to happen before or after the gateway has given up.  `Restart` empties the store.

### LegacyBaseline

The second half of `POST /track` (`main.py:127-191`, `core/engine.py`).  The first transaction takes
the lock of the route (`LockRoute`), adds the endpoint and the snapshot if they are not there
(`EnsureLegacyEndpoint`, `RegisterSnapshot`) and commits (`CommitSnapshot`).  The second one reads the
baseline without that lock (`ReadBaseline`); a request that inserted its snapshot and found no
baseline demotes all and promotes its own (`StartDemotion`, `Demote`, `Promote`), and `Compare` logs the
differences that have a severity.  An UPDATE acts on the rows that were committed when it started:
`scanned` are those rows, `locked` the ones it holds until its commit, so a promotion can be
overtaken by another whose snapshot it does not see.

### TrackPipeline

Gateway, the first half of the handler and LegacyBaseline composed: a delivery of the gateway is a
request of the runtime, `sent` starts its first half, and the handler's answer (`AnswerTrack`, or
`AbortTrack` and `AbortSecondHalf` for an error) takes the place of Gateway's runtime that may do
anything.  The first half is coarser than SchemaRegistry, whose promise it takes over: `history` is
VersionHistory's variable and changes by its `AddVersion` only.  What it adds is the order of things:
the event is published (`Announce`) before the commit (`CommitTrack`), an inline delivery commits
before both (`CommitInline`), and the legacy half starts after the commit (`BeginSecondHalf`), unless
the namespace is one of the benchmarks'.

### Payloads, Classifier, Compatibility, LegacySchema, LegacyDiff, MonitorSchema, MonitorNode, Readings, SchemaComparison

Pure functions on payload trees (`Payloads`).  Each of the three detectors has a module that walks a
payload and one that compares what two walks have left: `Classifier` is how the registry flattens
a payload (`canonicalize`, `_flatten`), `Compatibility` how it compares two of these (`_classify`,
`diff_and_classify`, `summarize_classification`); `LegacySchema` has the fingerprint and the flattened
types of the second half, `LegacyDiff` their comparison (`structural_diff`, the severities);
`MonitorSchema` is how the monitor walks an answer (`_walk`), and `MonitorNode` what becomes of one path:
`EmitScalar` and `WithValue` are `_emit_value` of a scalar, `pick_change_type` and `ChangeAt` the
comparison of two nodes and of two schemas, `SEVERITY_TABLE` their severities.  The inference is a
fold, because the items of an array write the same nodes one after the other; `NodeOf` is the node
that a set of scalars should leave, in closed form.

`Readings` puts the walks side by side with `Positions`, the plain list of what is where.
`SchemaComparison` observes two payloads one after the other and states how far the three
comparisons agree with each other and with what was lost.  What is read off a payload is its
constant `Views`, for which TLC is given `ReadingOf`: the walks are recursive, so they are
checked, and nothing that is proved about uses them.  What the comparisons rely on is `Faithful`, a
statement about one payload: the leaves of the registry are the scalars and lists, but below a field
"type"; the legacy schema has all of them; a node of the monitor says what the scalars at its path
say together, or which object or list is there.  `ReadingIsFaithful` checks that of every payload, and
of every pair that one version of the registry is one snapshot of the legacy tables and that the
order of items is forgotten.  The keys `required` and `enum` that `_classify` looks for are never
written by `canonicalize`, and payloads with fields named `required`, `enum` or `nullable` are left
out.

### EventDlq (and EventLedger, the abstract specification)

`Raise` starts the task of `publish_fire_and_forget`; `Publish` is one attempt of
`publish_with_retry`, `InsertFailure` and `CommitFailure` the two halves of
`record_event_failure`, between which the gauge counts a row that nobody else sees.  A replay is
`ReadEntry`, `Republish` (one call, no retries), `MarkReplayed` or `Reopen`, and `Reread`; any
number of operators may be anywhere in it, because no statement locks the row or looks at its
status again.  `Call` lets the broker take an event also when the call fails.  `LoseFailure` and
`FailReplay` are failed statements; `Restart` forgets tasks, requests and the gauge, which has
no other home than the process's memory.

`EventLedger` is what readers of the broker and of the table may count on: an event that was raised is
published, or waits in the table (`Keep`) until a replay of it has been taken (`Replay`), and a failed
replay opens it again (`Reopen`); only an event of which neither end knows may be lost (`Lose`).
`ImplementsLedger` is that specification under the mapping `FateOf`, which reads the entry, or else the
end of the task; attempts, the uncommitted insert and the requests of operators disappear.

### MonitorRun (and RunHistory, the abstract specification)

A run goes through `Start` (connection, BEGIN and `pg_try_advisory_lock`), `Load`, the coroutines of
its endpoints, `CommitRun`, `Unlock` and `Leave`; a refused request goes from `Start` to `Leave`, a
failed run through `Rollback` and `RecordFailure`.  A coroutine is `Fetch` (the answer, the new
snapshot, the start of its flush), `Stored`, `Compare` (the prior snapshot, the differences, the start
of the second flush) and `Saved`; between those steps the other coroutines run.  `Flush` is what
SQLAlchemy does with a session that several coroutines share: a flush during another one raises,
`gather` returns the exception, and what was added stays in the session until the next flush or the
commit.  `pool` and `conn` are the connections of `database.py`, `held` is PostgreSQL's count of the
lock per connection, and `Browse` stands for every other request that uses the pool.  `Break` is a
failed statement, with or without the loss of the connection.

Four things a reader of the code might not expect are in the model because they are in the code:
the row of a run is only flushed, so nobody sees a run that is under way (the 409 never names it)
and a rollback takes it away before `RecordFailure` can mark it; a coroutine whose flush was refused
leaves a snapshot that is committed without having been compared, and the next run compares with
it, so that change is never reported; the unlock may reach the wrong connection (finding 4); and
the snapshot of a failed fetch is found as the prior one like any other, because its JSON null is
not an SQL NULL (`monitor_runner.py:207`): the first answer after a failure is compared with nothing
and a change across the failure is never recorded.

`RunHistory` is what the tables of the monitor show to their reader: runs that happen at once, one
after another.  `Happen` appends one snapshot to every endpoint and records the run with the
endpoints it has finished and those with differences; an endpoint that was compared is compared
with the newest snapshot there is, and what was not compared (a refused flush) is neither counted
nor does it have differences.  `Vanish` is a run that is refused, fails or is stopped.
`RunsAreSerial` is that specification under the mapping `Told`, which drops the samples that the
sweep removes.  It says that the lock, although it stays behind in the pool, and the prior snapshot,
although it is read long before the commit, never let a run overlook another's; and that a failed
run leaves neither a row nor a snapshot.

BEGIN and the lock attempt are one step: `created_at` is the time of BEGIN, and an entire run of
another request would have to fit between the two for the order of the snapshots to differ from
the order of the runs.  The registry file is the same for all runs.

### ReviewFlow

`log` is everything that was recorded, documents and rows alike, in the order of their timestamps;
a collection or a table is the part of one kind.  The recording actions are the inserts of the
document store, the legacy validator, the delivery and the event publisher; documents may be
stored for an endpoint whose request was rolled back.  A review goes through `Request` (404 for an
endpoint without a committed row), seven `Collect` steps in the order of the code, and then
`ReviewWithoutModel`, `ModelAnswers` or `ModelFails`; only the call of a model waits, so
summarising, validating and grounding belong to these steps (`Settle`, `Verify`).  `Models` is how
many models the provider asks in turn: none for the disabled one, one for OpenAI and Gemini, two
for Ollama with another fallback model.  `Items` has the windows: documents are cut to twice the
limit over all endpoints and then filtered, rows are filtered by the query, validation errors
belong to no endpoint.  `Abort` is any failure before the document is stored.

An answer of a model is any member of `Outcomes`; nothing in the code compares its decision with the
evidence, and no property says it agrees.  `says` is the outcome of the search for phrases in
`_severity_from_evidence`, free for each diff, because the searched text is a prefix of the JSON
of its differences.  Severity as an output, confidence and texts are left out, and so is a
runtime without a document store.  Drift violations have `LegacyId` and are looked up with
`RegistryId`, as in the two tables: that kind of evidence stays empty.

## 3. Runs

| run | instance | distinct states | what it shows |
|---|---|---|---|
| `registry` | 3 requests, 2 endpoints on one lock, 3 schemas | 108,306 | five safety properties, the refinement of VersionHistory, and that lock waits and endpoint-row waits form no cycle |
| `outbox_worker` | 2 requests, 3 rows of which 2 share a dead-letter key, 1 worker, no inline delivery, 1 crash, 1 pause, 1 replay | 3,662,841 | the outbox alone implements DeliveryPromise: transactional, final states, which no replay touches; bounded attempts but for replays |
| `outbox_race` | 1 request, 2 rows, 2 workers, inline delivery, 1 crash, 1 pause | 1,800,173 | DELIVERED and FAILED tell the truth although three parties write them, a crash strands at most one row in DELIVERING, every other row settles for good |
| `outbox_atomicity` | 1 request, 2 rows, 1 worker, inline delivery, 1 crash | violation | finding 1 |
| `track_pipeline` | 3 deliveries of one key and endpoint, 2 namespaces of which one is a benchmark's, 2 schemas, 1 restart | 1,149,254 | what the sender was told is in the tables of both halves, announcements and versions belong together, baselines stay, and a 202 has one unless a promotion died or is still to come |
| `gateway_duplicates` | 2 deliveries, 1 key | violation | finding 2 |
| `eventdlq_replay` | 2 events, 2 operators, 3 replays, 1 crash | 22,259 | the tasks and the table implement EventLedger, every raised event arrives, REPLAYED is true, and final but where replays of one entry overlap, the gauge counts what waits until they do or something fails |
| `eventdlq_gauge` | 1 event, 2 operators | violation | finding 3 |
| `monitor` | 2 runs after an earlier one, 2 endpoints, 2 connections, another reader, 1 crash, failed statement or lost connection | 1,576,892 | runs never overlap, a success is complete although coroutines share a session, the tables implement RunHistory, old samples go, every run ends in the table |
| `monitor_lock` | 1 run, another reader | violation | finding 4 |
| `review` | 1 review, 3 endpoints of which 2 are registered, 3 rows, limit 1, 2 models | 4,909,762 | what is stored is grounded; a diff in sight when the request came blocks the fallback unless displaced |
| `contracts` | every pair of 138 payloads | 19,183 | what is read off a payload is what is there; the three comparisons fit what was lost and each other; the monitor forgets only the order of items, and is silent only about payloads of one meaning |

`ImplementsPromise`, `PostsAreBounded` and `SettledIsFinal` are properties of the outbox alone
and are checked where the code provides them, without inline delivery and with one worker.  With
two workers, or with inline delivery, a row is sent by both and a settled row can be opened again;
the repository promises neither, so these are described here and under the hazards and not
claimed.  `ReplayedIsFinal` and `GaugeCountsPending` except the entries of which two replays were
under way at once, the gauge also what comes after a failure or a restart: the slower replay's
failure reopens an entry that the faster one has replayed, and both decrement when both succeed
(`drift_event_dlq.py:201-220` has no condition on the status).  Two operators on different
entries, or one after the other on the same, are not excepted.  The history variable `overlapped`
remembers these entries; no guard reads it.  A row of which the only party died between the commit
of DELIVERING and that of the outcome is `Stranded`: nothing in the code polls it again, so
`EveryRowSettles` excepts it and `DeliveringIsHandled` bounds these rows by the crashes.
`AcceptedIsRecorded` says that the endpoint of an accepted delivery has a baseline unless every
inserter of one of its snapshots died before its promotion or is still about to promote: the retry
of a request that died there finds the schema known, promotes nothing, compares with no baseline
and is accepted.  `SingleBaseline` names the case in which two baselines are
active, and `DetectorsAgree` and `RegistryJudgesLosses` the payloads (with a field "type", with
mixed items) about which the comparisons differ.

Every property of a passing run has a mutant, a plausible bug in one mapped definition, that
makes TLC report exactly that property; the mutants stand before the definitions they replace.

## 4. Bounds and fairness

Registry: a fork or a gap needs two writers, a wrong predecessor a third version, and the
collision of two endpoints on a lock a writer on each; three requests and three schemas contain
all of these.  Outbox: `MaxAttempts = 2` is the least with a retry and an exhaustion (the code has
5); `BatchSize = 2` the least at which a batch outlives its locks; three rows of two requests
exceed the batch.  `MaxCrashes`, `MaxToggles` and `MaxRestarts` cap events that may happen
anywhere; one of each reaches every cut of a handler.  `MaxReceipts` caps what a consumer got, at
one more than the sends allowed, replay included; in `outbox_race` it is one, because the
properties there only ask whether anything was received.  Pipeline: three deliveries are a first schema,
a change and a repetition or a forged third, on one endpoint and one key, because deliveries of
different endpoints and keys meet in nothing but the lock; `SmallInstance` has one of them in the
benchmarks' namespace at most, and two if there is a restart.  Every assignment of the two schemas
is an initial state, and every pair of schemas has a severity. Payloads: values of every kind
alone, next to another field and in lists of up to three items, one and two levels deep, with and
without a field "type"; with `EnumThreshold = 1` two strings are more than an enumeration holds
(the code has 10). EventDlq: two attempts are one retry and one exhaustion (the code has 3); three
replays try one entry, fail, try it again and then the other.  Crashes and pauses of a
subscription are explored with and without inline delivery, replays of webhooks by
`outbox_worker`; replays together with inline delivery and several workers are covered for the
safety properties by the theorems of section 5.  MonitorRun: two endpoints are the least whose flushes
meet; a snapshot of an earlier run and two runs are the least with a snapshot that could be passed
over; two schemas and a failed fetch are all answers the comparison tells apart; the two differ
visibly, and changes that the hash sees and `diff_schemas` does not are left to the theorems.
ReviewFlow: reviews share nothing but the log, so one is enough; with a limit of 1 the windows are
one and two rows wide and three rows overflow both; the four outcomes are an answer without
citations, with a grounded one, with a number that only begins like a collected one, and with one
line of two that cites nothing. Symmetry is used in `track_pipeline` only, over deliveries and
over the two schemas with their fingerprints, which no definition distinguishes; it has no
liveness property.

Fairness is weak and only on the system's own steps.  `SchemaRegistry`: a request that can take
its next statement takes it; PostgreSQL answers, and a free lock is granted.  Strong fairness is
not needed: with finitely many requests, each lock is asked for finitely often. `OutboxDelivery`:
a running request and a worker go on, because the worker loops until the process stops and sleeps
at most a second (`outbox_worker.py:158-170`), and the HTTP client has a timeout of five seconds
(`webhook.py:78`); time passes (`Tick`).  Clients need not call, consumers may fail for ever,
nothing has to crash, operators need not replay nor finish.  `EventDlq`: a task of the event loop
runs on while the process lives; replays are not fair, operators need not finish.  `MonitorRun`: a
run goes on, because fetches have a timeout (`fetcher.py:35`) and the pool serves waiting requests
in order; nobody has to start one. ReviewFlow and TrackPipeline claim no liveness: each step may
fail and end the request. All runs but `registry` have `CHECK_DEADLOCK FALSE`: when all is
settled, answered or compared the system stops.  The registry run checks deadlock, with
`Quiescent` for the end of all requests.

## 5. Proofs

`SchemaRegistryProofs` proves, for every set of requests, endpoints, schemas, every verdict
function and every assignment of lock numbers, all the safety properties that `registry` checks,
and its `TypeOK`.  They are not inductive: that the version to insert is new depends on what the
request has read, and that on nobody else having written since.  `RegistryInv` adds per request
`Excludes` (who acts on what it read, or has a draft, holds the endpoint's lock), `Fresh` (the
current row it read is still there and current, or there is still none), `Unknown` (its schema is
still absent), `Progress` (which of its own writes exist at which statement), `Drafted` (what the
draft says) and `Answered`, and about the table `StoredUnique` and `OneCurrent`.  Every step but
the commit leaves the table alone (`QuietStep`); a commit either changes nothing (`CommitNothing`)
or appends one version to one endpoint (`CommitAppends`, `AppendedRows`), and then other requests
are either on other locks or have nothing at stake (`CommitOthers`).

The same module proves `Spec => ImplementsHistory` (`Refinement`): versions are dense (`Dense`), so the
mapping is a sequence; an append maps to `AddVersion` on that endpoint (`AppendedHere`) and leaves
the others alone (`AppendedElsewhere`); everything else stutters.

A version is classified against its predecessor only.  `ComparisonProofs` shows of the classifier
that this is enough, for any flattened schemas: a change is SAFE exactly if everything that was there is
there still, with its type and nullability (`SafeMeansKept`), and over two changes a schema changes
by at most the worse of the two (`ClassificationsCompose`).  Comparison is path by path (`ClassAt`,
`SummaryByPath`), so both follow from what `_classify` makes of two and of three nodes
(`NodesCompose`).  Their premise `WellFormed` says that a leaf's nullability is a Boolean, which
`Flat` gives by construction.  `ChainBoundsVerdicts` then lifts it to the tables of SchemaRegistry,
for any verdict that composes: between any two versions of an endpoint some committed
classification is at least as bad as the verdict of the two, so a reader of the stored
classifications alone cannot miss a break.

The same module has the algebra of the monitor's comparison.  Induction over an answer is out of
reach, but not induction over the calls that the walk of an answer makes: `InferSpec` is a state machine
that emits one scalar at one path per step, in any order and any number of times, and
`OrderIsForgotten` proves that at all times the node of a path is `NodeOf` the set of its scalars.
Its invariant adds only that the strings of a path are finitely many, so that their number grows
(`StringsGrow`): once it is above the threshold the enumeration is off for good, which is why the
cleared set need not be remembered.  `FirstNode` and `NextNode` are the step, for the type
(`TypeGrows`), null and the strings.  The machine has no run of its own: that the recursive walk
leaves the same nodes is `NodeReads`, a part of `ReadingIsFaithful`, which `contracts` checks.

From the closed form follows what a comparison says of answers of any size.  `SilenceMeans`
characterizes exactly when nothing is recorded, and `BothSayBreaking` proves that registry and
monitor agree on what breaks between two objects of scalars.  `BreaksCompose` is the counterpart of
`ClassificationsCompose`: what breaks over two runs has broken in one of them.  Its premise about
lists is needed, because only the first difference of two nodes counts: a list that becomes nullable
(risky) and ceases to be (safe) may have changed the type of its items meanwhile (breaking).  That
is hidden at the list's own path; the path of the items usually tells it.  No more than that
composes: {x} and {y} are two enumerations that differ, and an answer without strings between them
makes both steps silent.  `ListsHaveNoEnum` holds of every inferred schema, since a string makes a
list's node mixed.

What the three comparisons of payloads say is proved for any payloads: `LossesAreJudged` (the
registry never calls a version safe that has lost a leaf, and alarms about nothing else, as far as
no field is called "type"), `ComparisonsAgree` (registry, legacy detector and monitor tell the
same class at a path, with the exceptions that `DetectorsAgree` names) and `SilenceIsSameness`
(when the monitor records nothing, a path that had one kind of value has the same kinds after).
The three readers walk a payload recursively, so what they make of one payload is a premise,
`WellRead`: a statement about single payloads, whose positions determine the leaves, the structure
and the nodes. `contracts` checks it as `ReadingIsFaithful`. What is then left to prove is about
pairs: a plain leaf has one position (`PlainLeaves`), so its class is that of its path
(`ClassOfPath`, `SafeByPath`) and what the legacy detector sees at a path is the position's kind
(`KindAtPath`, `LegacyFits`); the monitor erases the indices of lists, which loses nothing on a
path outside lists (`ErasedBack`), so the node of a field there is the field's own (`FieldNode`,
`MonitorFits`). For silence the argument goes backwards: the node of a path tells the kinds found
there (`KindsOfNode`; `ListNode` for items), and the only path without a node is that of the items
of a list of objects, of which the list's node tells (`PathWithoutNode`).

`RegistryNeverDeadlocks` is the safety part of `EveryRequestEnds` for any number of requests and
endpoints: a chain of waits ends after two, because a request waits for an endpoint row before it has
anything (`Held`) and for a lock only while it has at most its endpoint row, and who has a lock
waits for nobody.  What such a request needs to go on is then in its `pc` alone; that the guards of
its action hold is read off the actions and not proved, as ENABLED is outside the prover's reach.

`GatewayProofs` proves what 202, 409 and the runtime's view have to do with each other for any
number of deliveries, keys and restarts, from `GatewayInv`: a stored key is backed by a tracked
delivery (`Backed`), a delivery past the checks was verified and belongs to the running process
(`Passed`), an accepted one is tracked and its key stored until a restart (`Remembered`).
`SerialCorrect` delimits finding 2: if no two deliveries of one key are at the await at the same time
(`Serial`), one process accepts a key once, by `Unspent`, that a key at the await is not yet accepted.

`TrackPipelineProofs` proves all ten properties of `track_pipeline` for any deliveries, keys,
namespaces, schemas, restarts and assignment of lock numbers.  The pipeline is a gateway
(`PipeImplementsGateway`) and its second half is the legacy module (`PipeImplementsLegacy`), so
what is proved of these carries over.  `LegacyInv` says that who is in the registration has the
lock of its route to itself (`OneWriter`), that uncommitted inserts are new (`Uncommitted`), that
an endpoint has no baseline only as long as everybody who inserted a snapshot is still to promote
one or died before it, and that who promotes has scanned its own snapshot (`Scanned`), so the commit
that hides the others shows it.  `BaselineWasActive` adds that what a request has read or made was a
baseline, from which the promise of a 202 about the baseline follows.  `PipeInv` adds what is
committed for a request at each place of the handler (`InOrder`, `Numbered`, `AnnouncedInTime`) and that a contract has one draft at a time
(`OneDraft`), the next number.  That `history` changes by VersionHistory's own action is proved too
(`PipeImplementsHistory`), so what the pipeline takes over from SchemaRegistry is exactly what
`Refinement` has shown of it.

`OutboxDeliveryProofs` proves for any requests, rows, workers, attempts, batch size, crashes and
pauses, with and without inline delivery, that DELIVERED rows were received (`DeliveredCorrect`)
and FAILED rows are in the DLQ (`FailedCorrect`).  Both are about committed rows, while the claim
is made earlier by an uncommitted update, and the evidence for it may be another party's, a
replay's too.  `OutboxInv` therefore says it of every place that carries a claim: the committed
status (`Truthful`), the updates a request has not committed (`TrackClaims`), what a worker is
about to write (`WorkerClaims`) or a replay to log (`ReplayClaims`), and the attempt log
(`RecordedWasReceived`); `Grows` says that receipts, log and DLQ only grow, so a claim once true
stays true (`EvidenceKept`).  Without inline delivery `OutboxTransactional` proves that a version
and all its rows are committed together; `TransactionInv` adds which rows a request in progress
has inserted and that workers only touch rows that are committed.

With one worker and no inline delivery (`Alone`) `PostsCorrect` and `SettledCorrect` prove the bound on
sends and that settled rows stay settled.  Attempts alone do not bound the sends, because a send comes
before its count and a worker may die between the two.  `CountInv` therefore counts one more for a
row in DELIVERING that is not about to be sent (`Uncounted`), and one for each replay that has sent
it (`Resent`); that a row left in DELIVERING is never polled again is what keeps this to one.  The
worker's remembered attempts are those of the table (`Carries`), which a second worker would break.
`DeliveringCorrect` needs neither restriction and holds with crashes: a row in DELIVERING is in
somebody's hands or `Stranded`, and as a worker has one row in hands at a time, a crash
adds one row to these at most (`WorkerHandles`, `OthersHandle`, `CrashesStrandOne`).

In the setting of `Alone`, `PromiseKept` proves that the outbox implements DeliveryPromise.  Only six
statements show: the reading of the subscriptions is a `Find`, the commit of a request its `Record`
(its inserts are the affected subscriptions and new, by `TransactionInv`), a POST a `Receive`, and the
two final UPDATEs a `Deliver` or a `GiveUp` of a row that is open because the worker has it in
DELIVERING (`Carries`), with a receipt if it was answered well (`WorkerClaims`).  A replay is a
`Receive` of a row with a dead letter (`Reads`); everything else stutters (`PromiseRests`).

`AnsweredCorrect` and `QueuedCorrect` delimit finding 1, by `QueueInv`, which says which of its rows a
request has committed at each place.  A request that was answered has left no affected consumer
without a row, with inline delivery and whatever else died; and a committed change is queued for
all of them unless a request died in the middle and delivery is inline.

`RowLocksNeverDeadlock` is about the row locks that requests and workers take in different orders: who
has one never waits for another, since a request lets go of its row at the commit inside the next
delivery, and a worker, which polls several rows at once, marks one of its own before it asks for
any other (`LockInv`).  `HoldersAssumption` (a lock names one transaction) is what makes the holder
of a lock a request or a worker.

`EventDlqProofs` proves, for any number of events, operators, replays and crashes, that no task
drops its event (`NothingDropped`) and that a REPLAYED entry was accepted (`ReplayedCorrect`),
from `EventInv`: a replay is about an existing row (`Opened`), and one past its call is about an
accepted event (`Sent`).  `GaugeCorrect` and `ReplayedStays` follow from
`GaugeInv`, for any number of operators: an entry that is not in `overlapped` is replayed by one of
them at a time (`OneEach`), so a request still to write finds it as it read it (`Waits`), and until a failure the
gauge is the number of entries that wait, that a task has counted and not committed (`Early`) or
that a request has settled and not counted (`Late`).
`LedgerKept` proves that tasks and table implement EventLedger, overlapping replays included.
Besides `EventInv` it needs only that an entry is there when its task is done (`EntriesAreDone`), so
that a restart, which ends every task under way, never makes an entry's event lost; two requests that
settle and open one entry in either order are a `Replay` and a `Reopen`, and what is neither
the end of a task nor an UPDATE stutters (`LedgerRests`) or is the broker's `Take`.

`MonitorRunProofs` proves every safety property of `monitor` for any number of requests, endpoints
and connections, any pool size and any tables left by earlier runs.  `OneRunAtATime` follows from
`PoolInv`: one connection holds the lock (`HeldByOne`), a run that can still commit has that
connection (`RunningHolds`), and a connection has one user or waits once in the queue
(`CheckedOutOnce`, `IdleOnce`).  The other three rest on it: while a run gathers nobody else
commits, so the snapshot that a coroutine found is still the newest at the commit
(`FoundCurrent`), a coroutine past its comparison has the difference that is due (`Compared`), and
the run has nothing in the tables before (`Unwritten`).  `MonitorInv` carries these with the
properties; the commit appends one snapshot per endpoint and an outcome of success means that no
flush was refused (`CommitAppendsSnapshot`, `CompleteMeans`).
`RunsSerialize` proves that the monitor implements RunHistory.  Only `CommitRun` changes the tables
(`RecordLeaves`: the update of a failed run finds no row), and `CommitHappens` maps it to `Happen`: the
snapshots told of grow by one per endpoint (`ToldAppends`), the run was not recorded before
(`Unreported`), and what each coroutine found is the difference that is due or none, also where its
flush was refused (`FoundTrue`).  `SerialInv` carries the last two.  That differences are between
consecutive answers and none of them failed (`DiffsCorrect`) is proved besides, for the snapshots of
earlier runs too.
`LockReleasedAlone` delimits finding 4: the unlock reaches its lock if requests of the service do not
overlap (`OneAtATime`) and no failed insertion keeps a run from its unlock.  `AloneInv` says why: there
is at most one connection then, which waits alone in the pool after the commit until the unlock
takes it out.

`ReviewFlowProofs` proves both safety properties of `review` for any number of reviews, endpoints,
rows and models and any limit, from `ReviewInv`.  The log only grows (`Grows`), so what was collected
keeps its meaning (`HeuristicStays`) and a row pushed out of the windows stays out (`PassedStays`, a
counting argument); a diff older than the request is in the evidence or was pushed out when it was
read (`NotReadIsPassed`, `Seen`); and a settled review rests on the evidence (`Rests`).  Its `TypeOK`
bounds the evidence by the windows: of a set of rows with fewer than n newer ones the least
(`LeastRow`) has fewer than n above it (`WindowIsBounded`).

The type invariants are not in the runs because they are proved, each from the inductive invariant
of its module.

Assumptions are those on the constants: `LockIdAssumption`, `VerdictAssumption`, `NoneAssumption`,
`GatewayAssumption`, `PipelineAssumption`, `RowsOfAssumption`, `DlqKeyAssumption`,
`BoundsAssumption`, `HoldersAssumption`, `EnumAssumption`, `EventDlqAssumption`, `MonitorAssumption`, `EarlierAssumption` (what earlier
runs have left is a table that the properties hold of), `ReviewAssumption`; TLC evaluates them on
each run that has their module.
A theorem about a setting (no inline delivery, one worker, no crashes) has it as its
premise, with the finiteness of what is counted: the replays, the events.  `SerialCorrect` and
`LockReleasedAlone` have theirs as a behaviour that the environment must keep to all along, since
nothing in the code enforces it.

Only model-checked: the liveness properties `EveryRequestEnds`, `EveryRowSettles`, `EveryEventArrives`
and `EveryRunEnds` (fairness and ENABLED are outside the prover's reach), and `ReadingIsFaithful`,
which says what recursive walks compute.  The other three properties of `contracts` are theorems
under `WellRead`, which is a premise and no assumption of a module because it is a result of those
walks and not a choice of a constant.

## 6. Findings

1. The outbox is not transactional with inline delivery (`outbox_atomicity`).  `README.md:21` of the
   repository names a "transactional outbox"; `deliver_with_retry` commits its caller's
   transaction, so a request that dies after its first delivery leaves the version committed and
   the other consumers without a row, and a retry finds the fingerprint known and announces
   nothing.
2. Overlapping duplicates pass the gateway (`gateway_duplicates`).  `gateway/tests/gateway.test.ts:84`
   and `README.md:50` promise that a duplicate key is rejected; the key is registered only after
   the awaited forward, and two deliveries in that window are both forwarded and accepted.
3. The gauge of event dead letters drifts (`eventdlq_gauge`).  `metrics.py:33` calls it "Current
   drift-event DLQ row count"; two overlapping replays of one entry both decrement it, since each
   looks at the status it reads back and not at whether its own update changed it.
4. The monitor's lock may stay held (`monitor_lock`).  `core/locking.py:24` says "Always releases on exit
   if acquired"; the commit inside the block gives the connection that has the lock back to the
   pool, and the unlock runs on the one the pool gives next.

Seen while modelling the reviews and described as hazards: drift violations are never found, since
their identifiers are those of another table (`contract_review.py:911`,
`001_contract_guard_schema.sql:30`); a breaking diff with a long path does not read as breaking
(`contract_review.py:1183`); citations are compared as substrings (`contract_review.py:1284`); a
bundle of drift-event dead letters alone is sufficient, but the review derived from it cites
nothing (`contract_review.py:365-369`); and a validation error of any endpoint makes a bundle
sufficient (`contract_review.py:960`).

A hazard in PROJECT.json without a property is a case in which the code does what one would not
want, so that no property can hold of it; the note says which property excepts it by name, or is
stated with the code's own comparison.

## 7. Not modelled

SchemaRegistry takes canonical form, hash and verdict as a set and a constant function; HMAC, JSON
and HTTP are abstracted to verdicts.  Metrics are left out as write-only, and so is
`get_runtime_metrics`, which counts rows; documents outside ReviewFlow are independent inserts.  The
changelog (`backend/app/core/changelog.py`) asks a model for a text and flushes one row that no commit
follows, so it keeps no state to be right about.  Of subscriptions the thresholds and filters that
select the affected ones are the constant `RowsOf`; creating one, or changing its target, does
not touch rows that exist.  Of the monitor's inference the examples and messages, the path rules of
`normalizer.py` and the hash are left out; `structural_ast` of the payload parser is called by nothing.
Digests are taken to be injective.  Which phrases a review
finds in a diff (`contract_review.py:1183`) is a free choice, since they are searched in a prefix of a
text.  The console, load tests, scripts, simulator, dashboards and migrations have no protocol of
their own.

## 8. Plan

What is left, in this order:

1. The selection of affected subscriptions by threshold and schema version, with the creation and
   re-targeting of subscriptions between an outbox row and its delivery.
2. The content of a review's evidence (what a document of a failed request says) and the replay
   artifacts of the document store.
3. SchemaRegistry in the place of VersionHistory inside TrackPipeline: the proofs compose already,
   the instance is beyond TLC.
4. Lists and objects in `InferSpec`: the first value at a path decides there, so the closed form would
   need the order after all, and the theorems would be about payloads that do not mix them.
