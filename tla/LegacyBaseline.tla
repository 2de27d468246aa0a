--------------------------- MODULE LegacyBaseline ---------------------------
(***************************************************************************)
(* The second half of POST /track (app/main.py:127-191, app/core/         *)
(* engine.py): the payload's schema is stored as a snapshot of its        *)
(* endpoint under an advisory lock of the route; then, outside that lock, *)
(* the first snapshot is made the endpoint's active baseline and later    *)
(* ones are compared with it.                                              *)
(*                                                                         *)
(* One action is one SQL statement or commit at READ COMMITTED.  A request *)
(* inserts at most one snapshot, so the id of a row is the request that    *)
(* inserted it.  An UPDATE acts on the rows that were committed when it    *)
(* started, in their latest version, once no other transaction holds one   *)
(* of them; who waits may be overtaken by a statement that starts later.   *)
(* The UNIQUE constraints are not guards: UniqueSnapshots states that they *)
(* never refuse anything.                                                  *)
(***************************************************************************)
EXTENDS Naturals

CONSTANTS Requests,   \* requests to POST /track
          Endpoints,  \* (service, method, route)
          Schemas,    \* legacy fingerprints
          LockOf,     \* the advisory lock of an endpoint's route
          Severe      \* the pairs of schemas whose differences get a severity

VARIABLES
  step,        \* where the handler of a request is
  payload,     \* the endpoint and the schema of a request
  apiEndpoints,\* committed rows of api_endpoints
  snapshots,   \* committed rows of schema_snapshots: who inserted them
  active,      \* those of them with is_active_baseline
  creates,     \* requests with an uncommitted row in api_endpoints
  inserts,     \* requests with an uncommitted row in schema_snapshots
  baseline,    \* the baseline a request has read or made, a set of at most one schema
  scanned,     \* the rows that were committed when its demotion started
  locked,      \* the rows its open promotion has updated
  violations   \* committed rows of contract_drift_violations

legacyTables == <<apiEndpoints, snapshots, active, violations>>
legacyOpen   == <<creates, inserts, scanned, locked>>
legacyVars   == <<step, payload, baseline, legacyTables, legacyOpen>>

Payload == [endpoint : Endpoints, schema : Schemas]

LegacyInit ==
  /\ step         = [r \in Requests |-> "idle"]
  /\ payload      \in [Requests -> Payload]
  /\ apiEndpoints = {}
  /\ snapshots    = {}
  /\ active       = {}
  /\ creates      = {}
  /\ inserts      = {}
  /\ baseline     = [r \in Requests |-> {}]
  /\ scanned      = [r \in Requests |-> {}]
  /\ locked       = [r \in Requests |-> {}]
  /\ violations   = {}

Endpoint(r) == payload[r].endpoint
Schema(r)   == payload[r].schema

RowsOf(e)    == {x \in snapshots : Endpoint(x) = e}
ActiveOf(e)  == RowsOf(e) \intersect active
Move(r, from, to) == step[r] = from /\ step' = [step EXCEPT ![r] = to]

-----------------------------------------------------------------------------
(* register_payload_snapshot: one transaction under the lock of the route. *)

HoldsLock(r, lock) ==
  step[r] \in {"ensure", "snapshot", "register"} /\ LockOf[Endpoint(r)] = lock

\* Mutant: the lock is not waited for.
LockRouteAnyway(r) ==
  /\ Move(r, "lock", "ensure")
  /\ UNCHANGED <<payload, baseline, legacyTables, legacyOpen>>

\* pg_advisory_xact_lock.
LockRoute(r) ==
  /\ Move(r, "lock", "ensure")
  /\ \A q \in Requests : ~HoldsLock(q, LockOf[Endpoint(r)])
  /\ UNCHANGED <<payload, baseline, legacyTables, legacyOpen>>

\* ensure_endpoint: a SELECT, and an INSERT without ON CONFLICT.
EnsureLegacyEndpoint(r) ==
  /\ Move(r, "ensure", "snapshot")
  /\ creates' = IF Endpoint(r) \in apiEndpoints THEN creates ELSE creates \union {r}
  /\ UNCHANGED <<payload, baseline, legacyTables, inserts, scanned, locked>>

Known(r) == \E x \in RowsOf(Endpoint(r)) : Schema(x) = Schema(r)

\* register_snapshot: a SELECT, and an INSERT without ON CONFLICT.
RegisterSnapshot(r) ==
  /\ Move(r, "snapshot", "register")
  /\ inserts' = IF Known(r) THEN inserts ELSE inserts \union {r}
  /\ UNCHANGED <<payload, baseline, legacyTables, creates, scanned, locked>>

CommitSnapshot(r) ==
  /\ Move(r, "register", "read")
  /\ apiEndpoints' = apiEndpoints \union {Endpoint(q) : q \in creates \intersect {r}}
  /\ snapshots' = snapshots \union (inserts \intersect {r})
  /\ creates' = creates \ {r}
  /\ inserts' = inserts \ {r}
  /\ UNCHANGED <<payload, baseline, active, violations, scanned, locked>>

-----------------------------------------------------------------------------
(* The baseline: a second transaction, without the lock.                   *)

\* Mutant: a snapshot is promoted only while it is the only one.
ReadBaselineOfFirst(r) ==
  /\ step[r] = "read"
  /\ \/ /\ ActiveOf(Endpoint(r)) = {}
        /\ baseline' = baseline
        /\ step' = [step EXCEPT ![r] =
                      IF RowsOf(Endpoint(r)) = {r} THEN "demote" ELSE "compare"]
     \/ \E x \in ActiveOf(Endpoint(r)) :
          /\ baseline' = [baseline EXCEPT ![r] = {Schema(x)}]
          /\ step' = [step EXCEPT ![r] = "compare"]
  /\ UNCHANGED <<payload, legacyTables, legacyOpen>>

\* get_active_baseline_snapshot: one of the active rows.  Only a request that
\* has inserted its snapshot goes on to promote it.
ReadBaseline(r) ==
  /\ step[r] = "read"
  /\ \/ /\ ActiveOf(Endpoint(r)) = {}
        /\ baseline' = baseline
        /\ step' = [step EXCEPT ![r] = IF r \in snapshots THEN "demote" ELSE "compare"]
     \/ \E x \in ActiveOf(Endpoint(r)) :
          /\ baseline' = [baseline EXCEPT ![r] = {Schema(x)}]
          /\ step' = [step EXCEPT ![r] = "compare"]
  /\ UNCHANGED <<payload, legacyTables, legacyOpen>>

\* SET is_active_baseline = FALSE: the statement starts ...
StartDemotion(r) ==
  /\ Move(r, "demote", "demoting")
  /\ scanned' = [scanned EXCEPT ![r] = RowsOf(Endpoint(r))]
  /\ UNCHANGED <<payload, baseline, legacyTables, creates, inserts, locked>>

\* Mutant: the demotion commits at once.
DemoteAtOnce(r) ==
  /\ Move(r, "demoting", "promote")
  /\ \A q \in Requests \ {r} : locked[q] \intersect scanned[r] = {}
  /\ locked' = [locked EXCEPT ![r] = scanned[r]]
  /\ active' = active \ scanned[r]
  /\ UNCHANGED <<payload, baseline, apiEndpoints, snapshots, violations, creates, inserts, scanned>>

\* ... and gets its rows, in one step as soon as nobody else holds one.
Demote(r) ==
  /\ Move(r, "demoting", "promote")
  /\ \A q \in Requests \ {r} : locked[q] \intersect scanned[r] = {}
  /\ locked' = [locked EXCEPT ![r] = scanned[r]]
  /\ UNCHANGED <<payload, baseline, legacyTables, creates, inserts, scanned>>

\* Mutant: nothing was demoted.
PromoteOnly(r) ==
  /\ Move(r, "promote", "compare")
  /\ active' = active \union {r}
  /\ locked' = [locked EXCEPT ![r] = {}]
  /\ baseline' = [baseline EXCEPT ![r] = {Schema(r)}]
  /\ UNCHANGED <<payload, apiEndpoints, snapshots, violations, creates, inserts, scanned>>

\* SET is_active_baseline = TRUE of the request's own snapshot, a row that the
\* demotion holds already, and the commit that shows both updates.
Promote(r) ==
  /\ Move(r, "promote", "compare")
  /\ active' = (active \ scanned[r]) \union {r}
  /\ locked' = [locked EXCEPT ![r] = {}]
  /\ baseline' = [baseline EXCEPT ![r] = {Schema(r)}]
  /\ UNCHANGED <<payload, apiEndpoints, snapshots, violations, creates, inserts, scanned>>

-----------------------------------------------------------------------------
\* structural_diff, classify_contract_drift and log_drift_violations; the
\* differences without a severity are not logged.
Drift(r) ==
  {[endpoint |-> Endpoint(r), observed |-> Schema(r), against |-> s] :
     s \in {b \in baseline[r] \ {Schema(r)} : <<b, Schema(r)>> \in Severe}}

Compare(r) ==
  /\ Move(r, "compare", "done")
  /\ violations' = violations \union Drift(r)
  /\ UNCHANGED <<payload, baseline, apiEndpoints, snapshots, active, legacyOpen>>

\* A statement fails, a deadlock is broken or the process dies: rollback.
FailLegacy(r) ==
  /\ step[r] \notin {"idle", "done", "failed"}
  /\ step' = [step EXCEPT ![r] = "failed"]
  /\ creates' = creates \ {r}
  /\ inserts' = inserts \ {r}
  /\ locked' = [locked EXCEPT ![r] = {}]
  /\ UNCHANGED <<payload, baseline, legacyTables, scanned>>

\* The first half of the handler has committed.
BeginLegacy(r) ==
  /\ Move(r, "idle", "lock")
  /\ UNCHANGED <<payload, baseline, legacyTables, legacyOpen>>

LegacyStep(r) ==
  \/ LockRoute(r) \/ EnsureLegacyEndpoint(r) \/ RegisterSnapshot(r) \/ CommitSnapshot(r)
  \/ ReadBaseline(r) \/ StartDemotion(r) \/ Demote(r) \/ Promote(r) \/ Compare(r)

LegacyNext == \E r \in Requests : BeginLegacy(r) \/ LegacyStep(r) \/ FailLegacy(r)

LegacySpec == LegacyInit /\ [][LegacyNext]_legacyVars

-----------------------------------------------------------------------------
\* Every variable has its type.
LegacyTypeOK ==
  /\ step \in [Requests -> {"idle", "lock", "ensure", "snapshot", "register", "read",
                            "demote", "demoting", "promote", "compare",
                            "done", "failed"}]
  /\ payload \in [Requests -> Payload]
  /\ apiEndpoints \subseteq Endpoints
  /\ snapshots \subseteq Requests
  /\ active \subseteq snapshots
  /\ creates \subseteq Requests
  /\ inserts \subseteq Requests
  /\ baseline \in [Requests -> SUBSET Schemas]
  /\ scanned \in [Requests -> SUBSET snapshots]
  /\ locked \in [Requests -> SUBSET snapshots]
  /\ violations \subseteq [endpoint : Endpoints, observed : Schemas, against : Schemas]

\* The inserts without ON CONFLICT of ensure_endpoint and register_snapshot are
\* never refused: no two rows, committed or not, have one endpoint and schema, and
\* nobody inserts an endpoint that is there or being inserted by another.
UniqueSnapshots ==
  /\ \A x, y \in snapshots \union inserts :
       Endpoint(x) = Endpoint(y) /\ Schema(x) = Schema(y) => x = y
  /\ \A x \in creates : Endpoint(x) \notin apiEndpoints
  /\ \A x, y \in creates : Endpoint(x) = Endpoint(y) => x = y

\* An endpoint that has an active baseline has one ever after: no reader finds
\* it without one while another is promoted, whatever fails on the way.
BaselineIsKept ==
  [][\A e \in Endpoints : ActiveOf(e) # {} => ActiveOf(e)' # {}]_legacyVars

\* A request that has inserted a snapshot and got an answer leaves its endpoint
\* with a baseline, its own or the one it was compared with.
InsertedHasBaseline ==
  \A r \in snapshots : step[r] \in {"compare", "done"} => ActiveOf(Endpoint(r)) # {}

\* An endpoint has one active baseline, unless one of two promotions overtook the
\* other: it has demoted rows among which the other's snapshot was not yet.
SingleBaseline ==
  \A x, y \in active :
    Endpoint(x) = Endpoint(y) /\ x # y => x \notin scanned[y] \/ y \notin scanned[x]
=============================================================================
