------------------------- MODULE TrackPipelineProofs -------------------------
(***************************************************************************)
(* The two halves of POST /track and the answer of the gateway, for any   *)
(* number of deliveries, keys, namespaces and schemas.                     *)
(*                                                                         *)
(* The pipeline is shown to be a gateway and a legacy half, so what is    *)
(* proved of these holds of it.  The legacy half: requests that write the *)
(* snapshots of an endpoint exclude each other by its lock (OneWriter),   *)
(* and a promotion shows the new baseline in the commit that hides the    *)
(* others, of its own endpoint only (Scanned).  The first half: a draft   *)
(* has the next number of its contract and is the only one (OneDraft).     *)
(***************************************************************************)
EXTENDS TrackPipeline, GatewayProofs

Writing(r)   == step[r] \in {"ensure", "snapshot", "register"}
Promoting(r) == step[r] \in {"demote", "demoting", "promote"}
Later(r)     == step[r] \in {"read", "demote", "demoting", "promote", "compare", "done"}

\* Of the requests under one lock of routes one writes.
OneWriter ==
  \A r, q \in Requests :
    Writing(r) /\ Writing(q) /\ LockOf[Endpoint(r)] = LockOf[Endpoint(q)] => r = q

\* What is not committed belongs to a writer, and is new.
Uncommitted ==
  /\ \A r \in creates : step[r] \in {"snapshot", "register"} /\ Endpoint(r) \notin apiEndpoints
  /\ \A r \in inserts : step[r] = "register" /\ ~Known(r)

\* A row is committed once, and read from then on.
Committed ==
  /\ \A x, y \in snapshots : Endpoint(x) = Endpoint(y) /\ Schema(x) = Schema(y) => x = y
  /\ \A r \in Requests : step[r] = "register" => r \in inserts \/ Known(r)
  /\ \A r \in Requests : Later(r) => Known(r)
  /\ \A r \in snapshots : step[r] \in {"read", "demote", "demoting", "promote", "compare", "done", "failed"}

\* A promotion is of a request's own snapshot, and touches its own endpoint.
Scanned ==
  /\ \A r \in Requests : Promoting(r) => r \in snapshots
  /\ \A r \in active : step[r] \in {"compare", "done", "failed"}
  /\ \A r \in Requests : scanned[r] \subseteq RowsOf(Endpoint(r)) /\ locked[r] \subseteq scanned[r]

\* What a request compares with was stored for its endpoint.
BaselineIsStored ==
  \A r \in Requests : \A s \in baseline[r] : \E x \in RowsOf(Endpoint(r)) : Schema(x) = s

ViolationsAreStored ==
  \A v \in violations : \A s \in {v.observed, v.against} :
    \E x \in snapshots : Endpoint(x) = v.endpoint /\ Schema(x) = s

LegacyInv ==
  /\ LegacyTypeOK /\ OneWriter /\ Uncommitted /\ Committed /\ Scanned
  /\ BaselineIsStored /\ ViolationsAreStored
  /\ InsertedHasBaseline /\ SingleBaseline

-----------------------------------------------------------------------------
\* Nothing is stored, nobody has begun.
LEMMA InitLegacy == LegacyInit => LegacyInv
<1> SUFFICES ASSUME LegacyInit  PROVE LegacyInv
  OBVIOUS
<1>1. LegacyTypeOK
  BY DEF LegacyInit, LegacyTypeOK
<1>2. OneWriter /\ Uncommitted /\ Committed
  BY DEF LegacyInit, OneWriter, Writing, Uncommitted, Committed, Later
<1>3. Scanned /\ BaselineIsStored /\ ViolationsAreStored
  BY DEF LegacyInit, Scanned, Promoting, BaselineIsStored, ViolationsAreStored
<1>4. InsertedHasBaseline /\ SingleBaseline
  BY DEF LegacyInit, InsertedHasBaseline, SingleBaseline
<1> QED
  BY <1>1, <1>2, <1>3, <1>4 DEF LegacyInv

\* The payload of a request, and with it its endpoint and schema, stay.
LEMMA Stays ==
  ASSUME payload' = payload
  PROVE  /\ \A r : Endpoint(r)' = Endpoint(r) /\ Schema(r)' = Schema(r)
         /\ snapshots' = snapshots =>
              /\ \A e : RowsOf(e)' = RowsOf(e)
              /\ \A r : Known(r)' = Known(r)
         /\ snapshots' = snapshots /\ active' = active => \A e : ActiveOf(e)' = ActiveOf(e)
  BY DEF Endpoint, Schema, RowsOf, Known, ActiveOf

\* Steps that only move a request on: begin, read, the lock, a comparison.
LEMMA LockStep ==
  ASSUME LegacyInv, NEW r \in Requests, BeginLegacy(r) \/ LockRoute(r)
  PROVE  LegacyInv'
<1>1. UNCHANGED <<payload, baseline, legacyTables, legacyOpen>>
  BY DEF BeginLegacy, LockRoute
<1>2. /\ \A q : Endpoint(q)' = Endpoint(q) /\ Schema(q)' = Schema(q) /\ Known(q)' = Known(q)
      /\ \A e : RowsOf(e)' = RowsOf(e) /\ ActiveOf(e)' = ActiveOf(e)
  BY <1>1, Stays DEF legacyTables
<1>3. /\ step' \in [Requests -> {"idle", "lock", "ensure", "snapshot", "register", "read",
                            "demote", "demoting", "promote", "compare", "done", "failed"}]
      /\ step[r] \in {"idle", "lock"} /\ step'[r] \in {"lock", "ensure"}
      /\ \A q \in Requests \ {r} : step'[q] = step[q]
  BY DEF BeginLegacy, LockRoute, Move, LegacyInv, LegacyTypeOK
<1>4. LegacyTypeOK'
  BY <1>1, <1>3 DEF LegacyInv, LegacyTypeOK, legacyTables, legacyOpen, Payload
<1>5. OneWriter'
  <2>1. CASE BeginLegacy(r)
    BY <1>2, <1>3, <2>1 DEF BeginLegacy, Move, LegacyInv, LegacyTypeOK, OneWriter, Writing
  <2>2. CASE LockRoute(r)
    <3>1. \A q \in Requests : ~(Writing(q) /\ LockOf[Endpoint(q)] = LockOf[Endpoint(r)])
      BY <2>2 DEF LockRoute, HoldsLock, Writing
    <3> QED
      BY <1>1, <1>2, <1>3, <3>1 DEF LegacyInv, OneWriter, Writing
  <2> QED
    BY <2>1, <2>2
<1>6. Uncommitted' /\ Committed'
  <2>1. r \notin creates /\ r \notin inserts /\ r \notin snapshots
    BY <1>3 DEF LegacyInv, Uncommitted, Committed
  <2> QED
    BY <1>1, <1>2, <1>3, <2>1
    DEF LegacyInv, LegacyTypeOK, Uncommitted, Committed, Later, legacyTables, legacyOpen
<1>7. Scanned' /\ BaselineIsStored' /\ ViolationsAreStored'
  BY <1>1, <1>2, <1>3
  DEF LegacyInv, LegacyTypeOK, Scanned, Promoting, BaselineIsStored, ViolationsAreStored,
      legacyTables, legacyOpen
<1>8. InsertedHasBaseline' /\ SingleBaseline'
  BY <1>1, <1>2, <1>3
  DEF LegacyInv, LegacyTypeOK, InsertedHasBaseline, SingleBaseline, legacyTables, legacyOpen
<1> QED
  BY <1>4, <1>5, <1>6, <1>7, <1>8 DEF LegacyInv

\* ensure_endpoint and register_snapshot: a row that nobody else can be writing.
LEMMA InsertStep ==
  ASSUME LegacyInv, NEW r \in Requests, EnsureLegacyEndpoint(r) \/ RegisterSnapshot(r)
  PROVE  LegacyInv'
<1>1. /\ UNCHANGED <<payload, baseline, legacyTables, scanned, locked>>
      /\ creates \subseteq creates' /\ creates' \subseteq creates \union {r}
      /\ inserts \subseteq inserts' /\ inserts' \subseteq inserts \union {r}
  BY DEF EnsureLegacyEndpoint, RegisterSnapshot
<1>2. /\ \A q : Endpoint(q)' = Endpoint(q) /\ Schema(q)' = Schema(q) /\ Known(q)' = Known(q)
      /\ \A e : RowsOf(e)' = RowsOf(e) /\ ActiveOf(e)' = ActiveOf(e)
  BY <1>1, Stays DEF legacyTables
<1>3. /\ step' \in [Requests -> {"idle", "lock", "ensure", "snapshot", "register", "read",
                            "demote", "demoting", "promote", "compare", "done", "failed"}]
      /\ <<step[r], step'[r]>> \in {<<"ensure", "snapshot">>, <<"snapshot", "register">>}
      /\ \A q \in Requests \ {r} : step'[q] = step[q]
  BY DEF EnsureLegacyEndpoint, RegisterSnapshot, Move, LegacyInv, LegacyTypeOK
<1>4. LegacyTypeOK'
  BY <1>1, <1>3 DEF LegacyInv, LegacyTypeOK, legacyTables, Payload
<1>5. OneWriter'
  BY <1>2, <1>3 DEF LegacyInv, OneWriter, Writing
<1>6. r \notin snapshots /\ \A q \in creates \union inserts : q \in Requests
  BY <1>3 DEF LegacyInv, LegacyTypeOK, Committed
<1>7. Uncommitted'
  <2>1. r \in creates' => step'[r] \in {"snapshot", "register"} /\ Endpoint(r) \notin apiEndpoints
    BY <1>1, <1>3, <1>6 DEF EnsureLegacyEndpoint, RegisterSnapshot, Move, LegacyInv, Uncommitted
  <2>2. r \in inserts' => step'[r] = "register" /\ ~Known(r)
    BY <1>1, <1>3, <1>6 DEF EnsureLegacyEndpoint, RegisterSnapshot, Move, LegacyInv, Uncommitted
  <2> QED
    BY <1>1, <1>2, <1>3, <1>6, <2>1, <2>2 DEF LegacyInv, Uncommitted, legacyTables
<1>8. Committed'
  <2>1. step'[r] = "register" => r \in inserts' \/ Known(r)
    BY <1>1, <1>3 DEF EnsureLegacyEndpoint, RegisterSnapshot, Move
  <2>2. \A q \in Requests : step'[q] = "register" => q \in inserts' \/ Known(q)'
    BY <1>1, <1>2, <1>3, <2>1 DEF LegacyInv, Committed
  <2>3. \A q \in Requests : Later(q)' => Known(q)'
    BY <1>2, <1>3 DEF LegacyInv, Committed, Later
  <2> QED
    BY <1>1, <1>2, <1>3, <1>6, <2>2, <2>3
    DEF LegacyInv, LegacyTypeOK, Committed, legacyTables
<1>9. Scanned' /\ BaselineIsStored' /\ ViolationsAreStored'
  BY <1>1, <1>2, <1>3
  DEF LegacyInv, LegacyTypeOK, Scanned, Promoting, BaselineIsStored, ViolationsAreStored,
      legacyTables
<1>10. InsertedHasBaseline' /\ SingleBaseline'
  BY <1>1, <1>2, <1>3
  DEF LegacyInv, LegacyTypeOK, InsertedHasBaseline, SingleBaseline, legacyTables
<1> QED
  BY <1>4, <1>5, <1>7, <1>8, <1>9, <1>10 DEF LegacyInv

\* The commit of register_payload_snapshot: no other writer has the endpoint.
LEMMA CommitStep ==
  ASSUME LegacyInv, NEW r \in Requests, CommitSnapshot(r)
  PROVE  LegacyInv'
<1>1. /\ UNCHANGED <<payload, baseline, active, violations, scanned, locked>>
      /\ apiEndpoints' = apiEndpoints \union {Endpoint(q) : q \in creates \intersect {r}}
      /\ snapshots' = snapshots \union (inserts \intersect {r})
      /\ creates' = creates \ {r} /\ inserts' = inserts \ {r}
  BY DEF CommitSnapshot
<1>2. /\ \A q : Endpoint(q)' = Endpoint(q) /\ Schema(q)' = Schema(q)
      /\ \A e : RowsOf(e) \subseteq RowsOf(e)' /\ ActiveOf(e) \subseteq ActiveOf(e)'
      /\ \A q : Known(q) => Known(q)'
  BY <1>1 DEF Endpoint, Schema, RowsOf, ActiveOf, Known
<1>3. /\ step' \in [Requests -> {"idle", "lock", "ensure", "snapshot", "register", "read",
                            "demote", "demoting", "promote", "compare", "done", "failed"}]
      /\ step[r] = "register" /\ step'[r] = "read"
      /\ \A q \in Requests \ {r} : step'[q] = step[q]
  BY DEF CommitSnapshot, Move, LegacyInv, LegacyTypeOK
<1>4. r \in inserts => Endpoint(r) \in Endpoints
  BY DEF LegacyInv, LegacyTypeOK, Payload, Endpoint
<1>5. LegacyTypeOK'
  BY <1>1, <1>3 DEF LegacyInv, LegacyTypeOK, Payload, Endpoint
<1>6. OneWriter'
  BY <1>2, <1>3 DEF LegacyInv, OneWriter, Writing
<1>7. \A q \in (creates \union inserts) \ {r} : q \in Requests /\ Endpoint(q) # Endpoint(r)
  BY <1>3 DEF LegacyInv, LegacyTypeOK, Uncommitted, OneWriter, Writing
<1>8. Uncommitted'
  <2>1. \A q \in inserts' : ~Known(q)'
    <3> SUFFICES ASSUME NEW q \in inserts', NEW x \in RowsOf(Endpoint(q))',
                        Schema(x)' = Schema(q)'
                 PROVE  FALSE
      BY DEF Known
    <3>1. Endpoint(q) # Endpoint(r) /\ ~Known(q)
      BY <1>1, <1>7 DEF LegacyInv, Uncommitted
    <3>2. x # r /\ x \in snapshots /\ Endpoint(x) = Endpoint(q) /\ Schema(x) = Schema(q)
      BY <1>1, <1>2, <3>1 DEF RowsOf
    <3> QED
      BY <3>1, <3>2 DEF Known, RowsOf
  <2> QED
    BY <1>1, <1>2, <1>3, <1>7, <2>1 DEF LegacyInv, Uncommitted
<1>9. Committed'
  <2>1. r \in inserts => ~Known(r)
    BY DEF LegacyInv, Uncommitted
  <2>2. \A x, y \in snapshots' : Endpoint(x) = Endpoint(y) /\ Schema(x) = Schema(y) => x = y
    BY <1>1, <2>1 DEF LegacyInv, Committed, Known, RowsOf
  <2>3. Known(r)'
    <3>1. CASE Known(r)
      BY <1>2, <3>1
    <3>2. CASE r \in inserts
      BY <1>1, <1>2, <3>2 DEF Known, RowsOf
    <3> QED
      BY <1>3, <3>1, <3>2 DEF LegacyInv, Committed
  <2> QED
    BY <1>1, <1>2, <1>3, <2>2, <2>3 DEF LegacyInv, LegacyTypeOK, Committed, Later
<1>10. Scanned' /\ BaselineIsStored' /\ ViolationsAreStored'
  <2>1. Scanned'
    BY <1>1, <1>2, <1>3 DEF LegacyInv, LegacyTypeOK, Scanned, Promoting
  <2>2. BaselineIsStored'
    BY <1>1, <1>2 DEF LegacyInv, BaselineIsStored
  <2>3. ViolationsAreStored'
    BY <1>1, <1>2 DEF LegacyInv, ViolationsAreStored
  <2> QED
    BY <2>1, <2>2, <2>3
<1>11. InsertedHasBaseline' /\ SingleBaseline'
  <2>1. InsertedHasBaseline'
    <3> SUFFICES ASSUME NEW q \in snapshots', step'[q] \in {"compare", "done"}
                 PROVE  ActiveOf(Endpoint(q))' # {}
      BY <1>2 DEF InsertedHasBaseline
    <3>1. q \in snapshots /\ step[q] \in {"compare", "done"}
      BY <1>1, <1>3 DEF LegacyInv, LegacyTypeOK
    <3> QED
      BY <1>2, <3>1 DEF LegacyInv, InsertedHasBaseline
  <2>2. SingleBaseline'
    BY <1>1, <1>2 DEF LegacyInv, SingleBaseline
  <2> QED
    BY <2>1, <2>2
<1> QED
  BY <1>5, <1>6, <1>8, <1>9, <1>10, <1>11 DEF LegacyInv

\* get_active_baseline_snapshot.
LEMMA ReadStep ==
  ASSUME LegacyInv, NEW r \in Requests, ReadBaseline(r)
  PROVE  LegacyInv'
<1>1. UNCHANGED <<payload, legacyTables, legacyOpen>>
  BY DEF ReadBaseline
<1>2. /\ \A q : Endpoint(q)' = Endpoint(q) /\ Schema(q)' = Schema(q) /\ Known(q)' = Known(q)
      /\ \A e : RowsOf(e)' = RowsOf(e) /\ ActiveOf(e)' = ActiveOf(e)
  BY <1>1, Stays DEF legacyTables
<1>3. /\ step' \in [Requests -> {"idle", "lock", "ensure", "snapshot", "register", "read",
                            "demote", "demoting", "promote", "compare", "done", "failed"}]
      /\ step[r] = "read"
      /\ (step'[r] = "demote" /\ r \in snapshots) \/ step'[r] = "compare"
      /\ \A q \in Requests \ {r} : step'[q] = step[q]
  BY DEF ReadBaseline, LegacyInv, LegacyTypeOK
<1> DEFINE Stored ==
      /\ baseline' \in [Requests -> SUBSET Schemas]
      /\ \A q \in Requests \ {r} : baseline'[q] = baseline[q]
      /\ \A s \in baseline'[r] : \E x \in RowsOf(Endpoint(r)) : Schema(x) = s
<1>4. Stored
  <2>1. CASE baseline' = baseline
    BY <2>1 DEF LegacyInv, LegacyTypeOK, BaselineIsStored
  <2>2. ASSUME NEW x \in ActiveOf(Endpoint(r)), baseline' = [baseline EXCEPT ![r] = {Schema(x)}]
        PROVE  Stored
    BY <2>2 DEF LegacyInv, LegacyTypeOK, ActiveOf, RowsOf, Schema, Payload
  <2> QED
    BY <2>1, <2>2 DEF ReadBaseline
<1>5. LegacyTypeOK'
  BY <1>1, <1>3, <1>4 DEF LegacyInv, LegacyTypeOK, legacyTables, legacyOpen, Payload
<1>6. OneWriter' /\ Uncommitted' /\ Committed'
  <2>1. OneWriter'
    BY <1>2, <1>3 DEF LegacyInv, OneWriter, Writing
  <2>2. Uncommitted'
    BY <1>1, <1>2, <1>3 DEF LegacyInv, LegacyTypeOK, Uncommitted, legacyTables, legacyOpen
  <2>3. Committed'
    BY <1>1, <1>2, <1>3 DEF LegacyInv, LegacyTypeOK, Committed, Later, legacyTables, legacyOpen
  <2> QED
    BY <2>1, <2>2, <2>3
<1>7. Scanned'
  BY <1>1, <1>2, <1>3 DEF LegacyInv, LegacyTypeOK, Scanned, Promoting, legacyTables, legacyOpen
<1>8. BaselineIsStored' /\ ViolationsAreStored'
  BY <1>1, <1>2, <1>4 DEF LegacyInv, BaselineIsStored, ViolationsAreStored, legacyTables
<1>9. InsertedHasBaseline'
  <2>1. r \in snapshots /\ step'[r] = "compare" => ActiveOf(Endpoint(r)) # {}
    BY DEF ReadBaseline, LegacyInv, LegacyTypeOK
  <2> QED
    BY <1>1, <1>2, <1>3, <2>1 DEF LegacyInv, LegacyTypeOK, InsertedHasBaseline, legacyTables
<1>10. SingleBaseline'
  BY <1>1, <1>2 DEF LegacyInv, SingleBaseline, legacyTables, legacyOpen
<1> QED
  BY <1>5, <1>6, <1>7, <1>8, <1>9, <1>10 DEF LegacyInv

\* The demotion, statement and rows.
LEMMA DemoteStep ==
  ASSUME LegacyInv, NEW r \in Requests, StartDemotion(r) \/ Demote(r)
  PROVE  LegacyInv'
<1>1. UNCHANGED <<payload, baseline, legacyTables, creates, inserts>>
  BY DEF StartDemotion, Demote
<1>2. /\ \A q : Endpoint(q)' = Endpoint(q) /\ Schema(q)' = Schema(q) /\ Known(q)' = Known(q)
      /\ \A e : RowsOf(e)' = RowsOf(e) /\ ActiveOf(e)' = ActiveOf(e)
  BY <1>1, Stays DEF legacyTables
<1>3. /\ step' \in [Requests -> {"idle", "lock", "ensure", "snapshot", "register", "read",
                            "demote", "demoting", "promote", "compare", "done", "failed"}]
      /\ Promoting(r) /\ Promoting(r)'
      /\ \A q \in Requests \ {r} : step'[q] = step[q]
  BY DEF StartDemotion, Demote, Move, Promoting, LegacyInv, LegacyTypeOK
<1>4. /\ scanned' \in [Requests -> SUBSET snapshots] /\ locked' \in [Requests -> SUBSET snapshots]
      /\ \A q \in Requests \ {r} : scanned'[q] = scanned[q] /\ locked'[q] = locked[q]
  BY DEF StartDemotion, Demote, LegacyInv, LegacyTypeOK, RowsOf
<1>5. scanned'[r] \subseteq RowsOf(Endpoint(r)) /\ locked'[r] \subseteq scanned'[r]
  BY DEF StartDemotion, Demote, LegacyInv, LegacyTypeOK, Scanned
<1>6. LegacyTypeOK'
  BY <1>1, <1>3, <1>4 DEF LegacyInv, LegacyTypeOK, legacyTables, Payload
<1>7. OneWriter'
  BY <1>2, <1>3 DEF LegacyInv, OneWriter, Writing, Promoting
<1>8. Uncommitted'
  BY <1>1, <1>2, <1>3 DEF LegacyInv, LegacyTypeOK, Uncommitted, Promoting, legacyTables
<1>9. Committed'
  <2>1. \A q \in Requests : step'[q] = "register" => q \in inserts' \/ Known(q)'
    BY <1>1, <1>2, <1>3 DEF LegacyInv, Committed, Promoting
  <2>2. \A q \in Requests : Later(q)' => Known(q)'
    BY <1>2, <1>3 DEF LegacyInv, Committed, Later, Promoting
  <2> QED
    BY <1>1, <1>2, <1>3, <2>1, <2>2
    DEF LegacyInv, LegacyTypeOK, Committed, Promoting, legacyTables
<1>10. r \notin active
  BY <1>3 DEF LegacyInv, Scanned, Promoting
<1>11. Scanned'
  BY <1>1, <1>2, <1>3, <1>4, <1>5, <1>10
  DEF LegacyInv, LegacyTypeOK, Scanned, Promoting, legacyTables
<1>12. BaselineIsStored' /\ ViolationsAreStored'
  BY <1>1, <1>2 DEF LegacyInv, BaselineIsStored, ViolationsAreStored, legacyTables
<1>13. InsertedHasBaseline'
  BY <1>1, <1>2, <1>3 DEF LegacyInv, LegacyTypeOK, InsertedHasBaseline, Promoting, legacyTables
<1>14. SingleBaseline'
  BY <1>1, <1>2, <1>4, <1>10 DEF LegacyInv, LegacyTypeOK, SingleBaseline, legacyTables
<1> QED
  BY <1>6, <1>7, <1>8, <1>9, <1>11, <1>12, <1>13, <1>14 DEF LegacyInv

\* A step by which no endpoint loses its last active baseline.
BaselinesStay == \A e \in Endpoints : ActiveOf(e) # {} => ActiveOf(e)' # {}

\* The promotion hides and shows in one commit, at its own endpoint.
LEMMA PromoteShows ==
  ASSUME LegacyInv, NEW r \in Requests, Promote(r)
  PROVE  /\ \A e : e # Endpoint(r) => ActiveOf(e)' = ActiveOf(e)
         /\ r \in ActiveOf(Endpoint(r))'
         /\ BaselinesStay
<1>1. /\ snapshots' = snapshots /\ payload' = payload
      /\ active' = (active \ scanned[r]) \union {r}
      /\ r \in snapshots /\ scanned[r] \subseteq RowsOf(Endpoint(r))
  BY DEF Promote, Move, LegacyInv, Scanned, Promoting
<1>2. \A e : e # Endpoint(r) => ActiveOf(e)' = ActiveOf(e)
  BY <1>1 DEF ActiveOf, RowsOf, Endpoint
<1>3. r \in ActiveOf(Endpoint(r))'
  BY <1>1 DEF ActiveOf, RowsOf, Endpoint
<1>4. Endpoint(r)' = Endpoint(r)
  BY <1>1 DEF Endpoint
<1> QED
  BY <1>2, <1>3, <1>4 DEF BaselinesStay

\* A promotion retires the baselines its request had scanned, and sets its own.
LEMMA PromoteStep ==
  ASSUME LegacyInv, NEW r \in Requests, Promote(r)
  PROVE  LegacyInv'
<1>1. /\ UNCHANGED <<payload, apiEndpoints, snapshots, violations, creates, inserts, scanned>>
      /\ active' = (active \ scanned[r]) \union {r}
      /\ locked' = [locked EXCEPT ![r] = {}]
      /\ baseline' = [baseline EXCEPT ![r] = {Schema(r)}]
      /\ r \in snapshots
  BY DEF Promote, Move, LegacyInv, Scanned, Promoting
<1>2. /\ \A q : Endpoint(q)' = Endpoint(q) /\ Schema(q)' = Schema(q) /\ Known(q)' = Known(q)
      /\ \A e : RowsOf(e)' = RowsOf(e)
  BY <1>1, Stays
<1>3. /\ step' \in [Requests -> {"idle", "lock", "ensure", "snapshot", "register", "read",
                            "demote", "demoting", "promote", "compare", "done", "failed"}]
      /\ step[r] = "promote" /\ step'[r] = "compare"
      /\ \A q \in Requests \ {r} : step'[q] = step[q]
  BY DEF Promote, Move, LegacyInv, LegacyTypeOK
<1>4. LegacyTypeOK'
  <2>1. Schema(r) \in Schemas
    BY DEF LegacyInv, LegacyTypeOK, Payload, Schema
  <2> QED
    BY <1>1, <1>3, <2>1 DEF LegacyInv, LegacyTypeOK, Payload
<1>5. OneWriter'
  BY <1>2, <1>3 DEF LegacyInv, OneWriter, Writing
<1>6. Uncommitted'
  BY <1>1, <1>2, <1>3 DEF LegacyInv, LegacyTypeOK, Uncommitted
<1>7. Committed'
  <2>1. \A q \in Requests : step'[q] = "register" => q \in inserts' \/ Known(q)'
    BY <1>1, <1>2, <1>3 DEF LegacyInv, Committed
  <2>2. \A q \in Requests : Later(q)' => Known(q)'
    BY <1>2, <1>3 DEF LegacyInv, Committed, Later
  <2> QED
    BY <1>1, <1>2, <1>3, <2>1, <2>2 DEF LegacyInv, LegacyTypeOK, Committed
<1>8. Scanned'
  <2>1. \A q \in Requests : Promoting(q)' => q \in snapshots'
    BY <1>1, <1>3 DEF LegacyInv, Scanned, Promoting
  <2>2. \A q \in active' : step'[q] \in {"compare", "done", "failed"}
    BY <1>1, <1>3 DEF LegacyInv, LegacyTypeOK, Scanned
  <2>3. \A q \in Requests : scanned'[q] \subseteq RowsOf(Endpoint(q))' /\ locked'[q] \subseteq scanned'[q]
    BY <1>1, <1>2 DEF LegacyInv, LegacyTypeOK, Scanned
  <2> QED
    BY <2>1, <2>2, <2>3 DEF Scanned
<1>9. BaselineIsStored' /\ ViolationsAreStored'
  <2>1. BaselineIsStored'
    BY <1>1, <1>2 DEF LegacyInv, LegacyTypeOK, BaselineIsStored, RowsOf
  <2>2. ViolationsAreStored'
    BY <1>1, <1>2 DEF LegacyInv, ViolationsAreStored
  <2> QED
    BY <2>1, <2>2
<1>10. InsertedHasBaseline'
  <2> SUFFICES ASSUME NEW q \in snapshots, step'[q] \in {"compare", "done"}
               PROVE  ActiveOf(Endpoint(q))' # {}
    BY <1>1, <1>2 DEF InsertedHasBaseline
  <2>1. q \in Requests /\ Endpoint(q) \in Endpoints
    BY DEF LegacyInv, LegacyTypeOK, Endpoint, Payload
  <2>2. CASE q = r
    BY <1>2, <2>2, PromoteShows
  <2>3. CASE q # r
    BY <1>2, <1>3, <2>1, <2>3, PromoteShows DEF LegacyInv, InsertedHasBaseline, BaselinesStay
  <2> QED
    BY <2>2, <2>3
<1>11. SingleBaseline'
  BY <1>1, <1>2 DEF LegacyInv, SingleBaseline
<1> QED
  BY <1>4, <1>5, <1>6, <1>7, <1>8, <1>9, <1>10, <1>11 DEF LegacyInv

\* The drift of a payload from the baseline is logged, or the request fails.
LEMMA EndStep ==
  ASSUME LegacyInv, NEW r \in Requests, Compare(r) \/ FailLegacy(r)
  PROVE  LegacyInv'
<1>0. /\ r \in Requests /\ r \in DOMAIN step /\ baseline[r] \subseteq Schemas
      /\ Endpoint(r) \in Endpoints /\ Schema(r) \in Schemas
  BY DEF LegacyInv, LegacyTypeOK, Endpoint, Schema, Payload
<1>1. /\ UNCHANGED <<payload, baseline, apiEndpoints, snapshots, active, scanned>>
      /\ \/ violations' = violations
         \/ Known(r) /\ violations' = violations \union Drift(r)
      /\ creates' \subseteq creates /\ inserts' \subseteq inserts
      /\ \A q \in Requests \ {r} : q \in inserts => q \in inserts'
      /\ \/ step'[r] = "failed" /\ r \notin creates' /\ r \notin inserts'
         \/ step[r] = "compare" /\ step'[r] = "done" /\ creates' = creates /\ inserts' = inserts
  <2>1. CASE Compare(r)
    BY <1>0, <2>1 DEF Compare, Move, legacyTables, legacyOpen, LegacyInv, Committed, Later
  <2>2. CASE FailLegacy(r)
    BY <1>0, <2>2 DEF FailLegacy, legacyTables
  <2> QED
    BY <2>1, <2>2
<1>2. /\ \A q : Endpoint(q)' = Endpoint(q) /\ Schema(q)' = Schema(q) /\ Known(q)' = Known(q)
      /\ \A e : RowsOf(e)' = RowsOf(e) /\ ActiveOf(e)' = ActiveOf(e)
  BY <1>1, Stays
<1>3. /\ step' \in [Requests -> {"idle", "lock", "ensure", "snapshot", "register", "read",
                            "demote", "demoting", "promote", "compare", "done", "failed"}]
      /\ step'[r] \in {"done", "failed"}
      /\ \A q \in Requests \ {r} : step'[q] = step[q]
  <2>1. CASE Compare(r)
    BY <2>1 DEF Compare, Move, LegacyInv, LegacyTypeOK
  <2>2. CASE FailLegacy(r)
    BY <2>2 DEF FailLegacy, LegacyInv, LegacyTypeOK
  <2> QED
    BY <2>1, <2>2
<1>4. /\ locked' \in [Requests -> SUBSET snapshots]
      /\ \A q \in Requests : locked'[q] \subseteq locked[q]
  <2>1. CASE Compare(r)
    BY <2>1 DEF Compare, LegacyInv, LegacyTypeOK, legacyOpen
  <2>2. CASE FailLegacy(r)
    BY <2>2 DEF FailLegacy, LegacyInv, LegacyTypeOK
  <2> QED
    BY <2>1, <2>2
<1>5. /\ violations' \subseteq [endpoint : Endpoints, observed : Schemas, against : Schemas]
      /\ ViolationsAreStored'
  <2>1. ASSUME NEW v \in Drift(r)
        PROVE  /\ v \in [endpoint : Endpoints, observed : Schemas, against : Schemas]
               /\ v.endpoint = Endpoint(r) /\ v.observed = Schema(r) /\ v.against \in baseline[r]
    <3>1. PICK s \in baseline[r] :
            v = [endpoint |-> Endpoint(r), observed |-> Schema(r), against |-> s]
      BY <2>1 DEF Drift
    <3> QED
      BY <1>0, <3>1
  <2>2. ASSUME NEW v \in Drift(r), NEW t \in {v.observed, v.against}, Known(r)
        PROVE  \E x \in snapshots : Endpoint(x) = v.endpoint /\ Schema(x) = t
    BY <2>1, <2>2 DEF Known, RowsOf, LegacyInv, BaselineIsStored
  <2>3. violations' \subseteq [endpoint : Endpoints, observed : Schemas, against : Schemas]
    BY <1>1, <2>1 DEF LegacyInv, LegacyTypeOK
  <2>4. ViolationsAreStored'
    BY <1>1, <1>2, <2>2 DEF LegacyInv, ViolationsAreStored
  <2> QED
    BY <2>3, <2>4
<1>6. LegacyTypeOK'
  BY <1>1, <1>3, <1>4, <1>5 DEF LegacyInv, LegacyTypeOK, Payload
<1>7. OneWriter'
  BY <1>2, <1>3 DEF LegacyInv, OneWriter, Writing
<1>8. Uncommitted'
  BY <1>1, <1>2, <1>3 DEF LegacyInv, LegacyTypeOK, Uncommitted
<1>9. Committed'
  <2>1. \A q \in Requests : step'[q] = "register" => q \in inserts' \/ Known(q)'
    BY <1>1, <1>2, <1>3 DEF LegacyInv, Committed
  <2>2. \A q \in Requests : Later(q)' => Known(q)'
    BY <1>1, <1>2, <1>3 DEF LegacyInv, Committed, Later
  <2> QED
    BY <1>1, <1>2, <1>3, <2>1, <2>2 DEF LegacyInv, LegacyTypeOK, Committed
<1>10. Scanned'
  BY <1>1, <1>2, <1>3, <1>4 DEF LegacyInv, LegacyTypeOK, Scanned, Promoting
<1>11. BaselineIsStored'
  BY <1>1, <1>2 DEF LegacyInv, BaselineIsStored
<1>12. InsertedHasBaseline'
  BY <1>1, <1>2, <1>3 DEF LegacyInv, LegacyTypeOK, InsertedHasBaseline
<1>13. SingleBaseline'
  BY <1>1, <1>2 DEF LegacyInv, SingleBaseline
<1> QED
  BY <1>5, <1>6, <1>7, <1>8, <1>9, <1>10, <1>11, <1>12, <1>13 DEF LegacyInv

-----------------------------------------------------------------------------
\* The inductive invariant of the legacy half (app/main.py:127-191).
LEMMA LegacyInductive == LegacyInv /\ [LegacyNext]_legacyVars => LegacyInv'
<1>1. ASSUME LegacyInv, UNCHANGED legacyVars
      PROVE  LegacyInv'
  <2>1. /\ \A q : Endpoint(q)' = Endpoint(q) /\ Schema(q)' = Schema(q) /\ Known(q)' = Known(q)
        /\ \A e : RowsOf(e)' = RowsOf(e) /\ ActiveOf(e)' = ActiveOf(e)
    BY <1>1, Stays DEF legacyVars, legacyTables
  <2>2. LegacyTypeOK' /\ OneWriter' /\ Uncommitted' /\ Committed'
    BY <1>1, <2>1 DEF LegacyInv, LegacyTypeOK, OneWriter, Writing, Uncommitted, Committed, Later,
                      Payload, legacyVars, legacyTables, legacyOpen
  <2>3. Scanned' /\ BaselineIsStored' /\ ViolationsAreStored'
    BY <1>1, <2>1 DEF LegacyInv, Scanned, Promoting, BaselineIsStored, ViolationsAreStored,
                      legacyVars, legacyTables, legacyOpen
  <2>4. InsertedHasBaseline' /\ SingleBaseline'
    BY <1>1, <2>1 DEF LegacyInv, InsertedHasBaseline, SingleBaseline,
                      legacyVars, legacyTables, legacyOpen
  <2> QED
    BY <2>2, <2>3, <2>4 DEF LegacyInv
<1> QED
  BY <1>1, LockStep, InsertStep, CommitStep, ReadStep, DemoteStep, PromoteStep, EndStep
  DEF LegacyNext, LegacyStep

\* The legacy half keeps its invariant, whatever runs beside it.
THEOREM LegacyInvariance == LegacySpec => []LegacyInv
  BY InitLegacy, LegacyInductive, PTL DEF LegacySpec

\* What an endpoint has as active baselines it keeps, or gets another (app/core/
\* engine.py promote_snapshot_as_baseline: one commit for both updates).
LEMMA BaselineStays ==
  ASSUME LegacyInv, [LegacyNext]_legacyVars
  PROVE  \A e \in Endpoints : ActiveOf(e) # {} => ActiveOf(e)' # {}
<1>1. \/ payload' = payload /\ active' = active /\ snapshots \subseteq snapshots'
      \/ \E r \in Requests : Promote(r)
  <2>1. CASE UNCHANGED legacyVars
    BY <2>1 DEF legacyVars, legacyTables
  <2>2. ASSUME NEW r \in Requests,
               \/ BeginLegacy(r) \/ LockRoute(r) \/ EnsureLegacyEndpoint(r) \/ RegisterSnapshot(r)
               \/ CommitSnapshot(r) \/ ReadBaseline(r) \/ StartDemotion(r) \/ Demote(r)
               \/ Compare(r) \/ FailLegacy(r)
        PROVE  payload' = payload /\ active' = active /\ snapshots \subseteq snapshots'
    BY <2>2 DEF BeginLegacy, LockRoute, EnsureLegacyEndpoint, RegisterSnapshot, CommitSnapshot,
                ReadBaseline, StartDemotion, Demote, Compare, FailLegacy, legacyTables, legacyOpen
  <2> QED
    BY <2>1, <2>2 DEF LegacyNext, LegacyStep
<1>2. CASE payload' = payload /\ active' = active /\ snapshots \subseteq snapshots'
  BY <1>2 DEF ActiveOf, RowsOf, Endpoint
<1>3. CASE \E r \in Requests : Promote(r)
  BY <1>3, PromoteShows DEF BaselinesStay
<1> QED
  BY <1>1, <1>2, <1>3

\* What a request has read or made was a baseline, so its endpoint has one.
BaselineWasActive == \A r \in Requests : baseline[r] # {} => ActiveOf(Endpoint(r)) # {}

\* A baseline is read where there is one, or made.
LEMMA BaselineGiven ==
  ASSUME LegacyInv, NEW r \in Requests, LegacyStep(r) \/ BeginLegacy(r) \/ FailLegacy(r)
  PROVE  /\ payload' = payload
         /\ \A q \in Requests : baseline'[q] # baseline[q] => ActiveOf(Endpoint(q))' # {}
<1>1. baseline \in [Requests -> SUBSET Schemas]
  BY DEF LegacyInv, LegacyTypeOK
<1>2. CASE \/ BeginLegacy(r) \/ LockRoute(r) \/ EnsureLegacyEndpoint(r) \/ RegisterSnapshot(r)
           \/ CommitSnapshot(r) \/ StartDemotion(r) \/ Demote(r) \/ Compare(r) \/ FailLegacy(r)
  BY <1>2 DEF BeginLegacy, LockRoute, EnsureLegacyEndpoint, RegisterSnapshot, CommitSnapshot,
              StartDemotion, Demote, Compare, FailLegacy
<1>3. CASE ReadBaseline(r)
  <2>1. /\ payload' = payload /\ active' = active /\ snapshots' = snapshots
        /\ \A q \in Requests : q # r => baseline'[q] = baseline[q]
        /\ baseline'[r] = baseline[r] \/ ActiveOf(Endpoint(r)) # {}
    BY <1>1, <1>3 DEF ReadBaseline, legacyTables
  <2> QED
    BY <2>1 DEF ActiveOf, RowsOf, Endpoint
<1>4. CASE Promote(r)
  <2>1. payload' = payload /\ \A q \in Requests : q # r => baseline'[q] = baseline[q]
    BY <1>1, <1>4 DEF Promote
  <2>2. Endpoint(r)' = Endpoint(r)
    BY <2>1 DEF Endpoint
  <2> QED
    BY <1>4, <2>1, <2>2, PromoteShows
<1> QED
  BY <1>2, <1>3, <1>4 DEF LegacyStep

\* An endpoint whose request knows a baseline is never found without one.
LEMMA BaselineWasActiveAlways == LegacySpec => []BaselineWasActive
<1>1. LegacyInit => BaselineWasActive
  BY DEF LegacyInit, BaselineWasActive
<1>2. BaselineWasActive /\ LegacyInv /\ [LegacyNext]_legacyVars => BaselineWasActive'
  <2> SUFFICES ASSUME BaselineWasActive, LegacyInv, [LegacyNext]_legacyVars,
                      NEW q \in Requests, baseline'[q] # {}
               PROVE  ActiveOf(Endpoint(q))' # {}
    BY DEF BaselineWasActive
  <2>1. CASE UNCHANGED legacyVars
    BY <2>1 DEF legacyVars, legacyTables, BaselineWasActive, ActiveOf, RowsOf, Endpoint
  <2>2. CASE \E r \in Requests : LegacyStep(r) \/ BeginLegacy(r) \/ FailLegacy(r)
    <3>1. payload' = payload /\ (baseline'[q] = baseline[q] \/ ActiveOf(Endpoint(q))' # {})
      BY <2>2, BaselineGiven
    <3>2. Endpoint(q)' = Endpoint(q) /\ Endpoint(q) \in Endpoints
      BY <3>1 DEF Endpoint, LegacyInv, LegacyTypeOK, Payload
    <3> QED
      BY <3>1, <3>2, BaselineStays DEF BaselineWasActive
  <2> QED
    BY <2>1, <2>2 DEF LegacyNext
<1> QED
  BY <1>1, <1>2, LegacyInvariance, PTL DEF LegacySpec

-----------------------------------------------------------------------------
\* Every step of the pipeline is one of the gateway, or of the runtime it waits
\* for, or leaves the gateway alone.
THEOREM PipeImplementsGateway == PipeSpec => Spec
<1>1. PipeInit => Init
  BY DEF PipeInit
<1>2. [PipeNext]_pipeVars => [Next]_vars
  BY PipelineAssumption
  DEF PipeNext, GatewayMoves, TrackStep, FindVersion, DraftVersion, CommitInline, Announce,
      CommitTrack, AbortTrack, BeginSecondHalf, SecondHalf, AbortSecondHalf, AnswerTrack,
      TrackTo, Next, pipeVars
<1> QED
  BY <1>1, <1>2, PTL DEF PipeSpec, Spec

\* Every step of the pipeline is one of the legacy half or leaves it alone.
THEOREM PipeImplementsLegacy == PipeSpec => LegacySpec
<1>1. PipeInit => LegacyInit
  BY DEF PipeInit
<1>2. [PipeNext]_pipeVars => [LegacyNext]_legacyVars
  BY DEF PipeNext, GatewayMoves, TrackStep, FindVersion, DraftVersion, CommitInline, Announce,
         CommitTrack, AbortTrack, BeginSecondHalf, SecondHalf, AbortSecondHalf, AnswerTrack,
         TrackTo, LegacyNext, pipeVars
<1> QED
  BY <1>1, <1>2, PTL DEF PipeSpec, LegacySpec

\* Every variable of the legacy half has its type.
THEOREM LegacyTypesCorrect == PipeSpec => []LegacyTypeOK
  BY PipeImplementsLegacy, LegacyInvariance, PTL DEF LegacyInv

\* The inserts of ensure_endpoint and register_snapshot, which have no ON
\* CONFLICT, never meet a row.
THEOREM SnapshotsCorrect == PipeSpec => []UniqueSnapshots
<1>1. LegacyInv => UniqueSnapshots
  <2> SUFFICES ASSUME LegacyInv  PROVE UniqueSnapshots
    OBVIOUS
  <2>1. \A x, y \in snapshots \union inserts :
          Endpoint(x) = Endpoint(y) /\ Schema(x) = Schema(y) => x = y
    <3> SUFFICES ASSUME NEW x \in snapshots \union inserts, NEW y \in snapshots \union inserts,
                        Endpoint(x) = Endpoint(y), Schema(x) = Schema(y)
                 PROVE  x = y
      OBVIOUS
    <3>1. x \in Requests /\ y \in Requests
      BY DEF LegacyInv, LegacyTypeOK
    <3>2. CASE x \in snapshots /\ y \in snapshots
      BY <3>2 DEF LegacyInv, Committed
    <3>3. CASE x \in inserts /\ y \in inserts
      BY <3>1, <3>3 DEF LegacyInv, Uncommitted, OneWriter, Writing
    <3>4. CASE x \in inserts /\ y \in snapshots
      BY <3>4 DEF LegacyInv, Uncommitted, Known, RowsOf
    <3>5. CASE x \in snapshots /\ y \in inserts
      BY <3>5 DEF LegacyInv, Uncommitted, Known, RowsOf
    <3> QED
      BY <3>2, <3>3, <3>4, <3>5
  <2>2. \A x, y \in creates : Endpoint(x) = Endpoint(y) => x = y
    BY DEF LegacyInv, LegacyTypeOK, Uncommitted, OneWriter, Writing
  <2> QED
    BY <2>1, <2>2 DEF UniqueSnapshots, LegacyInv, Uncommitted
<1> QED
  BY <1>1, PipeImplementsLegacy, LegacyInvariance, PTL

\* A request whose snapshot is new leaves its endpoint with a baseline.
THEOREM InsertedCorrect == PipeSpec => []InsertedHasBaseline
  BY PipeImplementsLegacy, LegacyInvariance, PTL DEF LegacyInv

\* Two baselines of an endpoint are two promotions that overtook each other.
THEOREM SingleBaselineCorrect == PipeSpec => []SingleBaseline
  BY PipeImplementsLegacy, LegacyInvariance, PTL DEF LegacyInv

\* No reader finds an endpoint without the baseline it had.
THEOREM BaselineCorrect == PipeSpec => BaselineIsKept
<1>1. LegacySpec => BaselineIsKept
  <2> DEFINE Kept == \A e \in Endpoints : ActiveOf(e) # {} => ActiveOf(e)' # {}
  <2>1. LegacyInv /\ [LegacyNext]_legacyVars => [Kept]_legacyVars
    BY BaselineStays
  <2> QED
    BY <2>1, LegacyInvariance, PTL DEF LegacySpec, BaselineIsKept
<1> QED
  BY <1>1, PipeImplementsLegacy, PTL

\* With the runtime's work taken apart, the gateway says 202 and 409 truly.
THEOREM PipeAnswersCorrect == PipeSpec => []AnswersAreTrue
  BY PipeImplementsGateway, AnswersCorrect, PTL

\* ... and forwards no key it has accepted.
THEOREM PipeReplayCorrect == PipeSpec => NoReplayAfterAccept
  BY PipeImplementsGateway, ReplayCorrect, PTL

-----------------------------------------------------------------------------
\* The variables of track_contract have their types, and a payload's two
\* fingerprints belong together.
PipeTypeOK ==
  /\ submission \in [Requests -> [namespace : Namespaces, fp : Fingerprints]]
  /\ \A d \in Requests : payload[d] \in Payload /\ Schema(d) = LegacyOf[Fp(d)]
  /\ track \in [Requests -> {"idle", "unchanged", "drafted", "delivered", "announced",
                             "committed", "failed"}]
  /\ version \in [Requests -> Nat]
  /\ announced \subseteq Requests
  /\ history \in [Contracts -> Seq(Fingerprints)]

\* The two halves and the answer follow each other.
InOrder ==
  /\ handled \subseteq Requests
  /\ \A d \in handled : d \notin sent /\ track[d] = "committed" /\ (Benchmark(d) \/ step[d] = "done")
  /\ \A d \in Requests : step[d] # "idle" => track[d] = "committed"

\* A draft is new and has the next number; a number given and recorded names
\* the request's own schema.
Numbered(d) ==
  /\ track[d] \in {"idle", "unchanged"} => version[d] = 0
  /\ track[d] \in {"drafted", "delivered", "announced"} => version[d] > 0
  /\ track[d] \in {"unchanged", "delivered", "committed"} => Recorded(d)
  /\ Holds(d, Contract(d)) => version[d] = Len(history[Contract(d)]) + 1
  /\ version[d] > 0 /\ Recorded(d) /\ track[d] # "failed" =>
       /\ track[d] # "drafted"
       /\ version[d] \in 1 .. Len(history[Contract(d)])
       /\ history[Contract(d)][version[d]] = Fp(d)

\* Announced is what had a number above 1, before the handler's commit.
AnnouncedInTime(d) ==
  /\ d \in announced => version[d] > 1 /\ track[d] \in {"announced", "committed", "failed"}
  /\ track[d] = "announced" => d \in announced
  /\ track[d] = "committed" /\ version[d] > 1 => d \in announced

\* Of the requests that were not rolled back no two have one number.
OneDraft ==
  \A d, e \in Requests :
    /\ Contract(d) = Contract(e) /\ version[d] = version[e] /\ version[d] > 0
    /\ track[d] # "failed" /\ track[e] # "failed"
    => d = e

PipeInv ==
  /\ PipeTypeOK /\ InOrder /\ OneDraft /\ ChangesAreAnnounced
  /\ \A d \in Requests : Numbered(d) /\ AnnouncedInTime(d)

\* No request has arrived, no contract has a version.
LEMMA InitPipe == PipeInit => PipeInv
<1> SUFFICES ASSUME PipeInit  PROVE PipeInv
  OBVIOUS
<1>1. /\ history = [c \in Contracts |-> << >>] /\ announced = {} /\ handled = {}
      /\ track = [d \in Requests |-> "idle"] /\ version = [d \in Requests |-> 0]
      /\ step = [d \in Requests |-> "idle"]
  BY DEF PipeInit, Init, LegacyInit, H!Init
<1>2. PipeTypeOK
  BY <1>1 DEF PipeInit, LegacyInit, PipeTypeOK, Schema, Fp
<1>3. InOrder /\ OneDraft
  BY <1>1 DEF InOrder, OneDraft
<1>4. ChangesAreAnnounced
  BY <1>1 DEF ChangesAreAnnounced
<1>5. \A d \in Requests : Numbered(d) /\ AnnouncedInTime(d)
  BY <1>1 DEF Numbered, AnnouncedInTime, Holds
<1> QED
  BY <1>2, <1>3, <1>4, <1>5 DEF PipeInv

\* A submission names one contract and one schema for good.
LEMMA Submitted ==
  ASSUME submission' = submission, payload' = payload
  PROVE  /\ \A q : Contract(q)' = Contract(q) /\ Fp(q)' = Fp(q) /\ Schema(q)' = Schema(q)
         /\ \A q : Benchmark(q)' = Benchmark(q)
         /\ history' = history => \A q : Recorded(q)' = Recorded(q)
  BY DEF Contract, Endpoint, Fp, Schema, Benchmark, Recorded

\* The contract and the schema of a request are of the right sort.
LEMMA ContractType ==
  ASSUME PipeTypeOK, NEW d \in Requests
  PROVE  Contract(d) \in Contracts /\ Fp(d) \in Fingerprints
  BY DEF PipeTypeOK, Contract, Contracts, Fp, Endpoint, Payload

\* What the new row of contract_schema_versions changes, and what it keeps.
LEMMA VersionAdded ==
  ASSUME PipeTypeOK, NEW d \in Requests, H!AddVersion(Contract(d), Fp(d))
  PROVE  /\ history' \in [Contracts -> Seq(Fingerprints)]
         /\ \A c \in Contracts : c # Contract(d) => history'[c] = history[c]
         /\ Len(history'[Contract(d)]) = Len(history[Contract(d)]) + 1
         /\ \A v \in 1 .. Len(history[Contract(d)]) :
              history'[Contract(d)][v] = history[Contract(d)][v]
         /\ history'[Contract(d)][Len(history[Contract(d)]) + 1] = Fp(d)
         /\ ~Recorded(d)
<1>1. /\ Contract(d) \in Contracts /\ Fp(d) \in Fingerprints
      /\ history[Contract(d)] \in Seq(Fingerprints)
  BY ContractType DEF PipeTypeOK
<1>2. history' = [history EXCEPT ![Contract(d)] = Append(history[Contract(d)], Fp(d))]
  BY DEF H!AddVersion
<1>3. ~Recorded(d)
  BY DEF H!AddVersion, Recorded, Range
<1>4. history' \in [Contracts -> Seq(Fingerprints)]
  BY <1>1, <1>2 DEF PipeTypeOK
<1>5. history'[Contract(d)] = Append(history[Contract(d)], Fp(d))
  BY <1>1, <1>2 DEF PipeTypeOK
<1>6. \A c \in Contracts : c # Contract(d) => history'[c] = history[c]
  BY <1>2 DEF PipeTypeOK
<1> QED
  BY <1>1, <1>3, <1>4, <1>5, <1>6

\* What is recorded stays; of the others one becomes so.
LEMMA RecordedStays ==
  ASSUME PipeTypeOK, NEW d \in Requests, H!AddVersion(Contract(d), Fp(d)),
         submission' = submission, payload' = payload
  PROVE  /\ Recorded(d)'
         /\ \A q \in Requests : Recorded(q) => Recorded(q)'
         /\ \A q \in Requests : Recorded(q)' =>
              Recorded(q) \/ (Contract(q) = Contract(d) /\ Fp(q) = Fp(d))
<1>1. \A q : Contract(q)' = Contract(q) /\ Fp(q)' = Fp(q)
  BY Submitted
<1>2. \A c \in Contracts : history[c] \in Seq(Fingerprints) /\ history'[c] \in Seq(Fingerprints)
  BY VersionAdded DEF PipeTypeOK
<1>3. \A c \in Contracts : DOMAIN history[c] = 1 .. Len(history[c])
                        /\ DOMAIN history'[c] = 1 .. Len(history'[c])
                        /\ Len(history[c]) \in Nat
  BY <1>2
<1>4. Contract(d) \in Contracts
  BY ContractType
<1>5. Recorded(d)'
  <2>1. Len(history[Contract(d)]) + 1 \in DOMAIN history'[Contract(d)]
    BY <1>3, <1>4, VersionAdded
  <2>2. history'[Contract(d)][Len(history[Contract(d)]) + 1] = Fp(d)
    BY VersionAdded
  <2> QED
    BY <1>1, <2>1, <2>2 DEF Recorded, Range
<1>6. ASSUME NEW q \in Requests, Recorded(q)  PROVE Recorded(q)'
  <2>1. PICK v \in DOMAIN history[Contract(q)] : history[Contract(q)][v] = Fp(q)
    BY <1>6 DEF Recorded, Range
  <2>2. Contract(q) \in Contracts
    BY ContractType
  <2>3. v \in DOMAIN history'[Contract(q)] /\ history'[Contract(q)][v] = Fp(q)
    BY <1>3, <1>4, <2>1, <2>2, VersionAdded
  <2> QED
    BY <1>1, <2>3 DEF Recorded, Range
<1>7. ASSUME NEW q \in Requests, Recorded(q)', ~Recorded(q)
      PROVE  Contract(q) = Contract(d) /\ Fp(q) = Fp(d)
  <2>1. PICK v \in DOMAIN history'[Contract(q)] : history'[Contract(q)][v] = Fp(q)
    BY <1>1, <1>7 DEF Recorded, Range
  <2>2. Contract(q) \in Contracts
    BY ContractType
  <2>3. Contract(q) = Contract(d)
    BY <1>7, <2>1, <2>2, VersionAdded DEF Recorded, Range
  <2>4. v \notin 1 .. Len(history[Contract(d)])
    BY <1>3, <1>7, <2>1, <2>2, <2>3, VersionAdded DEF Recorded, Range
  <2>5. v = Len(history[Contract(d)]) + 1
    BY <1>3, <2>1, <2>2, <2>3, <2>4, VersionAdded
  <2> QED
    BY <2>1, <2>3, <2>5, VersionAdded
<1> QED
  BY <1>5, <1>6, <1>7

\* Where track_contract is changes for the request that takes the step.
LEMMA TrackMoves ==
  ASSUME PipeTypeOK, NEW d \in Requests,
         NEW to \in {"unchanged", "drafted", "delivered", "announced", "committed", "failed"},
         track' = [track EXCEPT ![d] = to]
  PROVE  /\ track' \in [Requests -> {"idle", "unchanged", "drafted", "delivered", "announced",
                                     "committed", "failed"}]
         /\ track'[d] = to
         /\ \A q \in Requests \ {d} : track'[q] = track[q]
  BY DEF PipeTypeOK

\* The legacy half moves one request, which had not finished.
LEMMA LegacyMoves ==
  ASSUME LegacyInv, NEW d \in Requests, BeginLegacy(d) \/ LegacyStep(d) \/ FailLegacy(d)
  PROVE  /\ payload' = payload
         /\ \A q \in Requests \ {d} : step'[q] = step[q]
         /\ step[d] # "done"
         /\ step[d] = "idle" => BeginLegacy(d)
<1>1. CASE BeginLegacy(d)
  BY <1>1 DEF BeginLegacy, Move, LegacyInv, LegacyTypeOK
<1>2. CASE LegacyStep(d)
  <2>1. CASE \/ LockRoute(d) \/ EnsureLegacyEndpoint(d) \/ RegisterSnapshot(d) \/ CommitSnapshot(d)
    BY <2>1 DEF LockRoute, EnsureLegacyEndpoint, RegisterSnapshot, CommitSnapshot, Move,
                LegacyInv, LegacyTypeOK
  <2>2. CASE ReadBaseline(d)
    BY <2>2 DEF ReadBaseline, LegacyInv, LegacyTypeOK
  <2>3. CASE StartDemotion(d) \/ Demote(d) \/ Promote(d) \/ Compare(d)
    BY <2>3 DEF StartDemotion, Demote, Promote, Compare, Move, LegacyInv, LegacyTypeOK
  <2> QED
    BY <1>2, <2>1, <2>2, <2>3 DEF LegacyStep
<1>3. CASE FailLegacy(d)
  BY <1>3 DEF FailLegacy, LegacyInv, LegacyTypeOK
<1> QED
  BY <1>1, <1>2, <1>3

\* Steps of the gateway and of the second half keep the order, and nothing else
\* of the invariant is about what they change.
LEMMA QuietStep ==
  ASSUME PipeInv, trackVars' = trackVars, payload' = payload, InOrder'
  PROVE  PipeInv'
<1>1. /\ submission' = submission /\ track' = track /\ version' = version
      /\ announced' = announced /\ history' = history
  BY DEF trackVars
<1>2. \A q : /\ Contract(q)' = Contract(q) /\ Fp(q)' = Fp(q) /\ Schema(q)' = Schema(q)
             /\ Recorded(q)' = Recorded(q)
  BY <1>1, Submitted
<1>3. PipeTypeOK'
  BY <1>1, <1>2 DEF PipeInv, PipeTypeOK, Payload
<1>4. OneDraft' /\ ChangesAreAnnounced'
  BY <1>1, <1>2 DEF PipeInv, OneDraft, ChangesAreAnnounced
<1>5. \A q \in Requests : Numbered(q)' /\ AnnouncedInTime(q)'
  BY <1>1, <1>2 DEF PipeInv, Numbered, Holds, AnnouncedInTime
<1> QED
  BY <1>3, <1>4, <1>5 DEF PipeInv

\* The gateway answers, forwards or restarts.
LEMMA GatewayMovesStep ==
  ASSUME PipeInv, GatewayInv, GatewayMoves
  PROVE  PipeInv'
<1>1. trackVars' = trackVars /\ payload' = payload /\ step' = step
  BY DEF GatewayMoves, legacyVars
<1>2. handled' = handled /\ \A d \in handled : d \in sent' => d \in sent
  <2>1. ASSUME NEW d \in Deliveries, NEW q \in Request, Forward(d, q)
        PROVE  handled' = handled /\ sent' = sent \union {d} /\ d \notin handled
    BY <2>1 DEF Forward, Arrive, GatewayInv, Passed
  <2>2. CASE \/ \E d \in Deliveries, q \in Request : Refuse(d, q)
             \/ \E d \in Deliveries : Accept(d) \/ Fail(d)
             \/ Restart
    BY <2>2 DEF Refuse, Accept, Fail, Restart, Arrive
  <2> QED
    BY <2>1, <2>2 DEF GatewayMoves
<1>3. \A d : Benchmark(d)' = Benchmark(d)
  BY <1>1 DEF trackVars, Benchmark
<1>4. InOrder'
  BY <1>1, <1>2, <1>3 DEF PipeInv, InOrder, trackVars
<1> QED
  BY <1>1, <1>4, QuietStep

\* The second half runs after the commit, and before the answer.
LEMMA SecondHalfStep ==
  ASSUME PipeInv, LegacyInv, NEW d \in Requests,
         BeginSecondHalf(d) \/ SecondHalf(d) \/ AbortSecondHalf(d) \/ AnswerTrack(d)
  PROVE  PipeInv'
<1>1. trackVars' = trackVars
  BY DEF BeginSecondHalf, SecondHalf, AbortSecondHalf, AnswerTrack
<1>2. \A q : Benchmark(q)' = Benchmark(q)
  BY <1>1 DEF trackVars, Benchmark
<1>3. CASE BeginSecondHalf(d) \/ SecondHalf(d)
  <2>1. /\ handled' = handled /\ sent' = sent
        /\ BeginLegacy(d) \/ LegacyStep(d)
        /\ BeginLegacy(d) => track[d] = "committed" \/ step[d] # "idle"
    BY <1>3 DEF BeginSecondHalf, SecondHalf, vars, LegacyStep, BeginLegacy, Move,
                LockRoute, EnsureLegacyEndpoint, RegisterSnapshot, CommitSnapshot,
                ReadBaseline, StartDemotion, Demote, Promote, Compare
  <2>2. /\ payload' = payload /\ step[d] # "done"
        /\ \A q \in Requests \ {d} : step'[q] = step[q]
        /\ step[d] = "idle" => BeginLegacy(d)
    BY <2>1, LegacyMoves
  <2>3. InOrder'
    BY <1>1, <1>2, <2>1, <2>2 DEF PipeInv, InOrder, trackVars
  <2> QED
    BY <1>1, <2>2, <2>3, QuietStep
<1>4. CASE AbortSecondHalf(d)
  <2>1. handled' = handled /\ sent' = sent \ {d} /\ d \in sent /\ step[d] # "idle"
    BY <1>4 DEF AbortSecondHalf, RuntimeRefuses, FailLegacy
  <2>2. payload' = payload /\ \A q \in Requests \ {d} : step'[q] = step[q]
    BY <1>4, LegacyMoves DEF AbortSecondHalf
  <2>3. InOrder'
    BY <1>1, <1>2, <2>1, <2>2 DEF PipeInv, InOrder, trackVars
  <2> QED
    BY <1>1, <2>2, <2>3, QuietStep
<1>5. CASE AnswerTrack(d)
  <2>1. /\ handled' = handled \union {d} /\ sent' = sent \ {d}
        /\ track[d] = "committed" /\ (Benchmark(d) \/ step[d] = "done")
        /\ step' = step /\ payload' = payload
    BY <1>5 DEF AnswerTrack, RuntimeTracks, legacyVars
  <2>2. InOrder'
    BY <1>1, <1>2, <2>1 DEF PipeInv, InOrder, trackVars
  <2> QED
    BY <1>1, <2>1, <2>2, QuietStep
<1> QED
  BY <1>3, <1>4, <1>5

\* Steps of track_contract that record nothing: the request finds its schema,
\* drafts a number for it, announces it or fails.
LEMMA DraftStep ==
  ASSUME PipeInv, NEW d \in Requests,
         FindVersion(d) \/ DraftVersion(d) \/ Announce(d) \/ AbortTrack(d)
  PROVE  PipeInv'
<1>1. /\ submission' = submission /\ payload' = payload /\ history' = history
      /\ step' = step /\ handled' = handled /\ sent' \subseteq sent
  BY DEF FindVersion, DraftVersion, Announce, AbortTrack, TrackTo, RuntimeRefuses, vars, legacyVars
<1>2. \A q : /\ Contract(q)' = Contract(q) /\ Fp(q)' = Fp(q) /\ Schema(q)' = Schema(q)
             /\ Recorded(q)' = Recorded(q) /\ Benchmark(q)' = Benchmark(q)
  BY <1>1, Submitted
<1>3. /\ track' \in [Requests -> {"idle", "unchanged", "drafted", "delivered", "announced",
                                  "committed", "failed"}]
      /\ \A q \in Requests \ {d} : track'[q] = track[q]
      /\ track[d] = "committed" => step[d] = "idle" /\ d \notin handled
  BY TrackMoves DEF FindVersion, DraftVersion, Announce, AbortTrack, TrackTo, RuntimeRefuses,
                    PipeInv, InOrder
<1>4. InOrder'
  BY <1>1, <1>2, <1>3 DEF PipeInv, InOrder
<1>5. CASE FindVersion(d)
  <2>1. /\ track[d] = "idle" /\ track'[d] = "unchanged" /\ Recorded(d)
        /\ version' = version /\ announced' = announced
    BY <1>5, TrackMoves DEF FindVersion, TrackTo, PipeInv
  <2>2. PipeTypeOK'
    BY <1>1, <1>2, <1>3, <2>1 DEF PipeInv, PipeTypeOK, Payload
  <2>3. OneDraft' /\ ChangesAreAnnounced'
    BY <1>1, <1>2, <1>3, <2>1 DEF PipeInv, OneDraft, ChangesAreAnnounced, Numbered
  <2>4. \A q \in Requests : Numbered(q)' /\ AnnouncedInTime(q)'
    BY <1>1, <1>2, <1>3, <2>1 DEF PipeInv, Numbered, Holds, AnnouncedInTime
  <2> QED
    BY <1>4, <2>2, <2>3, <2>4 DEF PipeInv
<1>6. CASE DraftVersion(d)
  <2> DEFINE next == Len(history[Contract(d)]) + 1
  <2>1. /\ track[d] = "idle" /\ track'[d] = "drafted" /\ ~Recorded(d)
        /\ \A q \in Requests : ~Holds(q, Contract(d))
        /\ version' = [version EXCEPT ![d] = next] /\ announced' = announced
    BY <1>6, TrackMoves DEF DraftVersion, TrackTo, PipeInv
  <2>2. next \in Nat \ {0}
    BY ContractType DEF PipeInv, PipeTypeOK
  <2>3. /\ version' \in [Requests -> Nat] /\ version'[d] = next
        /\ \A q \in Requests \ {d} : version'[q] = version[q]
    BY <2>1, <2>2 DEF PipeInv, PipeTypeOK
  <2>4. PipeTypeOK'
    BY <1>1, <1>2, <1>3, <2>1, <2>3 DEF PipeInv, PipeTypeOK, Payload
  <2>5. ASSUME NEW q \in Requests \ {d}, Contract(q) = Contract(d), track[q] # "failed"
        PROVE  version[q] # next
    <3>1. CASE Recorded(q)
      BY <2>2, <2>5, <3>1 DEF PipeInv, Numbered
    <3>2. CASE ~Recorded(q)
      <4>1. track[q] = "idle"
        BY <2>1, <2>5, <3>2 DEF PipeInv, PipeTypeOK, Numbered, Holds
      <4> QED
        BY <2>2, <4>1 DEF PipeInv, Numbered
    <3> QED
      BY <3>1, <3>2
  <2>6. OneDraft'
    BY <1>2, <1>3, <2>1, <2>3, <2>5 DEF PipeInv, OneDraft
  <2>7. ChangesAreAnnounced'
    <3>1. version[d] = 0
      BY <2>1 DEF PipeInv, Numbered
    <3> QED
      BY <1>1, <1>2, <1>3, <2>1, <2>3, <3>1 DEF PipeInv, ChangesAreAnnounced
  <2>8. \A q \in Requests : Numbered(q)' /\ AnnouncedInTime(q)'
    BY <1>1, <1>2, <1>3, <2>1, <2>2, <2>3 DEF PipeInv, PipeTypeOK, Numbered, Holds, AnnouncedInTime
  <2> QED
    BY <1>4, <2>4, <2>6, <2>7, <2>8 DEF PipeInv
<1>7. CASE Announce(d)
  <2>1. /\ track[d] \in {"drafted", "delivered"} /\ track'[d] = "announced" /\ version[d] > 1
        /\ version' = version /\ announced' = announced \union {d}
    BY <1>7, TrackMoves DEF Announce, TrackTo, PipeInv
  <2>2. PipeTypeOK'
    BY <1>1, <1>2, <1>3, <2>1 DEF PipeInv, PipeTypeOK, Payload
  <2>3. OneDraft' /\ ChangesAreAnnounced'
    BY <1>1, <1>2, <1>3, <2>1 DEF PipeInv, OneDraft, ChangesAreAnnounced
  <2>4. \A q \in Requests : Numbered(q)' /\ AnnouncedInTime(q)'
    BY <1>1, <1>2, <1>3, <2>1 DEF PipeInv, Numbered, Holds, AnnouncedInTime
  <2> QED
    BY <1>4, <2>2, <2>3, <2>4 DEF PipeInv
<1>8. CASE AbortTrack(d)
  <2>1. /\ track'[d] = "failed" /\ version' = version /\ announced' = announced
    BY <1>8, TrackMoves DEF AbortTrack, PipeInv
  <2>2. PipeTypeOK'
    BY <1>1, <1>2, <1>3, <2>1 DEF PipeInv, PipeTypeOK, Payload
  <2>3. OneDraft' /\ ChangesAreAnnounced'
    BY <1>1, <1>2, <1>3, <2>1 DEF PipeInv, OneDraft, ChangesAreAnnounced
  <2>4. \A q \in Requests : Numbered(q)' /\ AnnouncedInTime(q)'
    BY <1>1, <1>2, <1>3, <2>1 DEF PipeInv, Numbered, Holds, AnnouncedInTime
  <2> QED
    BY <1>4, <2>2, <2>3, <2>4 DEF PipeInv
<1> QED
  BY <1>5, <1>6, <1>7, <1>8

\* A commit: of the inline delivery, or of the handler.
LEMMA RecordStep ==
  ASSUME PipeInv, NEW d \in Requests, CommitInline(d) \/ CommitTrack(d)
  PROVE  PipeInv'
<1>1. /\ submission' = submission /\ payload' = payload /\ step' = step
      /\ handled' = handled /\ sent' = sent /\ version' = version /\ announced' = announced
  BY DEF CommitInline, CommitTrack, TrackTo, vars, legacyVars
<1>2. \A q : /\ Contract(q)' = Contract(q) /\ Fp(q)' = Fp(q) /\ Schema(q)' = Schema(q)
             /\ Benchmark(q)' = Benchmark(q)
  BY <1>1, Submitted
<1>3. /\ track' \in [Requests -> {"idle", "unchanged", "drafted", "delivered", "announced",
                                  "committed", "failed"}]
      /\ \A q \in Requests \ {d} : track'[q] = track[q]
      /\ \/ track[d] = "drafted" /\ track'[d] = "delivered" /\ version[d] > 1 /\ ~Recorded(d)
         \/ track[d] \in {"unchanged", "drafted", "announced"} /\ track'[d] = "committed"
      /\ track[d] = "drafted" /\ track'[d] = "committed" => version[d] = 1
  BY TrackMoves, VersionAdded DEF CommitInline, CommitTrack, TrackTo, PipeInv
<1>4. InOrder'
  BY <1>1, <1>2, <1>3 DEF PipeInv, InOrder
<1>5. CASE Recorded(d)
  <2>1. history' = history /\ track'[d] = "committed"
    BY <1>3, <1>5, VersionAdded DEF CommitInline, CommitTrack, PipeInv
  <2>2. \A q : Recorded(q)' = Recorded(q)
    BY <1>1, <2>1, Submitted
  <2>3. PipeTypeOK'
    BY <1>1, <1>2, <1>3, <2>1 DEF PipeInv, PipeTypeOK, Payload
  <2>4. OneDraft' /\ ChangesAreAnnounced'
    BY <1>1, <1>2, <1>3, <2>1 DEF PipeInv, OneDraft, ChangesAreAnnounced
  <2>5. \A q \in Requests : Numbered(q)' /\ AnnouncedInTime(q)'
    BY <1>1, <1>2, <1>3, <1>5, <2>1, <2>2 DEF PipeInv, Numbered, Holds, AnnouncedInTime
  <2> QED
    BY <1>4, <2>3, <2>4, <2>5 DEF PipeInv
<1>6. CASE ~Recorded(d)
  <2> DEFINE c == Contract(d)
             next == Len(history[c]) + 1
  <2>1. H!AddVersion(c, Fp(d))
    BY <1>6 DEF CommitInline, CommitTrack
  <2>2. /\ Recorded(d)'
        /\ \A q \in Requests : Recorded(q) => Recorded(q)'
        /\ \A q \in Requests : Recorded(q)' =>
             Recorded(q) \/ (Contract(q) = c /\ Fp(q) = Fp(d))
    BY <1>1, <2>1, RecordedStays DEF PipeInv
  <2>3. /\ history' \in [Contracts -> Seq(Fingerprints)]
        /\ \A b \in Contracts : b # c => history'[b] = history[b]
        /\ Len(history'[c]) = next
        /\ \A v \in 1 .. Len(history[c]) : history'[c][v] = history[c][v]
        /\ history'[c][next] = Fp(d)
    BY <2>1, VersionAdded DEF PipeInv
  <2>4. /\ c \in Contracts /\ Len(history[c]) \in Nat
        /\ \A q \in Requests : Contract(q) \in Contracts
    BY ContractType DEF PipeInv, PipeTypeOK
  <2>5. /\ track[d] \in {"drafted", "announced"} /\ version[d] = next
        /\ track'[d] = "delivered" => version[d] > 1
    BY <1>3, <1>6 DEF PipeInv, Numbered, Holds
  <2>6. ASSUME NEW q \in Requests \ {d}, Contract(q) = c, ~Recorded(q)
        PROVE  track[q] \in {"idle", "failed"}
    BY <1>6, <2>4, <2>5, <2>6 DEF PipeInv, PipeTypeOK, Numbered, Holds, OneDraft
  <2>7. PipeTypeOK'
    BY <1>1, <1>2, <1>3, <2>3 DEF PipeInv, PipeTypeOK, Payload
  <2>8. OneDraft'
    BY <1>1, <1>2, <1>3, <2>5 DEF PipeInv, OneDraft
  <2>9. ChangesAreAnnounced'
    <3> SUFFICES ASSUME NEW b \in Contracts, NEW v \in 2 .. Len(history'[b])
                 PROVE  \E q \in Requests :
                          /\ Contract(q) = b /\ version[q] = v /\ Fp(q) = history'[b][v]
                          /\ q \in announced \/ track'[q] \in {"delivered", "failed"}
      BY <1>1, <1>2 DEF ChangesAreAnnounced
    <3>1. CASE b = c /\ v = next
      <4>1. d \in announced \/ track'[d] = "delivered"
        BY <1>3, <2>4, <2>5, <3>1 DEF PipeInv, AnnouncedInTime
      <4> QED
        BY <2>3, <2>5, <3>1, <4>1
    <3>2. CASE ~(b = c /\ v = next)
      <4>1. v \in 2 .. Len(history[b]) /\ history'[b][v] = history[b][v]
        BY <2>3, <2>4, <3>2
      <4>2. PICK q \in Requests :
               /\ Contract(q) = b /\ version[q] = v /\ Fp(q) = history[b][v]
               /\ q \in announced \/ track[q] \in {"delivered", "failed"}
        BY <4>1 DEF PipeInv, ChangesAreAnnounced
      <4>3. q \in announced \/ track'[q] \in {"delivered", "failed"}
        BY <1>3, <2>5, <4>2
      <4> QED
        BY <4>1, <4>2, <4>3
    <3> QED
      BY <3>1, <3>2
  <2>10. Numbered(d)' /\ AnnouncedInTime(d)'
    BY <1>1, <1>2, <1>3, <2>2, <2>3, <2>4, <2>5 DEF PipeInv, Numbered, Holds, AnnouncedInTime
  <2>11. ASSUME NEW q \in Requests \ {d}  PROVE Numbered(q)' /\ AnnouncedInTime(q)'
    <3>1. Numbered(q) /\ AnnouncedInTime(q) /\ track'[q] = track[q]
      BY <1>3 DEF PipeInv
    <3>2. AnnouncedInTime(q)'
      BY <1>1, <3>1 DEF AnnouncedInTime
    <3>3. CASE Contract(q) # c
      <4>1. (Recorded(q)' <=> Recorded(q)) /\ history'[Contract(q)] = history[Contract(q)]
        BY <2>2, <2>3, <2>4, <3>3
      <4> QED
        BY <1>1, <1>2, <3>1, <3>2, <4>1 DEF Numbered, Holds
    <3>4. CASE Contract(q) = c /\ Recorded(q)
      <4>1. version[q] \in 1 .. Len(history[c]) => history'[c][version[q]] = history[c][version[q]]
        BY <2>3
      <4>2. Recorded(q)'
        BY <2>2, <3>4
      <4> QED
        BY <1>1, <1>2, <2>3, <2>4, <3>1, <3>2, <3>4, <4>1, <4>2 DEF Numbered, Holds
    <3>5. CASE Contract(q) = c /\ ~Recorded(q)
      <4>1. track[q] \in {"idle", "failed"}
        BY <2>6, <3>5
      <4> QED
        BY <1>1, <1>2, <3>1, <3>2, <4>1 DEF Numbered, Holds
    <3> QED
      BY <3>3, <3>4, <3>5
  <2> QED
    BY <1>4, <2>7, <2>8, <2>9, <2>10, <2>11 DEF PipeInv
<1> QED
  BY <1>5, <1>6

-----------------------------------------------------------------------------
\* The invariant of the composition needs those of its parts: that a handled
\* delivery is not sent again, that the legacy half moves one request at a time.
THEOREM PipeInvariance == PipeSpec => []PipeInv
<1>1. PipeInv /\ GatewayInv /\ LegacyInv /\ [PipeNext]_pipeVars => PipeInv'
  <2> SUFFICES ASSUME PipeInv, GatewayInv, LegacyInv, [PipeNext]_pipeVars
               PROVE  PipeInv'
    OBVIOUS
  <2>1. CASE UNCHANGED pipeVars
    <3>1. /\ trackVars' = trackVars /\ payload' = payload /\ step' = step
          /\ handled' = handled /\ sent' = sent /\ track' = track
          /\ \A q : Benchmark(q)' = Benchmark(q)
      BY <2>1 DEF pipeVars, vars, legacyVars, trackVars, Benchmark
    <3>2. InOrder'
      BY <3>1 DEF PipeInv, InOrder
    <3> QED
      BY <3>1, <3>2, QuietStep
  <2>2. CASE PipeNext
    BY <2>2, GatewayMovesStep, SecondHalfStep, DraftStep, RecordStep DEF PipeNext, TrackStep
  <2> QED
    BY <2>1, <2>2
<1> QED
  BY <1>1, InitPipe, PipeImplementsGateway, GatewayInvariance, PipeImplementsLegacy,
     LegacyInvariance, PTL DEF PipeSpec

\* The commits of deliver_with_retry and of track_contract keep the promise that
\* module SchemaRegistry implements: a contract's history only grows, by one new
\* schema at a time, whatever the gateway and the legacy half do around them.
THEOREM PipeImplementsHistory == PipeSpec => H!Spec
<1>1. PipeInit => H!Init
  BY DEF PipeInit
<1>2. PipeInv /\ [PipeNext]_pipeVars => [H!Next]_history
  <2> SUFFICES ASSUME PipeInv, [PipeNext]_pipeVars  PROVE H!Next \/ history' = history
    OBVIOUS
  <2>1. CASE UNCHANGED pipeVars \/ GatewayMoves
    BY <2>1 DEF pipeVars, GatewayMoves, trackVars
  <2>2. ASSUME NEW d \in Requests, CommitInline(d) \/ CommitTrack(d)
        PROVE  H!Next \/ history' = history
    <3>1. H!AddVersion(Contract(d), Fp(d)) \/ history' = history
      BY <2>2 DEF CommitInline, CommitTrack
    <3>2. Contract(d) \in Contracts /\ Fp(d) \in Fingerprints
      BY ContractType DEF PipeInv
    <3> QED
      BY <3>1, <3>2 DEF H!Next
  <2>3. ASSUME NEW d \in Requests, FindVersion(d) \/ DraftVersion(d) \/ Announce(d) \/ AbortTrack(d)
        PROVE  history' = history
    BY <2>3 DEF FindVersion, DraftVersion, Announce, AbortTrack
  <2>4. ASSUME NEW d \in Requests,
               BeginSecondHalf(d) \/ SecondHalf(d) \/ AbortSecondHalf(d) \/ AnswerTrack(d)
        PROVE  history' = history
    BY <2>4 DEF BeginSecondHalf, SecondHalf, AbortSecondHalf, AnswerTrack, trackVars
  <2> QED
    BY <2>1, <2>2, <2>3, <2>4 DEF PipeNext, TrackStep
<1> QED
  BY <1>1, <1>2, PipeInvariance, PTL DEF PipeSpec, H!Spec

\* A 202 promises the version and, but for benchmark traffic, the snapshot; and a
\* baseline, unless nobody has come to promote one (app/main.py track_payload).
THEOREM AcceptedRecordedCorrect == PipeSpec => []AcceptedIsRecorded
<1>1. PipeInv /\ LegacyInv /\ BaselineWasActive /\ AnswersAreTrue => AcceptedIsRecorded
  <2> SUFFICES ASSUME PipeInv, LegacyInv, BaselineWasActive, AnswersAreTrue,
                      NEW d \in Requests, status[d] = 202
               PROVE  /\ Recorded(d)
                      /\ ~Benchmark(d) => Known(d)
                      /\ ActiveOf(Endpoint(d)) = {} =>
                           \A x \in RowsOf(Endpoint(d)) : Unpromoted(x)
    BY DEF AcceptedIsRecorded, Known
  <2>1. d \in handled
    BY PipelineAssumption DEF AnswersAreTrue, AcceptedWasHandled
  <2>2. track[d] = "committed" /\ (Benchmark(d) \/ step[d] = "done")
    BY <2>1 DEF PipeInv, InOrder
  <2>3. Recorded(d) /\ (~Benchmark(d) => Known(d))
    BY <2>2 DEF PipeInv, Numbered, LegacyInv, Committed, Later
  <2>4. ASSUME ActiveOf(Endpoint(d)) = {}, NEW x \in RowsOf(Endpoint(d))
        PROVE  Unpromoted(x)
    <3>1. x \in snapshots /\ x \in Requests /\ Endpoint(x) = Endpoint(d)
      BY DEF RowsOf, LegacyInv, LegacyTypeOK
    <3>2. baseline[x] = {}
      BY <2>4, <3>1 DEF BaselineWasActive
    <3> QED
      BY <2>4, <3>1, <3>2 DEF LegacyInv, Committed, InsertedHasBaseline, Unpromoted
  <2> QED
    BY <2>3, <2>4
<1> QED
  BY <1>1, PipeInvariance, PipeImplementsLegacy, LegacyInvariance, BaselineWasActiveAlways,
     PipeAnswersCorrect, PTL

\* No two announcements that come true are of one version.
THEOREM AnnouncementsCorrect == PipeSpec => []AnnouncementsMatch
<1>1. PipeInv => AnnouncementsMatch
  <2> SUFFICES ASSUME PipeInv, NEW d \in announced, Recorded(d), track[d] # "failed"
               PROVE  /\ version[d] \in 2 .. Len(history[Contract(d)])
                      /\ history[Contract(d)][version[d]] = Fp(d)
                      /\ \A e \in announced : Contract(e) = Contract(d) /\ version[e] = version[d] =>
                           e = d \/ track[e] = "failed"
    BY DEF AnnouncementsMatch
  <2>1. d \in Requests /\ version[d] > 1 /\ version[d] \in Nat
    BY DEF PipeInv, PipeTypeOK, AnnouncedInTime
  <2>2. /\ version[d] \in 1 .. Len(history[Contract(d)])
        /\ history[Contract(d)][version[d]] = Fp(d)
    BY <2>1 DEF PipeInv, Numbered
  <2>3. \A e \in announced : Contract(e) = Contract(d) /\ version[e] = version[d] =>
          e = d \/ track[e] = "failed"
    BY <2>1 DEF PipeInv, PipeTypeOK, OneDraft
  <2> QED
    BY <2>1, <2>2, <2>3
<1> QED
  BY <1>1, PipeInvariance, PTL

\* No committed change is passed over in silence.
THEOREM ChangesCorrect == PipeSpec => []ChangesAreAnnounced
  BY PipeInvariance, PTL DEF PipeInv

\* The legacy half knows no schema that the registry does not.
THEOREM ViolationsCorrect == PipeSpec => []ViolationsAreRecorded
<1>1. PipeInv /\ LegacyInv => ViolationsAreRecorded
  <2> SUFFICES ASSUME PipeInv, LegacyInv, NEW x \in violations, NEW s \in {x.observed, x.against}
               PROVE  \E n \in Namespaces : \E f \in Range(history[<<n, x.endpoint>>]) :
                        LegacyOf[f] = s
    BY DEF ViolationsAreRecorded
  <2>1. PICK r \in snapshots : Endpoint(r) = x.endpoint /\ Schema(r) = s
    BY DEF LegacyInv, ViolationsAreStored
  <2>2. r \in Requests /\ step[r] # "idle"
    BY DEF LegacyInv, LegacyTypeOK, Committed
  <2>3. Recorded(r) /\ LegacyOf[Fp(r)] = s /\ submission[r].namespace \in Namespaces
    BY <2>1, <2>2 DEF PipeInv, PipeTypeOK, InOrder, Numbered
  <2> QED
    BY <2>1, <2>3 DEF Recorded, Contract
<1> QED
  BY <1>1, PipeInvariance, PipeImplementsLegacy, LegacyInvariance, PTL
=============================================================================
