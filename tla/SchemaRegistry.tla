--------------------------- MODULE SchemaRegistry ---------------------------
(***************************************************************************)
(* The contract registry of the runtime (src/app/runtime/registry.py and  *)
(* the version-recording part of service.track_contract): concurrent      *)
(* POST /track requests record the schema fingerprint of a payload as a   *)
(* version of an endpoint.                                                *)
(*                                                                         *)
(* A request runs in one PostgreSQL transaction at READ COMMITTED, one    *)
(* action per SQL statement: a statement sees the rows committed when it  *)
(* starts and the transaction's own writes, and the writes become visible *)
(* to the others at the commit.  The UNIQUE constraints of the table are  *)
(* not guards of the insert: UniqueConstraints states that the advisory   *)
(* lock makes them hold, so that no request is ever refused by them.      *)
(***************************************************************************)
EXTENDS Naturals, FiniteSets

CONSTANTS Requests,      \* calls of POST /track, each handled once
          Keys,          \* (namespace, service, method, route) of endpoints
          Fingerprints,  \* hashes of canonical schemas
          LockIds,       \* advisory lock numbers
          LockId,        \* _lock_id: a truncated hash, so not injective
          Severities,    \* compatibility classifications
          Safe,          \* the provisional classification of an insert
          Verdict,       \* summary of diff_and_classify(old, new)
          None

ASSUME LockIdAssumption == LockId \in [Keys -> LockIds]

ASSUME VerdictAssumption ==
  /\ Safe \in Severities
  /\ Verdict \in [Fingerprints -> [Fingerprints -> Severities]]

\* A row of contract_schema_versions.  Its id is the request that inserted it:
\* a request inserts at most one row.
Row == [key     : Keys,
        version : Nat \ {0},
        fp      : Fingerprints,
        prev    : Requests \union {None},
        current : BOOLEAN,
        class   : Severities]

\* UPDATE ... SET is_current = FALSE, and SET compatibility_classification = c
Demoted(row) ==
  [key |-> row.key, version |-> row.version, fp |-> row.fp,
   prev |-> row.prev, current |-> FALSE, class |-> row.class]
Classified(row, c) ==
  [key |-> row.key, version |-> row.version, fp |-> row.fp,
   prev |-> row.prev, current |-> row.current, class |-> c]

ASSUME NoneAssumption == None \notin Requests \union Row

VARIABLES
  endpoints,  \* committed rows of contract_registry_endpoints
  table,      \* committed rows of contract_schema_versions, by id
  lock,       \* holder of each advisory lock
  pc,         \* the statement each request is at
  payload,    \* the endpoint and the fingerprint each request submits
  creates,    \* does the transaction hold an uncommitted endpoint row?
  current,    \* id that get_current_schema returned
  demotes,    \* has the transaction cleared is_current of that row?
  draft,      \* the transaction's uncommitted version row
  answer      \* id of the version row the response is about

vars == <<endpoints, table, lock, pc, payload, creates, current, demotes,
          draft, answer>>

-----------------------------------------------------------------------------

Locked   == {"current", "recheck", "demote", "insert", "classify"}
Running  == {"ensure", "lookup", "lock", "commit"} \union Locked
Finished == {"done", "failed"}

KeyOf(r)  == payload[r].key
LockOf(r) == LockId[KeyOf(r)]

\* The committed version rows, and those of one endpoint.
Stored      == {i \in Requests : table[i] # None}
VersionsOf(k) == {i \in Stored : table[i].key = k}

\* Mutant: the lookup forgets the endpoint.
SameSchemaAnywhere(r) == {i \in Stored : table[i].fp = payload[r].fp}

\* SELECT ... WHERE endpoint_id = k AND fingerprint = f.
SameSchema(r) == {i \in VersionsOf(KeyOf(r)) : table[i].fp = payload[r].fp}

\* Mutant: get_current_schema forgets the endpoint.
CurrentRowsAnywhere(k) ==
  {i \in Stored :
     /\ table[i].current
     /\ \A j \in Stored :
          table[j].current => table[j].version <= table[i].version}

\* SELECT ... WHERE endpoint_id = k AND is_current ORDER BY version DESC LIMIT 1
CurrentRows(k) ==
  {i \in VersionsOf(k) :
     /\ table[i].current
     /\ \A j \in VersionsOf(k) :
          table[j].current => table[j].version <= table[i].version}

Init ==
  /\ endpoints = {}
  /\ table   = [i \in Requests |-> None]
  /\ lock    = [l \in LockIds |-> None]
  /\ pc      = [r \in Requests |-> "idle"]
  /\ payload \in [Requests -> [key : Keys, fp : Fingerprints]]
  /\ creates = [r \in Requests |-> FALSE]
  /\ current = [r \in Requests |-> None]
  /\ demotes = [r \in Requests |-> FALSE]
  /\ draft   = [r \in Requests |-> None]
  /\ answer  = [r \in Requests |-> None]

Goto(r, label) == pc' = [pc EXCEPT ![r] = label]

Start(r) ==
  /\ pc[r] = "idle"
  /\ Goto(r, "ensure")
  /\ UNCHANGED <<endpoints, table, lock, payload, creates, current, demotes,
                 draft, answer>>

\* INSERT ... ON CONFLICT DO NOTHING waits for a transaction that has inserted
\* the same endpoint and not yet ended; if the row is there, it is selected.
EnsureEndpoint(r) ==
  /\ pc[r] = "ensure"
  /\ \A q \in Requests : creates[q] => KeyOf(q) # KeyOf(r)
  /\ creates' = [creates EXCEPT ![r] = KeyOf(r) \notin endpoints]
  /\ Goto(r, "lookup")
  /\ UNCHANGED <<endpoints, table, lock, payload, current, demotes, draft,
                 answer>>

\* The lookup outside the lock: a known schema ends the work of the request.
FastLookup(r) ==
  /\ pc[r] = "lookup"
  /\ \/ /\ SameSchema(r) = {}
        /\ Goto(r, "lock")
        /\ UNCHANGED answer
     \/ \E i \in SameSchema(r) :
          /\ answer' = [answer EXCEPT ![r] = i]
          /\ Goto(r, "commit")
  /\ UNCHANGED <<endpoints, table, lock, payload, creates, current, demotes,
                 draft>>

\* Mutant: the lock is not waited for.
AcquireLockAtOnce(r) ==
  /\ pc[r] = "lock"
  /\ lock' = [lock EXCEPT ![LockOf(r)] = r]
  /\ Goto(r, "current")
  /\ UNCHANGED <<endpoints, table, payload, creates, current, demotes, draft,
                 answer>>

\* pg_advisory_xact_lock: released by the end of the transaction only.
AcquireLock(r) ==
  /\ pc[r] = "lock"
  /\ lock[LockOf(r)] = None
  /\ lock' = [lock EXCEPT ![LockOf(r)] = r]
  /\ Goto(r, "current")
  /\ UNCHANGED <<endpoints, table, payload, creates, current, demotes, draft,
                 answer>>

ReadCurrent(r) ==
  /\ pc[r] = "current"
  /\ \/ /\ CurrentRows(KeyOf(r)) = {}
        /\ UNCHANGED current
     \/ \E i \in CurrentRows(KeyOf(r)) : current' = [current EXCEPT ![r] = i]
  /\ Goto(r, "recheck")
  /\ UNCHANGED <<endpoints, table, lock, payload, creates, demotes, draft,
                 answer>>

\* Mutant: the fingerprint is not looked up again under the lock.
NoRecheck(r) ==
  /\ pc[r] = "recheck"
  /\ Goto(r, IF current[r] = None THEN "insert" ELSE "demote")
  /\ UNCHANGED <<endpoints, table, lock, payload, creates, current, demotes,
                 draft, answer>>

Recheck(r) ==
  /\ pc[r] = "recheck"
  /\ \/ /\ SameSchema(r) = {}
        /\ Goto(r, IF current[r] = None THEN "insert" ELSE "demote")
        /\ UNCHANGED answer
     \/ \E i \in SameSchema(r) :
          /\ answer' = [answer EXCEPT ![r] = i]
          /\ Goto(r, "commit")
  /\ UNCHANGED <<endpoints, table, lock, payload, creates, current, demotes,
                 draft>>

\* Mutant: the previous version stays current.
NoDemotion(r) ==
  /\ pc[r] = "demote"
  /\ Goto(r, "insert")
  /\ UNCHANGED <<endpoints, table, lock, payload, creates, current, demotes,
                 draft, answer>>

Demote(r) ==
  /\ pc[r] = "demote"
  /\ demotes' = [demotes EXCEPT ![r] = TRUE]
  /\ Goto(r, "insert")
  /\ UNCHANGED <<endpoints, table, lock, payload, creates, current, draft,
                 answer>>

NextVersion(r) ==
  IF current[r] = None THEN 1 ELSE table[current[r]].version + 1

\* Only a version with a predecessor is compared; the first one stays Safe.
InsertVersion(r) ==
  /\ pc[r] = "insert"
  /\ draft' = [draft EXCEPT ![r] =
                 [key     |-> KeyOf(r),
                  version |-> NextVersion(r),
                  fp      |-> payload[r].fp,
                  prev    |-> current[r],
                  current |-> TRUE,
                  class   |-> Safe]]
  /\ answer' = [answer EXCEPT ![r] = r]
  /\ Goto(r, IF current[r] = None THEN "commit" ELSE "classify")
  /\ UNCHANGED <<endpoints, table, lock, payload, creates, current, demotes>>

\* Mutant: the old and the new schema change places.
ClassifyReversed(r) ==
  /\ pc[r] = "classify"
  /\ draft' = [draft EXCEPT ![r] =
       Classified(draft[r], Verdict[payload[r].fp][table[draft[r].prev].fp])]
  /\ Goto(r, "commit")
  /\ UNCHANGED <<endpoints, table, lock, payload, creates, current, demotes,
                 answer>>

ClassifyVersion(r) ==
  /\ pc[r] = "classify"
  /\ draft' = [draft EXCEPT ![r] =
       Classified(draft[r], Verdict[table[draft[r].prev].fp][payload[r].fp])]
  /\ Goto(r, "commit")
  /\ UNCHANGED <<endpoints, table, lock, payload, creates, current, demotes,
                 answer>>

\* Mutant: a session-level lock, which the end of the transaction leaves held.
EndTransactionLocked(r) ==
  /\ creates' = [creates EXCEPT ![r] = FALSE]
  /\ current' = [current EXCEPT ![r] = None]
  /\ demotes' = [demotes EXCEPT ![r] = FALSE]
  /\ draft'   = [draft EXCEPT ![r] = None]
  /\ UNCHANGED lock

\* The end of a transaction forgets its own writes and releases its lock.
EndTransaction(r) ==
  /\ lock'    = [l \in LockIds |-> IF lock[l] = r THEN None ELSE lock[l]]
  /\ creates' = [creates EXCEPT ![r] = FALSE]
  /\ current' = [current EXCEPT ![r] = None]
  /\ demotes' = [demotes EXCEPT ![r] = FALSE]
  /\ draft'   = [draft EXCEPT ![r] = None]

\* The table with the transaction's demotion and insert applied.
Written(r) ==
  [i \in Requests |->
     IF i = r /\ draft[r] # None THEN draft[r]
     ELSE IF demotes[r] /\ i = current[r] THEN Demoted(table[i])
          ELSE table[i]]

Commit(r) ==
  /\ pc[r] = "commit"
  /\ endpoints' = IF creates[r] THEN endpoints \union {KeyOf(r)} ELSE endpoints
  /\ table' = Written(r)
  /\ Goto(r, "done")
  /\ EndTransaction(r)
  /\ UNCHANGED <<payload, answer>>

\* A statement fails, the client goes away or the process dies: PostgreSQL
\* rolls the transaction back.
Abort(r) ==
  /\ pc[r] \in Running
  /\ Goto(r, "failed")
  /\ EndTransaction(r)
  /\ answer' = [answer EXCEPT ![r] = None]
  /\ UNCHANGED <<endpoints, table, payload>>

Step(r) ==
  \/ EnsureEndpoint(r) \/ FastLookup(r) \/ AcquireLock(r) \/ ReadCurrent(r)
  \/ Recheck(r) \/ Demote(r) \/ InsertVersion(r) \/ ClassifyVersion(r)
  \/ Commit(r)

\* No request is left to handle.
Quiescent ==
  /\ \A r \in Requests : pc[r] \in Finished
  /\ UNCHANGED vars

Next == (\E r \in Requests : Start(r) \/ Step(r) \/ Abort(r)) \/ Quiescent

Spec == Init /\ [][Next]_vars

\* The database answers every statement and a free lock is granted.  Clients
\* need not send a request, and nothing needs to fail.
FairSpec == Spec /\ \A r \in Requests : WF_vars(Step(r))

-----------------------------------------------------------------------------
TypeOK ==
  /\ endpoints \subseteq Keys
  /\ table   \in [Requests -> Row \union {None}]
  /\ lock    \in [LockIds -> Requests \union {None}]
  /\ pc      \in [Requests -> {"idle"} \union Running \union Finished]
  /\ payload \in [Requests -> [key : Keys, fp : Fingerprints]]
  /\ creates \in [Requests -> BOOLEAN]
  /\ current \in [Requests -> Requests \union {None}]
  /\ demotes \in [Requests -> BOOLEAN]
  /\ draft   \in [Requests -> Row \union {None}]
  /\ answer  \in [Requests -> Requests \union {None}]

\* The row a request has inserted, committed or not, and whether there is one.
Exists(i)  == table[i] # None \/ draft[i] # None
RowOf(i)   == IF table[i] # None THEN table[i] ELSE draft[i]

\* UNIQUE(endpoint_id, version) and UNIQUE(endpoint_id, fingerprint) hold of the
\* committed and the uncommitted rows together: no insert of track_contract,
\* whatever it races with, is refused by the database or has to wait there.
UniqueConstraints ==
  \A i, j \in Requests :
    /\ i # j
    /\ Exists(i) /\ Exists(j)
    /\ RowOf(i).key = RowOf(j).key
    => /\ RowOf(i).version # RowOf(j).version
       /\ RowOf(i).fp # RowOf(j).fp

\* In the committed table an endpoint that has versions has exactly one row
\* marked is_current, and it is the highest version: demotion and insert of
\* upsert_schema_version are never seen or left apart.
CurrentIsLatest ==
  \A k \in Keys : VersionsOf(k) # {} =>
    \E i \in VersionsOf(k) :
      /\ table[i].current
      /\ \A j \in VersionsOf(k) \ {i} :
           ~table[j].current /\ table[j].version < table[i].version

\* previous_version_id links every version to the one numbered just before it
\* on the same endpoint, down to version 1: no gap, no fork.
VersionChain ==
  \A i \in Stored :
    \/ table[i].prev = None /\ table[i].version = 1
    \/ /\ table[i].prev \in VersionsOf(table[i].key)
       /\ table[i].version = table[table[i].prev].version + 1

\* The classification other sessions can read is the verdict against the
\* predecessor: the provisional "SAFE" of the insert is never committed for a
\* version that has a predecessor.
ClassifiedAgainstPredecessor ==
  \A i \in Stored :
    table[i].class = IF table[i].prev = None THEN Safe
                     ELSE Verdict[table[table[i].prev].fp][table[i].fp]

\* What get_current_schema returned is still the current row (or there is still
\* none) whenever upsert_schema_version acts on it, until the commit.
CurrentReadIsFresh ==
  \A r \in Requests : pc[r] \in {"recheck", "demote", "insert", "classify"} =>
    CurrentRows(KeyOf(r)) = IF current[r] = None THEN {} ELSE {current[r]}

\* A 200 response is about a committed version of the submitted endpoint with
\* the submitted schema, even when another request inserted it.
AnswerIsCommitted ==
  \A r \in Requests : pc[r] = "done" =>
    /\ answer[r] \in VersionsOf(KeyOf(r))
    /\ table[answer[r]].fp = payload[r].fp

\* Once committed, a version never changes and never goes away, except that it
\* stops being the current one, for good.
VersionsAreImmutable ==
  [][\A i \in Stored :
       /\ table'[i] # None
       /\ table'[i].current => table[i].current
       /\ Demoted(table'[i]) = Demoted(table[i])]_vars

\* A request that runs is answered or fails, through the waits for an
\* uncommitted endpoint and for a lock shared with other endpoints.
EveryRequestEnds ==
  \A r \in Requests : pc[r] \in Running ~> pc[r] \in Finished

-----------------------------------------------------------------------------
(* The committed table implements an append-only history per endpoint.     *)

Latest(k) ==
  IF \E i \in VersionsOf(k) : table[i].current
  THEN table[CHOOSE i \in VersionsOf(k) : table[i].current].version
  ELSE 0

FingerprintAt(k, v) ==
  table[CHOOSE i \in VersionsOf(k) : table[i].version = v].fp

History == INSTANCE VersionHistory WITH
  history <- [k \in Keys |-> [v \in 1 .. Latest(k) |-> FingerprintAt(k, v)]]

\* The registry implements the abstract history: a commit adds at most one
\* version, the next one, and every other step leaves the history alone.
ImplementsHistory == History!Spec
=============================================================================
