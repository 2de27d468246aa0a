----------------------------- MODULE MonitorRun -----------------------------
(***************************************************************************)
(* The scheduled monitor (src/backend/app/workers/monitor_runner.py).  A  *)
(* request to POST /api/monitor/run-once takes a session-level advisory   *)
(* lock of PostgreSQL, fetches every endpoint in a coroutine of its own,  *)
(* all of them on one database session, compares each schema with the one *)
(* before, and commits everything at the end.                              *)
(*                                                                         *)
(* The lock belongs to a connection, while the session holds one only     *)
(* from its first statement to its commit or rollback; afterwards the     *)
(* pool hands out another (core/locking.py, database.py).  SQLAlchemy     *)
(* refuses a flush while one is under way on the same session.             *)
(***************************************************************************)
EXTENDS Integers, Sequences

CONSTANTS Runs,       \* requests to run the monitor
          Readers,    \* other requests of the service
          Endpoints,  \* the active entries of the registry file
          Schemas,    \* structural hashes of what an endpoint answers
          Visible,    \* the pairs of schemas between which diff_schemas sees a change
          Conns,      \* database connections
          PoolSize,   \* connections the pool keeps open
          Keep,       \* raw_retention_per_endpoint
          Earlier,    \* the snapshots that runs before these have committed
          MaxFaults,  \* bound: crashes and failures of the database
          None

Users == Runs \union Readers

Snapshots == [run : Runs \union {None}, schema : Schemas \union {None}, from : Nat,
              raw : BOOLEAN]

ASSUME MonitorAssumption ==
  /\ Runs \intersect Readers = {} /\ None \notin Schemas \union Conns \union Endpoints
  /\ Visible \subseteq Schemas \X Schemas
  /\ Earlier \in [Endpoints -> Seq(Snapshots)]
  /\ PoolSize \in Nat \ {0} /\ Keep \in Nat \ {0} /\ MaxFaults \in Nat

\* What the runs before have left is what runs leave.
ASSUME EarlierAssumption ==
  \A e \in Endpoints : \A i \in DOMAIN Earlier[e] :
    LET s == Earlier[e][i] IN
    /\ s.run \notin Runs
    /\ s.raw => i + Keep >= Len(Earlier[e])
    /\ s.from # 0 => s.from = i - 1 /\ Earlier[e][i - 1].schema # None

VARIABLES
  pc,        \* where the handler of a request is
  conn,      \* the connection a request has checked out
  pool,      \* idle connections, in the order in which they will be handed out
  held,      \* how often a connection holds the monitor's lock
  task,      \* what the coroutine of a run and an endpoint does
  found,     \* the snapshot it has added: its schema and the one it differs from
  unsent,    \* objects added to a run's session and not yet flushed
  flushing,  \* the endpoint whose coroutine is flushing the session
  broken,    \* the session's transaction has failed
  history,   \* the committed snapshots of an endpoint, by created_at
  report,    \* the committed row of a run in monitor_runs
  faults

connVars == <<conn, pool, held>>
taskVars == <<task, found, unsent, flushing>>
tables   == <<history, report>>
vars     == <<pc, connVars, taskVars, broken, tables, faults>>

NoSnapshot == [schema |-> None, from |-> 0]

Init ==
  /\ pc       = [u \in Users |-> "idle"]
  /\ conn     = [u \in Users |-> None]
  /\ pool     = <<>>
  /\ held     = [c \in Conns |-> 0]
  /\ task     = [r \in Runs |-> [e \in Endpoints |-> "idle"]]
  /\ found    = [r \in Runs |-> [e \in Endpoints |-> NoSnapshot]]
  /\ unsent   = [r \in Runs |-> {}]
  /\ flushing = [r \in Runs |-> None]
  /\ broken   = [r \in Runs |-> FALSE]
  /\ history  = Earlier
  /\ report   = [r \in Runs |-> None]
  /\ faults   = 0

At(u, here)   == pc[u] = here
Goto(u, next) == pc' = [pc EXCEPT ![u] = next]
Fault         == faults < MaxFaults /\ faults' = faults + 1

-----------------------------------------------------------------------------
(* The pool: a queue; what does not fit into it is closed.                 *)

Open   == {pool[i] : i \in DOMAIN pool} \union {conn[u] : u \in Users}

\* The connection the pool gives next; one new connection is like another.
Given(c) ==
  IF pool # <<>> THEN c = Head(pool)
  ELSE c \in Conns \ Open /\ c = CHOOSE d \in Conns \ Open : TRUE

Rest == IF pool # <<>> THEN Tail(pool) ELSE pool

CheckOut(u, c) ==
  /\ Given(c)
  /\ pool' = Rest
  /\ conn' = [conn EXCEPT ![u] = c]

\* A connection comes back.  What it holds in PostgreSQL it keeps.
CheckIn(u) ==
  /\ conn' = [conn EXCEPT ![u] = None]
  /\ IF conn[u] = None THEN UNCHANGED <<pool, held>>
     ELSE IF Len(pool) < PoolSize
     THEN pool' = Append(pool, conn[u]) /\ UNCHANGED held
     ELSE held' = [held EXCEPT ![conn[u]] = 0] /\ UNCHANGED pool

-----------------------------------------------------------------------------
(* The handler up to the coroutines.                                       *)

\* pg_try_advisory_lock: granted unless another connection has it.
Start(r) ==
  /\ At(r, "idle")
  /\ \E c \in Conns :
       /\ CheckOut(r, c)
       /\ IF \A d \in Conns \ {c} : held[d] = 0
          THEN held' = [held EXCEPT ![c] = @ + 1] /\ Goto(r, "load")
          ELSE Goto(r, "leave") /\ UNCHANGED held
  /\ UNCHANGED <<taskVars, broken, tables, faults>>

\* Mutant: the row of the run is committed at once, for others to see.
LoadCommitted(r) ==
  /\ At(r, "load")
  /\ Goto(r, "gather")
  /\ task' = [task EXCEPT ![r] = [e \in Endpoints |-> "fetch"]]
  /\ pool # <<>>
  /\ conn' = [conn EXCEPT ![r] = Head(pool)]
  /\ pool' = Append(Tail(pool), conn[r])
  /\ UNCHANGED <<held, found, unsent, flushing, broken, tables, faults>>

\* The run is inserted, the registry file loaded, the coroutines start.
Load(r) ==
  /\ At(r, "load")
  /\ Goto(r, "gather")
  /\ task' = [task EXCEPT ![r] = [e \in Endpoints |-> "fetch"]]
  /\ UNCHANGED <<connVars, found, unsent, flushing, broken, tables, faults>>

\* The insertion fails outside the try block: no unlock on a failed session.
FailInsert(r) ==
  /\ At(r, "load") /\ Fault
  /\ Goto(r, "leave")
  /\ UNCHANGED <<connVars, taskVars, broken, tables>>

\* The registry file cannot be loaded.
FailLoad(r) ==
  /\ At(r, "load") /\ Fault
  /\ Goto(r, "record") /\ CheckIn(r)
  /\ UNCHANGED <<taskVars, broken, tables>>

-----------------------------------------------------------------------------
(* The coroutine of one endpoint, _process_endpoint.                       *)

Busy(r, e, here) == At(r, "gather") /\ task[r][e] = here /\ ~broken[r]
Turn(r, e, next) == task' = [task EXCEPT ![r][e] = next]

\* session.flush with these objects added.  It raises while another flush is
\* under way, and sends all that is unsent when there is something.
Flush(r, e, objects, during, after) ==
  LET all == unsent[r] \union objects IN
  IF flushing[r] # None
  THEN /\ Turn(r, e, "raised")
       /\ unsent' = [unsent EXCEPT ![r] = all]
       /\ UNCHANGED flushing
  ELSE /\ unsent' = [unsent EXCEPT ![r] = {}]
       /\ IF all = {} THEN Turn(r, e, after) /\ UNCHANGED flushing
          ELSE Turn(r, e, during) /\ flushing' = [flushing EXCEPT ![r] = e]

\* The answer of the endpoint, or the error of fetch_endpoint.
Fetch(r, e) ==
  /\ Busy(r, e, "fetch")
  /\ \E s \in Schemas \union {None} :
       found' = [found EXCEPT ![r][e] = [schema |-> s, from |-> 0]]
  /\ Flush(r, e, {<<e, "snapshot">>}, "store", "store")
  /\ UNCHANGED <<pc, connVars, broken, tables, faults>>

\* The flush of the snapshot ends; a failed fetch ends the coroutine.
Stored(r, e) ==
  /\ Busy(r, e, "store")
  /\ flushing' = [flushing EXCEPT ![r] = None]
  /\ Turn(r, e, IF found[r][e].schema = None THEN "failed" ELSE "compare")
  /\ UNCHANGED <<pc, connVars, found, unsent, broken, tables, faults>>

\* Mutant: the snapshots are ordered the other way round.
PriorOldest(e) == IF history[e] = <<>> THEN 0 ELSE 1

\* _get_prior_snapshot: the newest one, 0 without any.  Its filter IS NOT NULL
\* passes over no failed fetch: None is stored in a JSONB column as JSON null.
Prior(e) == Len(history[e])

\* The snapshot that the new one has differences from, 0 if there is none; from
\* a failed fetch there is none.
Changed(r, e) ==
  LET p == Prior(e) IN
  IF p # 0 /\ <<history[e][p].schema, found[r][e].schema>> \in Visible
           /\ history[e][p].schema # found[r][e].schema
  THEN p ELSE 0

Compare(r, e) ==
  /\ Busy(r, e, "compare")
  /\ found' = [found EXCEPT ![r][e].from = Changed(r, e)]
  /\ Flush(r, e, IF Changed(r, e) = 0 THEN {} ELSE {<<e, "diffs">>}, "save", "done")
  /\ UNCHANGED <<pc, connVars, broken, tables, faults>>

Saved(r, e) ==
  /\ Busy(r, e, "save")
  /\ flushing' = [flushing EXCEPT ![r] = None]
  /\ Turn(r, e, "done")
  /\ UNCHANGED <<pc, connVars, found, unsent, broken, tables, faults>>

\* A statement of the run fails, with or without the loss of its connection.
Break(r) ==
  /\ At(r, "gather") /\ ~broken[r] /\ Fault
  /\ broken' = [broken EXCEPT ![r] = TRUE]
  /\ flushing' = [flushing EXCEPT ![r] = None]
  /\ found' = [found EXCEPT ![r] = [e \in Endpoints |-> NoSnapshot]]
  /\ unsent' = [unsent EXCEPT ![r] = {}]
  /\ \/ UNCHANGED connVars
     \/ /\ held' = [held EXCEPT ![conn[r]] = 0]
        /\ conn' = [conn EXCEPT ![r] = None]
        /\ UNCHANGED pool
  /\ UNCHANGED <<pc, task, tables>>

Ended(r) == \A e \in Endpoints : task[r][e] \in {"done", "failed", "raised"}

\* Every further use of a failed session raises.
Raise(r, e) ==
  /\ At(r, "gather") /\ broken[r]
  /\ task[r][e] \in {"fetch", "store", "compare", "save"}
  /\ Turn(r, e, "raised")
  /\ UNCHANGED <<pc, connVars, found, unsent, flushing, broken, tables, faults>>

-----------------------------------------------------------------------------
(* The end of a run.                                                       *)

\* Mutant: the snapshots are ordered the other way round.
SweptNewest(s) ==
  [i \in DOMAIN s |-> IF i <= Keep THEN s[i] ELSE [s[i] EXCEPT !.raw = FALSE]]

\* _retention_sweep: only the newest Keep snapshots keep their sample.
Swept(s) ==
  [i \in DOMAIN s |-> IF i + Keep > Len(s) THEN s[i] ELSE [s[i] EXCEPT !.raw = FALSE]]

Entry(r, e) ==
  [run |-> r, schema |-> found[r][e].schema, from |-> found[r][e].from,
   raw |-> found[r][e].schema # None]

\* The sweep sees what has been flushed; the commit flushes the rest.
Added(r, e) ==
  IF <<e, "snapshot">> \in unsent[r]
  THEN Append(Swept(history[e]), Entry(r, e))
  ELSE Swept(Append(history[e], Entry(r, e)))

InTask(r, ends) == {e \in Endpoints : task[r][e] \in ends}

\* Mutant: an exception that gather has returned does not count as a failure.
OutcomeOfResults(r) ==
  IF InTask(r, {"failed"}) # {} THEN "partial_failure" ELSE "success"

Outcome(r) ==
  IF InTask(r, {"failed", "raised"}) # {} THEN "partial_failure" ELSE "success"

Report(r) ==
  [status    |-> Outcome(r),
   snapshots |-> InTask(r, {"done", "failed"}),
   diffs     |-> {e \in InTask(r, {"done"}) : found[r][e].from # 0}]

\* The coroutines and what the session has added are gone.
Forget(r) ==
  /\ task' = [task EXCEPT ![r] = [e \in Endpoints |-> "idle"]]
  /\ found' = [found EXCEPT ![r] = [e \in Endpoints |-> NoSnapshot]]
  /\ unsent' = [unsent EXCEPT ![r] = {}]
  /\ UNCHANGED flushing

\* Mutant: gather is not told to return exceptions, and raises them.
CommitUnlessRaised(r) ==
  /\ At(r, "gather") /\ ~broken[r] /\ Ended(r)
  /\ Goto(r, IF InTask(r, {"raised"}) = {} THEN "unlock" ELSE "record") /\ CheckIn(r)
  /\ IF InTask(r, {"raised"}) = {}
     THEN /\ history' = [e \in Endpoints |-> Added(r, e)]
          /\ report' = [report EXCEPT ![r] = Report(r)]
     ELSE UNCHANGED tables
  /\ Forget(r)
  /\ UNCHANGED <<broken, faults>>

\* gather has returned: sweep, the row of the run, commit.
CommitRun(r) ==
  /\ At(r, "gather") /\ ~broken[r] /\ Ended(r)
  /\ history' = [e \in Endpoints |-> Added(r, e)]
  /\ report' = [report EXCEPT ![r] = Report(r)]
  /\ Forget(r)
  /\ Goto(r, "unlock") /\ CheckIn(r)
  /\ UNCHANGED <<broken, faults>>

\* The sweep raises on the failed session: rollback.
Rollback(r) ==
  /\ At(r, "gather") /\ broken[r] /\ Ended(r)
  /\ Forget(r)
  /\ broken' = [broken EXCEPT ![r] = FALSE]
  /\ Goto(r, "record") /\ CheckIn(r)
  /\ UNCHANGED <<tables, faults>>

\* UPDATE ... SET status = 'failed', on a row the rollback has taken away.
RecordFailure(r) ==
  /\ At(r, "record")
  /\ \E c \in Conns : Given(c) /\ pool' = Append(Rest, c)
  /\ report' = [report EXCEPT ![r] = IF @ = None THEN @ ELSE [@ EXCEPT !.status = "failed"]]
  /\ Goto(r, "unlock")
  /\ UNCHANGED <<conn, held, taskVars, broken, history, faults>>

\* pg_advisory_unlock, on the connection the pool gives now.
Unlock(r) ==
  /\ At(r, "unlock")
  /\ \E c \in Conns :
       /\ CheckOut(r, c)
       /\ held' = [held EXCEPT ![c] = IF @ = 0 THEN 0 ELSE @ - 1]
  /\ Goto(r, "leave")
  /\ UNCHANGED <<taskVars, broken, tables, faults>>

\* The answer is sent and the session closed.
Leave(u) ==
  /\ At(u, "leave")
  /\ Goto(u, "end") /\ CheckIn(u)
  /\ UNCHANGED <<taskVars, broken, tables, faults>>

-----------------------------------------------------------------------------
(* The rest of the service.                                                *)

\* Any other request with a database session, which may come again.
Browse(q) ==
  /\ pc[q] \in {"idle", "end"}
  /\ \E c \in Conns : CheckOut(q, c)
  /\ Goto(q, "leave")
  /\ UNCHANGED <<held, taskVars, broken, tables, faults>>

\* The process stops: PostgreSQL ends its connections and their locks.
Crash ==
  /\ Fault
  /\ pc' = [u \in Users |-> IF pc[u] = "idle" THEN "idle" ELSE "end"]
  /\ conn' = [u \in Users |-> None]
  /\ pool' = <<>>
  /\ held' = [c \in Conns |-> 0]
  /\ task'     = [r \in Runs |-> [e \in Endpoints |-> "idle"]]
  /\ found'    = [r \in Runs |-> [e \in Endpoints |-> NoSnapshot]]
  /\ unsent'   = [r \in Runs |-> {}]
  /\ flushing' = [r \in Runs |-> None]
  /\ broken'   = [r \in Runs |-> FALSE]
  /\ UNCHANGED tables

Coroutine(r, e) ==
  Fetch(r, e) \/ Stored(r, e) \/ Compare(r, e) \/ Saved(r, e) \/ Raise(r, e)

Handle(r) ==
  \/ Load(r) \/ CommitRun(r) \/ Rollback(r) \/ RecordFailure(r) \/ Unlock(r) \/ Leave(r)
  \/ \E e \in Endpoints : Coroutine(r, e)

Next ==
  \/ \E r \in Runs : Start(r) \/ Handle(r) \/ FailInsert(r) \/ FailLoad(r) \/ Break(r)
  \/ \E q \in Readers : Browse(q) \/ Leave(q)
  \/ Crash

Spec == Init /\ [][Next]_vars

\* Fetches time out, PostgreSQL answers, the pool serves waiting requests.
FairSpec == Spec /\ \A r \in Runs : WF_vars(Handle(r))

-----------------------------------------------------------------------------
\* Every variable has its type.
TypeOK ==
  /\ pc \in [Users -> {"idle", "load", "gather", "record", "unlock", "leave", "end"}]
  /\ conn \in [Users -> Conns \union {None}]
  /\ pool \in Seq(Conns)
  /\ held \in [Conns -> Nat]
  /\ task \in [Runs -> [Endpoints -> {"idle", "fetch", "store", "compare", "save",
                                       "done", "failed", "raised"}]]
  /\ found \in [Runs -> [Endpoints -> [schema : Schemas \union {None}, from : Nat]]]
  /\ unsent \in [Runs -> SUBSET (Endpoints \X {"snapshot", "diffs"})]
  /\ flushing \in [Runs -> Endpoints \union {None}]
  /\ broken \in [Runs -> BOOLEAN]
  /\ history \in [Endpoints -> Seq(Snapshots)]
  /\ report \in [Runs -> {None} \union
       [status : {"success", "partial_failure", "failed"},
        snapshots : SUBSET Endpoints, diffs : SUBSET Endpoints]]
  /\ faults \in 0 .. MaxFaults

\* A run whose transaction can still commit.
Running(r) == pc[r] \in {"load", "gather"} /\ ~broken[r]

\* Never do two runs work at once, although the connection that has the lock goes
\* back into the pool with it and a later request may be given it.
OneRunAtATime == \A r, s \in Runs : Running(r) /\ Running(s) => r = s

\* Every recorded difference is one between consecutive answers of an endpoint:
\* no run in between has been passed over, and no failed fetch is compared with.
DiffsAreConsecutive ==
  \A e \in Endpoints : \A i \in DOMAIN history[e] :
    history[e][i].from # 0 => history[e][i].from = i - 1 /\ history[e][i - 1].schema # None

\* A run recorded as a success has one parsed snapshot of every endpoint, and every
\* change that can be seen since the run before is recorded and counted, unless that
\* run's fetch failed: such a change is never recorded.
SuccessIsComplete ==
  \A r \in Runs, e \in Endpoints :
    report[r] # None /\ report[r].status = "success" =>
      \E i \in DOMAIN history[e] :
        LET new == history[e][i]
            changed == /\ i > 1 /\ history[e][i - 1].schema # new.schema
                       /\ <<history[e][i - 1].schema, new.schema>> \in Visible
        IN  /\ new.run = r /\ new.schema # None
            /\ \A j \in DOMAIN history[e] : history[e][j].run = r => j = i
            /\ new.from = IF changed THEN i - 1 ELSE 0
            /\ changed <=> e \in report[r].diffs

\* What a reader is told of the snapshots, apart from the samples.
Told(s) == [i \in DOMAIN s |-> [run |-> s[i].run, schema |-> s[i].schema, from |-> s[i].from]]

OneByOne == INSTANCE RunHistory WITH
  Before  <- [e \in Endpoints |-> Told(Earlier[e])],
  history <- [e \in Endpoints |-> Told(history[e])]

\* Runs overlap in requests and coroutines, fail and are repeated, and yet leave in the
\* tables what runs would leave that happen at once, one after another.
RunsAreSerial == OneByOne!Spec

\* Samples are kept of the newest Keep snapshots, but for one that a refused flush
\* has left for the commit, after the sweep.
SamplesAreBounded ==
  \A e \in Endpoints :
    \A i \in DOMAIN history[e] : history[e][i].raw => i + Keep >= Len(history[e])

\* "Always releases on exit if acquired": nobody who has left holds the lock.
LockIsReleased ==
  (\A r \in Runs : pc[r] \in {"idle", "end"}) => \A c \in Conns : held[c] = 0

\* Every run that begins comes to its end, whatever fails; and unless the database
\* failed or the process stopped, the lock was not refused to all: one is recorded.
EveryRunEnds ==
  <>[](/\ \A r \in Runs : pc[r] \in {"idle", "end"}
       /\ faults = 0 /\ (\E r \in Runs : At(r, "end")) => \E r \in Runs : report[r] # None)
=============================================================================
