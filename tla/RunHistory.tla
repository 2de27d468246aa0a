----------------------------- MODULE RunHistory -----------------------------
(***************************************************************************)
(* What the monitor promises to the reader of its tables: its runs look   *)
(* as if each had happened at once, one after another.  A run adds one    *)
(* snapshot to every endpoint, compared with the one before it, and is    *)
(* recorded with what it has found.  It is the abstract counterpart of    *)
(* the tables schema_snapshots, schema_diffs and monitor_runs             *)
(* (alembic/versions/0001_init.py), whose detailed behaviour is module    *)
(* MonitorRun.                                                             *)
(***************************************************************************)
EXTENDS Naturals, Sequences

CONSTANTS Runs,       \* runs of the monitor
          Endpoints,  \* what they fetch
          Schemas,    \* what an endpoint may answer
          Visible,    \* the pairs of schemas that a comparison tells apart
          Before,     \* the snapshots of the runs before these
          None

VARIABLES history,    \* the snapshots of an endpoint, oldest first
          report      \* what is recorded of a run

vars == <<history, report>>

Init ==
  /\ history = Before
  /\ report = [r \in Runs |-> None]

\* The newest snapshot of an endpoint, if it differs from an answer, else 0.
Differs(e, answer) ==
  LET n == Len(history[e]) IN
  IF n # 0 /\ history[e][n].schema # answer /\ <<history[e][n].schema, answer>> \in Visible
  THEN n ELSE 0

\* Of the endpoints, those in "finished" were processed to the end, and those in
\* "compared", which may be more, as far as the comparison.
Happen(r, answer, finished, compared) ==
  LET from(e) == IF e \in compared THEN Differs(e, answer[e]) ELSE 0 IN
  /\ report[r] = None
  /\ finished \subseteq compared
  /\ history' = [e \in Endpoints |->
       Append(history[e], [run |-> r, schema |-> answer[e], from |-> from(e)])]
  /\ report' = [report EXCEPT ![r] =
       [status    |-> IF finished = Endpoints /\ \A e \in Endpoints : answer[e] # None
                      THEN "success" ELSE "partial_failure",
        snapshots |-> finished,
        diffs     |-> {e \in finished : from(e) # 0}]]

\* A run that is refused, fails or is stopped leaves nothing.
Vanish == UNCHANGED vars

Next ==
  \/ Vanish
  \/ \E r \in Runs, answer \in [Endpoints -> Schemas \union {None}],
        finished, compared \in SUBSET Endpoints : Happen(r, answer, finished, compared)

Spec == Init /\ [][Next]_vars
=============================================================================
