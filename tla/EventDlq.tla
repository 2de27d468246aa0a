------------------------------ MODULE EventDlq ------------------------------
(***************************************************************************)
(* Drift events and their dead-letter queue (src/app/runtime/events.py    *)
(* and drift_event_dlq.py).  A task that nobody waits for publishes an    *)
(* event with retries and records it in drift_event_dlq if that fails;    *)
(* operators replay entries through the reliability API.  The gauge       *)
(* drift_event_dlq_size lives in the memory of the process.                *)
(*                                                                         *)
(* The broker is external: it may have taken an event although the call   *)
(* failed, and has taken it when the call succeeded.                       *)
(***************************************************************************)
EXTENDS Integers, FiniteSets

CONSTANTS Events,      \* drift events, each published by one task
          Operators,   \* callers of the replay API, one request at a time
          Retries,     \* attempts of publish_with_retry
          MaxReplays,  \* bound: replay requests
          MaxCrashes,  \* bound: restarts and failed statements
          None

ASSUME EventDlqAssumption ==
  /\ Retries \in Nat \ {0} /\ MaxReplays \in Nat /\ MaxCrashes \in Nat
  /\ None \notin Events

VARIABLES
  task,      \* what the publishing task of an event does
  tries,     \* its attempts so far
  accepted,  \* events the broker has taken
  row,       \* drift_event_dlq.status, "ABSENT" without a committed row
  gauge,     \* drift_event_dlq_size
  replay,    \* what each operator's request does, and to which event
  replays, crashes,
  overlapped \* history: entries of which two replays were under way at once

taskVars == <<task, tries>>
vars     == <<task, tries, accepted, row, gauge, replay, replays, overlapped, crashes>>

NoReplay == [pc |-> "idle", event |-> None]

Init ==
  /\ task     = [e \in Events |-> "idle"]
  /\ tries    = [e \in Events |-> 0]
  /\ accepted = {}
  /\ row      = [e \in Events |-> "ABSENT"]
  /\ gauge    = 0
  /\ replay   = [p \in Operators |-> NoReplay]
  /\ replays  = 0
  /\ crashes  = 0
  /\ overlapped = {}   \* nothing has been replayed

Rows    == {e \in Events : row[e] # "ABSENT"}
Pending == {e \in Events : row[e] = "PENDING"}

\* A call of publish_drift_detected and what the broker makes of it.
Call(e, ok) ==
  \E taken \in BOOLEAN :
    /\ ok => taken
    /\ accepted' = IF taken THEN accepted \union {e} ELSE accepted

-----------------------------------------------------------------------------
(* The publishing task.                                                    *)

\* track_contract has found a change: publish_fire_and_forget.
Raise(e) ==
  /\ task[e] = "idle"
  /\ task' = [task EXCEPT ![e] = "publish"]
  /\ UNCHANGED <<tries, accepted, row, gauge, replay, replays, overlapped, crashes>>

\* Mutant: the last failure ends the task.
AfterFailureGiveUp(e) == IF tries[e] + 1 = Retries THEN "done" ELSE "publish"

\* publish_with_retry raises its last failure, and the task records it.
AfterFailure(e) == IF tries[e] + 1 = Retries THEN "record" ELSE "publish"

Publish(e) ==
  /\ task[e] = "publish"
  /\ \E ok \in BOOLEAN :
       /\ Call(e, ok)
       /\ tries' = [tries EXCEPT ![e] = IF ok \/ @ + 1 = Retries THEN @ ELSE @ + 1]
       /\ task' = [task EXCEPT ![e] = IF ok THEN "done" ELSE AfterFailure(e)]
  /\ UNCHANGED <<row, gauge, replay, replays, overlapped, crashes>>

\* INSERT ... ON CONFLICT (event_id): the gauge counts a row that is new, before
\* it is committed.
InsertFailure(e) ==
  /\ task[e] = "record"
  /\ gauge' = IF row[e] = "ABSENT" THEN gauge + 1 ELSE gauge
  /\ task' = [task EXCEPT ![e] = "commit"]
  /\ UNCHANGED <<tries, accepted, row, replay, replays, overlapped, crashes>>

CommitFailure(e) ==
  /\ task[e] = "commit"
  /\ row' = [row EXCEPT ![e] = IF @ = "ABSENT" THEN "PENDING" ELSE @]
  /\ task' = [task EXCEPT ![e] = "done"]
  /\ UNCHANGED <<tries, accepted, gauge, replay, replays, overlapped, crashes>>

\* The database refuses the record: the exception ends the task unseen.
LoseFailure(e) ==
  /\ task[e] \in {"record", "commit"}
  /\ crashes < MaxCrashes
  /\ crashes' = crashes + 1
  /\ task' = [task EXCEPT ![e] = "lost"]
  /\ UNCHANGED <<tries, accepted, row, gauge, replay, replays, overlapped>>

-----------------------------------------------------------------------------
(* The replay of an entry.                                                 *)

SetReplay(p, r) == replay' = [replay EXCEPT ![p] = r]
Proceed(p, at)  == SetReplay(p, [pc |-> at, event |-> replay[p].event])
On(p, e)        == replay[p].pc # "idle" /\ replay[p].event = e

\* A request goes on with an entry; the history notes who does so already.
OpenEntry(p, e) ==
  /\ SetReplay(p, [pc |-> "publish", event |-> e])
  /\ overlapped' = IF \E q \in Operators : On(q, e)
                   THEN overlapped \union {e} ELSE overlapped

\* Mutant: an entry already replayed is replayed again.
ReadEntryAgain(p, e) ==
  /\ replay[p].pc = "idle"
  /\ replays < MaxReplays
  /\ replays' = replays + 1
  /\ row[e] # "ABSENT"
  /\ OpenEntry(p, e)
  /\ UNCHANGED <<taskVars, accepted, row, gauge, crashes>>

\* get_event_row: an entry that is REPLAYED is reported at once.
ReadEntry(p, e) ==
  /\ replay[p].pc = "idle"
  /\ replays < MaxReplays
  /\ replays' = replays + 1
  /\ row[e] # "ABSENT"
  /\ IF row[e] = "REPLAYED" THEN SetReplay(p, NoReplay) /\ UNCHANGED overlapped
     ELSE OpenEntry(p, e)
  /\ UNCHANGED <<taskVars, accepted, row, gauge, crashes>>

\* Mutant: the failure of the call is swallowed.
RepublishUnchecked(p) ==
  /\ replay[p].pc = "publish"
  /\ \E ok \in BOOLEAN : Call(replay[p].event, ok)
  /\ Proceed(p, "mark")
  /\ UNCHANGED <<taskVars, row, gauge, replays, overlapped, crashes>>

\* One call, without retries.
Republish(p) ==
  /\ replay[p].pc = "publish"
  /\ \E ok \in BOOLEAN :
       /\ Call(replay[p].event, ok)
       /\ Proceed(p, IF ok THEN "mark" ELSE "reopen")
  /\ UNCHANGED <<taskVars, row, gauge, replays, overlapped, crashes>>

\* UPDATE ... SET status = 'REPLAYED' WHERE id, and its commit.
MarkReplayed(p) ==
  /\ replay[p].pc = "mark"
  /\ row' = [row EXCEPT ![replay[p].event] = "REPLAYED"]
  /\ Proceed(p, "reread")
  /\ UNCHANGED <<taskVars, accepted, gauge, replays, overlapped, crashes>>

\* UPDATE ... SET status = 'PENDING' WHERE id, whatever the status is by now.
Reopen(p) ==
  /\ replay[p].pc = "reopen"
  /\ row' = [row EXCEPT ![replay[p].event] = "PENDING"]
  /\ Proceed(p, "reread")
  /\ UNCHANGED <<taskVars, accepted, gauge, replays, overlapped, crashes>>

\* The entry is read again; the gauge goes down if it is REPLAYED, by whomever.
Reread(p) ==
  /\ replay[p].pc = "reread"
  /\ gauge' = IF row[replay[p].event] = "REPLAYED" THEN gauge - 1 ELSE gauge
  /\ SetReplay(p, NoReplay)
  /\ UNCHANGED <<taskVars, accepted, row, replays, overlapped, crashes>>

\* A statement of the replay fails: the request is answered with an error.
FailReplay(p) ==
  /\ replay[p].pc # "idle"
  /\ crashes < MaxCrashes
  /\ crashes' = crashes + 1
  /\ SetReplay(p, NoReplay)
  /\ UNCHANGED <<taskVars, accepted, row, gauge, replays, overlapped>>

\* The process stops and starts: tasks, requests and the gauge are forgotten.
Restart ==
  /\ crashes < MaxCrashes
  /\ crashes' = crashes + 1
  /\ task' = [e \in Events |->
                IF task[e] \in {"idle", "done"} THEN task[e] ELSE "lost"]
  /\ gauge' = 0
  /\ replay' = [p \in Operators |-> NoReplay]
  /\ UNCHANGED <<tries, accepted, row, replays, overlapped>>

TaskStep(e) == Publish(e) \/ InsertFailure(e) \/ CommitFailure(e)

ReplayStep(p) == Republish(p) \/ MarkReplayed(p) \/ Reopen(p) \/ Reread(p)

Next ==
  \/ \E e \in Events : Raise(e) \/ TaskStep(e) \/ LoseFailure(e)
  \/ \E p \in Operators :
       ReplayStep(p) \/ FailReplay(p) \/ \E e \in Events : ReadEntry(p, e)
  \/ Restart

Spec == Init /\ [][Next]_vars

\* The event loop runs a task on, and a call of the broker returns or fails.
FairSpec == Spec /\ \A e \in Events : WF_vars(TaskStep(e))

-----------------------------------------------------------------------------
\* Every variable has its type.
TypeOK ==
  /\ task     \in [Events -> {"idle", "publish", "record", "commit", "done", "lost"}]
  /\ tries    \in [Events -> 0 .. Retries - 1]
  /\ accepted \subseteq Events
  /\ row      \in [Events -> {"ABSENT", "PENDING", "REPLAYED"}]
  /\ gauge    \in Int
  /\ replay   \in [Operators ->
       [pc : {"idle", "publish", "mark", "reopen", "reread"},
        event : Events \union {None}]]
  /\ replays  \in 0 .. MaxReplays
  /\ crashes  \in 0 .. MaxCrashes
  /\ overlapped \subseteq Events

\* A task that has run to its end has brought its event to the broker or into
\* the dead-letter queue, also when an operator replays the entry meanwhile.
NothingIsDropped ==
  \A e \in Events : task[e] = "done" => e \in accepted \/ row[e] # "ABSENT"

\* An entry marked REPLAYED is about an event the broker has taken, whichever of
\* several replays has marked it: an operator may forget it.
ReplayedWasAccepted ==
  \A e \in Events : row[e] = "REPLAYED" => e \in accepted

\* An entry once marked REPLAYED is not opened again, whatever other entries are
\* replayed at the same time, unless two replays of it have overlapped: the slower
\* one may fail and open what the other has settled.
ReplayedIsFinal ==
  [][\A e \in Events \ overlapped :
       row[e] = "REPLAYED" => row'[e] = "REPLAYED"]_vars

Quiet ==
  /\ \A e \in Events : task[e] # "commit"
  /\ \A p \in Operators : replay[p].pc # "reread"

\* Between an update and its count, aside, the gauge is the number of entries
\* that wait for a replay, as long as nothing has failed or been restarted and no
\* entry was replayed by two requests at once.
GaugeCountsPending ==
  Quiet /\ crashes = 0 /\ overlapped = {} => gauge = Cardinality(Pending)

\* "Current drift-event DLQ row count", whether or not replayed rows count.
GaugeIsRowCount ==
  Quiet => Cardinality(Pending) <= gauge /\ gauge <= Cardinality(Rows)

\* Every event that is raised reaches the broker or the dead-letter queue, unless
\* a restart or the database takes its task away.
EveryEventArrives ==
  \A e \in Events :
    task[e] = "publish" ~>
      (e \in accepted \/ row[e] = "PENDING" \/ task[e] = "lost")

-----------------------------------------------------------------------------
\* What has become of an event: its entry says it, or else its task.
FateOf(e) ==
  IF row[e] = "REPLAYED" THEN "replayed"
  ELSE IF row[e] = "PENDING" THEN "waiting"
  ELSE IF task[e] = "done" THEN "published"
  ELSE IF task[e] = "lost" THEN "lost" ELSE "unsent"

Fate == [e \in Events |-> FateOf(e)]

Ledger == INSTANCE EventLedger WITH fate <- Fate

\* Whatever tasks, requests of operators, failures and restarts do in between:
\* an event that its task has finished with is at the broker or in the queue, one
\* that was kept is never forgotten, and what is called replayed the broker has.
ImplementsLedger == Ledger!Spec
=============================================================================
