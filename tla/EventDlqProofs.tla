--------------------------- MODULE EventDlqProofs ---------------------------
(***************************************************************************)
(* What a row of the dead-letter queue and the end of a publishing task   *)
(* say is true for every number of events and of operators, with replays  *)
(* that overlap, failed statements and restarts.  The argument: the only  *)
(* request that writes REPLAYED has had its event taken by the broker     *)
(* before (Sent), rows are never removed, and a request that was read     *)
(* from a row is about that row (Opened).                                 *)
(* The gauge is right too unless two replays of one entry overlap: it     *)
(* counts what waits, then what a task is to commit (Early) and what a    *)
(* request has settled and not yet counted (Late).                         *)
(***************************************************************************)
EXTENDS EventDlq, FiniteSetTheorems, TLAPS

\* A request under way is about an entry that exists.
Opened(p) ==
  replay[p].pc # "idle" =>
    replay[p].event \in Events /\ row[replay[p].event] # "ABSENT"

\* A request that will write REPLAYED has published.
Sent(p) == replay[p].pc = "mark" => replay[p].event \in accepted

EventInv ==
  /\ TypeOK
  /\ NothingIsDropped
  /\ ReplayedWasAccepted
  /\ \A p \in Operators : Opened(p) /\ Sent(p)

-----------------------------------------------------------------------------
\* The broker only ever takes more events.
LEMMA CallTakes ==
  ASSUME TypeOK, NEW e \in Events, NEW ok \in BOOLEAN, Call(e, ok)
  PROVE  /\ accepted \subseteq accepted' /\ accepted' \subseteq Events
         /\ ok => e \in accepted'
BY DEF Call, TypeOK

\* Nothing has been raised, accepted or recorded.
LEMMA InitEvent == Init => EventInv
BY EventDlqAssumption DEF Init, EventInv, TypeOK, NothingIsDropped,
  ReplayedWasAccepted, Opened, Sent, NoReplay

\* The steps of a publishing task keep the invariant.
LEMMA TaskKeepsEvent ==
  ASSUME EventInv, NEW e \in Events, Raise(e) \/ TaskStep(e) \/ LoseFailure(e)
  PROVE  EventInv'
<1> USE EventDlqAssumption
<1>1. CASE Raise(e)
  BY <1>1 DEF Raise, EventInv, TypeOK, NothingIsDropped, ReplayedWasAccepted,
    Opened, Sent
<1>2. CASE Publish(e)
  <2>1. PICK ok \in BOOLEAN :
          /\ Call(e, ok)
          /\ tries' = [tries EXCEPT ![e] =
                         IF ok \/ tries[e] + 1 = Retries THEN tries[e] ELSE tries[e] + 1]
          /\ task' = [task EXCEPT ![e] = IF ok THEN "done" ELSE AfterFailure(e)]
    BY <1>2 DEF Publish
  <2>2. /\ accepted \subseteq accepted' /\ accepted' \subseteq Events
        /\ ok => e \in accepted'
    BY <2>1, CallTakes DEF EventInv
  <2>3. UNCHANGED <<row, gauge, replay, replays, overlapped, crashes>>
    BY <1>2 DEF Publish
  <2>4. tries' \in [Events -> 0 .. Retries - 1]
    BY <2>1 DEF EventInv, TypeOK
  <2>5. AfterFailure(e) \in {"record", "publish"}
    BY DEF AfterFailure
  <2>6. TypeOK'
    BY <2>1, <2>2, <2>3, <2>4, <2>5 DEF EventInv, TypeOK
  <2>7. NothingIsDropped'
    BY <2>1, <2>2, <2>3, <2>5 DEF EventInv, TypeOK, NothingIsDropped
  <2>8. QED
    BY <2>2, <2>3, <2>6, <2>7 DEF EventInv, ReplayedWasAccepted, Opened, Sent
<1>3. CASE InsertFailure(e)
  BY <1>3 DEF InsertFailure, EventInv, TypeOK, NothingIsDropped,
    ReplayedWasAccepted, Opened, Sent
<1>4. CASE CommitFailure(e)
  BY <1>4 DEF CommitFailure, EventInv, TypeOK, NothingIsDropped,
    ReplayedWasAccepted, Opened, Sent
<1>5. CASE LoseFailure(e)
  BY <1>5 DEF LoseFailure, EventInv, TypeOK, NothingIsDropped,
    ReplayedWasAccepted, Opened, Sent
<1>6. QED
  BY <1>1, <1>2, <1>3, <1>4, <1>5 DEF TaskStep

\* The steps of a replay keep it, whatever other replays of the entry do.
LEMMA ReplayKeepsEvent ==
  ASSUME EventInv, NEW p \in Operators,
         ReplayStep(p) \/ FailReplay(p) \/ \E e \in Events : ReadEntry(p, e)
  PROVE  EventInv'
<1> USE EventDlqAssumption
<1>1. CASE Republish(p)
  <2>1. PICK ok \in BOOLEAN :
          /\ Call(replay[p].event, ok)
          /\ replay' = [replay EXCEPT ![p] =
               [pc |-> IF ok THEN "mark" ELSE "reopen", event |-> replay[p].event]]
    BY <1>1 DEF Republish, Proceed, SetReplay
  <2>2. replay[p].event \in Events /\ row[replay[p].event] # "ABSENT"
    BY <1>1 DEF Republish, EventInv, Opened
  <2>3. /\ accepted \subseteq accepted' /\ accepted' \subseteq Events
        /\ ok => replay[p].event \in accepted'
    BY <2>1, <2>2, CallTakes DEF EventInv
  <2>4. UNCHANGED <<task, tries, row, gauge, replays, overlapped, crashes>>
    BY <1>1 DEF Republish, taskVars
  <2>5. TypeOK'
    BY <2>1, <2>2, <2>3, <2>4 DEF EventInv, TypeOK
  <2>6. \A q \in Operators : Opened(q)' /\ Sent(q)'
    BY <2>1, <2>2, <2>3, <2>4 DEF EventInv, TypeOK, Opened, Sent
  <2>7. QED
    BY <2>3, <2>4, <2>5, <2>6 DEF EventInv, NothingIsDropped, ReplayedWasAccepted
<1>2. CASE MarkReplayed(p)
  <2>1. /\ replay[p].event \in Events /\ replay[p].event \in accepted
        /\ row' = [row EXCEPT ![replay[p].event] = "REPLAYED"]
        /\ replay' = [replay EXCEPT ![p] = [pc |-> "reread", event |-> replay[p].event]]
        /\ UNCHANGED <<task, tries, accepted, gauge, replays, overlapped, crashes>>
    BY <1>2 DEF MarkReplayed, Proceed, SetReplay, taskVars, EventInv, Opened, Sent
  <2>2. QED
    BY <2>1 DEF EventInv, TypeOK, NothingIsDropped, ReplayedWasAccepted, Opened, Sent
<1>3. CASE Reopen(p)
  <2>1. /\ replay[p].event \in Events
        /\ row' = [row EXCEPT ![replay[p].event] = "PENDING"]
        /\ replay' = [replay EXCEPT ![p] = [pc |-> "reread", event |-> replay[p].event]]
        /\ UNCHANGED <<task, tries, accepted, gauge, replays, overlapped, crashes>>
    BY <1>3 DEF Reopen, Proceed, SetReplay, taskVars, EventInv, Opened
  <2>2. QED
    BY <2>1 DEF EventInv, TypeOK, NothingIsDropped, ReplayedWasAccepted, Opened, Sent
<1>4. CASE Reread(p) \/ FailReplay(p)
  <2>1. /\ replay' = [replay EXCEPT ![p] = NoReplay]
        /\ gauge' \in Int /\ crashes' \in 0 .. MaxCrashes
        /\ UNCHANGED <<task, tries, accepted, row, replays, overlapped>>
    BY <1>4 DEF Reread, FailReplay, SetReplay, taskVars, EventInv, TypeOK
  <2>2. QED
    BY <2>1 DEF NoReplay, EventInv, TypeOK, NothingIsDropped, ReplayedWasAccepted,
      Opened, Sent
<1>5. ASSUME NEW e \in Events, ReadEntry(p, e)
      PROVE  EventInv'
  <2>1. /\ row[e] # "ABSENT"
        /\ \/ replay' = [replay EXCEPT ![p] = NoReplay]
           \/ replay' = [replay EXCEPT ![p] = [pc |-> "publish", event |-> e]]
        /\ replays' \in 0 .. MaxReplays /\ overlapped' \subseteq Events
        /\ UNCHANGED <<task, tries, accepted, row, gauge, crashes>>
    <3>1. replays' \in 0 .. MaxReplays /\ overlapped' \subseteq Events
      BY <1>5 DEF ReadEntry, OpenEntry, EventInv, TypeOK
    <3>2. QED
      BY <1>5, <3>1 DEF ReadEntry, OpenEntry, SetReplay, taskVars
  <2>2. QED
    BY <2>1 DEF NoReplay, EventInv, TypeOK, NothingIsDropped, ReplayedWasAccepted,
      Opened, Sent
<1>6. QED
  BY <1>1, <1>2, <1>3, <1>4, <1>5 DEF ReplayStep

\* A restart forgets tasks and requests, and no promise about them is left.
LEMMA RestartKeepsEvent ==
  ASSUME EventInv, Restart
  PROVE  EventInv'
BY EventDlqAssumption DEF Restart, NoReplay, EventInv, TypeOK, NothingIsDropped,
  ReplayedWasAccepted, Opened, Sent

\* Every state the program can reach satisfies the invariant.
THEOREM EventInvariance == Spec => []EventInv
<1>1. EventInv /\ [Next]_vars => EventInv'
  <2> SUFFICES ASSUME EventInv, [Next]_vars PROVE EventInv'
    OBVIOUS
  <2>1. CASE UNCHANGED vars
    BY <2>1 DEF vars, EventInv, TypeOK, NothingIsDropped, ReplayedWasAccepted,
      Opened, Sent
  <2>2. CASE Next
    BY <2>2, TaskKeepsEvent, ReplayKeepsEvent, RestartKeepsEvent DEF Next
  <2>3. QED
    BY <2>1, <2>2
<1>2. QED
  BY InitEvent, <1>1, PTL DEF Spec

\* The event DLQ is well-typed.
THEOREM EventTypeCorrect == Spec => []TypeOK
<1>1. EventInv => TypeOK
  BY DEF EventInv
<1>2. QED
  BY EventInvariance, <1>1, PTL

\* publish_fire_and_forget never ends a task, short of a failed database, with
\* an event that is neither published nor recorded.
THEOREM NothingDropped == Spec => []NothingIsDropped
<1>1. EventInv => NothingIsDropped
  BY DEF EventInv
<1>2. QED
  BY EventInvariance, <1>1, PTL

\* replay_event_dlq calls an entry REPLAYED only if the broker has its event,
\* for any number of overlapping replays of it.
THEOREM ReplayedCorrect == Spec => []ReplayedWasAccepted
<1>1. EventInv => ReplayedWasAccepted
  BY DEF EventInv
<1>2. QED
  BY EventInvariance, <1>1, PTL

-----------------------------------------------------------------------------
(* Where no two replays of an entry overlap it is settled once, and the     *)
(* gauge is what waits.                                                     *)

\* A request that is still to write finds the entry as it has read it.
Waits(p) ==
  replay[p].pc \in {"publish", "mark", "reopen"} =>
    replay[p].event \in overlapped \/ row[replay[p].event] = "PENDING"

\* The history knows all entries of which two replays are under way.
OneEach ==
  \A e \in Events \ overlapped : \A p, q \in Operators : On(p, e) /\ On(q, e) => p = q

\* A task has counted its entry and not committed it; a request has settled
\* its entry and not counted that.
Early(e)  == task[e] = "commit" /\ row[e] = "ABSENT"
Late(e)   == /\ row[e] = "REPLAYED"
             /\ \E p \in Operators : replay[p].pc = "reread" /\ replay[p].event = e
OnGauge   == {e \in Events : row[e] = "PENDING" \/ Early(e) \/ Late(e)}

GaugeInv ==
  /\ \A p \in Operators : Waits(p)
  /\ OneEach
  /\ crashes = 0 /\ overlapped = {} => gauge = Cardinality(OnGauge)

\* What a step must not do to a settled entry.
StaysReplayed == \A e \in Events \ overlapped : row[e] = "REPLAYED" => row'[e] = "REPLAYED"

\* Steps that keep the rows and what is on the gauge.
LEMMA TaskKeepsGauge ==
  ASSUME IsFiniteSet(Events), EventInv, GaugeInv, NEW e \in Events,
         Raise(e) \/ TaskStep(e) \/ LoseFailure(e)
  PROVE  GaugeInv' /\ StaysReplayed
<1>1. /\ task \in [Events -> {"idle", "publish", "record", "commit", "done", "lost"}]
      /\ row \in [Events -> {"ABSENT", "PENDING", "REPLAYED"}]
      /\ gauge \in Int /\ crashes \in Nat
  BY EventDlqAssumption DEF EventInv, TypeOK
<1>2. UNCHANGED <<replay, overlapped>>
  BY DEF Raise, TaskStep, Publish, InsertFailure, CommitFailure, LoseFailure
<1>3. \A d \in Events :
        \/ row'[d] = row[d]
        \/ d = e /\ task[e] = "commit" /\ row[e] = "ABSENT" /\ row'[e] = "PENDING"
  <2>1. CASE Raise(e) \/ Publish(e) \/ InsertFailure(e) \/ LoseFailure(e)
    BY <2>1 DEF Raise, Publish, InsertFailure, LoseFailure
  <2>2. CASE CommitFailure(e)
    BY <1>1, <2>2 DEF CommitFailure
  <2>3. QED
    BY <2>1, <2>2 DEF TaskStep
<1>4. OneEach' /\ \A p \in Operators : Waits(p)'
  <2>1. OneEach'
    BY <1>2 DEF GaugeInv, OneEach, On
  <2>2. QED
    BY <1>2, <1>3, <2>1 DEF GaugeInv, Waits, EventInv, Opened
<1>5. StaysReplayed
  BY <1>3 DEF StaysReplayed
<1>6. \A d \in Events : Late(d)' <=> Late(d)
  BY <1>2, <1>3 DEF Late
<1>7. CASE Raise(e) \/ Publish(e)
  <2>1. UNCHANGED <<row, gauge, crashes>> /\ \A d \in Events : Early(d)' <=> Early(d)
    BY <1>1, <1>7 DEF Raise, Publish, Early, AfterFailure
  <2>2. OnGauge' = OnGauge
    BY <1>6, <2>1 DEF OnGauge
  <2>3. QED
    BY <1>2, <1>4, <1>5, <2>1, <2>2 DEF GaugeInv
<1>8. CASE InsertFailure(e)
  <2>1. /\ task[e] = "record" /\ task'[e] = "commit" /\ UNCHANGED <<row, crashes>>
        /\ \A d \in Events \ {e} : task'[d] = task[d]
        /\ gauge' = IF row[e] = "ABSENT" THEN gauge + 1 ELSE gauge
    BY <1>1, <1>8 DEF InsertFailure
  <2>2. /\ \A d \in Events \ {e} : Early(d)' <=> Early(d)
        /\ ~Early(e) /\ (Early(e)' <=> row[e] = "ABSENT")
    BY <2>1 DEF Early
  <2>3. CASE row[e] = "ABSENT"
    <3>1. e \notin OnGauge
      BY <2>2, <2>3 DEF OnGauge, Late
    <3>2. OnGauge' = OnGauge \union {e}
      BY <1>6, <2>1, <2>2, <2>3 DEF OnGauge
    <3>3. IsFiniteSet(OnGauge)
      <4>1. OnGauge \subseteq Events
        BY DEF OnGauge
      <4>2. QED
        BY <4>1, FS_Subset
    <3>4. Cardinality(OnGauge') = Cardinality(OnGauge) + 1
      BY <3>1, <3>2, <3>3, FS_AddElement
    <3>5. QED
      BY <1>2, <1>4, <1>5, <2>1, <2>3, <3>4 DEF GaugeInv
  <2>4. CASE row[e] # "ABSENT"
    <3>1. OnGauge' = OnGauge
      BY <1>6, <2>1, <2>2, <2>4 DEF OnGauge
    <3>2. QED
      BY <1>2, <1>4, <1>5, <2>1, <2>4, <3>1 DEF GaugeInv
  <2>5. QED
    BY <2>3, <2>4
<1>9. CASE CommitFailure(e)
  <2>1. /\ task[e] = "commit" /\ task'[e] = "done" /\ UNCHANGED <<gauge, crashes>>
        /\ \A d \in Events \ {e} : task'[d] = task[d] /\ row'[d] = row[d]
        /\ row'[e] = IF row[e] = "ABSENT" THEN "PENDING" ELSE row[e]
    BY <1>1, <1>9 DEF CommitFailure
  <2>2. \A d \in Events : d \in OnGauge' <=> d \in OnGauge
    BY <1>6, <2>1 DEF OnGauge, Early
  <2>3. OnGauge' = OnGauge
    BY <2>2 DEF OnGauge
  <2>4. QED
    BY <1>2, <1>4, <1>5, <2>1, <2>3 DEF GaugeInv
<1>10. CASE LoseFailure(e)
  <2>1. crashes' # 0
    BY <1>1, <1>10 DEF LoseFailure
  <2>2. QED
    BY <1>4, <1>5, <2>1 DEF GaugeInv
<1>11. QED
  BY <1>7, <1>8, <1>9, <1>10 DEF TaskStep

\* A request that opens an entry finds it waiting, and is noted if it is not alone.
LEMMA OpenKeepsGauge ==
  ASSUME EventInv, GaugeInv, NEW p \in Operators, NEW e \in Events, ReadEntry(p, e)
  PROVE  /\ overlapped \subseteq overlapped' /\ UNCHANGED row
         /\ \A q \in Operators : Waits(q)'
         /\ OneEach'
<1>1. /\ row \in [Events -> {"ABSENT", "PENDING", "REPLAYED"}]
      /\ replay \in [Operators -> [pc : {"idle", "publish", "mark", "reopen", "reread"},
                                   event : Events \union {None}]]
  BY DEF EventInv, TypeOK
<1>2. replay[p].pc = "idle" /\ UNCHANGED row /\ row[e] # "ABSENT"
  BY DEF ReadEntry
<1>3. CASE row[e] = "REPLAYED"
  <2>1. replay' = [replay EXCEPT ![p] = NoReplay] /\ UNCHANGED overlapped
    BY <1>3 DEF ReadEntry, SetReplay
  <2>2. replay'[p].pc = "idle" /\ \A q \in Operators \ {p} : replay'[q] = replay[q]
    BY <1>1, <2>1 DEF NoReplay
  <2>3. OneEach'
    BY <2>1, <2>2 DEF GaugeInv, OneEach, On
  <2>4. QED
    BY <1>2, <2>1, <2>2, <2>3 DEF GaugeInv, Waits
<1>4. CASE row[e] # "REPLAYED"
  <2>1. /\ replay' = [replay EXCEPT ![p] = [pc |-> "publish", event |-> e]]
        /\ overlapped' = IF \E q \in Operators : On(q, e)
                         THEN overlapped \union {e} ELSE overlapped
    BY <1>4 DEF ReadEntry, OpenEntry, SetReplay
  <2>2. /\ replay'[p].pc = "publish" /\ replay'[p].event = e /\ row[e] = "PENDING"
        /\ \A q \in Operators \ {p} : replay'[q] = replay[q]
    BY <1>1, <1>2, <1>4, <2>1
  <2>3. ASSUME NEW d \in Events \ overlapped', NEW q \in Operators, NEW o \in Operators,
               On(q, d)', On(o, d)'
        PROVE  q = o
    <3>1. d # e => q # p /\ o # p
      BY <2>2, <2>3 DEF On
    <3>2. d = e => \A r \in Operators : ~On(r, e)
      BY <2>1, <2>3
    <3>3. d = e => q = p /\ o = p
      BY <2>2, <2>3, <3>2 DEF On
    <3>4. d # e => On(q, d) /\ On(o, d)
      BY <2>2, <2>3, <3>1 DEF On
    <3>5. d \in Events \ overlapped
      BY <2>1, <2>3
    <3>6. QED
      BY <3>3, <3>4, <3>5 DEF GaugeInv, OneEach
  <2>4. \A q \in Operators : Waits(q)'
    BY <1>2, <2>1, <2>2 DEF GaugeInv, Waits
  <2>5. QED
    BY <1>2, <2>1, <2>3, <2>4 DEF OneEach
<1>5. QED
  BY <1>3, <1>4

\* A request that reads an entry, or calls the broker, leaves the gauge alone.
LEMMA ReadKeepsGauge ==
  ASSUME EventInv, GaugeInv, NEW p \in Operators,
         (\E e \in Events : ReadEntry(p, e)) \/ Republish(p)
  PROVE  GaugeInv' /\ StaysReplayed
<1>1. replay \in [Operators -> [pc : {"idle", "publish", "mark", "reopen", "reread"},
                                event : Events \union {None}]]
  BY DEF EventInv, TypeOK
<1>2. UNCHANGED <<task, row, gauge, crashes>>
  BY DEF ReadEntry, Republish, taskVars
<1>3. /\ replay[p].pc \in {"idle", "publish"} /\ replay'[p].pc \in {"idle", "publish", "mark", "reopen"}
      /\ \A q \in Operators \ {p} : replay'[q] = replay[q]
  BY <1>1 DEF ReadEntry, OpenEntry, Republish, SetReplay, Proceed, NoReplay
<1>4. /\ overlapped \subseteq overlapped' /\ OneEach'
      /\ \A q \in Operators : Waits(q)'
  <2>1. CASE Republish(p)
    <3>1. replay[p].pc = "publish" /\ replay'[p].event = replay[p].event /\ UNCHANGED overlapped
      BY <1>1, <2>1 DEF Republish, Proceed, SetReplay
    <3>2. replay'[p].pc # "idle"
      BY <1>1, <2>1 DEF Republish, Proceed, SetReplay
    <3>3. \A d, q : q \in Operators => (On(q, d)' <=> On(q, d))
      BY <1>3, <3>1, <3>2 DEF On
    <3>4. OneEach'
      BY <3>1, <3>3 DEF GaugeInv, OneEach
    <3>5. QED
      BY <1>2, <1>3, <3>1, <3>4 DEF GaugeInv, Waits
  <2>2. CASE \E e \in Events : ReadEntry(p, e)
    BY <2>2, OpenKeepsGauge
  <2>3. QED
    BY <2>1, <2>2
<1>5. \A e \in Events : Late(e)' <=> Late(e)
  BY <1>2, <1>3 DEF Late
<1>6. OnGauge' = OnGauge
  BY <1>2, <1>5 DEF OnGauge, Early
<1>7. StaysReplayed
  BY <1>2 DEF StaysReplayed
<1>8. QED
  BY <1>2, <1>4, <1>6, <1>7 DEF GaugeInv

\* The update of a request changes an entry that waits, which stays on the gauge
\* until the request counts it.
LEMMA UpdateKeepsGauge ==
  ASSUME EventInv, GaugeInv, NEW p \in Operators, MarkReplayed(p) \/ Reopen(p)
  PROVE  GaugeInv' /\ StaysReplayed
<1>1. PICK e : e = replay[p].event
  OBVIOUS
<1>2. /\ row \in [Events -> {"ABSENT", "PENDING", "REPLAYED"}]
      /\ replay \in [Operators -> [pc : {"idle", "publish", "mark", "reopen", "reread"},
                                   event : Events \union {None}]]
  BY DEF EventInv, TypeOK
<1>3. replay[p].pc \in {"mark", "reopen"} /\ UNCHANGED <<task, gauge, overlapped, crashes>>
  BY DEF MarkReplayed, Reopen, taskVars
<1>4. /\ e \in Events /\ (e \in overlapped \/ row[e] = "PENDING")
      /\ row[e] \in {"PENDING", "REPLAYED"}
  BY <1>1, <1>2, <1>3 DEF GaugeInv, Waits, EventInv, Opened
<1>5. /\ replay'[p].pc = "reread" /\ replay'[p].event = e
      /\ \A q \in Operators \ {p} : replay'[q] = replay[q]
  BY <1>1, <1>2 DEF MarkReplayed, Reopen, Proceed, SetReplay
<1>6. row'[e] \in {"PENDING", "REPLAYED"} /\ \A d \in Events \ {e} : row'[d] = row[d]
  BY <1>1, <1>2, <1>4 DEF MarkReplayed, Reopen
<1>7. \A d, q : q \in Operators => (On(q, d)' <=> On(q, d))
  BY <1>1, <1>3, <1>5 DEF On
<1>8. OneEach'
  BY <1>3, <1>7 DEF GaugeInv, OneEach
<1>9. ASSUME NEW q \in Operators
      PROVE  Waits(q)'
  <2>1. CASE q = p
    BY <1>5, <2>1 DEF Waits
  <2>2. CASE q # p /\ On(q, e)
    <3>1. e \in overlapped
      BY <1>1, <1>3, <1>4, <2>2 DEF GaugeInv, OneEach, On
    <3>2. QED
      BY <1>3, <1>5, <2>2, <3>1 DEF On, Waits
  <2>3. CASE q # p /\ ~On(q, e)
    <3>1. SUFFICES ASSUME replay[q].pc \in {"publish", "mark", "reopen"}
                   PROVE  replay[q].event \in overlapped \/ row'[replay[q].event] = "PENDING"
      BY <1>3, <1>5, <2>3 DEF Waits
    <3>2. replay[q].event \in Events \ {e}
      BY <2>3, <3>1 DEF On, EventInv, Opened
    <3>3. QED
      BY <1>6, <3>1, <3>2 DEF GaugeInv, Waits
  <2>4. QED
    BY <2>1, <2>2, <2>3
<1>10. StaysReplayed
  BY <1>4, <1>6 DEF StaysReplayed
<1>11. overlapped = {} => OnGauge' = OnGauge
  <2> SUFFICES ASSUME overlapped = {}, NEW d \in Events
               PROVE  d \in OnGauge' <=> d \in OnGauge
    BY DEF OnGauge
  <2>1. CASE d # e
    BY <1>1, <1>3, <1>5, <1>6, <2>1 DEF OnGauge, Early, Late
  <2>2. CASE d = e
    <3>1. row[e] = "PENDING"
      BY <1>4
    <3>2. row'[e] = "REPLAYED" => Late(e)'
      BY <1>5 DEF Late
    <3>3. QED
      BY <1>6, <2>2, <3>1, <3>2 DEF OnGauge
  <2>3. QED
    BY <2>1, <2>2
<1>12. QED
  BY <1>3, <1>8, <1>9, <1>10, <1>11 DEF GaugeInv

\* The entry that was settled leaves the gauge.
LEMMA RereadKeepsGauge ==
  ASSUME IsFiniteSet(Events), EventInv, GaugeInv, NEW p \in Operators, Reread(p)
  PROVE  GaugeInv' /\ StaysReplayed
<1>1. PICK e : e = replay[p].event
  OBVIOUS
<1>2. /\ row \in [Events -> {"ABSENT", "PENDING", "REPLAYED"}]
      /\ replay \in [Operators -> [pc : {"idle", "publish", "mark", "reopen", "reread"},
                                   event : Events \union {None}]]
      /\ gauge \in Int
  BY DEF EventInv, TypeOK
<1>3. /\ replay[p].pc = "reread" /\ UNCHANGED <<task, row, overlapped, crashes>>
      /\ gauge' = IF row[e] = "REPLAYED" THEN gauge - 1 ELSE gauge
  BY <1>1 DEF Reread, taskVars
<1>4. e \in Events /\ row[e] # "ABSENT"
  BY <1>1, <1>3 DEF EventInv, Opened
<1>5. replay'[p].pc = "idle" /\ \A q \in Operators \ {p} : replay'[q] = replay[q]
  BY <1>2 DEF Reread, SetReplay, NoReplay
<1>6. OneEach' /\ \A q \in Operators : Waits(q)'
  <2>1. OneEach'
    BY <1>3, <1>5 DEF GaugeInv, OneEach, On
  <2>2. QED
    BY <1>3, <1>5, <2>1 DEF GaugeInv, Waits
<1>7. StaysReplayed
  BY <1>3 DEF StaysReplayed
<1>8. \A d \in Events \ {e} : Late(d)' <=> Late(d)
  BY <1>1, <1>3, <1>5 DEF Late
<1>9. CASE row[e] = "REPLAYED" /\ overlapped = {}
  <2>1. Late(e) /\ ~Late(e)'
    <3>1. \A q \in Operators \ {p} : ~On(q, e)
      BY <1>1, <1>3, <1>4, <1>9 DEF GaugeInv, OneEach, On
    <3>2. QED
      BY <1>1, <1>3, <1>5, <1>9, <3>1 DEF Late, On
  <2>2. e \in OnGauge /\ OnGauge' = OnGauge \ {e}
    BY <1>3, <1>4, <1>8, <1>9, <2>1 DEF OnGauge, Early
  <2>3. IsFiniteSet(OnGauge)
    <3>1. OnGauge \subseteq Events
      BY DEF OnGauge
    <3>2. QED
      BY <3>1, FS_Subset
  <2>4. Cardinality(OnGauge') = Cardinality(OnGauge) - 1
    BY <2>2, <2>3, FS_RemoveElement
  <2>5. QED
    BY <1>3, <1>6, <1>7, <1>9, <2>4 DEF GaugeInv
<1>10. CASE row[e] # "REPLAYED"
  <2>1. OnGauge' = OnGauge
    BY <1>3, <1>4, <1>8, <1>10 DEF OnGauge, Early, Late
  <2>2. QED
    BY <1>3, <1>6, <1>7, <1>10, <2>1 DEF GaugeInv
<1>11. CASE overlapped # {}
  BY <1>3, <1>6, <1>7, <1>11 DEF GaugeInv
<1>12. QED
  BY <1>9, <1>10, <1>11

\* A failure or a restart ends the counting.
LEMMA FailureKeepsGauge ==
  ASSUME EventInv, GaugeInv, (\E p \in Operators : FailReplay(p)) \/ Restart
  PROVE  GaugeInv' /\ StaysReplayed
<1>1. crashes' # 0 /\ UNCHANGED <<row, overlapped>>
  BY EventDlqAssumption DEF FailReplay, Restart, EventInv, TypeOK
<1>2. \A q \in Operators : replay'[q] = replay[q] \/ replay'[q].pc = "idle"
  BY DEF FailReplay, Restart, SetReplay, NoReplay, EventInv, TypeOK
<1>3. \A q \in Operators : Waits(q)'
  BY <1>1, <1>2 DEF GaugeInv, Waits
<1>4. OneEach'
  BY <1>1, <1>2 DEF GaugeInv, OneEach, On
<1>5. QED
  BY <1>1, <1>3, <1>4 DEF GaugeInv, StaysReplayed

\* Nothing is on the gauge.
LEMMA InitGauge == Init => GaugeInv
<1> SUFFICES ASSUME Init PROVE GaugeInv
  OBVIOUS
<1>1. OnGauge = {}
  BY DEF Init, OnGauge, Early, Late
<1>2. Cardinality(OnGauge) = 0
  BY <1>1, FS_EmptySet
<1>3. QED
  BY <1>2 DEF Init, NoReplay, GaugeInv, Waits, OneEach, On

\* Every step keeps the gauge right and settled entries settled.
LEMMA StepKeepsGauge ==
  ASSUME IsFiniteSet(Events), EventInv, GaugeInv, [Next]_vars
  PROVE  GaugeInv' /\ StaysReplayed
<1>1. CASE \E e \in Events : Raise(e) \/ TaskStep(e) \/ LoseFailure(e)
  BY <1>1, TaskKeepsGauge
<1>2. ASSUME NEW p \in Operators,
             ReplayStep(p) \/ FailReplay(p) \/ \E e \in Events : ReadEntry(p, e)
      PROVE  GaugeInv' /\ StaysReplayed
  BY <1>2, ReadKeepsGauge, UpdateKeepsGauge, RereadKeepsGauge, FailureKeepsGauge
    DEF ReplayStep
<1>3. CASE Restart
  BY <1>3, FailureKeepsGauge
<1>4. CASE UNCHANGED vars
  <2>1. UNCHANGED <<task, row, gauge, replay, overlapped, crashes>>
    BY <1>4 DEF vars
  <2>2. OnGauge' = OnGauge /\ \A p \in Operators : Waits(p)'
    BY <2>1 DEF OnGauge, Early, Late, GaugeInv, Waits
  <2>3. OneEach'
    BY <2>1 DEF GaugeInv, OneEach, On
  <2>4. QED
    BY <2>1, <2>2, <2>3 DEF GaugeInv, StaysReplayed
<1>5. QED
  BY <1>1, <1>2, <1>3, <1>4 DEF Next

\* The gauge is the number of entries that wait, whatever the order in which tasks
\* count, commit and requests settle, for any number of events and operators, until
\* something fails or two replays of one entry overlap.
THEOREM GaugeCorrect == IsFiniteSet(Events) => (Spec => []GaugeCountsPending)
<1> SUFFICES ASSUME IsFiniteSet(Events) PROVE Spec => []GaugeCountsPending
  OBVIOUS
<1>1. EventInv /\ GaugeInv /\ [Next]_vars => GaugeInv'
  BY StepKeepsGauge
<1>2. EventInv /\ GaugeInv => GaugeCountsPending
  <2> SUFFICES ASSUME EventInv, GaugeInv, Quiet, crashes = 0, overlapped = {}
      PROVE  gauge = Cardinality(Pending)
    BY DEF GaugeCountsPending
  <2>1. \A e \in Events : ~Early(e) /\ ~Late(e)
    BY DEF Quiet, Early, Late
  <2>2. OnGauge = Pending
    BY <2>1 DEF OnGauge, Pending
  <2>3. QED
    BY <2>2 DEF GaugeInv
<1>3. QED
  BY EventInvariance, InitGauge, <1>1, <1>2, PTL DEF Spec

\* An entry once REPLAYED is not opened again, through failures and restarts and
\* with any number of operators, unless two replays of this entry have overlapped.
THEOREM ReplayedStays == IsFiniteSet(Events) => (Spec => ReplayedIsFinal)
<1> SUFFICES ASSUME IsFiniteSet(Events) PROVE Spec => ReplayedIsFinal
  OBVIOUS
<1>1. EventInv /\ GaugeInv /\ [Next]_vars => GaugeInv' /\ [StaysReplayed]_vars
  BY StepKeepsGauge
<1>2. ReplayedIsFinal <=> [][StaysReplayed]_vars
  BY DEF ReplayedIsFinal, StaysReplayed
<1>3. QED
  BY EventInvariance, InitGauge, <1>1, <1>2, PTL DEF Spec

-----------------------------------------------------------------------------
(* The tasks and the table keep the promises of EventLedger.               *)

Kept == <<Fate, accepted>>

\* An entry is there only when its task has committed it.
EntriesAreDone == \A e \in Events : row[e] # "ABSENT" => task[e] = "done"

LedgerInv == EventInv /\ EntriesAreDone

\* A step that keeps what the tasks end with, the rows and the broker keeps the ledger.
LEMMA LedgerRests ==
  ASSUME UNCHANGED <<row, accepted>>,
         \A e \in Events : /\ task'[e] = "done" <=> task[e] = "done"
                           /\ task'[e] = "lost" <=> task[e] = "lost"
  PROVE  UNCHANGED Kept
<1>1. \A e \in Events : FateOf(e)' = FateOf(e)
  BY DEF FateOf
<1>2. QED
  BY <1>1 DEF Kept, Fate

\* A step that changes the fate of one event at most.
LEMMA OneFate ==
  ASSUME NEW e \in Events,
         \A d \in Events \ {e} : row'[d] = row[d] /\ task'[d] = task[d]
  PROVE  Fate' = [Fate EXCEPT ![e] = FateOf(e)']
<1>1. \A d \in Events \ {e} : FateOf(d)' = FateOf(d)
  BY DEF FateOf
<1>2. QED
  BY <1>1 DEF Fate

\* The steps of a publishing task: publishing, giving up, losing and stutters.
LEMMA TaskKept ==
  ASSUME LedgerInv, NEW e \in Events, Raise(e) \/ TaskStep(e) \/ LoseFailure(e)
  PROVE  EntriesAreDone' /\ (Ledger!Next \/ UNCHANGED Kept)
<1>1. /\ task \in [Events -> {"idle", "publish", "record", "commit", "done", "lost"}]
      /\ row \in [Events -> {"ABSENT", "PENDING", "REPLAYED"}]
      /\ accepted \subseteq Events
  BY DEF LedgerInv, EventInv, TypeOK
<1>2. CASE Raise(e) \/ InsertFailure(e)
  <2>1. /\ task[e] \in {"idle", "record"} /\ task'[e] \in {"publish", "commit"}
        /\ \A d \in Events \ {e} : task'[d] = task[d]
        /\ UNCHANGED <<row, accepted>>
    BY <1>1, <1>2 DEF Raise, InsertFailure
  <2>2. UNCHANGED Kept
    BY <2>1, LedgerRests
  <2>3. QED
    BY <2>1, <2>2 DEF LedgerInv, EntriesAreDone
<1>3. CASE Publish(e)
  <2>1. PICK ok \in BOOLEAN, taken \in BOOLEAN :
          /\ ok => taken
          /\ accepted' = IF taken THEN accepted \union {e} ELSE accepted
          /\ task' = [task EXCEPT ![e] = IF ok THEN "done" ELSE AfterFailure(e)]
    BY <1>3 DEF Publish, Call
  <2>2. task[e] = "publish" /\ UNCHANGED row /\ AfterFailure(e) \in {"record", "publish"}
    BY <1>3 DEF Publish, AfterFailure
  <2>3. row[e] = "ABSENT" /\ Fate[e] = "unsent"
    BY <1>1, <2>2 DEF LedgerInv, EntriesAreDone, Fate, FateOf
  <2>4. EntriesAreDone'
    BY <1>1, <2>1, <2>2, <2>3 DEF LedgerInv, EntriesAreDone
  <2>5. CASE ok
    <3>1. FateOf(e)' = "published"
      BY <1>1, <2>1, <2>2, <2>3, <2>5 DEF FateOf
    <3>2. Fate' = [Fate EXCEPT ![e] = "published"]
      BY <1>1, <2>1, <2>2, <3>1, OneFate
    <3>3. Ledger!Publish(e)
      BY <2>1, <2>3, <2>5, <3>2 DEF Ledger!Publish, Ledger!Become
    <3>4. QED
      BY <2>4, <3>3 DEF Ledger!Next
  <2>6. CASE ~ok
    <3>1. \A d \in Events : /\ task'[d] = "done" <=> task[d] = "done"
                            /\ task'[d] = "lost" <=> task[d] = "lost"
      BY <1>1, <2>1, <2>2, <2>6
    <3>2. UNCHANGED Fate
      <4>1. \A d \in Events : FateOf(d)' = FateOf(d)
        BY <2>2, <3>1 DEF FateOf
      <4>2. QED
        BY <4>1 DEF Fate
    <3>3. CASE taken
      <4>1. Ledger!Take(e)
        BY <2>1, <2>3, <3>2, <3>3 DEF Ledger!Take
      <4>2. QED
        BY <2>4, <4>1 DEF Ledger!Next
    <3>4. CASE ~taken
      BY <2>1, <2>4, <3>2, <3>4 DEF Kept
    <3>5. QED
      BY <3>3, <3>4
  <2>7. QED
    BY <2>5, <2>6
<1>4. CASE CommitFailure(e)
  <2>1. /\ task[e] = "commit" /\ task'[e] = "done" /\ UNCHANGED accepted
        /\ \A d \in Events \ {e} : task'[d] = task[d] /\ row'[d] = row[d]
        /\ row'[e] = IF row[e] = "ABSENT" THEN "PENDING" ELSE row[e]
    BY <1>1, <1>4 DEF CommitFailure
  <2>2. row[e] = "ABSENT" /\ Fate[e] = "unsent"
    BY <1>1, <2>1 DEF LedgerInv, EntriesAreDone, Fate, FateOf
  <2>3. Fate' = [Fate EXCEPT ![e] = "waiting"]
    <3>1. FateOf(e)' = "waiting"
      BY <2>1, <2>2 DEF FateOf
    <3>2. QED
      BY <2>1, <3>1, OneFate
  <2>4. Ledger!Keep(e)
    BY <2>1, <2>2, <2>3 DEF Ledger!Keep, Ledger!Become
  <2>5. QED
    BY <2>1, <2>4 DEF Ledger!Next, LedgerInv, EntriesAreDone
<1>5. CASE LoseFailure(e)
  <2>1. /\ task[e] \in {"record", "commit"} /\ task'[e] = "lost" /\ UNCHANGED <<row, accepted>>
        /\ \A d \in Events \ {e} : task'[d] = task[d]
    BY <1>1, <1>5 DEF LoseFailure
  <2>2. row[e] = "ABSENT" /\ Fate[e] = "unsent"
    BY <1>1, <2>1 DEF LedgerInv, EntriesAreDone, Fate, FateOf
  <2>3. Fate' = [Fate EXCEPT ![e] = "lost"]
    <3>1. FateOf(e)' = "lost"
      BY <2>1, <2>2 DEF FateOf
    <3>2. QED
      BY <2>1, <3>1, OneFate
  <2>4. Fate' = [d \in Events |-> IF d \in {e} THEN "lost" ELSE Fate[d]]
    BY <2>3 DEF Fate
  <2>5. Ledger!Lose({e})
    BY <2>1, <2>2, <2>4 DEF Ledger!Lose
  <2>6. {e} \in SUBSET Events
    OBVIOUS
  <2>7. Ledger!Next
    BY <2>5, <2>6 DEF Ledger!Next
  <2>8. QED
    BY <2>1, <2>2, <2>7 DEF LedgerInv, EntriesAreDone
<1>6. QED
  BY <1>2, <1>3, <1>4, <1>5 DEF TaskStep

\* The steps of a request: the broker takes its event, and its entry is settled or
\* opened, whatever it has become meanwhile.
LEMMA ReplayKept ==
  ASSUME LedgerInv, NEW p \in Operators,
         ReplayStep(p) \/ FailReplay(p) \/ \E e \in Events : ReadEntry(p, e)
  PROVE  EntriesAreDone' /\ (Ledger!Next \/ UNCHANGED Kept)
<1>1. row \in [Events -> {"ABSENT", "PENDING", "REPLAYED"}] /\ UNCHANGED task
  BY DEF LedgerInv, EventInv, TypeOK, ReplayStep, Republish, MarkReplayed, Reopen, Reread,
    FailReplay, ReadEntry, taskVars
<1>2. CASE Reread(p) \/ FailReplay(p) \/ \E e \in Events : ReadEntry(p, e)
  <2>1. UNCHANGED <<row, accepted>>
    BY <1>2 DEF Reread, FailReplay, ReadEntry
  <2>2. UNCHANGED Kept
    BY <1>1, <2>1, LedgerRests
  <2>3. QED
    BY <1>1, <2>1, <2>2 DEF LedgerInv, EntriesAreDone
<1> SUFFICES ASSUME Republish(p) \/ MarkReplayed(p) \/ Reopen(p),
                    NEW e, e = replay[p].event
             PROVE  EntriesAreDone' /\ (Ledger!Next \/ UNCHANGED Kept)
  BY <1>2 DEF ReplayStep
<1>3. e \in Events /\ row[e] \in {"PENDING", "REPLAYED"}
  BY <1>1 DEF LedgerInv, EventInv, Opened, Republish, MarkReplayed, Reopen
<1>4. Fate[e] \in {"waiting", "replayed"}
  BY <1>3 DEF Fate, FateOf
<1>5. CASE Republish(p)
  <2>1. PICK taken \in BOOLEAN : accepted' = IF taken THEN accepted \union {e} ELSE accepted
    BY <1>5 DEF Republish, Call
  <2>2. UNCHANGED row
    BY <1>5 DEF Republish
  <2>3. UNCHANGED Fate
    <3>1. \A d \in Events : FateOf(d)' = FateOf(d)
      BY <1>1, <2>2 DEF FateOf
    <3>2. QED
      BY <3>1 DEF Fate
  <2>4. EntriesAreDone'
    BY <1>1, <2>2 DEF LedgerInv, EntriesAreDone
  <2>5. CASE taken
    <3>1. Ledger!Take(e)
      BY <1>4, <2>1, <2>3, <2>5 DEF Ledger!Take
    <3>2. QED
      BY <1>3, <2>4, <3>1 DEF Ledger!Next
  <2>6. CASE ~taken
    BY <2>1, <2>3, <2>4, <2>6 DEF Kept
  <2>7. QED
    BY <2>5, <2>6
<1>6. ASSUME NEW s \in {"PENDING", "REPLAYED"}, row' = [row EXCEPT ![e] = s]
      PROVE  EntriesAreDone' /\ Fate' = [Fate EXCEPT ![e] = IF s = "PENDING" THEN "waiting" ELSE "replayed"]
  <2>1. FateOf(e)' = IF s = "PENDING" THEN "waiting" ELSE "replayed"
    BY <1>1, <1>3, <1>6 DEF FateOf
  <2>2. Fate' = [Fate EXCEPT ![e] = FateOf(e)']
    BY <1>1, <1>3, <1>6, OneFate
  <2>3. EntriesAreDone'
    BY <1>1, <1>3, <1>6 DEF LedgerInv, EntriesAreDone
  <2>4. QED
    BY <2>1, <2>2, <2>3
<1>7. CASE MarkReplayed(p)
  <2>1. row' = [row EXCEPT ![e] = "REPLAYED"] /\ UNCHANGED accepted /\ e \in accepted
    BY <1>7 DEF MarkReplayed, LedgerInv, EventInv, Sent
  <2>2. EntriesAreDone' /\ Fate' = [Fate EXCEPT ![e] = "replayed"]
    BY <1>6, <2>1
  <2>3. Ledger!Replay(e)
    BY <1>4, <2>1, <2>2 DEF Ledger!Replay, Ledger!Become
  <2>4. QED
    BY <1>3, <2>2, <2>3 DEF Ledger!Next
<1>8. CASE Reopen(p)
  <2>1. row' = [row EXCEPT ![e] = "PENDING"] /\ UNCHANGED accepted
    BY <1>8 DEF Reopen
  <2>2. EntriesAreDone' /\ Fate' = [Fate EXCEPT ![e] = "waiting"]
    BY <1>6, <2>1
  <2>3. Ledger!Reopen(e)
    BY <1>4, <2>1, <2>2 DEF Ledger!Reopen, Ledger!Become
  <2>4. QED
    BY <1>3, <2>2, <2>3 DEF Ledger!Next
<1>9. QED
  BY <1>5, <1>7, <1>8

\* A restart takes away what is neither published nor recorded, and nothing else.
LEMMA RestartKept ==
  ASSUME LedgerInv, Restart
  PROVE  EntriesAreDone' /\ (Ledger!Next \/ UNCHANGED Kept)
<1> DEFINE E == {e \in Events : task[e] \notin {"idle", "done", "lost"}}
<1>1. /\ UNCHANGED <<row, accepted>>
      /\ \A e \in Events : task'[e] = IF task[e] \in {"idle", "done"} THEN task[e] ELSE "lost"
  BY DEF Restart
<1>2. row \in [Events -> {"ABSENT", "PENDING", "REPLAYED"}]
  BY DEF LedgerInv, EventInv, TypeOK
<1>3. \A e \in E : FateOf(e) = "unsent" /\ FateOf(e)' = "lost"
  BY <1>1, <1>2 DEF LedgerInv, EntriesAreDone, FateOf
<1>4. \A e \in Events \ E : FateOf(e)' = FateOf(e)
  BY <1>1 DEF FateOf
<1>5. Fate' = [e \in Events |-> IF e \in E THEN "lost" ELSE Fate[e]]
  BY <1>3, <1>4 DEF Fate
<1>6. \A e \in E : Fate[e] = "unsent"
  BY <1>3 DEF Fate
<1>7. E \in SUBSET Events
  OBVIOUS
<1>8. Ledger!Lose(E)
  BY <1>1, <1>5, <1>6 DEF Ledger!Lose
<1>9. Ledger!Next
  BY <1>7, <1>8 DEF Ledger!Next
<1>10. EntriesAreDone'
  BY <1>1 DEF LedgerInv, EntriesAreDone
<1>11. QED
  BY <1>9, <1>10

\* The tasks of publish_fire_and_forget, the table and its replays, with failed
\* statements, restarts and any number of operators, keep the ledger of EventLedger.
THEOREM LedgerKept == Spec => ImplementsLedger
<1>1. Init => EntriesAreDone /\ Ledger!Init
  <2> SUFFICES ASSUME Init PROVE EntriesAreDone /\ Ledger!Init
    OBVIOUS
  <2>1. \A e \in Events : FateOf(e) = "unsent"
    BY DEF Init, FateOf
  <2>2. Fate = [e \in Events |-> "unsent"]
    BY <2>1 DEF Fate
  <2>3. QED
    BY <2>2 DEF Init, Ledger!Init, EntriesAreDone
<1>2. EventInv /\ EntriesAreDone /\ [Next]_vars => EntriesAreDone' /\ [Ledger!Next]_Kept
  <2> SUFFICES ASSUME LedgerInv, [Next]_vars
               PROVE  EntriesAreDone' /\ (Ledger!Next \/ UNCHANGED Kept)
    BY DEF LedgerInv
  <2>1. CASE UNCHANGED vars
    <3>1. UNCHANGED <<task, row, accepted>>
      BY <2>1 DEF vars
    <3>2. UNCHANGED Kept
      BY <3>1, LedgerRests
    <3>3. QED
      BY <3>1, <3>2 DEF LedgerInv, EntriesAreDone
  <2>2. CASE Next
    BY <2>2, TaskKept, ReplayKept, RestartKept DEF Next
  <2>3. QED
    BY <2>1, <2>2
<1>3. QED
  BY EventInvariance, <1>1, <1>2, PTL DEF Spec, ImplementsLedger, Ledger!Spec, Ledger!vars, Kept
=============================================================================
