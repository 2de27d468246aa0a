------------------------ MODULE OutboxDeliveryProofs ------------------------
(***************************************************************************)
(* DELIVERED and FAILED tell the truth for any number of requests, rows   *)
(* and workers, with inline delivery or without, through crashes anywhere *)
(* and with consumers that come and go.  The argument: what a status will *)
(* claim is made true before the status is written.  Evidence only grows  *)
(* (Grows), and between the evidence and the status every party remembers *)
(* what it may claim (TrackClaims, WorkerClaims), whatever the others     *)
(* write meanwhile.  Two more invariants stand on this one: how far the   *)
(* transaction of a request has come (TransactionInv), and how many sends *)
(* are counted (CountInv).                                                 *)
(***************************************************************************)
EXTENDS OutboxDelivery, FiniteSetTheorems, TLAPS

Received(i) == receipts[i] > 0

\* What may be written about a row: a success recorded, or a dead letter.
Claim(i, s) ==
  /\ s = "DELIVERED" => i \in recorded
  /\ s = "FAILED" => DlqKey[i] \in dlq

TrackClaims(q) ==
  /\ track[q].pc \in {"post", "log", "settle"} => track[q].item \in Rows
  /\ track[q].pc = "log" /\ track[q].ok => Received(track[q].item)
  /\ track[q].pc = "settle" =>
       Claim(track[q].item, IF track[q].ok THEN "DELIVERED" ELSE "FAILED")
  /\ track[q].wrote.row # None => Claim(track[q].wrote.row, track[q].wrote.status)

WorkerClaims(w) ==
  /\ worker[w].pc # "idle" => worker[w].item \in Rows
  /\ worker[w].pc = "log" /\ worker[w].ok => Received(worker[w].item)
  /\ worker[w].pc = "settle" /\ worker[w].ok => worker[w].item \in recorded

ReplayClaims(r) ==
  /\ replay[r].pc \in {"post", "log"} => replay[r].item \in Rows
  /\ replay[r].pc = "log" /\ replay[r].ok => Received(replay[r].item)

RecordedWasReceived == \A i \in recorded : Received(i)

Truthful == \A i \in Rows : Claim(i, status[i])

OutboxInv ==
  /\ TypeOK
  /\ RecordedWasReceived
  /\ Truthful
  /\ \A q \in Tracks : TrackClaims(q)
  /\ \A w \in Workers : WorkerClaims(w)
  /\ \A r \in Replays : ReplayClaims(r)

\* No step takes evidence away.
Grows ==
  /\ recorded \subseteq recorded'
  /\ dlq \subseteq dlq'
  /\ \A i \in Rows : Received(i) => Received(i)'

-----------------------------------------------------------------------------
\* A request that is not touched may still claim what it could claim.
LEMMA TrackKeepsClaims ==
  ASSUME TypeOK, Grows, NEW q \in Tracks, TrackClaims(q), track'[q] = track[q]
  PROVE  TrackClaims(q)'
<1>1. track[q].wrote.row \in Rows \union {None}
  BY DEF TypeOK, TrackState
<1>2. QED
  BY <1>1 DEF TrackClaims, Grows, Claim

\* So may a worker.
LEMMA WorkerKeepsClaims ==
  ASSUME TypeOK, Grows, NEW w \in Workers, WorkerClaims(w), worker'[w] = worker[w]
  PROVE  WorkerClaims(w)'
BY DEF WorkerClaims, Grows, Claim

\* So may a replay.
LEMMA ReplayKeepsClaims ==
  ASSUME TypeOK, Grows, NEW r \in Replays, ReplayClaims(r), replay'[r] = replay[r]
  PROVE  ReplayClaims(r)'
BY DEF ReplayClaims, Grows

\* A step of a request keeps the invariant if it keeps types and claims.
LEMMA TrackStepSuffices ==
  ASSUME OutboxInv, TypeOK', Grows, RecordedWasReceived', Truthful',
         NEW q \in Tracks, TrackClaims(q)', UNCHANGED <<worker, replay>>,
         \A p \in Tracks \ {q} : track'[p] = track[p]
  PROVE  OutboxInv'
<1>1. \A p \in Tracks : TrackClaims(p)'
  BY TrackKeepsClaims DEF OutboxInv
<1>2. \A w \in Workers : WorkerClaims(w)'
  BY WorkerKeepsClaims DEF OutboxInv
<1>3. \A r \in Replays : ReplayClaims(r)'
  BY ReplayKeepsClaims DEF OutboxInv
<1>4. QED
  BY <1>1, <1>2, <1>3 DEF OutboxInv

\* So does a step of a worker.
LEMMA WorkerStepSuffices ==
  ASSUME OutboxInv, TypeOK', Grows, RecordedWasReceived', Truthful',
         NEW w \in Workers, WorkerClaims(w)', UNCHANGED <<track, replay>>,
         \A v \in Workers \ {w} : worker'[v] = worker[v]
  PROVE  OutboxInv'
<1>1. \A q \in Tracks : TrackClaims(q)'
  BY TrackKeepsClaims DEF OutboxInv
<1>2. \A v \in Workers : WorkerClaims(v)'
  BY WorkerKeepsClaims DEF OutboxInv
<1>3. \A r \in Replays : ReplayClaims(r)'
  BY ReplayKeepsClaims DEF OutboxInv
<1>4. QED
  BY <1>1, <1>2, <1>3 DEF OutboxInv

\* So does a step of a replay.
LEMMA ReplayStepSuffices ==
  ASSUME OutboxInv, TypeOK', Grows, RecordedWasReceived', Truthful',
         NEW r \in Replays, ReplayClaims(r)', UNCHANGED <<track, worker>>,
         \A s \in Replays \ {r} : replay'[s] = replay[s]
  PROVE  OutboxInv'
<1>1. \A q \in Tracks : TrackClaims(q)'
  BY TrackKeepsClaims DEF OutboxInv
<1>2. \A w \in Workers : WorkerClaims(w)'
  BY WorkerKeepsClaims DEF OutboxInv
<1>3. \A s \in Replays : ReplayClaims(s)'
  BY ReplayKeepsClaims DEF OutboxInv
<1>4. QED
  BY <1>1, <1>2, <1>3 DEF OutboxInv

\* The evidence behind a status is kept when the statuses are.
LEMMA EvidenceKept ==
  ASSUME OutboxInv, Grows, UNCHANGED status,
         \A i \in recorded' : i \in recorded \/ (i \in Rows /\ Received(i)')
  PROVE  RecordedWasReceived' /\ Truthful'
<1>1. RecordedWasReceived'
  BY DEF OutboxInv, RecordedWasReceived, Grows, TypeOK
<1>2. Truthful'
  BY DEF OutboxInv, Truthful, Claim, Grows
<1>3. QED
  BY <1>1, <1>2

\* A POST that is answered well has been received, and receipts only grow.
LEMMA PostReceives ==
  ASSUME TypeOK, NEW i \in Rows, NEW ok \in BOOLEAN, Post(i, ok)
  PROVE  /\ receipts' \in [Rows -> 0 .. MaxReceipts]
         /\ \A j \in Rows : Received(j) => Received(j)'
         /\ ok => Received(i)'
<1> USE BoundsAssumption
<1>1. CASE receipts' = receipts /\ ~ok
  BY <1>1 DEF TypeOK, Received
<1>2. CASE receipts' = receipts /\ ~(receipts[i] < MaxReceipts)
  BY <1>2 DEF TypeOK, Received
<1>3. CASE receipts' = [receipts EXCEPT ![i] = receipts[i] + 1] /\ receipts[i] < MaxReceipts
  BY <1>3 DEF TypeOK, Received
<1>4. QED
  BY <1>1, <1>2, <1>3 DEF Post

\* Release frees rows.
LEMMA ReleaseType ==
  ASSUME TypeOK, NEW h
  PROVE  Release(h) \in [Rows -> Tracks \union Workers \union {None}]
BY DEF Release, TypeOK

\* A dead letter is added to the others.
LEMMA DeadLetterType ==
  ASSUME TypeOK, NEW i \in Rows
  PROVE  /\ WithDeadLetter(i) \subseteq DlqKeys /\ dlq \subseteq WithDeadLetter(i)
         /\ DlqKey[i] \in WithDeadLetter(i)
BY DlqKeyAssumption DEF WithDeadLetter, TypeOK

-----------------------------------------------------------------------------
\* A commit of a request publishes only what its evidence supports.
LEMMA CommitIsTruthful ==
  ASSUME OutboxInv, Grows, NEW q \in Tracks, CommitTrack(q)
  PROVE  /\ Truthful'
         /\ status' \in [Rows -> {"ABSENT", "PENDING", "DELIVERING"} \union Settled]
         /\ attempts' \in [Rows -> Nat]
         /\ rowLock' \in [Rows -> Tracks \union Workers \union {None}]
         /\ versioned' \subseteq Tracks
<1> DEFINE t == track[q]
<1>1. /\ t.wrote.row \in Rows \union {None}
      /\ t.wrote.status \in {"ABSENT"} \union Settled
  BY DEF OutboxInv, TypeOK, TrackState
<1>2. t.wrote.row # None => Claim(t.wrote.row, t.wrote.status)
  BY DEF OutboxInv, TrackClaims
<1>3. status' = [i \in Rows |-> IF i \in t.inserted THEN "PENDING"
                                ELSE IF i = t.wrote.row THEN t.wrote.status
                                ELSE status[i]]
  BY DEF CommitTrack
<1>4. Truthful'
  <2> SUFFICES ASSUME NEW i \in Rows PROVE Claim(i, status[i])'
    BY DEF Truthful
  <2>1. CASE i \in t.inserted
    BY <1>3, <2>1 DEF Claim
  <2>2. CASE i \notin t.inserted /\ i = t.wrote.row
    BY <1>2, <1>3, <2>2, NoneAssumption DEF Claim, Grows
  <2>3. CASE i \notin t.inserted /\ i # t.wrote.row
    BY <1>3, <2>3 DEF OutboxInv, Truthful, Claim, Grows
  <2>4. QED
    BY <2>1, <2>2, <2>3
<1>5. status' \in [Rows -> {"ABSENT", "PENDING", "DELIVERING"} \union Settled]
  BY <1>1, <1>3 DEF OutboxInv, TypeOK
<1>6. attempts' \in [Rows -> Nat]
  BY DEF CommitTrack, OutboxInv, TypeOK
<1>7. rowLock' \in [Rows -> Tracks \union Workers \union {None}]
  BY ReleaseType DEF CommitTrack, OutboxInv
<1>8. versioned' \subseteq Tracks
  BY DEF CommitTrack, OutboxInv, TypeOK
<1>9. QED
  BY <1>4, <1>5, <1>6, <1>7, <1>8

\* The steps of a request that only move it on.
LEMMA QuietTrackStep ==
  ASSUME OutboxInv, NEW q \in Tracks, Detect(q) \/ InsertRow(q) \/ CrashTrack(q)
  PROVE  OutboxInv'
<1>1. CASE Detect(q)
  <2>1. /\ track' = [track EXCEPT ![q] = [track[q] EXCEPT
                !.pc = "enqueue", !.affected = Affected(q), !.todo = Affected(q)]]
        /\ UNCHANGED <<status, attempts, due, rowLock, dlq, active, recorded,
                       receipts, versioned, worker, replay, crashes, toggles>>
    BY <1>1 DEF Detect, SetTrack, table
  <2>2. track[q] \in TrackState
    BY DEF OutboxInv, TypeOK
  <2>3. Affected(q) \in SUBSET Rows
    BY RowsOfAssumption DEF Affected
  <2>4. track'[q] \in TrackState /\ track'[q].pc = "enqueue"
        /\ track'[q].wrote = track[q].wrote
    BY <2>1, <2>2, <2>3 DEF OutboxInv, TypeOK, TrackState
  <2>5. TypeOK'
    BY <2>1, <2>4 DEF OutboxInv, TypeOK
  <2>6. Grows /\ Truthful' /\ RecordedWasReceived'
    BY <2>1, EvidenceKept DEF OutboxInv, Grows, Received
  <2>7. TrackClaims(q)'
    BY <2>1, <2>4 DEF OutboxInv, TrackClaims, Claim
  <2>8. \A p \in Tracks \ {q} : track'[p] = track[p]
    BY <2>1 DEF OutboxInv, TypeOK
  <2>9. QED
    BY <2>1, <2>5, <2>6, <2>7, <2>8, TrackStepSuffices
<1>2. CASE InsertRow(q)
  <2>1. PICK i \in track[q].todo :
          track' = [track EXCEPT ![q] = [track[q] EXCEPT
            !.todo = @ \ {i}, !.item = i, !.inserted = @ \union {i},
            !.pc = IF Inline THEN "post" ELSE "enqueue"]]
    BY <1>2 DEF InsertRow, SetTrack
  <2>2. UNCHANGED <<status, attempts, due, rowLock, dlq, active, recorded,
                    receipts, versioned, worker, replay, crashes, toggles>>
    BY <1>2 DEF InsertRow, table
  <2>3. track[q] \in TrackState /\ i \in Rows
    BY DEF OutboxInv, TypeOK, TrackState
  <2>4. /\ track'[q] \in TrackState /\ track'[q].pc \in {"post", "enqueue"}
        /\ track'[q].wrote = track[q].wrote /\ track'[q].item = i
    BY <2>1, <2>3, BoundsAssumption DEF OutboxInv, TypeOK, TrackState
  <2>5. TypeOK'
    BY <2>1, <2>2, <2>4 DEF OutboxInv, TypeOK
  <2>6. Grows /\ Truthful' /\ RecordedWasReceived'
    BY <2>2, EvidenceKept DEF OutboxInv, Grows, Received
  <2>7. TrackClaims(q)'
    BY <2>2, <2>3, <2>4 DEF OutboxInv, TrackClaims, Claim
  <2>8. \A p \in Tracks \ {q} : track'[p] = track[p]
    BY <2>1 DEF OutboxInv, TypeOK
  <2>9. QED
    BY <2>2, <2>5, <2>6, <2>7, <2>8, TrackStepSuffices
<1>3. CASE CrashTrack(q)
  <2>1. /\ track' = [track EXCEPT ![q] = [track[q] EXCEPT
                !.pc = "failed", !.inserted = {}, !.wrote = NoWrite]]
        /\ crashes < MaxCrashes /\ crashes' = crashes + 1
        /\ rowLock' = Release(q)
        /\ UNCHANGED <<status, attempts, due, dlq, active, recorded,
                       receipts, versioned, worker, replay, toggles>>
    BY <1>3 DEF CrashTrack, SetTrack, table
  <2>2. track[q] \in TrackState
    BY DEF OutboxInv, TypeOK
  <2>3. track'[q] \in TrackState /\ track'[q].pc = "failed"
        /\ track'[q].wrote = NoWrite
    BY <2>1, <2>2 DEF OutboxInv, TypeOK, TrackState, NoWrite
  <2>4. crashes' \in 0 .. MaxCrashes
    BY <2>1, BoundsAssumption DEF OutboxInv, TypeOK
  <2>5. TypeOK'
    BY <2>1, <2>3, <2>4, ReleaseType DEF OutboxInv, TypeOK
  <2>6. Grows /\ Truthful' /\ RecordedWasReceived'
    BY <2>1, EvidenceKept DEF OutboxInv, Grows, Received
  <2>7. TrackClaims(q)'
    BY <2>3 DEF TrackClaims, NoWrite
  <2>8. \A p \in Tracks \ {q} : track'[p] = track[p]
    BY <2>1 DEF OutboxInv, TypeOK
  <2>9. QED
    BY <2>1, <2>5, <2>6, <2>7, <2>8, TrackStepSuffices
<1>4. QED
  BY <1>1, <1>2, <1>3

\* Inline delivery: the POST is answered before its success is recorded, and
\* recorded, or given up, before the status is written.
LEMMA InlineTrackStep ==
  ASSUME OutboxInv, NEW q \in Tracks,
         InlinePost(q) \/ InlineLog(q) \/ InlineSettle(q) \/ FinishTrack(q)
  PROVE  OutboxInv'
<1> track[q] \in TrackState
  BY DEF OutboxInv, TypeOK
<1>1. CASE InlinePost(q)
  <2>1. PICK ok \in BOOLEAN :
          /\ Post(track[q].item, ok)
          /\ track' = [track EXCEPT ![q] = [track[q] EXCEPT !.pc = "log", !.ok = ok]]
    BY <1>1 DEF InlinePost, SetTrack
  <2>2. UNCHANGED <<status, attempts, due, rowLock, dlq, active, recorded,
                    versioned, worker, replay, crashes, toggles>>
    BY <1>1 DEF InlinePost, table
  <2>3. track[q].item \in Rows
    BY <1>1 DEF InlinePost, OutboxInv, TrackClaims
  <2>4. /\ receipts' \in [Rows -> 0 .. MaxReceipts]
        /\ \A j \in Rows : Received(j) => Received(j)'
        /\ ok => Received(track[q].item)'
    BY <2>1, <2>3, PostReceives DEF OutboxInv
  <2>5. /\ track'[q] \in TrackState /\ track'[q].pc = "log" /\ track'[q].ok = ok
        /\ track'[q].item = track[q].item /\ track'[q].wrote = track[q].wrote
    BY <2>1 DEF OutboxInv, TypeOK, TrackState
  <2>6. TypeOK'
    BY <2>1, <2>2, <2>4, <2>5 DEF OutboxInv, TypeOK
  <2>7. Grows /\ Truthful' /\ RecordedWasReceived'
    BY <2>2, <2>4, EvidenceKept DEF OutboxInv, Grows
  <2>8. TrackClaims(q)'
    BY <2>2, <2>3, <2>4, <2>5 DEF OutboxInv, TrackClaims, Claim, Received
  <2>9. \A p \in Tracks \ {q} : track'[p] = track[p]
    BY <2>1 DEF OutboxInv, TypeOK
  <2>10. QED
    BY <2>2, <2>6, <2>7, <2>8, <2>9, TrackStepSuffices
<1>2. CASE InlineLog(q)
  <2> DEFINE i == track[q].item
  <2>1. /\ recorded' = IF track[q].ok THEN recorded \union {i} ELSE recorded
        /\ dlq' = IF track[q].ok THEN dlq ELSE WithDeadLetter(i)
        /\ CommitTrack(q)
        /\ track' = [track EXCEPT ![q] = [track[q] EXCEPT
             !.pc = "settle", !.inserted = {}, !.wrote = NoWrite]]
        /\ UNCHANGED <<due, active, receipts, worker, replay, crashes, toggles>>
    BY <1>2 DEF InlineLog, SetTrack
  <2>2. i \in Rows /\ (track[q].ok => Received(i))
    BY <1>2 DEF InlineLog, OutboxInv, TrackClaims
  <2>3. Grows /\ recorded' \subseteq Rows /\ dlq' \subseteq DlqKeys
    BY <2>1, <2>2, DeadLetterType DEF OutboxInv, TypeOK, Grows, Received
  <2>4. /\ track'[q] \in TrackState /\ track'[q].pc = "settle"
        /\ track'[q].ok = track[q].ok /\ track'[q].item = i
        /\ track'[q].wrote = NoWrite
    BY <2>1 DEF OutboxInv, TypeOK, TrackState, NoWrite
  <2>5. /\ Truthful'
        /\ status' \in [Rows -> {"ABSENT", "PENDING", "DELIVERING"} \union Settled]
        /\ attempts' \in [Rows -> Nat]
        /\ rowLock' \in [Rows -> Tracks \union Workers \union {None}]
        /\ versioned' \subseteq Tracks
    BY <2>1, <2>3, CommitIsTruthful
  <2>6. TypeOK'
    BY <2>1, <2>3, <2>4, <2>5 DEF OutboxInv, TypeOK
  <2>7. RecordedWasReceived'
    BY <2>1, <2>2 DEF OutboxInv, RecordedWasReceived, Received
  <2>8. TrackClaims(q)'
    <3>1. Claim(i, IF track[q].ok THEN "DELIVERED" ELSE "FAILED")'
      BY <2>1, <2>2, <2>4, DeadLetterType DEF Claim, OutboxInv
    <3>2. QED
      BY <2>2, <2>4, <3>1 DEF TrackClaims, NoWrite
  <2>9. \A p \in Tracks \ {q} : track'[p] = track[p]
    BY <2>1 DEF OutboxInv, TypeOK
  <2>10. QED
    BY <2>1, <2>3, <2>5, <2>6, <2>7, <2>8, <2>9, TrackStepSuffices
<1>3. CASE InlineSettle(q)
  <2> DEFINE i == track[q].item
             s == IF track[q].ok THEN "DELIVERED" ELSE "FAILED"
  <2>1. /\ rowLock' = [rowLock EXCEPT ![i] = q]
        /\ track' = [track EXCEPT ![q] = [track[q] EXCEPT
             !.pc = "enqueue", !.wrote = [row |-> i, status |-> s]]]
        /\ UNCHANGED <<status, attempts, due, dlq, active, recorded, receipts,
                       versioned, worker, replay, crashes, toggles>>
    BY <1>3 DEF InlineSettle, SetTrack, table
  <2>2. i \in Rows /\ Claim(i, s)
    BY <1>3 DEF InlineSettle, OutboxInv, TrackClaims
  <2>3. s \in {"ABSENT"} \union Settled
    BY DEF Settled
  <2>4. /\ track'[q] \in TrackState /\ track'[q].pc = "enqueue"
        /\ track'[q].wrote = [row |-> i, status |-> s]
        /\ track'[q].item = i /\ track'[q].ok = track[q].ok
    BY <2>1, <2>2, <2>3 DEF OutboxInv, TypeOK, TrackState
  <2>5. TypeOK'
    BY <2>1, <2>2, <2>4 DEF OutboxInv, TypeOK
  <2>6. Grows /\ Truthful' /\ RecordedWasReceived'
    BY <2>1, EvidenceKept DEF OutboxInv, Grows, Received
  <2>7. Claim(i, s)'
    BY <2>1, <2>2, <2>4 DEF Claim
  <2>8. TrackClaims(q)'
    BY <2>4, <2>7 DEF TrackClaims, Claim
  <2>9. \A p \in Tracks \ {q} : track'[p] = track[p]
    BY <2>1 DEF OutboxInv, TypeOK
  <2>10. QED
    BY <2>1, <2>5, <2>6, <2>8, <2>9, TrackStepSuffices
<1>4. CASE FinishTrack(q)
  <2>1. /\ CommitTrack(q)
        /\ track' = [track EXCEPT ![q] = [track[q] EXCEPT
             !.pc = "done", !.inserted = {}, !.wrote = NoWrite]]
        /\ UNCHANGED <<due, dlq, active, recorded, receipts, worker, replay, crashes, toggles>>
    BY <1>4 DEF FinishTrack, SetTrack
  <2>2. Grows
    BY <2>1 DEF Grows, Received
  <2>3. /\ track'[q] \in TrackState /\ track'[q].pc = "done"
        /\ track'[q].wrote = NoWrite
    BY <2>1 DEF OutboxInv, TypeOK, TrackState, NoWrite
  <2>4. /\ Truthful'
        /\ status' \in [Rows -> {"ABSENT", "PENDING", "DELIVERING"} \union Settled]
        /\ attempts' \in [Rows -> Nat]
        /\ rowLock' \in [Rows -> Tracks \union Workers \union {None}]
        /\ versioned' \subseteq Tracks
    BY <2>1, <2>2, CommitIsTruthful
  <2>5. TypeOK'
    BY <2>1, <2>3, <2>4 DEF OutboxInv, TypeOK
  <2>6. RecordedWasReceived'
    BY <2>1 DEF OutboxInv, RecordedWasReceived, Received
  <2>7. TrackClaims(q)'
    BY <2>3 DEF TrackClaims, NoWrite
  <2>8. \A p \in Tracks \ {q} : track'[p] = track[p]
    BY <2>1 DEF OutboxInv, TypeOK
  <2>9. QED
    BY <2>1, <2>2, <2>4, <2>5, <2>6, <2>7, <2>8, TrackStepSuffices
<1>5. QED
  BY <1>1, <1>2, <1>3, <1>4

-----------------------------------------------------------------------------
\* A worker that goes on to its next row, or to the next poll, claims nothing.
LEMMA ProceedClaimsNothing ==
  ASSUME NEW w \in Workers, worker \in [Workers -> WorkerState],
         NEW r \in WorkerState, NEW rest \in SUBSET Rows, Proceed(w, r, rest)
  PROVE  /\ worker' \in [Workers -> WorkerState]
         /\ WorkerClaims(w)'
         /\ \A v \in Workers \ {w} : worker'[v] = worker[v]
<1>1. CASE rest = {}
  <2>1. IdleWorker \in WorkerState /\ IdleWorker.pc = "idle"
    BY DEF IdleWorker, WorkerState
  <2>2. worker' = [worker EXCEPT ![w] = IdleWorker]
    BY <1>1 DEF Proceed, SetWorker
  <2>3. QED
    BY <2>1, <2>2 DEF WorkerClaims
<1>2. CASE rest # {}
  <2>1. PICK i \in rest :
          worker' = [worker EXCEPT ![w] = [r EXCEPT !.pc = "mark", !.item = i,
                                                    !.batch = rest]]
    BY <1>2 DEF Proceed, SetWorker
  <2>2. [r EXCEPT !.pc = "mark", !.item = i, !.batch = rest] \in WorkerState
    BY DEF WorkerState
  <2>3. worker'[w].pc = "mark" /\ worker'[w].item = i
    BY <2>1 DEF WorkerState
  <2>4. QED
    BY <2>1, <2>2, <2>3 DEF WorkerClaims
<1>3. QED
  BY <1>1, <1>2

\* The worker's steps from the poll to the answer.
LEMMA DeliverWorkerStep ==
  ASSUME OutboxInv, NEW w \in Workers,
         Poll(w) \/ MarkDelivering(w) \/ LookupSubscription(w) \/ CrashWorker(w)
  PROVE  OutboxInv'
<1> worker[w] \in WorkerState /\ worker \in [Workers -> WorkerState]
  BY DEF OutboxInv, TypeOK
<1>1. CASE Poll(w)
  <2>1. PICK batch \in SUBSET Pollable :
          /\ rowLock' = [i \in Rows |-> IF i \in batch THEN w ELSE rowLock[i]]
          /\ Proceed(w, [IdleWorker EXCEPT !.seen =
               [i \in Rows |-> IF i \in batch THEN attempts[i] ELSE 0]], batch)
    BY <1>1 DEF Poll
  <2>2. UNCHANGED <<status, attempts, due, dlq, active, recorded, receipts,
                    versioned, track, replay, crashes, toggles>>
    BY <1>1 DEF Poll, table
  <2>3. [i \in Rows |-> IF i \in batch THEN attempts[i] ELSE 0] \in [Rows -> Nat]
    BY DEF OutboxInv, TypeOK
  <2>4. [IdleWorker EXCEPT !.seen = [i \in Rows |-> IF i \in batch
                                     THEN attempts[i] ELSE 0]] \in WorkerState
    BY <2>3 DEF IdleWorker, WorkerState
  <2>5. batch \in SUBSET Rows
    BY DEF Pollable
  <2>6. /\ worker' \in [Workers -> WorkerState]
        /\ WorkerClaims(w)'
        /\ \A v \in Workers \ {w} : worker'[v] = worker[v]
    BY <2>1, <2>4, <2>5, ProceedClaimsNothing
  <2>7. rowLock' \in [Rows -> Tracks \union Workers \union {None}]
    BY <2>1 DEF OutboxInv, TypeOK
  <2>8. TypeOK'
    BY <2>2, <2>6, <2>7 DEF OutboxInv, TypeOK
  <2>9. Grows /\ Truthful' /\ RecordedWasReceived'
    BY <2>2, EvidenceKept DEF OutboxInv, Grows, Received
  <2>10. QED
    BY <2>2, <2>6, <2>8, <2>9, WorkerStepSuffices
<1>2. CASE MarkDelivering(w)
  <2> DEFINE i == worker[w].item
  <2>1. /\ status' = [status EXCEPT ![i] = "DELIVERING"]
        /\ rowLock' = Release(w)
        /\ worker' = [worker EXCEPT ![w] = [worker[w] EXCEPT !.pc = "lookup"]]
        /\ UNCHANGED <<attempts, due, dlq, active, recorded, receipts, versioned,
                       track, replay, crashes, toggles>>
    BY <1>2 DEF MarkDelivering, SetWorker
  <2>2. i \in Rows
    BY <1>2 DEF MarkDelivering, OutboxInv, WorkerClaims
  <2>3. /\ worker'[w] \in WorkerState /\ worker'[w].pc = "lookup"
        /\ worker'[w].item = i
    BY <2>1 DEF WorkerState
  <2>4. TypeOK'
    BY <2>1, <2>3, ReleaseType DEF OutboxInv, TypeOK
  <2>5. Grows /\ RecordedWasReceived'
    BY <2>1 DEF OutboxInv, Grows, Received, RecordedWasReceived
  <2>6. Truthful'
    BY <2>1, <2>2 DEF OutboxInv, TypeOK, Truthful, Claim
  <2>7. WorkerClaims(w)'
    BY <2>2, <2>3 DEF WorkerClaims
  <2>8. \A v \in Workers \ {w} : worker'[v] = worker[v]
    BY <2>1
  <2>9. QED
    BY <2>1, <2>4, <2>5, <2>6, <2>7, <2>8, WorkerStepSuffices
<1>3. CASE LookupSubscription(w)
  <2>1. /\ \/ worker' = [worker EXCEPT ![w] = [worker[w] EXCEPT !.pc = "post"]]
           \/ worker' = [worker EXCEPT ![w] =
                           [worker[w] EXCEPT !.pc = "settle", !.ok = FALSE]]
        /\ UNCHANGED <<status, attempts, due, rowLock, dlq, active, recorded,
                       receipts, versioned, track, replay, crashes, toggles>>
    BY <1>3 DEF LookupSubscription, SetWorker, table
  <2>2. worker[w].item \in Rows
    BY <1>3 DEF LookupSubscription, OutboxInv, WorkerClaims
  <2>3. /\ worker'[w] \in WorkerState /\ worker'[w].item = worker[w].item
        /\ worker'[w].pc = "post" \/ (worker'[w].pc = "settle" /\ ~worker'[w].ok)
    <3>1. CASE worker' = [worker EXCEPT ![w] = [worker[w] EXCEPT !.pc = "post"]]
      BY <3>1 DEF WorkerState
    <3>2. CASE worker' = [worker EXCEPT ![w] =
                            [worker[w] EXCEPT !.pc = "settle", !.ok = FALSE]]
      BY <3>2 DEF WorkerState
    <3>3. QED
      BY <2>1, <3>1, <3>2
  <2>4. TypeOK'
    BY <2>1, <2>3 DEF OutboxInv, TypeOK
  <2>5. Grows /\ Truthful' /\ RecordedWasReceived'
    BY <2>1, EvidenceKept DEF OutboxInv, Grows, Received
  <2>6. WorkerClaims(w)'
    BY <2>2, <2>3 DEF WorkerClaims
  <2>7. \A v \in Workers \ {w} : worker'[v] = worker[v]
    BY <2>1
  <2>8. QED
    BY <2>1, <2>4, <2>5, <2>6, <2>7, WorkerStepSuffices
<1>4. CASE CrashWorker(w)
  <2>1. /\ crashes < MaxCrashes /\ crashes' = crashes + 1
        /\ rowLock' = Release(w)
        /\ worker' = [worker EXCEPT ![w] = IdleWorker]
        /\ UNCHANGED <<status, attempts, due, dlq, active, recorded, receipts,
                       versioned, track, replay, toggles>>
    BY <1>4 DEF CrashWorker, SetWorker, table
  <2>2. IdleWorker \in WorkerState /\ IdleWorker.pc = "idle"
    BY DEF IdleWorker, WorkerState
  <2>3. crashes' \in 0 .. MaxCrashes
    BY <2>1, BoundsAssumption DEF OutboxInv, TypeOK
  <2>4. TypeOK'
    BY <2>1, <2>2, <2>3, ReleaseType DEF OutboxInv, TypeOK
  <2>5. Grows /\ Truthful' /\ RecordedWasReceived'
    BY <2>1, EvidenceKept DEF OutboxInv, Grows, Received
  <2>6. WorkerClaims(w)'
    BY <2>1, <2>2 DEF WorkerClaims
  <2>7. \A v \in Workers \ {w} : worker'[v] = worker[v]
    BY <2>1
  <2>8. QED
    BY <2>1, <2>4, <2>5, <2>6, <2>7, WorkerStepSuffices
<1>5. QED
  BY <1>1, <1>2, <1>3, <1>4

\* The worker's steps from the POST to its record.
LEMMA AnswerWorkerStep ==
  ASSUME OutboxInv, NEW w \in Workers, WorkerPost(w) \/ WorkerLog(w)
  PROVE  OutboxInv'
<1> worker[w] \in WorkerState /\ worker \in [Workers -> WorkerState]
  BY DEF OutboxInv, TypeOK
<1> worker[w].item \in Rows
  BY DEF WorkerPost, WorkerLog, OutboxInv, WorkerClaims
<1>1. CASE WorkerPost(w)
  <2>1. PICK ok \in BOOLEAN :
          /\ Post(worker[w].item, ok)
          /\ worker' = [worker EXCEPT ![w] = [worker[w] EXCEPT !.pc = "log", !.ok = ok]]
    BY <1>1 DEF WorkerPost, SetWorker
  <2>2. UNCHANGED <<status, attempts, due, rowLock, dlq, active, recorded,
                    versioned, track, replay, crashes, toggles>>
    BY <1>1 DEF WorkerPost, table
  <2>3. /\ receipts' \in [Rows -> 0 .. MaxReceipts]
        /\ \A j \in Rows : Received(j) => Received(j)'
        /\ ok => Received(worker[w].item)'
    BY <2>1, PostReceives DEF OutboxInv
  <2>4. /\ worker'[w] \in WorkerState /\ worker'[w].item = worker[w].item
        /\ worker'[w].pc = "log" /\ worker'[w].ok = ok
    BY <2>1 DEF WorkerState
  <2>5. TypeOK'
    BY <2>1, <2>2, <2>3, <2>4 DEF OutboxInv, TypeOK
  <2>6. Grows /\ Truthful' /\ RecordedWasReceived'
    BY <2>2, <2>3, EvidenceKept DEF OutboxInv, Grows
  <2>7. WorkerClaims(w)'
    BY <2>3, <2>4 DEF WorkerClaims, Received
  <2>8. \A v \in Workers \ {w} : worker'[v] = worker[v]
    BY <2>1
  <2>9. QED
    BY <2>2, <2>5, <2>6, <2>7, <2>8, WorkerStepSuffices
<1>2. CASE WorkerLog(w)
  <2>1. /\ recorded' = IF worker[w].ok THEN recorded \union {worker[w].item} ELSE recorded
        /\ worker' = [worker EXCEPT ![w] = [worker[w] EXCEPT !.pc = "settle"]]
        /\ UNCHANGED <<status, attempts, due, rowLock, dlq, active, receipts,
                       versioned, track, replay, crashes, toggles>>
    BY <1>2 DEF WorkerLog, SetWorker, table
  <2>2. worker[w].ok => Received(worker[w].item)
    BY <1>2 DEF WorkerLog, OutboxInv, WorkerClaims
  <2>3. /\ worker'[w] \in WorkerState /\ worker'[w].item = worker[w].item
        /\ worker'[w].pc = "settle" /\ worker'[w].ok = worker[w].ok
    BY <2>1 DEF WorkerState
  <2>4. TypeOK'
    BY <2>1, <2>3 DEF OutboxInv, TypeOK
  <2>5. Grows
    BY <2>1 DEF Grows, Received
  <2>6. Truthful' /\ RecordedWasReceived'
    BY <2>1, <2>2, <2>5, EvidenceKept DEF Received
  <2>7. WorkerClaims(w)'
    BY <2>1, <2>3 DEF WorkerClaims
  <2>8. \A v \in Workers \ {w} : worker'[v] = worker[v]
    BY <2>1
  <2>9. QED
    BY <2>1, <2>4, <2>5, <2>6, <2>7, <2>8, WorkerStepSuffices
<1>3. QED
  BY <1>1, <1>2

\* The worker's last step with a row writes what it has evidence for.
LEMMA SettleWorkerStep ==
  ASSUME OutboxInv, NEW w \in Workers,
         SettleDelivered(w) \/ SettleExhausted(w) \/ SettleRetry(w)
  PROVE  OutboxInv'
<1> DEFINE i == worker[w].item
<1> worker[w] \in WorkerState /\ worker \in [Workers -> WorkerState]
  BY DEF OutboxInv, TypeOK
<1>1. i \in Rows /\ (worker[w].ok => i \in recorded)
  BY DEF SettleDelivered, SettleExhausted, SettleRetry, OutboxInv, WorkerClaims
<1>2. NextItem(w)
  BY DEF SettleDelivered, SettleExhausted, SettleRetry
<1>3. /\ worker' \in [Workers -> WorkerState]
      /\ WorkerClaims(w)'
      /\ \A v \in Workers \ {w} : worker'[v] = worker[v]
  <2>1. worker[w].batch \ {i} \in SUBSET Rows
    BY DEF WorkerState
  <2>2. QED
    BY <1>2, <2>1, ProceedClaimsNothing DEF NextItem
<1>4. NextAttempt(w) \in Nat
  BY <1>1 DEF NextAttempt, WorkerState
<1>5. \E s \in {"DELIVERED", "FAILED", "PENDING"}, n \in Nat :
        /\ status' = [status EXCEPT ![i] = s]
        /\ attempts' = [attempts EXCEPT ![i] = n]
        /\ s = "DELIVERED" => i \in recorded
        /\ s = "FAILED" => DlqKey[i] \in dlq'
  <2>1. CASE SettleDelivered(w)
    <3>1. attempts[i] + 1 \in Nat
      BY <1>1 DEF OutboxInv, TypeOK
    <3>2. QED
      BY <1>1, <2>1, <3>1 DEF SettleDelivered
  <2>2. CASE SettleExhausted(w)
    BY <1>1, <1>4, <2>2, DeadLetterType DEF SettleExhausted, OutboxInv
  <2>3. CASE SettleRetry(w)
    BY <1>4, <2>3 DEF SettleRetry
  <2>4. QED
    BY <2>1, <2>2, <2>3
<1>6. /\ dlq \subseteq dlq' /\ dlq' \subseteq DlqKeys
      /\ due' \in [Rows -> BOOLEAN]
  BY <1>1, DeadLetterType
    DEF SettleDelivered, SettleExhausted, SettleRetry, OutboxInv, TypeOK
<1>7. UNCHANGED <<rowLock, active, recorded, receipts, versioned, track, replay, crashes,
                  toggles>>
  BY DEF SettleDelivered, SettleExhausted, SettleRetry
<1>8. TypeOK'
  <2>1. /\ status' \in [Rows -> {"ABSENT", "PENDING", "DELIVERING"} \union Settled]
        /\ attempts' \in [Rows -> Nat]
    <3>1. PICK s \in {"DELIVERED", "FAILED", "PENDING"}, n \in Nat :
            /\ status' = [status EXCEPT ![i] = s]
            /\ attempts' = [attempts EXCEPT ![i] = n]
      BY <1>5
    <3>2. status' \in [Rows -> {"ABSENT", "PENDING", "DELIVERING"} \union Settled]
      BY <3>1 DEF OutboxInv, TypeOK, Settled
    <3>3. attempts' \in [Rows -> Nat]
      BY <3>1 DEF OutboxInv, TypeOK
    <3>4. QED
      BY <3>2, <3>3
  <2>2. QED
    BY <1>3, <1>6, <1>7, <2>1 DEF OutboxInv, TypeOK
<1>9. Grows /\ RecordedWasReceived'
  BY <1>6, <1>7 DEF OutboxInv, Grows, Received, RecordedWasReceived
<1>10. Truthful'
  <2>1. PICK s : /\ status' = [status EXCEPT ![i] = s]
                 /\ s = "DELIVERED" => i \in recorded
                 /\ s = "FAILED" => DlqKey[i] \in dlq'
    BY <1>5
  <2>2. SUFFICES ASSUME NEW j \in Rows PROVE Claim(j, status[j])'
    BY DEF Truthful
  <2>3. status'[j] = IF j = i THEN s ELSE status[j]
    BY <2>1 DEF OutboxInv, TypeOK
  <2>4. Claim(j, status[j])
    BY DEF OutboxInv, Truthful
  <2>5. QED
    BY <1>6, <1>7, <2>1, <2>3, <2>4 DEF Claim
<1>11. QED
  BY <1>3, <1>7, <1>8, <1>9, <1>10, WorkerStepSuffices

-----------------------------------------------------------------------------
\* Before any request nothing is claimed.
LEMMA InitOutbox == Init => OutboxInv
<1> SUFFICES ASSUME Init PROVE OutboxInv
  OBVIOUS
<1>1. IdleTrack \in TrackState /\ IdleTrack.pc = "idle" /\ IdleTrack.wrote = NoWrite
  BY DEF IdleTrack, TrackState, NoWrite
<1>2. IdleWorker \in WorkerState /\ IdleWorker.pc = "idle"
  BY DEF IdleWorker, WorkerState
<1>3. IdleReplay \in ReplayState /\ IdleReplay.pc = "idle"
  BY DEF IdleReplay, ReplayState
<1>4. TypeOK
  BY <1>1, <1>2, <1>3, BoundsAssumption DEF Init, TypeOK
<1>5. RecordedWasReceived /\ Truthful
  BY DEF Init, RecordedWasReceived, Truthful, Claim
<1>6. \A q \in Tracks : TrackClaims(q)
  BY <1>1 DEF Init, TrackClaims, NoWrite
<1>7. \A w \in Workers : WorkerClaims(w)
  BY <1>2 DEF Init, WorkerClaims
<1>8. \A r \in Replays : ReplayClaims(r)
  BY <1>3 DEF Init, ReplayClaims
<1>9. QED
  BY <1>4, <1>5, <1>6, <1>7, <1>8 DEF OutboxInv

\* A replay sends before it records, and touches neither the rows nor the dead
\* letters.
LEMMA ReplayStep ==
  ASSUME OutboxInv, NEW r \in Replays,
         OpenReplay(r) \/ ReplayPost(r) \/ ReplayLog(r) \/ CrashReplay(r)
  PROVE  OutboxInv'
<1> replay[r] \in ReplayState /\ replay \in [Replays -> ReplayState]
  BY DEF OutboxInv, TypeOK
<1> DEFINE i == replay[r].item
<1>1. CASE OpenReplay(r)
  <2>1. PICK j \in Rows :
          \/ replay' = [replay EXCEPT ![r] = [replay[r] EXCEPT !.pc = "post", !.item = j]]
          \/ replay' = [replay EXCEPT ![r] = [replay[r] EXCEPT !.pc = "done"]]
    BY <1>1 DEF OpenReplay, SetReplay
  <2>2. UNCHANGED <<status, attempts, due, rowLock, dlq, active, recorded,
                    receipts, versioned, track, worker, crashes, toggles>>
    BY <1>1 DEF OpenReplay, table
  <2>3. /\ replay'[r] \in ReplayState
        /\ replay'[r].pc = "done" \/ (replay'[r].pc = "post" /\ replay'[r].item = j)
    <3>1. CASE replay' = [replay EXCEPT ![r] = [replay[r] EXCEPT !.pc = "post", !.item = j]]
      BY <3>1 DEF ReplayState
    <3>2. CASE replay' = [replay EXCEPT ![r] = [replay[r] EXCEPT !.pc = "done"]]
      BY <3>2 DEF ReplayState
    <3>3. QED
      BY <2>1, <3>1, <3>2
  <2>4. \A s \in Replays \ {r} : replay'[s] = replay[s]
    BY <2>1
  <2>5. replay' \in [Replays -> ReplayState]
    BY <2>1, <2>3
  <2>6. TypeOK'
    BY <2>2, <2>5 DEF OutboxInv, TypeOK
  <2>7. Grows /\ Truthful' /\ RecordedWasReceived'
    BY <2>2, EvidenceKept DEF OutboxInv, Grows, Received
  <2>8. ReplayClaims(r)'
    BY <2>3 DEF ReplayClaims
  <2>9. QED
    BY <2>2, <2>4, <2>6, <2>7, <2>8, ReplayStepSuffices
<1>2. CASE ReplayPost(r)
  <2>1. PICK ok \in BOOLEAN :
          /\ Post(i, ok)
          /\ replay' = [replay EXCEPT ![r] = [replay[r] EXCEPT !.pc = "log", !.ok = ok]]
    BY <1>2 DEF ReplayPost, SetReplay
  <2>2. UNCHANGED <<status, attempts, due, rowLock, dlq, active, recorded,
                    versioned, track, worker, crashes, toggles>>
    BY <1>2 DEF ReplayPost, table
  <2>3. i \in Rows
    BY <1>2 DEF ReplayPost, OutboxInv, ReplayClaims
  <2>4. /\ receipts' \in [Rows -> 0 .. MaxReceipts]
        /\ \A j \in Rows : Received(j) => Received(j)'
        /\ ok => Received(i)'
    BY <2>1, <2>2, <2>3, PostReceives DEF OutboxInv, Received
  <2>5. /\ replay'[r] \in ReplayState /\ replay'[r].item = i
        /\ replay'[r].pc = "log" /\ replay'[r].ok = ok
    BY <2>1 DEF ReplayState
  <2>6. TypeOK'
    BY <2>1, <2>2, <2>4, <2>5 DEF OutboxInv, TypeOK
  <2>7. Grows /\ Truthful' /\ RecordedWasReceived'
    BY <2>2, <2>4, EvidenceKept DEF OutboxInv, Grows
  <2>8. ReplayClaims(r)'
    BY <2>1, <2>3, <2>5, PostReceives DEF ReplayClaims, Received, OutboxInv
  <2>9. \A s \in Replays \ {r} : replay'[s] = replay[s]
    BY <2>1
  <2>10. QED
    BY <2>2, <2>6, <2>7, <2>8, <2>9, ReplayStepSuffices
<1>3. CASE ReplayLog(r)
  <2>1. /\ recorded' = IF replay[r].ok THEN recorded \union {i} ELSE recorded
        /\ replay' = [replay EXCEPT ![r] = [replay[r] EXCEPT !.pc = "done"]]
        /\ UNCHANGED <<status, attempts, due, rowLock, dlq, active, receipts,
                       versioned, track, worker, crashes, toggles>>
    BY <1>3 DEF ReplayLog, SetReplay, table
  <2>2. i \in Rows /\ (replay[r].ok => Received(i))
    BY <1>3 DEF ReplayLog, OutboxInv, ReplayClaims
  <2>3. replay'[r] \in ReplayState /\ replay'[r].pc = "done"
    BY <2>1 DEF ReplayState
  <2>4. TypeOK'
    BY <2>1, <2>2, <2>3 DEF OutboxInv, TypeOK
  <2>5. Grows
    BY <2>1 DEF Grows, Received
  <2>6. Truthful' /\ RecordedWasReceived'
    BY <2>1, <2>2, <2>5, EvidenceKept DEF Received
  <2>7. ReplayClaims(r)'
    BY <2>3 DEF ReplayClaims
  <2>8. \A s \in Replays \ {r} : replay'[s] = replay[s]
    BY <2>1
  <2>9. QED
    BY <2>1, <2>4, <2>5, <2>6, <2>7, <2>8, ReplayStepSuffices
<1>4. CASE CrashReplay(r)
  <2>1. /\ crashes < MaxCrashes /\ crashes' = crashes + 1
        /\ replay' = [replay EXCEPT ![r] =
                         [replay[r] EXCEPT !.pc = "done", !.ok = FALSE]]
        /\ UNCHANGED <<status, attempts, due, rowLock, dlq, active, recorded,
                       receipts, versioned, track, worker, toggles>>
    BY <1>4 DEF CrashReplay, SetReplay, table
  <2>2. replay'[r] \in ReplayState /\ replay'[r].pc = "done"
    BY <2>1 DEF ReplayState
  <2>3. crashes' \in 0 .. MaxCrashes
    BY <2>1, BoundsAssumption DEF OutboxInv, TypeOK
  <2>4. TypeOK'
    BY <2>1, <2>2, <2>3 DEF OutboxInv, TypeOK
  <2>5. Grows /\ Truthful' /\ RecordedWasReceived'
    BY <2>1, EvidenceKept DEF OutboxInv, Grows, Received
  <2>6. ReplayClaims(r)'
    BY <2>2 DEF ReplayClaims
  <2>7. \A s \in Replays \ {r} : replay'[s] = replay[s]
    BY <2>1
  <2>8. QED
    BY <2>1, <2>4, <2>5, <2>6, <2>7, ReplayStepSuffices
<1>5. QED
  BY <1>1, <1>2, <1>3, <1>4

\* Time and the subscriptions' owners touch no evidence.
LEMMA OutsideStep ==
  ASSUME OutboxInv, \/ \E i \in Rows : Tick(i) \/ Toggle(i)
                    \/ UNCHANGED vars
  PROVE  OutboxInv'
<1>1. /\ due' \in [Rows -> BOOLEAN] /\ active' \in [Rows -> BOOLEAN]
      /\ toggles' \in 0 .. MaxToggles
  <2>1. ASSUME NEW i \in Rows, Tick(i)
        PROVE  due' \in [Rows -> BOOLEAN] /\ UNCHANGED <<active, toggles>>
    BY <2>1 DEF Tick, OutboxInv, TypeOK
  <2>2. ASSUME NEW i \in Rows, Toggle(i)
        PROVE  /\ active' \in [Rows -> BOOLEAN] /\ UNCHANGED due
               /\ toggles' \in 0 .. MaxToggles
    <3>1. toggles' \in 0 .. MaxToggles
      BY <2>2, BoundsAssumption DEF Toggle, OutboxInv, TypeOK
    <3>2. active' \in [Rows -> BOOLEAN] /\ UNCHANGED due
      BY <2>2 DEF Toggle, table, OutboxInv, TypeOK
    <3>3. QED
      BY <3>1, <3>2
  <2>3. UNCHANGED vars => UNCHANGED <<due, active, toggles>>
    BY DEF vars
  <2>4. QED
    BY <2>1, <2>2, <2>3 DEF OutboxInv, TypeOK
<1>2. UNCHANGED <<status, attempts, rowLock, dlq, recorded, receipts, versioned,
                  track, worker, replay, crashes>>
  BY DEF Tick, Toggle, vars, table
<1>3. TypeOK'
  BY <1>1, <1>2 DEF OutboxInv, TypeOK
<1>4. Grows /\ Truthful' /\ RecordedWasReceived'
  BY <1>2, EvidenceKept DEF OutboxInv, Grows, Received
<1>5. \A q \in Tracks : TrackClaims(q)'
  BY <1>2, <1>4, TrackKeepsClaims DEF OutboxInv
<1>6. \A w \in Workers : WorkerClaims(w)'
  BY <1>2, <1>4, WorkerKeepsClaims DEF OutboxInv
<1>7. \A r \in Replays : ReplayClaims(r)'
  BY <1>2, <1>4, ReplayKeepsClaims DEF OutboxInv
<1>8. QED
  BY <1>3, <1>4, <1>5, <1>6, <1>7 DEF OutboxInv

\* Every state the program can reach satisfies the invariant.
THEOREM OutboxInvariance == Spec => []OutboxInv
<1>1. OutboxInv /\ [Next]_vars => OutboxInv'
  <2> SUFFICES ASSUME OutboxInv, [Next]_vars PROVE OutboxInv'
    OBVIOUS
  <2>1. ASSUME NEW q \in Tracks, Detect(q) \/ TrackStep(q) \/ CrashTrack(q)
        PROVE  OutboxInv'
    BY <2>1, QuietTrackStep, InlineTrackStep DEF TrackStep
  <2>2. ASSUME NEW w \in Workers, WorkerStep(w) \/ CrashWorker(w)
        PROVE  OutboxInv'
    BY <2>2, DeliverWorkerStep, AnswerWorkerStep, SettleWorkerStep DEF WorkerStep
  <2>3. QED
    BY <2>1, <2>2, ReplayStep, OutsideStep DEF Next
<1>2. QED
  BY InitOutbox, <1>1, PTL DEF Spec

\* The outbox is well-typed.
THEOREM OutboxTypeCorrect == Spec => []TypeOK
<1>1. OutboxInv => TypeOK
  BY DEF OutboxInv
<1>2. QED
  BY OutboxInvariance, <1>1, PTL

\* Neither the request nor a worker sets DELIVERED for a webhook that its
\* consumer has not received and whose success is not recorded.
THEOREM DeliveredCorrect == Spec => []DeliveredWasReceived
<1>1. OutboxInv => DeliveredWasReceived
  BY DEF OutboxInv, TypeOK, Truthful, Claim, RecordedWasReceived, Received,
    DeliveredWasReceived
<1>2. QED
  BY OutboxInvariance, <1>1, PTL

\* Neither of them sets FAILED before the dead letter exists.
THEOREM FailedCorrect == Spec => []FailedIsInDlq
<1>1. OutboxInv => FailedIsInDlq
  BY DEF OutboxInv, Truthful, Claim, FailedIsInDlq
<1>2. QED
  BY OutboxInvariance, <1>1, PTL

-----------------------------------------------------------------------------
(* The outbox is transactional when requests do not deliver themselves.    *)

Present == {i \in Rows : status[i] # "ABSENT"}

\* How far the one transaction of a request has come.
Transaction(q) ==
  /\ track[q].wrote.row = None
  /\ track[q].affected \subseteq RowsOf[q]
  /\ track[q].pc \in {"idle", "enqueue", "done", "failed"}
  /\ track[q].pc = "idle" => track[q].inserted = {} /\ track[q].affected = {}
  /\ track[q].pc = "enqueue" =>
       track[q].affected = track[q].inserted \union track[q].todo
  /\ q \in versioned <=> track[q].pc = "done"
  /\ Present \cap RowsOf[q] = IF q \in versioned THEN track[q].affected ELSE {}

\* Workers know only rows that exist.
InBatch(w) ==
  worker[w].pc # "idle" =>
    worker[w].item \in Present /\ worker[w].batch \subseteq Present

TransactionInv ==
  /\ OutboxInv
  /\ \A q \in Tracks : Transaction(q)
  /\ \A w \in Workers : InBatch(w)

\* The commit of a request makes its inserts appear and nothing else.
LEMMA CommitInserts ==
  ASSUME TransactionInv, NEW q \in Tracks, CommitTrack(q)
  PROVE  /\ Present' = Present \union track[q].inserted
         /\ versioned' = versioned \union {q}
<1>1. track[q].wrote.row = None /\ track[q].inserted \subseteq Rows
  BY DEF TransactionInv, Transaction, OutboxInv, TypeOK, TrackState
<1>2. \A i \in Rows : i # track[q].wrote.row
  BY <1>1, NoneAssumption
<1>3. \A i \in Rows : status'[i] = IF i \in track[q].inserted THEN "PENDING" ELSE status[i]
  BY <1>2 DEF CommitTrack
<1>4. QED
  BY <1>1, <1>3 DEF Present, CommitTrack

\* A request keeps its transaction and those of others whole.
LEMMA TrackKeepsTransactions ==
  ASSUME ~Inline, TransactionInv, OutboxInv', NEW q \in Tracks,
         Detect(q) \/ TrackStep(q) \/ CrashTrack(q)
  PROVE  TransactionInv'
<1> track[q] \in TrackState /\ track \in [Tracks -> TrackState]
  BY DEF TransactionInv, OutboxInv, TypeOK
<1> Transaction(q)
  BY DEF TransactionInv
<1> UNCHANGED worker
  BY DEF Detect, TrackStep, CrashTrack, InsertRow, InlinePost, InlineLog,
    InlineSettle, FinishTrack
<1>1. CASE Detect(q)
  <2>1. /\ track' = [track EXCEPT ![q] = [track[q] EXCEPT
                !.pc = "enqueue", !.affected = Affected(q), !.todo = Affected(q)]]
        /\ UNCHANGED <<status, versioned>> /\ track[q].pc = "idle"
    BY <1>1 DEF Detect, SetTrack, table
  <2>2. Affected(q) \subseteq RowsOf[q]
    BY DEF Affected
  <2>3. /\ track'[q].pc = "enqueue" /\ track'[q].affected = Affected(q)
        /\ track'[q].todo = Affected(q) /\ track'[q].inserted = {}
        /\ track'[q].wrote = track[q].wrote
    BY <2>1 DEF TrackState, Transaction
  <2>4. Present' = Present
    BY <2>1 DEF Present
  <2>5. Transaction(q)'
    BY <2>1, <2>2, <2>3, <2>4 DEF Transaction
  <2>6. \A p \in Tracks \ {q} : Transaction(p)'
    BY <2>1, <2>4 DEF TransactionInv, Transaction
  <2>7. \A w \in Workers : InBatch(w)'
    BY <2>4 DEF TransactionInv, InBatch
  <2>8. QED
    BY <2>5, <2>6, <2>7 DEF TransactionInv
<1>2. CASE InsertRow(q)
  <2>1. PICK i \in track[q].todo :
          track' = [track EXCEPT ![q] = [track[q] EXCEPT
            !.todo = @ \ {i}, !.item = i, !.inserted = @ \union {i},
            !.pc = IF Inline THEN "post" ELSE "enqueue"]]
    BY <1>2 DEF InsertRow, SetTrack
  <2>2. UNCHANGED <<status, versioned>> /\ track[q].pc = "enqueue"
    BY <1>2 DEF InsertRow, table
  <2>3. /\ track'[q].pc = "enqueue" /\ track'[q].affected = track[q].affected
        /\ track'[q].todo = track[q].todo \ {i}
        /\ track'[q].inserted = track[q].inserted \union {i}
        /\ track'[q].wrote = track[q].wrote
    BY <2>1 DEF TrackState
  <2>4. Present' = Present
    BY <2>2 DEF Present
  <2>5. Transaction(q)'
    BY <2>2, <2>3, <2>4 DEF Transaction
  <2>6. \A p \in Tracks \ {q} : Transaction(p)'
    BY <2>1, <2>2, <2>4 DEF TransactionInv, Transaction
  <2>7. \A w \in Workers : InBatch(w)'
    BY <2>4 DEF TransactionInv, InBatch
  <2>8. QED
    BY <2>5, <2>6, <2>7 DEF TransactionInv
<1>3. CASE CrashTrack(q)
  <2>1. /\ track' = [track EXCEPT ![q] = [track[q] EXCEPT
                !.pc = "failed", !.inserted = {}, !.wrote = NoWrite]]
        /\ UNCHANGED <<status, versioned>> /\ track[q].pc # "done"
    BY <1>3 DEF CrashTrack, SetTrack, table
  <2>2. /\ track'[q].pc = "failed" /\ track'[q].affected = track[q].affected
        /\ track'[q].wrote = NoWrite
    BY <2>1 DEF TrackState, NoWrite
  <2>3. Present' = Present
    BY <2>1 DEF Present
  <2>4. Transaction(q)'
    BY <2>1, <2>2, <2>3 DEF Transaction, NoWrite
  <2>5. \A p \in Tracks \ {q} : Transaction(p)'
    BY <2>1, <2>3 DEF TransactionInv, Transaction
  <2>6. \A w \in Workers : InBatch(w)'
    BY <2>3 DEF TransactionInv, InBatch
  <2>7. QED
    BY <2>4, <2>5, <2>6 DEF TransactionInv
<1>4. CASE FinishTrack(q)
  <2>1. /\ CommitTrack(q)
        /\ track' = [track EXCEPT ![q] = [track[q] EXCEPT
             !.pc = "done", !.inserted = {}, !.wrote = NoWrite]]
        /\ track[q].pc = "enqueue" /\ track[q].todo = {}
    BY <1>4 DEF FinishTrack, SetTrack
  <2>2. /\ track'[q].pc = "done" /\ track'[q].affected = track[q].affected
        /\ track'[q].wrote = NoWrite
    BY <2>1 DEF TrackState, NoWrite
  <2>3. /\ Present' = Present \union track[q].affected
        /\ versioned' = versioned \union {q}
    BY <2>1, CommitInserts DEF Transaction
  <2>4. Transaction(q)'
    BY <2>1, <2>2, <2>3 DEF Transaction, NoWrite
  <2>5. ASSUME NEW p \in Tracks \ {q}
        PROVE  Transaction(p)'
    <3>1. RowsOf[p] \cap track[q].affected = {}
      BY RowsOfAssumption DEF Transaction
    <3>2. track'[p] = track[p] /\ Transaction(p)
      BY <2>1 DEF TransactionInv
    <3>3. QED
      BY <2>3, <3>1, <3>2 DEF Transaction
  <2>6. \A w \in Workers : InBatch(w)'
    BY <2>3 DEF TransactionInv, InBatch
  <2>7. QED
    BY <2>4, <2>5, <2>6 DEF TransactionInv
<1>5. QED
  BY <1>1, <1>2, <1>3, <1>4
    DEF TrackStep, InlinePost, InlineLog, InlineSettle, Transaction

\* The next row of a batch is one of the batch.
LEMMA ProceedStaysInBatch ==
  ASSUME NEW w \in Workers, worker \in [Workers -> WorkerState],
         NEW r \in WorkerState, NEW rest \in SUBSET Rows, Proceed(w, r, rest)
  PROVE  /\ worker'[w].pc # "idle" => worker'[w].item \in rest /\ worker'[w].batch = rest
         /\ \A v \in Workers \ {w} : worker'[v] = worker[v]
<1>1. CASE rest = {}
  BY <1>1 DEF Proceed, SetWorker, IdleWorker
<1>2. CASE rest # {}
  <2>1. PICK i \in rest :
          worker' = [worker EXCEPT ![w] = [r EXCEPT !.pc = "mark", !.item = i,
                                                    !.batch = rest]]
    BY <1>2 DEF Proceed, SetWorker
  <2>2. worker'[w].item = i /\ worker'[w].batch = rest
    BY <2>1 DEF WorkerState
  <2>3. QED
    BY <2>1, <2>2
<1>3. QED
  BY <1>1, <1>2

\* Looking up the subscription, sending and recording the attempt move the pc of
\* the worker, may set ok, and leave its row, its batch and what it has read.
LEMMA SendMoves ==
  ASSUME worker \in [Workers -> WorkerState], NEW w \in Workers,
         LookupSubscription(w) \/ WorkerPost(w) \/ WorkerLog(w)
  PROVE  /\ worker'[w].item = worker[w].item /\ worker'[w].batch = worker[w].batch
         /\ worker'[w].seen = worker[w].seen
         /\ worker'[w].pc \in {"post", "log", "settle"}
         /\ worker'[w].pc = "post" => worker[w].pc = "lookup"
         /\ \A v \in Workers \ {w} : worker'[v] = worker[v]
<1>0. worker[w] \in WorkerState
  OBVIOUS
<1>1. CASE LookupSubscription(w)
  <2>1. CASE active[worker[w].item]
    <3>1. /\ worker' = [worker EXCEPT ![w] = [worker[w] EXCEPT !.pc = "post"]]
          /\ worker[w].pc = "lookup"
      BY <1>1, <2>1 DEF LookupSubscription, SetWorker
    <3>2. QED
      BY <1>0, <3>1 DEF WorkerState
  <2>2. CASE ~active[worker[w].item]
    <3>1. worker' = [worker EXCEPT ![w] = [worker[w] EXCEPT !.pc = "settle", !.ok = FALSE]]
      BY <1>1, <2>2 DEF LookupSubscription, SetWorker
    <3>2. QED
      BY <1>0, <3>1 DEF WorkerState
  <2>3. QED
    BY <2>1, <2>2
<1>2. CASE WorkerPost(w)
  <2>1. PICK ok \in BOOLEAN :
          worker' = [worker EXCEPT ![w] = [worker[w] EXCEPT !.pc = "log", !.ok = ok]]
    BY <1>2 DEF WorkerPost, SetWorker
  <2>2. QED
    BY <1>0, <2>1 DEF WorkerState
<1>3. CASE WorkerLog(w)
  <2>1. worker' = [worker EXCEPT ![w] = [worker[w] EXCEPT !.pc = "settle"]]
    BY <1>3 DEF WorkerLog, SetWorker
  <2>2. QED
    BY <1>0, <2>1 DEF WorkerState
<1>4. QED
  BY <1>1, <1>2, <1>3

\* A worker writes only rows of its batch, which are there and stay there.
LEMMA WorkerKeepsPresent ==
  ASSUME TransactionInv, NEW w \in Workers, WorkerStep(w) \/ CrashWorker(w)
  PROVE  /\ Present' = Present
         /\ InBatch(w)'
         /\ \A v \in Workers \ {w} : worker'[v] = worker[v]
<1> DEFINE i == worker[w].item
<1> worker[w] \in WorkerState /\ worker \in [Workers -> WorkerState]
  BY DEF TransactionInv, OutboxInv, TypeOK
<1> InBatch(w)
  BY DEF TransactionInv
<1>1. CASE Poll(w)
  <2>1. PICK batch \in SUBSET Pollable :
          Proceed(w, [IdleWorker EXCEPT !.seen =
            [j \in Rows |-> IF j \in batch THEN attempts[j] ELSE 0]], batch)
    BY <1>1 DEF Poll
  <2>2. [j \in Rows |-> IF j \in batch THEN attempts[j] ELSE 0] \in [Rows -> Nat]
    BY DEF TransactionInv, OutboxInv, TypeOK
  <2>3. [IdleWorker EXCEPT !.seen = [j \in Rows |-> IF j \in batch
                                     THEN attempts[j] ELSE 0]] \in WorkerState
    BY <2>2 DEF IdleWorker, WorkerState
  <2>4. batch \subseteq Present /\ batch \in SUBSET Rows
    BY DEF Pollable, Present
  <2>5. Present' = Present
    BY <1>1 DEF Poll, table, Present
  <2>6. QED
    BY <2>1, <2>3, <2>4, <2>5, ProceedStaysInBatch DEF InBatch
<1>2. CASE MarkDelivering(w)
  <2>1. /\ status' = [status EXCEPT ![i] = "DELIVERING"]
        /\ worker' = [worker EXCEPT ![w] = [worker[w] EXCEPT !.pc = "lookup"]]
        /\ worker[w].pc = "mark"
    BY <1>2 DEF MarkDelivering, SetWorker
  <2>2. i \in Present /\ worker[w].batch \subseteq Present
    BY <2>1 DEF InBatch
  <2>3. Present' = Present
    BY <2>1, <2>2 DEF TransactionInv, OutboxInv, TypeOK, Present
  <2>4. worker'[w].item = i /\ worker'[w].batch = worker[w].batch
    BY <2>1 DEF WorkerState
  <2>5. QED
    BY <2>1, <2>2, <2>3, <2>4 DEF InBatch
<1>3. CASE LookupSubscription(w) \/ WorkerPost(w) \/ WorkerLog(w)
  <2>1. worker[w].pc # "idle" /\ UNCHANGED status
    BY <1>3 DEF LookupSubscription, WorkerPost, WorkerLog, table
  <2>2. Present' = Present
    BY <2>1 DEF Present
  <2>3. /\ worker'[w].item = i /\ worker'[w].batch = worker[w].batch
        /\ \A v \in Workers \ {w} : worker'[v] = worker[v]
    BY <1>3, SendMoves
  <2>4. QED
    BY <2>1, <2>2, <2>3 DEF InBatch
<1>4. CASE SettleDelivered(w) \/ SettleExhausted(w) \/ SettleRetry(w)
  <2>1. worker[w].pc # "idle" /\ NextItem(w)
        /\ \E s \in {"DELIVERED", "FAILED", "PENDING"} : status' = [status EXCEPT ![i] = s]
    BY <1>4 DEF SettleDelivered, SettleExhausted, SettleRetry
  <2>2. i \in Present /\ worker[w].batch \subseteq Present
    BY <2>1 DEF InBatch
  <2>3. Present' = Present
    BY <2>1, <2>2 DEF TransactionInv, OutboxInv, TypeOK, Present
  <2>4. worker[w].batch \ {i} \in SUBSET Rows
    BY DEF WorkerState
  <2>5. /\ worker'[w].pc # "idle" =>
             /\ worker'[w].item \in worker[w].batch \ {i}
             /\ worker'[w].batch = worker[w].batch \ {i}
        /\ \A v \in Workers \ {w} : worker'[v] = worker[v]
    BY <2>1, <2>4, ProceedStaysInBatch DEF NextItem
  <2>6. QED
    BY <2>2, <2>3, <2>5 DEF InBatch
<1>5. CASE CrashWorker(w)
  <2>1. worker' = [worker EXCEPT ![w] = IdleWorker] /\ UNCHANGED status
    BY <1>5 DEF CrashWorker, SetWorker, table
  <2>2. QED
    BY <2>1 DEF IdleWorker, Present, InBatch
<1>6. QED
  BY <1>1, <1>2, <1>3, <1>4, <1>5 DEF WorkerStep

\* Steps outside the request keep its transaction whole.
LEMMA OthersKeepTransactions ==
  ASSUME TransactionInv, OutboxInv', Present' = Present, UNCHANGED <<versioned, track>>,
         \A w \in Workers : InBatch(w)'
  PROVE  TransactionInv'
BY DEF TransactionInv, Transaction

\* A worker touches neither the requests nor what they have versioned.
LEMMA WorkerLeavesTracks ==
  ASSUME NEW w \in Workers, WorkerStep(w)
  PROVE  UNCHANGED <<versioned, track>>
<1>1. CASE Poll(w) \/ MarkDelivering(w)
  BY <1>1 DEF Poll, MarkDelivering
<1>2. CASE LookupSubscription(w) \/ WorkerPost(w) \/ WorkerLog(w)
  BY <1>2 DEF LookupSubscription, WorkerPost, WorkerLog
<1>3. CASE SettleDelivered(w) \/ SettleExhausted(w) \/ SettleRetry(w)
  BY <1>3 DEF SettleDelivered, SettleExhausted, SettleRetry
<1>4. QED
  BY <1>1, <1>2, <1>3 DEF WorkerStep

\* The inductive invariant without inline delivery: how far a request has come
\* tells which of its rows are there.
THEOREM TransactionInvariance == ~Inline => (Spec => []TransactionInv)
<1> SUFFICES ASSUME ~Inline PROVE Spec => []TransactionInv
  OBVIOUS
<1>1. Init => TransactionInv
  <2> SUFFICES ASSUME Init PROVE TransactionInv
    OBVIOUS
  <2>1. /\ IdleTrack.pc = "idle" /\ IdleTrack.affected = {} /\ IdleTrack.inserted = {}
        /\ IdleTrack.wrote.row = None
    BY DEF IdleTrack, NoWrite
  <2>2. Present = {} /\ versioned = {}
    BY DEF Init, Present
  <2>3. \A q \in Tracks : Transaction(q)
    BY <2>1, <2>2 DEF Init, Transaction
  <2>4. \A w \in Workers : InBatch(w)
    BY DEF Init, IdleWorker, InBatch
  <2>5. QED
    BY <2>3, <2>4, InitOutbox DEF TransactionInv
<1>2. TransactionInv /\ OutboxInv' /\ [Next]_vars => TransactionInv'
  <2> SUFFICES ASSUME TransactionInv, OutboxInv', [Next]_vars PROVE TransactionInv'
    OBVIOUS
  <2>1. ASSUME NEW q \in Tracks, Detect(q) \/ TrackStep(q) \/ CrashTrack(q)
        PROVE  TransactionInv'
    BY <2>1, TrackKeepsTransactions
  <2>2. ASSUME NEW w \in Workers, WorkerStep(w) \/ CrashWorker(w)
        PROVE  TransactionInv'
    <3>1. /\ Present' = Present /\ InBatch(w)'
          /\ \A v \in Workers \ {w} : worker'[v] = worker[v]
      BY <2>2, WorkerKeepsPresent
    <3>2. UNCHANGED <<versioned, track>>
      <4>1. CASE WorkerStep(w)
        BY <4>1, WorkerLeavesTracks
      <4>2. CASE CrashWorker(w)
        BY <4>2 DEF CrashWorker
      <4>3. QED
        BY <2>2, <4>1, <4>2
    <3>3. \A v \in Workers : InBatch(v)'
      BY <3>1 DEF TransactionInv, InBatch
    <3>4. QED
      BY <3>1, <3>2, <3>3, OthersKeepTransactions
  <2>3. ASSUME \/ \E r \in Replays : OpenReplay(r) \/ ReplayPost(r) \/ ReplayLog(r)
                                       \/ CrashReplay(r)
               \/ \E i \in Rows : Tick(i) \/ Toggle(i)
               \/ UNCHANGED vars
        PROVE  TransactionInv'
    <3>1. UNCHANGED <<status, versioned, track, worker>>
      <4>1. ASSUME NEW r \in Replays, OpenReplay(r) \/ ReplayPost(r) \/ ReplayLog(r)
            PROVE  UNCHANGED <<status, versioned, track, worker>>
        BY <4>1 DEF OpenReplay, ReplayPost, ReplayLog, table
      <4>2. ASSUME NEW r \in Replays, CrashReplay(r)
            PROVE  UNCHANGED <<status, versioned, track, worker>>
        BY <4>2 DEF CrashReplay, table
      <4>3. ASSUME NEW i \in Rows, Tick(i) \/ Toggle(i)
            PROVE  UNCHANGED <<status, versioned, track, worker>>
        BY <4>3 DEF Tick, Toggle, table
      <4>4. CASE UNCHANGED vars
        BY <4>4 DEF vars, table
      <4>5. QED
        BY <2>3, <4>1, <4>2, <4>3, <4>4
    <3>2. Present' = Present
      BY <3>1 DEF Present
    <3>3. \A w \in Workers : InBatch(w)'
      BY <3>1, <3>2 DEF TransactionInv, InBatch
    <3>4. QED
      BY <3>1, <3>2, <3>3, OthersKeepTransactions
  <2>4. QED
    BY <2>1, <2>2, <2>3 DEF Next
<1>3. QED
  BY OutboxInvariance, <1>1, <1>2, PTL DEF Spec

\* With INLINE_WEBHOOK_DELIVERY off, the version and the outbox rows of all the
\* subscriptions it affects are committed together, for any number of requests
\* and workers and through crashes anywhere.
THEOREM OutboxTransactional == ~Inline => (Spec => []OutboxIsTransactional)
<1> SUFFICES ASSUME ~Inline PROVE Spec => []OutboxIsTransactional
  OBVIOUS
<1>1. TransactionInv => OutboxIsTransactional
  <2> SUFFICES ASSUME TransactionInv, NEW q \in Tracks
      PROVE  {i \in RowsOf[q] : status[i] # "ABSENT"} =
               IF q \in versioned THEN track[q].affected ELSE {}
    BY DEF OutboxIsTransactional
  <2>1. {i \in RowsOf[q] : status[i] # "ABSENT"} = Present \cap RowsOf[q]
    BY RowsOfAssumption DEF Present
  <2>2. QED
    BY <2>1 DEF TransactionInv, Transaction
<1>2. QED
  BY TransactionInvariance, <1>1, PTL

-----------------------------------------------------------------------------
(* What is sent is counted: one worker process, no inline delivery.        *)

Alone == ~Inline /\ (\A v, w \in Workers : v = w) /\ IsFiniteSet(Replays)

\* What the worker remembers of its batch is still so.
Carries(w) ==
  worker[w].pc # "idle" =>
    /\ worker[w].item \in worker[w].batch
    /\ \A i \in worker[w].batch :
         /\ worker[w].seen[i] = attempts[i]
         /\ status[i] = IF i = worker[w].item /\ worker[w].pc # "mark"
                        THEN "DELIVERING" ELSE "PENDING"

\* A row in DELIVERING that the worker has not sent, or not yet; of another one
\* a send may not be counted yet, and never is if the worker died.
Unsent(i) == \E w \in Workers : worker[w].item = i /\ worker[w].pc \in {"lookup", "post"}
Uncounted(i) == IF status[i] = "DELIVERING" /\ ~Unsent(i) THEN 1 ELSE 0

Counted(i) ==
  /\ attempts[i] <= MaxAttempts
  /\ status[i] = "ABSENT" => attempts[i] = 0
  /\ status[i] \in {"PENDING", "DELIVERING"} => attempts[i] < MaxAttempts
  /\ receipts[i] <= attempts[i] + Cardinality(Resent(i)) + Uncounted(i)

\* A replay sends only what is in the dead-letter queue.
Reads(r) ==
  /\ replay[r].pc = "idle" => replay[r].item = None
  /\ replay[r].pc = "post" => DlqKey[replay[r].item] \in dlq

CountInv ==
  /\ \A w \in Workers : Carries(w)
  /\ \A i \in Rows : Counted(i)
  /\ \A r \in Replays : Reads(r)

\* What a step must not do to a settled row.
Final ==
  \A i \in Rows : status[i] \in Settled =>
    /\ status'[i] = status[i]
    /\ attempts'[i] = attempts[i]
    /\ receipts'[i] # receipts[i] =>
         \E r \in Replays : r \in Resent(i)' \ Resent(i) /\ DlqKey[i] \in dlq

\* The types that the counting needs.
LEMMA CountTypes ==
  ASSUME TransactionInv, IsFiniteSet(Replays), NEW i \in Rows
  PROVE  /\ attempts[i] \in Nat /\ receipts[i] \in Nat /\ MaxAttempts \in Nat \ {0}
         /\ IsFiniteSet(Resent(i)) /\ Cardinality(Resent(i)) \in Nat
         /\ Uncounted(i) \in {0, 1}
<1>1. IsFiniteSet(Resent(i))
  <2>1. Resent(i) \subseteq Replays
    BY DEF Resent
  <2>2. QED
    BY <2>1, FS_Subset
<1>2. Cardinality(Resent(i)) \in Nat
  BY <1>1, FS_CardinalityType
<1>3. attempts[i] \in Nat /\ receipts[i] \in Nat /\ MaxAttempts \in Nat \ {0}
  BY BoundsAssumption DEF TransactionInv, OutboxInv, TypeOK
<1>4. QED
  BY <1>1, <1>2, <1>3 DEF Uncounted

\* Steps that neither write rows nor send.
LEMMA StillKeepsCount ==
  ASSUME CountInv, dlq \subseteq dlq',
         UNCHANGED <<status, attempts, receipts, worker, replay>>
  PROVE  CountInv' /\ Final
<1>1. \A i \in Rows : Resent(i)' = Resent(i) /\ Uncounted(i)' = Uncounted(i)
  BY DEF Resent, Uncounted, Unsent
<1>2. \A i \in Rows : Counted(i)'
  BY <1>1 DEF CountInv, Counted
<1>3. \A w \in Workers : Carries(w)'
  BY DEF CountInv, Carries
<1>4. \A r \in Replays : Reads(r)'
  BY DEF CountInv, Reads
<1>5. QED
  BY <1>2, <1>3, <1>4 DEF CountInv, Final

\* The commit of a request inserts rows that nobody has sent.
LEMMA FinishKeepsCount ==
  ASSUME Alone, TransactionInv, CountInv, NEW q \in Tracks, FinishTrack(q)
  PROVE  CountInv' /\ Final
<1>1. /\ CommitTrack(q) /\ track[q].pc = "enqueue" /\ Transaction(q)
      /\ UNCHANGED <<receipts, worker, replay, dlq>>
  BY DEF FinishTrack, TransactionInv
<1>2. track[q].inserted \subseteq Rows /\ \A i \in Rows : i # track[q].wrote.row
  BY <1>1, NoneAssumption
    DEF TransactionInv, OutboxInv, TypeOK, TrackState, Transaction
<1>3. \A i \in Rows :
        /\ status'[i] = IF i \in track[q].inserted THEN "PENDING" ELSE status[i]
        /\ attempts'[i] = attempts[i]
  BY <1>1, <1>2 DEF CommitTrack
<1>4. \A i \in track[q].inserted : status[i] = "ABSENT"
  BY <1>1, <1>2 DEF Transaction, Present
<1>5. \A i \in Rows : Resent(i)' = Resent(i) /\ Uncounted(i)' = Uncounted(i)
  BY <1>1, <1>3, <1>4 DEF Resent, Uncounted, Unsent
<1>6. \A i \in Rows : Counted(i)'
  BY <1>1, <1>3, <1>4, <1>5, BoundsAssumption DEF CountInv, Counted
<1>7. ASSUME NEW w \in Workers PROVE Carries(w)'
  <2>1. Carries(w) /\ worker[w].batch \subseteq Rows
    BY DEF CountInv, TransactionInv, OutboxInv, TypeOK, WorkerState
  <2>2. QED
    BY <1>1, <1>3, <1>4, <2>1 DEF Carries
<1>8. \A r \in Replays : Reads(r)'
  BY <1>1 DEF CountInv, Reads
<1>9. Final
  BY <1>1, <1>3, <1>4 DEF Final, Settled
<1>10. QED
  BY <1>6, <1>7, <1>8, <1>9 DEF CountInv

\* A request adds rows, and neither posts nor settles one that was there.
LEMMA TrackKeepsCount ==
  ASSUME Alone, TransactionInv, CountInv, NEW q \in Tracks,
         Detect(q) \/ TrackStep(q) \/ CrashTrack(q)
  PROVE  CountInv' /\ Final
<1>1. Transaction(q)
  BY DEF TransactionInv
<1>2. CASE FinishTrack(q)
  BY <1>2, FinishKeepsCount
<1>3. CASE Detect(q) \/ InsertRow(q) \/ CrashTrack(q)
  BY <1>3, StillKeepsCount DEF Detect, InsertRow, CrashTrack, table
<1>4. QED
  BY <1>1, <1>2, <1>3
    DEF Alone, TrackStep, InlinePost, InlineLog, InlineSettle, Transaction

\* A send is received at most once, by the consumer of the row.
LEMMA PostCountsOnce ==
  ASSUME TypeOK, NEW i \in Rows, NEW ok \in BOOLEAN, Post(i, ok)
  PROVE  /\ \A j \in Rows \ {i} : receipts'[j] = receipts[j]
         /\ receipts'[i] \in Nat /\ receipts'[i] <= receipts[i] + 1
<1> receipts \in [Rows -> Nat] /\ MaxReceipts \in Nat
  BY BoundsAssumption DEF TypeOK
<1>1. \/ receipts' = receipts
      \/ receipts' = [receipts EXCEPT ![i] = receipts[i] + 1]
  BY DEF Post
<1>2. CASE receipts' = receipts
  BY <1>2
<1>3. CASE receipts' = [receipts EXCEPT ![i] = receipts[i] + 1]
  BY <1>3
<1>4. QED
  BY <1>1, <1>2, <1>3

\* With one worker, what is not sent is what it is about to send.
LEMMA UnsentIsItsOwn ==
  ASSUME Alone, NEW w \in Workers, NEW i \in Rows
  PROVE  /\ Unsent(i) <=> worker[w].item = i /\ worker[w].pc \in {"lookup", "post"}
         /\ Unsent(i)' <=> worker'[w].item = i /\ worker'[w].pc \in {"lookup", "post"}
BY DEF Alone, Unsent

\* A worker that begins with a row, or with none, knows the rest of its batch.
LEMMA ProceedCarries ==
  ASSUME NEW w \in Workers, worker \in [Workers -> WorkerState],
         NEW r \in WorkerState, NEW rest \in SUBSET Rows, Proceed(w, r, rest),
         \A i \in rest : status'[i] = "PENDING" /\ r.seen[i] = attempts'[i]
  PROVE  Carries(w)' /\ worker'[w].pc \in {"idle", "mark"}
<1>1. CASE rest = {}
  BY <1>1 DEF Proceed, SetWorker, IdleWorker, Carries
<1>2. CASE rest # {}
  <2>1. PICK i \in rest :
          worker' = [worker EXCEPT ![w] = [r EXCEPT !.pc = "mark", !.item = i,
                                                    !.batch = rest]]
    BY <1>2 DEF Proceed, SetWorker
  <2>2. /\ worker'[w].item = i /\ worker'[w].batch = rest /\ worker'[w].pc = "mark"
        /\ worker'[w].seen = r.seen
    BY <2>1 DEF WorkerState
  <2>3. QED
    BY <2>2 DEF Carries
<1>3. QED
  BY <1>1, <1>2

\* What a step of the worker has to keep.
LEMMA WorkerCounts ==
  ASSUME Alone, CountInv, NEW w \in Workers, dlq \subseteq dlq', UNCHANGED replay,
         Carries(w)', \A i \in Rows : Counted(i)',
         \A i \in Rows : status[i] \in Settled =>
           status'[i] = status[i] /\ attempts'[i] = attempts[i] /\ receipts'[i] = receipts[i]
  PROVE  CountInv' /\ Final
<1>1. \A v \in Workers : Carries(v)'
  BY DEF Alone
<1>2. \A r \in Replays : Reads(r)'
  BY DEF CountInv, Reads
<1>3. QED
  BY <1>1, <1>2 DEF CountInv, Final

\* A poll only reads.
LEMMA PollKeepsCount ==
  ASSUME Alone, TransactionInv, CountInv, NEW w \in Workers, Poll(w)
  PROVE  CountInv' /\ Final
<1> worker \in [Workers -> WorkerState] /\ attempts \in [Rows -> Nat]
  BY DEF TransactionInv, OutboxInv, TypeOK
<1>1. PICK batch \in SUBSET Pollable :
        Proceed(w, [IdleWorker EXCEPT !.seen =
          [j \in Rows |-> IF j \in batch THEN attempts[j] ELSE 0]], batch)
  BY DEF Poll
<1>2. /\ UNCHANGED <<status, attempts, dlq, receipts, replay>> /\ worker[w].pc = "idle"
  BY DEF Poll, table
<1> DEFINE seen == [j \in Rows |-> IF j \in batch THEN attempts[j] ELSE 0]
<1> DEFINE r == [IdleWorker EXCEPT !.seen = seen]
<1>3. r \in WorkerState /\ r.seen = seen
  BY DEF IdleWorker, WorkerState
<1>4. batch \in SUBSET Rows /\ \A i \in batch : status'[i] = "PENDING"
  BY <1>2 DEF Pollable
<1>5. \A i \in batch : r.seen[i] = attempts'[i]
  BY <1>2, <1>3, <1>4
<1>6. Carries(w)' /\ worker'[w].pc \in {"idle", "mark"}
  <2>1. Proceed(w, r, batch)
    BY <1>1
  <2> HIDE DEF r
  <2>2. QED
    BY <1>3, <1>4, <1>5, <2>1, ProceedCarries
<1>7. \A i \in Rows : ~Unsent(i) /\ ~Unsent(i)'
  BY <1>2, <1>6, UnsentIsItsOwn
<1>8. \A i \in Rows : Uncounted(i)' = Uncounted(i) /\ Resent(i)' = Resent(i)
  BY <1>2, <1>7 DEF Uncounted, Resent
<1>9. \A i \in Rows : Counted(i)'
  BY <1>2, <1>8 DEF CountInv, Counted
<1>10. QED
  BY <1>2, <1>6, <1>9, WorkerCounts

\* What a worker knows of the row in its hands.
LEMMA ItemOfWorker ==
  ASSUME TransactionInv, CountInv, NEW w \in Workers, worker[w].pc # "idle"
  PROVE  /\ worker[w] \in WorkerState /\ worker[w].item \in Rows
         /\ worker[w].batch \subseteq Rows
         /\ worker[w].seen[worker[w].item] = attempts[worker[w].item]
         /\ status[worker[w].item] =
              IF worker[w].pc = "mark" THEN "PENDING" ELSE "DELIVERING"
         /\ \A j \in worker[w].batch \ {worker[w].item} :
              status[j] = "PENDING" /\ worker[w].seen[j] = attempts[j]
<1>1. Carries(w)
  BY DEF CountInv
<1>2. worker[w] \in WorkerState /\ worker[w].batch \subseteq Rows
  BY DEF TransactionInv, OutboxInv, TypeOK, WorkerState
<1>3. worker[w].item \in worker[w].batch
  BY <1>1 DEF Carries
<1>4. QED
  BY <1>1, <1>2, <1>3 DEF Carries

\* The row is in DELIVERING and not yet sent.
LEMMA MarkKeepsCount ==
  ASSUME Alone, TransactionInv, CountInv, NEW w \in Workers, MarkDelivering(w)
  PROVE  CountInv' /\ Final
<1> DEFINE i == worker[w].item
<1>1. /\ worker[w].pc = "mark" /\ status' = [status EXCEPT ![i] = "DELIVERING"]
      /\ worker' = [worker EXCEPT ![w] = [worker[w] EXCEPT !.pc = "lookup"]]
      /\ UNCHANGED <<attempts, dlq, receipts, replay>>
  BY DEF MarkDelivering, SetWorker
<1>2. /\ worker \in [Workers -> WorkerState] /\ worker[w] \in WorkerState /\ i \in Rows
      /\ status[i] = "PENDING"
      /\ status \in [Rows -> {"ABSENT", "PENDING", "DELIVERING"} \union Settled]
  BY <1>1, ItemOfWorker DEF TransactionInv, OutboxInv, TypeOK
<1>3. /\ worker'[w].item = i /\ worker'[w].batch = worker[w].batch
      /\ worker'[w].seen = worker[w].seen /\ worker'[w].pc = "lookup"
  BY <1>1, <1>2 DEF WorkerState
<1>4. status'[i] = "DELIVERING" /\ \A j \in Rows \ {i} : status'[j] = status[j]
  BY <1>1, <1>2
<1>5. Carries(w)'
  <2>1. Carries(w) /\ worker[w].batch \subseteq Rows
    BY <1>2 DEF CountInv, WorkerState
  <2>2. QED
    BY <1>1, <1>3, <1>4, <2>1 DEF Carries
<1>6. \A j \in Rows : Uncounted(j)' = Uncounted(j) /\ Resent(j)' = Resent(j)
  <2>1. \A j \in Rows : ~Unsent(j) /\ (Unsent(j)' <=> j = i)
    BY <1>1, <1>3, UnsentIsItsOwn
  <2>2. QED
    BY <1>1, <1>2, <1>4, <2>1 DEF Uncounted, Resent
<1>7. \A j \in Rows : Counted(j)'
  BY <1>1, <1>2, <1>4, <1>6 DEF CountInv, Counted
<1>8. QED
  BY <1>1, <1>2, <1>4, <1>5, <1>7, WorkerCounts DEF Settled

\* The subscription is looked up, the row sent, the attempt recorded: statuses
\* and attempts stay, and a send is at most one more than is counted.
LEMMA SendKeepsCount ==
  ASSUME Alone, TransactionInv, CountInv, NEW w \in Workers,
         LookupSubscription(w) \/ WorkerPost(w) \/ WorkerLog(w)
  PROVE  CountInv' /\ Final
<1>0. PICK i : i = worker[w].item
  OBVIOUS
<1>1. worker[w].pc \in {"lookup", "post", "log"} /\ worker \in [Workers -> WorkerState]
  BY DEF LookupSubscription, WorkerPost, WorkerLog, TransactionInv, OutboxInv, TypeOK
<1>2. /\ worker[w] \in WorkerState /\ i \in Rows /\ status[i] = "DELIVERING"
  BY <1>0, <1>1, ItemOfWorker
<1>3. UNCHANGED <<status, attempts, dlq, replay>>
  BY DEF LookupSubscription, WorkerPost, WorkerLog, table
<1>4. /\ worker'[w].item = i /\ worker'[w].batch = worker[w].batch
      /\ worker'[w].seen = worker[w].seen /\ worker'[w].pc \in {"post", "log", "settle"}
      /\ worker'[w].pc = "post" => worker[w].pc = "lookup"
  BY <1>0, <1>1, SendMoves
<1>5. Carries(w)'
  <2>1. Carries(w)
    BY DEF CountInv
  <2>2. QED
    BY <1>0, <1>1, <1>3, <1>4, <2>1 DEF Carries
<1>6. \A j \in Rows \ {i} : receipts'[j] = receipts[j] /\ Uncounted(j)' = Uncounted(j)
  <2>1. \A j \in Rows \ {i} : receipts'[j] = receipts[j]
    <3>1. CASE WorkerPost(w)
      BY <1>0, <1>2, <3>1, PostCountsOnce DEF WorkerPost, TransactionInv, OutboxInv
    <3>2. CASE LookupSubscription(w) \/ WorkerLog(w)
      BY <3>2 DEF LookupSubscription, WorkerLog
    <3>3. QED
      BY <3>1, <3>2
  <2>2. \A j \in Rows \ {i} : ~Unsent(j) /\ ~Unsent(j)'
    BY <1>0, <1>4, UnsentIsItsOwn
  <2>3. QED
    BY <1>3, <2>1, <2>2 DEF Uncounted
<1>7. receipts'[i] <= receipts[i] + (Uncounted(i)' - Uncounted(i))
  <2>1. /\ Unsent(i) <=> worker[w].pc \in {"lookup", "post"}
        /\ Unsent(i)' <=> worker'[w].pc \in {"lookup", "post"}
    BY <1>0, <1>2, <1>4, UnsentIsItsOwn
  <2>2. /\ Uncounted(i) = IF worker[w].pc \in {"lookup", "post"} THEN 0 ELSE 1
        /\ Uncounted(i)' = IF worker'[w].pc \in {"lookup", "post"} THEN 0 ELSE 1
    BY <1>2, <1>3, <2>1 DEF Uncounted
  <2>3. receipts[i] \in Nat
    BY <1>2, BoundsAssumption DEF TransactionInv, OutboxInv, TypeOK
  <2>4. CASE WorkerPost(w)
    <3>1. worker[w].pc = "post" /\ worker'[w].pc # "post"
      BY <1>4, <2>4 DEF WorkerPost
    <3>2. worker'[w].pc # "lookup"
      BY <1>4
    <3>3. Uncounted(i) = 0 /\ Uncounted(i)' = 1
      BY <2>2, <3>1, <3>2
    <3>4. receipts'[i] \in Nat /\ receipts'[i] <= receipts[i] + 1
      BY <1>0, <1>2, <2>4, PostCountsOnce DEF WorkerPost, TransactionInv, OutboxInv
    <3>5. QED
      BY <2>3, <3>3, <3>4
  <2>5. CASE LookupSubscription(w)
    <3>1. worker[w].pc = "lookup" /\ receipts' = receipts
      BY <2>5 DEF LookupSubscription
    <3>2. QED
      BY <2>2, <2>3, <3>1
  <2>6. CASE WorkerLog(w)
    <3>1. worker[w].pc = "log" /\ receipts' = receipts
      BY <2>6 DEF WorkerLog
    <3>2. worker'[w].pc \notin {"lookup", "post"}
      BY <1>4, <3>1
    <3>3. QED
      BY <2>2, <2>3, <3>1, <3>2
  <2>7. QED
    BY <2>4, <2>5, <2>6
<1>8. ASSUME NEW j \in Rows PROVE Counted(j)'
  <2>1. Counted(j) /\ Resent(j)' = Resent(j)
    BY <1>3 DEF CountInv, Resent
  <2>2. /\ attempts[j] \in Nat /\ receipts[j] \in Nat /\ receipts'[j] \in Int
        /\ Cardinality(Resent(j)) \in Nat /\ Uncounted(j) \in {0, 1}
        /\ Uncounted(j)' \in {0, 1}
    <3>1. receipts'[j] \in Int
      <4>1. CASE j = i /\ WorkerPost(w)
        <5>1. receipts'[i] \in Nat
          BY <4>1, <1>0, <1>2, PostCountsOnce DEF WorkerPost, TransactionInv, OutboxInv
        <5>2. QED
          BY <4>1, <5>1
      <4>2. CASE j # i
        BY <4>2, <1>6, CountTypes DEF Alone
      <4>3. CASE LookupSubscription(w) \/ WorkerLog(w)
        BY <4>3, CountTypes DEF Alone, LookupSubscription, WorkerLog
      <4>4. QED
        BY <4>1, <4>2, <4>3
    <3>2. Uncounted(j)' \in {0, 1}
      BY DEF Uncounted
    <3>3. QED
      BY <3>1, <3>2, CountTypes DEF Alone
  <2>3. receipts'[j] <= receipts[j] + (Uncounted(j)' - Uncounted(j))
    <3>1. CASE j = i
      BY <3>1, <1>7
    <3>2. CASE j # i
      <4>1. receipts'[j] = receipts[j] /\ Uncounted(j)' = Uncounted(j)
        BY <3>2, <1>6
      <4>2. QED
        BY <4>1, <2>2
    <3>3. QED
      BY <3>1, <3>2
  <2>4. receipts'[j] <= attempts[j] + Cardinality(Resent(j)) + Uncounted(j)'
    BY <2>1, <2>2, <2>3 DEF Counted
  <2>5. QED
    BY <1>3, <2>1, <2>4 DEF Counted
<1>9. \A j \in Rows : status[j] \in Settled => receipts'[j] = receipts[j]
  BY <1>2, <1>6 DEF Settled
<1>10. QED
  BY <1>3, <1>5, <1>8, <1>9, WorkerCounts

\* A settled row has one more attempt, and the send is counted.
LEMMA SettleKeepsCount ==
  ASSUME Alone, TransactionInv, CountInv, NEW w \in Workers,
         SettleDelivered(w) \/ SettleExhausted(w) \/ SettleRetry(w)
  PROVE  CountInv' /\ Final
<1>0. PICK i : i = worker[w].item
  OBVIOUS
<1>1. /\ worker[w].pc = "settle" /\ worker \in [Workers -> WorkerState]
      /\ NextItem(w) /\ dlq \subseteq dlq' /\ UNCHANGED <<receipts, replay>>
  BY DEF SettleDelivered, SettleExhausted, SettleRetry, TransactionInv, OutboxInv,
    TypeOK, WithDeadLetter
<1>2. /\ worker[w] \in WorkerState /\ i \in Rows /\ worker[w].batch \subseteq Rows
      /\ worker[w].seen[i] = attempts[i] /\ status[i] = "DELIVERING"
      /\ \A j \in worker[w].batch \ {i} :
           status[j] = "PENDING" /\ worker[w].seen[j] = attempts[j]
  BY <1>0, <1>1, ItemOfWorker
<1>3. /\ status \in [Rows -> {"ABSENT", "PENDING", "DELIVERING"} \union Settled]
      /\ attempts \in [Rows -> Nat] /\ attempts[i] \in Nat /\ MaxAttempts \in Nat
      /\ attempts[i] < MaxAttempts
  BY <1>2, BoundsAssumption DEF TransactionInv, OutboxInv, TypeOK, CountInv, Counted
<1>4. attempts' = [attempts EXCEPT ![i] = attempts[i] + 1]
  BY <1>0, <1>2 DEF SettleDelivered, SettleExhausted, SettleRetry, NextAttempt
<1>5. \E s \in {"DELIVERED", "FAILED", "PENDING"} :
        /\ status' = [status EXCEPT ![i] = s]
        /\ s = "PENDING" => attempts[i] + 1 < MaxAttempts
  BY <1>0, <1>2 DEF SettleDelivered, SettleExhausted, SettleRetry, NextAttempt
<1>6. /\ attempts'[i] = attempts[i] + 1
      /\ status'[i] \in {"DELIVERED", "FAILED", "PENDING"}
      /\ status'[i] = "PENDING" => attempts[i] + 1 < MaxAttempts
      /\ \A j \in Rows \ {i} : status'[j] = status[j] /\ attempts'[j] = attempts[j]
  BY <1>2, <1>3, <1>4, <1>5
<1>7. Carries(w)' /\ worker'[w].pc \in {"idle", "mark"}
  <2>1. worker[w].batch \ {i} \in SUBSET Rows
    BY <1>2
  <2>2. \A j \in worker[w].batch \ {i} :
          status'[j] = "PENDING" /\ worker[w].seen[j] = attempts'[j]
    BY <1>2, <1>6
  <2>3. Proceed(w, worker[w], worker[w].batch \ {i})
    BY <1>0, <1>1 DEF NextItem
  <2>4. QED
    BY <1>1, <1>2, <2>1, <2>2, <2>3, ProceedCarries
<1>8. \A j \in Rows : ~Unsent(j) /\ ~Unsent(j)' /\ Resent(j)' = Resent(j)
  BY <1>1, <1>7, UnsentIsItsOwn DEF Resent
<1>9. ASSUME NEW j \in Rows PROVE Counted(j)'
  <2>1. Counted(j)
    BY DEF CountInv
  <2>2. CASE j # i
    <3>1. Uncounted(j)' = Uncounted(j)
      BY <2>2, <1>6, <1>8 DEF Uncounted
    <3>2. QED
      BY <2>1, <2>2, <3>1, <1>1, <1>6, <1>8 DEF Counted
  <2>3. CASE j = i
    <3>1. Uncounted(i) = 1 /\ Uncounted(i)' = 0
      BY <1>2, <1>6, <1>8 DEF Uncounted
    <3>2. receipts[i] \in Nat /\ Cardinality(Resent(i)) \in Nat
      BY <1>2, CountTypes DEF Alone
    <3>3. receipts'[i] <= attempts'[i] + Cardinality(Resent(i)') + Uncounted(i)'
      BY <2>1, <2>3, <3>1, <3>2, <1>1, <1>3, <1>6, <1>8 DEF Counted
    <3>4. attempts'[i] <= MaxAttempts
      BY <1>3, <1>6
    <3>5. status'[i] \in {"PENDING", "DELIVERING"} => attempts'[i] < MaxAttempts
      BY <1>6
    <3>6. QED
      BY <2>3, <3>3, <3>4, <3>5, <1>6 DEF Counted
  <2>4. QED
    BY <2>2, <2>3
<1>10. \A j \in Rows : status[j] \in Settled =>
         status'[j] = status[j] /\ attempts'[j] = attempts[j] /\ receipts'[j] = receipts[j]
  BY <1>1, <1>2, <1>6 DEF Settled
<1>11. QED
  BY <1>1, <1>7, <1>9, <1>10, WorkerCounts

\* A worker that dies leaves a row in DELIVERING, where nobody sends it again.
LEMMA CrashKeepsCount ==
  ASSUME Alone, TransactionInv, CountInv, NEW w \in Workers, CrashWorker(w)
  PROVE  CountInv' /\ Final
<1>1. /\ UNCHANGED <<status, attempts, dlq, receipts, replay>>
      /\ worker' = [worker EXCEPT ![w] = IdleWorker]
  BY DEF CrashWorker, SetWorker, table
<1>2. worker'[w].pc = "idle"
  BY <1>1 DEF IdleWorker, TransactionInv, OutboxInv, TypeOK
<1>3. Carries(w)'
  BY <1>2 DEF Carries
<1>4. ASSUME NEW j \in Rows PROVE Counted(j)'
  <2>1. Counted(j) /\ ~Unsent(j)' /\ Resent(j)' = Resent(j)
    BY <1>1, <1>2, UnsentIsItsOwn DEF CountInv, Resent
  <2>2. Uncounted(j)' \in {0, 1} /\ Uncounted(j) <= Uncounted(j)'
    BY <1>1, <2>1 DEF Uncounted
  <2>3. /\ attempts[j] \in Nat /\ receipts[j] \in Nat
        /\ Cardinality(Resent(j)) \in Nat /\ Uncounted(j) \in {0, 1}
    BY CountTypes DEF Alone
  <2>4. receipts[j] <= attempts[j] + Cardinality(Resent(j)) + Uncounted(j)'
    BY <2>1, <2>2, <2>3 DEF Counted
  <2>5. QED
    BY <1>1, <2>1, <2>4 DEF Counted
<1>5. QED
  BY <1>1, <1>3, <1>4, WorkerCounts

\* A send of a replay is counted by the replay, and nothing else is sent.
LEMMA ReplayPostCounts ==
  ASSUME Alone, TransactionInv, CountInv, NEW r \in Replays, ReplayPost(r),
         NEW i \in Rows, i = replay[r].item
  PROVE  /\ \A j \in Rows \ {i} : receipts'[j] = receipts[j] /\ Resent(j)' = Resent(j)
         /\ r \in Resent(i)' \ Resent(i)
         /\ receipts'[i] \in Nat /\ receipts'[i] <= receipts[i] + 1
         /\ Cardinality(Resent(i)') = Cardinality(Resent(i)) + 1
<1>1. replay \in [Replays -> ReplayState] /\ replay[r].pc = "post"
  BY DEF TransactionInv, OutboxInv, TypeOK, ReplayPost
<1>2. PICK ok \in BOOLEAN :
        /\ Post(i, ok)
        /\ replay' = [replay EXCEPT ![r] = [replay[r] EXCEPT !.pc = "log", !.ok = ok]]
  BY DEF ReplayPost, SetReplay
<1>3. /\ replay'[r].item = i /\ replay'[r].pc = "log"
      /\ \A s \in Replays \ {r} : replay'[s] = replay[s]
  BY <1>1, <1>2 DEF ReplayState
<1>4. /\ \A j \in Rows \ {i} : receipts'[j] = receipts[j]
      /\ receipts'[i] \in Nat /\ receipts'[i] <= receipts[i] + 1
  BY <1>2, PostCountsOnce DEF TransactionInv, OutboxInv
<1>5. r \notin Resent(i) /\ Resent(i)' = Resent(i) \union {r}
  BY <1>1, <1>3 DEF Resent
<1>6. Cardinality(Resent(i)') = Cardinality(Resent(i)) + 1
  <2>1. IsFiniteSet(Resent(i))
    BY CountTypes DEF Alone
  <2>2. QED
    BY <1>5, <2>1, FS_AddElement
<1>7. \A j \in Rows \ {i} : Resent(j)' = Resent(j)
  BY <1>1, <1>3 DEF Resent
<1>8. QED
  BY <1>4, <1>5, <1>6, <1>7

\* Where each step takes a replay.
LEMMA ReplayMoves ==
  ASSUME TypeOK, NEW r \in Replays
  PROVE  /\ ReplayPost(r) => replay'[r].pc = "log"
         /\ ReplayLog(r) \/ CrashReplay(r) =>
              /\ replay[r].pc = "log" /\ replay'[r].pc = "done"
              /\ replay'[r].item = replay[r].item
         /\ OpenReplay(r) =>
              /\ replay[r].pc = "idle"
              /\ \/ replay'[r].pc = "post" /\ DlqKey[replay'[r].item] \in dlq
                 \/ replay'[r].pc = "done" /\ replay'[r].item = replay[r].item
<1>1. replay \in [Replays -> ReplayState] /\ replay[r] \in ReplayState
  BY DEF TypeOK
<1>2. ASSUME ReplayPost(r) PROVE replay'[r].pc = "log"
  <2>1. PICK ok \in BOOLEAN :
          replay' = [replay EXCEPT ![r] = [replay[r] EXCEPT !.pc = "log", !.ok = ok]]
    BY <1>2 DEF ReplayPost, SetReplay
  <2>2. QED
    BY <1>1, <2>1 DEF ReplayState
<1>3. ASSUME ReplayLog(r) \/ CrashReplay(r)
      PROVE  /\ replay[r].pc = "log" /\ replay'[r].pc = "done"
             /\ replay'[r].item = replay[r].item
  <2>1. CASE ReplayLog(r)
    <3>1. replay' = [replay EXCEPT ![r] = [replay[r] EXCEPT !.pc = "done"]]
      BY <2>1 DEF ReplayLog, SetReplay
    <3>2. QED
      BY <1>1, <2>1, <3>1 DEF ReplayLog, ReplayState
  <2>2. CASE CrashReplay(r)
    <3>1. replay' = [replay EXCEPT ![r] = [replay[r] EXCEPT !.pc = "done", !.ok = FALSE]]
      BY <2>2 DEF CrashReplay, SetReplay
    <3>2. QED
      BY <1>1, <2>2, <3>1 DEF CrashReplay, ReplayState
  <2>3. QED
    BY <1>3, <2>1, <2>2
<1>4. ASSUME OpenReplay(r)
      PROVE  /\ replay[r].pc = "idle"
             /\ \/ replay'[r].pc = "post" /\ DlqKey[replay'[r].item] \in dlq
                \/ replay'[r].pc = "done" /\ replay'[r].item = replay[r].item
  <2>1. PICK i \in Rows :
          /\ DlqKey[i] \in dlq
          /\ SetReplay(r, IF active[i] THEN [replay[r] EXCEPT !.pc = "post", !.item = i]
                          ELSE [replay[r] EXCEPT !.pc = "done"])
    BY <1>4 DEF OpenReplay
  <2>2. CASE active[i]
    <3>1. replay'[r] = [replay[r] EXCEPT !.pc = "post", !.item = i]
      BY <1>1, <2>1, <2>2 DEF SetReplay
    <3>2. QED
      BY <1>1, <1>4, <2>1, <3>1 DEF OpenReplay, ReplayState
  <2>3. CASE ~active[i]
    <3>1. replay'[r] = [replay[r] EXCEPT !.pc = "done"]
      BY <1>1, <2>1, <2>3 DEF SetReplay
    <3>2. QED
      BY <1>1, <1>4, <3>1 DEF OpenReplay, ReplayState
  <2>4. QED
    BY <2>2, <2>3
<1>5. QED
  BY <1>2, <1>3, <1>4

\* A replay sends a dead letter once.
LEMMA ReplayKeepsCount ==
  ASSUME Alone, TransactionInv, CountInv, NEW r \in Replays,
         OpenReplay(r) \/ ReplayPost(r) \/ ReplayLog(r) \/ CrashReplay(r)
  PROVE  CountInv' /\ Final
<1>1. /\ replay \in [Replays -> ReplayState] /\ replay[r] \in ReplayState
      /\ Reads(r) /\ dlq \subseteq DlqKeys
  BY DEF TransactionInv, OutboxInv, TypeOK, CountInv
<1>2. UNCHANGED <<status, attempts, dlq, worker>>
  BY DEF OpenReplay, ReplayPost, ReplayLog, CrashReplay, table
<1>3. \A s \in Replays \ {r} : replay'[s] = replay[s]
  BY <1>1 DEF OpenReplay, ReplayPost, ReplayLog, CrashReplay, SetReplay
<1>4. \A w \in Workers : Carries(w)'
  BY <1>2 DEF CountInv, Carries
<1>5. \A j \in Rows : Uncounted(j)' = Uncounted(j)
  BY <1>2 DEF Uncounted, Unsent
<1>6. \A s \in Replays \ {r} : Reads(s)'
  BY <1>2, <1>3 DEF CountInv, Reads
<1>7. CASE ReplayPost(r)
  <2>1. PICK i \in Rows : i = replay[r].item
    BY <1>7 DEF TransactionInv, OutboxInv, ReplayClaims, ReplayPost
  <2>2. /\ \A j \in Rows \ {i} : receipts'[j] = receipts[j] /\ Resent(j)' = Resent(j)
        /\ r \in Resent(i)' \ Resent(i)
        /\ receipts'[i] \in Nat /\ receipts'[i] <= receipts[i] + 1
        /\ Cardinality(Resent(i)') = Cardinality(Resent(i)) + 1
    BY <1>7, <2>1, ReplayPostCounts
  <2>3. DlqKey[i] \in dlq
    BY <1>1, <1>7, <2>1 DEF Reads, ReplayPost
  <2>4. replay'[r].pc = "log"
    BY <1>7, ReplayMoves DEF TransactionInv, OutboxInv
  <2>5. Reads(r)'
    BY <2>4 DEF Reads
  <2>6. ASSUME NEW j \in Rows PROVE Counted(j)'
    <3>1. Counted(j)
      BY DEF CountInv
    <3>2. CASE j # i
      BY <1>2, <1>5, <2>2, <3>1, <3>2 DEF Counted
    <3>3. CASE j = i
      <4>1. /\ attempts[i] \in Nat /\ receipts[i] \in Nat
            /\ Cardinality(Resent(i)) \in Nat /\ Uncounted(i) \in {0, 1}
        BY CountTypes DEF Alone
      <4>2. receipts[i] <= attempts[i] + Cardinality(Resent(i)) + Uncounted(i)
        BY <3>1, <3>3 DEF Counted
      <4>3. receipts'[i] <= attempts[i] + Cardinality(Resent(i)') + Uncounted(i)
        BY <2>2, <4>1, <4>2
      <4>4. QED
        BY <1>2, <1>5, <3>1, <3>3, <4>3 DEF Counted
    <3>4. QED
      BY <3>2, <3>3
  <2>7. Final
    BY <1>2, <2>2, <2>3 DEF Final
  <2>8. QED
    BY <1>4, <1>6, <2>5, <2>6, <2>7 DEF CountInv
<1>8. CASE OpenReplay(r) \/ ReplayLog(r) \/ CrashReplay(r)
  <2>1. UNCHANGED receipts
    BY <1>8 DEF OpenReplay, ReplayLog, CrashReplay
  <2>2. \A j \in Rows : Resent(j)' = Resent(j)
    <3>1. CASE OpenReplay(r)
      <4>1. /\ replay[r].pc = "idle" /\ replay[r].item = None
            /\ replay'[r].pc # "post" => replay'[r].item = None
            /\ replay'[r].pc \in {"post", "done"}
        BY <1>1, <3>1, ReplayMoves DEF TransactionInv, OutboxInv, Reads
      <4>2. \A j \in Rows : j # None
        BY NoneAssumption
      <4>3. QED
        BY <1>3, <4>1, <4>2 DEF Resent
    <3>2. CASE ReplayLog(r) \/ CrashReplay(r)
      <4>1. /\ replay[r].pc = "log" /\ replay'[r].pc = "done"
            /\ replay'[r].item = replay[r].item
        BY <3>2, ReplayMoves DEF TransactionInv, OutboxInv
      <4>2. QED
        BY <1>3, <4>1 DEF Resent
    <3>3. QED
      BY <1>8, <3>1, <3>2
  <2>3. Reads(r)'
    <3>1. CASE OpenReplay(r)
      <4>1. /\ replay'[r].pc \in {"post", "done"}
            /\ replay'[r].pc = "post" => DlqKey[replay'[r].item] \in dlq
        BY <3>1, ReplayMoves DEF TransactionInv, OutboxInv
      <4>2. QED
        BY <1>2, <4>1 DEF Reads
    <3>2. CASE ReplayLog(r) \/ CrashReplay(r)
      <4>1. replay'[r].pc = "done"
        BY <3>2, ReplayMoves DEF TransactionInv, OutboxInv
      <4>2. QED
        BY <4>1 DEF Reads
    <3>3. QED
      BY <1>8, <3>1, <3>2
  <2>4. \A j \in Rows : Counted(j)'
    BY <1>2, <1>5, <2>1, <2>2 DEF CountInv, Counted
  <2>5. Final
    BY <1>2, <2>1 DEF Final
  <2>6. QED
    BY <1>4, <1>6, <2>3, <2>4, <2>5 DEF CountInv
<1>9. QED
  BY <1>7, <1>8

\* Before anything is sent the counts are zero.
LEMMA InitCounts == Alone /\ Init => CountInv
<1> SUFFICES ASSUME Alone, Init PROVE CountInv
  OBVIOUS
<1>1. \A w \in Workers : Carries(w)
  BY DEF Init, Carries, IdleWorker
<1>2. \A r \in Replays : Reads(r)
  BY DEF Init, Reads, IdleReplay
<1>3. ASSUME NEW i \in Rows PROVE Counted(i)
  <2>1. Resent(i) = {}
    BY DEF Init, IdleReplay, Resent
  <2>2. status[i] = "ABSENT" /\ attempts[i] = 0 /\ receipts[i] = 0 /\ Uncounted(i) = 0
    BY DEF Init, Uncounted
  <2>3. Cardinality(Resent(i)) = 0
    BY <2>1, FS_EmptySet
  <2>4. QED
    BY <2>2, <2>3, BoundsAssumption DEF Counted
<1>4. QED
  BY <1>1, <1>2, <1>3 DEF CountInv

\* Every step keeps the count and leaves settled rows alone.
LEMMA StepCounts ==
  ASSUME Alone, TransactionInv, CountInv, [Next]_vars
  PROVE  CountInv' /\ Final
<1>1. ASSUME NEW q \in Tracks, Detect(q) \/ TrackStep(q) \/ CrashTrack(q)
      PROVE  CountInv' /\ Final
  BY <1>1, TrackKeepsCount
<1>2. ASSUME NEW w \in Workers, WorkerStep(w) \/ CrashWorker(w)
      PROVE  CountInv' /\ Final
  BY <1>2, PollKeepsCount, MarkKeepsCount, SendKeepsCount, SettleKeepsCount,
    CrashKeepsCount DEF WorkerStep
<1>3. ASSUME NEW r \in Replays,
             OpenReplay(r) \/ ReplayPost(r) \/ ReplayLog(r) \/ CrashReplay(r)
      PROVE  CountInv' /\ Final
  BY <1>3, ReplayKeepsCount
<1>4. CASE (\E i \in Rows : Tick(i) \/ Toggle(i)) \/ UNCHANGED vars
  BY <1>4, StillKeepsCount DEF Tick, Toggle, vars, table
<1>5. QED
  BY <1>1, <1>2, <1>3, <1>4 DEF Next

\* With one worker process and no inline delivery, a consumer is sent a webhook
\* at most max_attempts times and once more for each replay, however often the
\* worker dies: a send is counted before the next one.
THEOREM PostsCorrect == Alone => (Spec => []PostsAreBounded)
<1> SUFFICES ASSUME Alone PROVE Spec => []PostsAreBounded
  OBVIOUS
<1>1. TransactionInv /\ CountInv /\ [Next]_vars => CountInv'
  BY StepCounts
<1>2. TransactionInv /\ CountInv => PostsAreBounded
  <2> SUFFICES ASSUME TransactionInv, CountInv, NEW i \in Rows
      PROVE  receipts[i] <= MaxAttempts + Cardinality(Resent(i))
    BY DEF PostsAreBounded
  <2>1. Counted(i)
    BY DEF CountInv
  <2>2. /\ attempts[i] \in Nat /\ receipts[i] \in Nat /\ MaxAttempts \in Nat
        /\ Cardinality(Resent(i)) \in Nat /\ Uncounted(i) \in {0, 1}
    BY CountTypes DEF Alone
  <2>3. Uncounted(i) = 1 => status[i] = "DELIVERING"
    BY DEF Uncounted
  <2>4. attempts[i] + Uncounted(i) <= MaxAttempts
    BY <2>1, <2>2, <2>3 DEF Counted
  <2>5. QED
    BY <2>1, <2>2, <2>4 DEF Counted
<1>3. Alone => (Spec => []TransactionInv)
  BY TransactionInvariance DEF Alone
<1>4. QED
  BY InitCounts, <1>1, <1>2, <1>3, PTL DEF Spec

\* In the same setting a settled row is never opened or counted again, and is
\* sent again only by a replay of its dead letter.
THEOREM SettledCorrect == Alone => (Spec => SettledIsFinal)
<1> SUFFICES ASSUME Alone PROVE Spec => SettledIsFinal
  OBVIOUS
<1>1. TransactionInv /\ CountInv /\ [Next]_vars => CountInv' /\ [Final]_vars
  BY StepCounts
<1>2. Alone => (Spec => []TransactionInv)
  BY TransactionInvariance DEF Alone
<1>3. SettledIsFinal <=> [][Final]_vars
  BY DEF SettledIsFinal, Final
<1>4. QED
  BY InitCounts, <1>1, <1>2, <1>3, PTL DEF Spec

-----------------------------------------------------------------------------
(* The outbox keeps the promise of DeliveryPromise, in the same setting.   *)

\* The tables as the promise sees them.
Promised ==
  <<[q \in Tracks |-> track[q].affected], versioned, [i \in Rows |-> NoticeState(i)],
    {i \in Rows : receipts[i] > 0}, dlq>>

\* A step that changes nothing of what the promise speaks about.
LEMMA PromiseRests ==
  ASSUME \A q \in Tracks : track'[q].affected = track[q].affected,
         UNCHANGED <<versioned, dlq>>,
         \A i \in Rows : NoticeState(i)' = NoticeState(i),
         \A i \in Rows : receipts'[i] > 0 <=> receipts[i] > 0
  PROVE  UNCHANGED Promised
BY DEF Promised

\* A send of an open row, or of one with a dead letter, is a receipt or nothing.
LEMMA PostPromised ==
  ASSUME TypeOK, NEW i \in Rows, NEW ok \in BOOLEAN, Post(i, ok),
         status[i] = "DELIVERING" \/ DlqKey[i] \in dlq,
         \A q \in Tracks : track'[q].affected = track[q].affected,
         UNCHANGED <<status, versioned, dlq>>
  PROVE  Promise!Next \/ UNCHANGED Promised
<1>1. \A j \in Rows : NoticeState(j)' = NoticeState(j)
  BY DEF NoticeState
<1>2. receipts \in [Rows -> 0 .. MaxReceipts] /\ MaxReceipts \in Nat \ {0}
  BY BoundsAssumption DEF TypeOK
<1>3. CASE receipts' = receipts
  BY <1>1, <1>3, PromiseRests
<1>4. CASE receipts' = [receipts EXCEPT ![i] = receipts[i] + 1]
  <2>1. \A j \in Rows : receipts'[j] > 0 <=> receipts[j] > 0 \/ j = i
    BY <1>2, <1>4
  <2>2. {j \in Rows : receipts[j] > 0}' = {j \in Rows : receipts[j] > 0} \union {i}
    BY <2>1
  <2>3. NoticeState(i) = "open" \/ DlqKey[i] \in dlq
    BY DEF NoticeState
  <2>4. Promise!Receive(i)
    BY <1>1, <2>2, <2>3 DEF Promise!Receive
  <2> QED
    BY <2>4 DEF Promise!Next
<1> QED
  BY <1>3, <1>4 DEF Post

\* A request finds its change and records it; what it inserts is not seen before.
LEMMA TrackPromised ==
  ASSUME Alone, TransactionInv, NEW q \in Tracks,
         Detect(q) \/ TrackStep(q) \/ CrashTrack(q)
  PROVE  Promise!Next \/ UNCHANGED Promised
<1>0. /\ track \in [Tracks -> TrackState] /\ track[q] \in TrackState
      /\ Transaction(q) /\ ~Inline
  BY DEF TransactionInv, OutboxInv, TypeOK, Alone
<1>1. CASE Detect(q)
  <2>1. /\ track' = [track EXCEPT ![q] = [track[q] EXCEPT !.pc = "enqueue",
                       !.affected = Affected(q), !.todo = Affected(q)]]
        /\ track[q].pc = "idle"
        /\ UNCHANGED <<status, versioned, receipts, dlq>>
    BY <1>1 DEF Detect, SetTrack, table
  <2>2. Affected(q) \in SUBSET Rows /\ Affected(q) \subseteq RowsOf[q]
    BY RowsOfAssumption DEF Affected
  <2>3. /\ q \notin versioned /\ track[q].affected = {}
    BY <1>0, <2>1 DEF Transaction
  <2>4. /\ track'[q].affected = Affected(q)
        /\ \A p \in Tracks \ {q} : track'[p] = track[p]
    BY <1>0, <2>1 DEF TrackState
  <2>5. [p \in Tracks |-> track[p].affected]' =
          [[p \in Tracks |-> track[p].affected] EXCEPT ![q] = Affected(q)]
    BY <2>4
  <2>6. [i \in Rows |-> NoticeState(i)]' = [i \in Rows |-> NoticeState(i)]
    BY <2>1 DEF NoticeState
  <2>7. PICK notices \in SUBSET Rows : notices = Affected(q)
    BY <2>2
  <2>8. Promise!Find(q, notices)
    BY <2>1, <2>2, <2>3, <2>5, <2>6, <2>7 DEF Promise!Find
  <2> QED
    BY <2>8 DEF Promise!Next
<1>2. CASE InsertRow(q)
  <2>1. PICK i \in track[q].todo :
          track' = [track EXCEPT ![q] = [track[q] EXCEPT !.todo = @ \ {i}, !.item = i,
                      !.inserted = @ \union {i},
                      !.pc = IF Inline THEN "post" ELSE "enqueue"]]
    BY <1>2 DEF InsertRow, SetTrack
  <2>2. \A p \in Tracks : track'[p].affected = track[p].affected
    BY <1>0, <2>1 DEF TrackState
  <2>3. UNCHANGED <<status, versioned, receipts, dlq>>
    BY <1>2 DEF InsertRow, table
  <2> QED
    BY <2>2, <2>3, PromiseRests DEF NoticeState
<1>3. CASE FinishTrack(q)
  <2>1. /\ CommitTrack(q) /\ UNCHANGED <<receipts, dlq>>
        /\ track' = [track EXCEPT ![q] = [track[q] EXCEPT
             !.pc = "done", !.inserted = {}, !.wrote = NoWrite]]
        /\ track[q].pc = "enqueue" /\ track[q].todo = {}
    BY <1>3 DEF FinishTrack, SetTrack
  <2>2. \A p \in Tracks : track'[p].affected = track[p].affected
    BY <1>0, <2>1 DEF TrackState
  <2>3. /\ track[q].inserted = track[q].affected /\ q \notin versioned
        /\ Present \cap RowsOf[q] = {} /\ track[q].affected \subseteq RowsOf[q]
        /\ track[q].affected \subseteq Rows
    BY <1>0, <2>1, RowsOfAssumption DEF Transaction
  <2>4. \A i \in track[q].affected : status[i] = "ABSENT"
    BY <2>3 DEF Present
  <2>5. \A i \in Rows : i # track[q].wrote.row
    BY <1>0, NoneAssumption DEF Transaction
  <2>6. /\ \A i \in Rows :
             status'[i] = IF i \in track[q].affected THEN "PENDING" ELSE status[i]
        /\ versioned' = versioned \union {q}
    BY <2>1, <2>3, <2>5 DEF CommitTrack
  <2>7. \A i \in Rows :
          NoticeState(i)' = IF i \in track[q].affected THEN "open" ELSE NoticeState(i)
    BY <2>6 DEF NoticeState
  <2>8. \A i \in track[q].affected : NoticeState(i) = "new"
    BY <2>4 DEF NoticeState
  <2>9. Promise!Record(q)
    BY <2>1, <2>2, <2>3, <2>6, <2>7, <2>8 DEF Promise!Record
  <2> QED
    BY <2>9 DEF Promise!Next
<1>4. CASE CrashTrack(q)
  <2>1. /\ track' = [track EXCEPT ![q] = [track[q] EXCEPT
              !.pc = "failed", !.inserted = {}, !.wrote = NoWrite]]
        /\ UNCHANGED <<status, versioned, receipts, dlq>>
    BY <1>4 DEF CrashTrack, SetTrack, table
  <2>2. \A p \in Tracks : track'[p].affected = track[p].affected
    BY <1>0, <2>1 DEF TrackState
  <2> QED
    BY <2>1, <2>2, PromiseRests DEF NoticeState
<1> QED
  BY <1>0, <1>1, <1>2, <1>3, <1>4
    DEF TrackStep, InlinePost, InlineLog, InlineSettle, Transaction

\* The worker sends open rows and settles each with the evidence it has.
LEMMA WorkerPromised ==
  ASSUME TransactionInv, CountInv, NEW w \in Workers, WorkerStep(w) \/ CrashWorker(w)
  PROVE  Promise!Next \/ UNCHANGED Promised
<1> DEFINE i == worker[w].item
<1>0. /\ TypeOK /\ WorkerClaims(w) /\ RecordedWasReceived
      /\ status \in [Rows -> {"ABSENT", "PENDING", "DELIVERING"} \union Settled]
  BY DEF TransactionInv, OutboxInv, TypeOK
<1>1. CASE Poll(w) \/ LookupSubscription(w) \/ WorkerLog(w) \/ CrashWorker(w)
  <2>1. UNCHANGED <<status, receipts, dlq, versioned, track>>
    BY <1>1 DEF Poll, LookupSubscription, WorkerLog, CrashWorker, table
  <2> QED
    BY <2>1, PromiseRests DEF NoticeState
<1>2. CASE MarkDelivering(w) \/ SettleRetry(w)
  <2>1. /\ worker[w].pc \in {"mark", "settle"}
        /\ \E s \in {"PENDING", "DELIVERING"} : status' = [status EXCEPT ![i] = s]
        /\ UNCHANGED <<receipts, dlq, versioned, track>>
    BY <1>2 DEF MarkDelivering, SettleRetry
  <2>2. i \in Rows /\ status[i] \in {"PENDING", "DELIVERING"}
    BY <2>1, ItemOfWorker
  <2>3. /\ status'[i] \in {"PENDING", "DELIVERING"}
        /\ \A j \in Rows \ {i} : status'[j] = status[j]
    BY <1>0, <2>1, <2>2
  <2>4. \A j \in Rows : NoticeState(j)' = NoticeState(j)
    BY <2>2, <2>3 DEF NoticeState
  <2> QED
    BY <2>1, <2>4, PromiseRests
<1>3. CASE WorkerPost(w)
  <2>1. PICK ok \in BOOLEAN : Post(i, ok)
    BY <1>3 DEF WorkerPost
  <2>2. worker[w].pc = "post" /\ UNCHANGED <<status, dlq, versioned, track>>
    BY <1>3 DEF WorkerPost, table
  <2>3. i \in Rows /\ status[i] = "DELIVERING"
    BY <2>2, ItemOfWorker
  <2> QED
    BY <1>0, <2>1, <2>2, <2>3, PostPromised
<1>4. CASE SettleDelivered(w)
  <2>1. /\ worker[w].pc = "settle" /\ worker[w].ok
        /\ status' = [status EXCEPT ![i] = "DELIVERED"]
        /\ UNCHANGED <<receipts, dlq, versioned, track>>
    BY <1>4 DEF SettleDelivered
  <2>2. i \in Rows /\ status[i] = "DELIVERING"
    BY <2>1, ItemOfWorker
  <2>3. receipts[i] > 0
    BY <1>0, <2>1 DEF WorkerClaims, RecordedWasReceived, Received
  <2>4. \A j \in Rows : NoticeState(j)' = IF j = i THEN "delivered" ELSE NoticeState(j)
    BY <1>0, <2>1, <2>2 DEF NoticeState
  <2>5. NoticeState(i) = "open"
    BY <2>2 DEF NoticeState
  <2>6. Promise!Deliver(i)
    BY <2>1, <2>2, <2>3, <2>4, <2>5 DEF Promise!Deliver
  <2> QED
    BY <2>2, <2>6 DEF Promise!Next
<1>5. CASE SettleExhausted(w)
  <2>1. /\ worker[w].pc = "settle" /\ status' = [status EXCEPT ![i] = "FAILED"]
        /\ dlq' = dlq \union {DlqKey[i]} /\ UNCHANGED <<receipts, versioned, track>>
    BY <1>5 DEF SettleExhausted, WithDeadLetter
  <2>2. i \in Rows /\ status[i] = "DELIVERING"
    BY <2>1, ItemOfWorker
  <2>3. \A j \in Rows : NoticeState(j)' = IF j = i THEN "dead" ELSE NoticeState(j)
    BY <1>0, <2>1, <2>2 DEF NoticeState
  <2>4. NoticeState(i) = "open"
    BY <2>2 DEF NoticeState
  <2>5. Promise!GiveUp(i)
    BY <2>1, <2>2, <2>3, <2>4 DEF Promise!GiveUp
  <2> QED
    BY <2>2, <2>5 DEF Promise!Next
<1> QED
  BY <1>1, <1>2, <1>3, <1>4, <1>5 DEF WorkerStep

\* An operator's replay sends a row that has a dead letter, and nothing else.
LEMMA ReplayPromised ==
  ASSUME TransactionInv, CountInv, NEW r \in Replays,
         OpenReplay(r) \/ ReplayPost(r) \/ ReplayLog(r) \/ CrashReplay(r)
  PROVE  Promise!Next \/ UNCHANGED Promised
<1>1. CASE OpenReplay(r) \/ ReplayLog(r) \/ CrashReplay(r)
  <2>1. UNCHANGED <<status, receipts, dlq, versioned, track>>
    BY <1>1 DEF OpenReplay, ReplayLog, CrashReplay, table
  <2> QED
    BY <2>1, PromiseRests DEF NoticeState
<1>2. CASE ReplayPost(r)
  <2>1. PICK ok \in BOOLEAN : Post(replay[r].item, ok)
    BY <1>2 DEF ReplayPost
  <2>2. replay[r].pc = "post" /\ UNCHANGED <<status, dlq, versioned, track>>
    BY <1>2 DEF ReplayPost, table
  <2>3. replay[r].item \in Rows /\ DlqKey[replay[r].item] \in dlq
    BY <2>2 DEF CountInv, Reads, TransactionInv, OutboxInv, ReplayClaims
  <2> QED
    BY <2>1, <2>2, <2>3, PostPromised DEF TransactionInv, OutboxInv
<1> QED
  BY <1>1, <1>2

\* With one worker process and no inline delivery the outbox implements the promise:
\* batches, row locks, retries, crashes and replays show as a change that is recorded
\* with all its notices and as notices that end once, with what they claim.
THEOREM PromiseKept == Alone => (Spec => ImplementsPromise)
<1> SUFFICES ASSUME Alone PROVE Spec => ImplementsPromise
  OBVIOUS
<1>1. Init => Promise!Init
  <2> SUFFICES ASSUME Init PROVE Promise!Init
    OBVIOUS
  <2>1. /\ \A q \in Tracks : track[q].affected = {}
        /\ \A i \in Rows : NoticeState(i) = "new" /\ ~(receipts[i] > 0)
        /\ versioned = {} /\ dlq = {}
    BY DEF Init, IdleTrack, NoticeState
  <2> QED
    BY <2>1 DEF Promise!Init
<1>2. TransactionInv /\ CountInv /\ [Next]_vars => CountInv' /\ [Promise!Next]_Promised
  <2> SUFFICES ASSUME TransactionInv, CountInv, [Next]_vars
               PROVE  CountInv' /\ (Promise!Next \/ UNCHANGED Promised)
    OBVIOUS
  <2>1. CountInv'
    BY StepCounts
  <2>2. ASSUME \/ \E i \in Rows : Tick(i) \/ Toggle(i)
               \/ UNCHANGED vars
        PROVE  UNCHANGED Promised
    <3>1. UNCHANGED <<status, receipts, dlq, versioned, track>>
      BY <2>2 DEF Tick, Toggle, vars, table
    <3> QED
      BY <3>1, PromiseRests DEF NoticeState
  <2> QED
    BY <2>1, <2>2, TrackPromised, WorkerPromised, ReplayPromised DEF Next
<1>3. Alone => (Spec => []TransactionInv)
  BY TransactionInvariance DEF Alone
<1>4. QED
  BY InitCounts, <1>1, <1>2, <1>3, PTL DEF Spec, ImplementsPromise, Promise!Spec, Promise!vars, Promised

-----------------------------------------------------------------------------
(* A row in DELIVERING is in somebody's hands, but for one of each crash.   *)

\* A worker takes a row into its hands, keeps it there or settles it.
LEMMA WorkerHandles ==
  ASSUME TypeOK, NEW w \in Workers, WorkerStep(w)
  PROVE  Stranded' \subseteq Stranded
<1>1. PICK i : i = worker[w].item
  OBVIOUS
<1>2. /\ worker \in [Workers -> WorkerState] /\ worker[w] \in WorkerState
      /\ status \in [Rows -> {"ABSENT", "PENDING", "DELIVERING"} \union Settled]
  BY DEF TypeOK
<1>3. \A v \in Workers \ {w} : worker'[v] = worker[v]
  <2>1. \A r, rest : Proceed(w, r, rest) => \A v \in Workers \ {w} : worker'[v] = worker[v]
    BY <1>2 DEF Proceed, SetWorker
  <2>2. CASE Poll(w)
    BY <2>1, <2>2 DEF Poll
  <2>3. CASE MarkDelivering(w) \/ LookupSubscription(w) \/ WorkerPost(w) \/ WorkerLog(w)
    BY <1>2, <2>3 DEF MarkDelivering, LookupSubscription, WorkerPost, WorkerLog, SetWorker
  <2>4. CASE SettleDelivered(w) \/ SettleExhausted(w) \/ SettleRetry(w)
    BY <2>1, <2>4 DEF SettleDelivered, SettleExhausted, SettleRetry, NextItem
  <2>5. QED
    BY <2>2, <2>3, <2>4 DEF WorkerStep
<1>4. CASE Poll(w)
  <2>1. worker[w].pc = "idle" /\ UNCHANGED status
    BY <1>4 DEF Poll, table
  <2>2. QED
    BY <1>3, <2>1 DEF Stranded, InHands
<1>5. CASE MarkDelivering(w)
  <2>1. /\ worker[w].pc = "mark" /\ status' = [status EXCEPT ![i] = "DELIVERING"]
        /\ worker' = [worker EXCEPT ![w] = [worker[w] EXCEPT !.pc = "lookup"]]
    BY <1>1, <1>5 DEF MarkDelivering, SetWorker
  <2>2. worker'[w].item = i /\ worker'[w].pc = "lookup"
    BY <1>1, <1>2, <2>1 DEF WorkerState
  <2>3. \A j \in Rows \ {i} : status'[j] = status[j]
    BY <1>2, <2>1
  <2>4. QED
    BY <1>1, <1>3, <2>1, <2>2, <2>3 DEF Stranded, InHands
<1>6. CASE LookupSubscription(w) \/ WorkerPost(w) \/ WorkerLog(w)
  <2>1. UNCHANGED status
    BY <1>6 DEF LookupSubscription, WorkerPost, WorkerLog, table
  <2>2. worker'[w].item = i /\ worker'[w].pc \in {"post", "log", "settle"}
    BY <1>1, <1>2, <1>6, SendMoves
  <2>3. QED
    BY <1>1, <1>3, <2>1, <2>2 DEF Stranded, InHands
<1>7. CASE SettleDelivered(w) \/ SettleExhausted(w) \/ SettleRetry(w)
  <2>1. \E s \in {"DELIVERED", "FAILED", "PENDING"} : status' = [status EXCEPT ![i] = s]
    BY <1>1, <1>7 DEF SettleDelivered, SettleExhausted, SettleRetry
  <2>2. \A j \in Rows : status'[j] = "DELIVERING" => j # i /\ status[j] = "DELIVERING"
    BY <1>2, <2>1
  <2>3. QED
    BY <1>1, <1>3, <2>2 DEF Stranded, InHands
<1>8. QED
  BY <1>4, <1>5, <1>6, <1>7 DEF WorkerStep

\* Neither the commits of requests nor replays leave a row in DELIVERING.
LEMMA OthersHandle ==
  ASSUME TypeOK, UNCHANGED worker,
         \/ UNCHANGED status
         \/ \E q \in Tracks : CommitTrack(q)
  PROVE  Stranded' \subseteq Stranded
<1>1. \A i \in Rows : status'[i] = "DELIVERING" => status[i] = "DELIVERING"
  <2>1. CASE UNCHANGED status
    BY <2>1
  <2>2. ASSUME NEW q \in Tracks, CommitTrack(q), NEW i \in Rows, status'[i] = "DELIVERING"
        PROVE  status[i] = "DELIVERING"
    <3>1. track[q].wrote.status \in {"ABSENT"} \union Settled
      BY DEF TypeOK, TrackState
    <3>2. QED
      BY <2>2, <3>1 DEF CommitTrack, Settled
  <2>3. QED
    BY <2>1, <2>2
<1>2. QED
  BY <1>1 DEF Stranded, InHands

\* A worker that dies drops the one row that it had marked and not yet settled.
LEMMA CrashDrops ==
  ASSUME TypeOK, NEW w \in Workers, CrashWorker(w)
  PROVE  Stranded' \subseteq Stranded \union {worker[w].item}
<1>1. UNCHANGED status /\ \A v \in Workers \ {w} : worker'[v] = worker[v]
  BY DEF CrashWorker, SetWorker, table, TypeOK
<1>2. ASSUME NEW i \in Stranded', i # worker[w].item
      PROVE  i \in Stranded
  BY <1>1, <1>2 DEF Stranded, InHands
<1>3. QED
  BY <1>2

\* Only a crash of a worker strands a row, and it is counted.
LEMMA CrashesStrandOne ==
  ASSUME TypeOK, [Next]_vars
  PROVE  \/ Stranded' \subseteq Stranded /\ crashes' \in {crashes, crashes + 1}
         \/ (\E i : Stranded' \subseteq Stranded \union {i}) /\ crashes' = crashes + 1
<1>1. ASSUME NEW q \in Tracks, Detect(q) \/ TrackStep(q) \/ CrashTrack(q)
      PROVE  Stranded' \subseteq Stranded /\ crashes' \in {crashes, crashes + 1}
  <2>1. /\ UNCHANGED worker /\ (UNCHANGED status \/ CommitTrack(q))
        /\ crashes' \in {crashes, crashes + 1}
    BY <1>1 DEF Detect, TrackStep, InsertRow, InlinePost, InlineLog, InlineSettle,
      FinishTrack, CrashTrack, table
  <2>2. QED
    BY <2>1, OthersHandle
<1>2. ASSUME NEW w \in Workers, WorkerStep(w)
      PROVE  Stranded' \subseteq Stranded /\ crashes' = crashes
  <2>1. UNCHANGED crashes
    BY <1>2 DEF WorkerStep, Poll, MarkDelivering, LookupSubscription, WorkerPost, WorkerLog,
      SettleDelivered, SettleExhausted, SettleRetry
  <2>2. QED
    BY <1>2, <2>1, WorkerHandles
<1>3. ASSUME NEW w \in Workers, CrashWorker(w)
      PROVE  (\E i : Stranded' \subseteq Stranded \union {i}) /\ crashes' = crashes + 1
  BY <1>3, CrashDrops DEF CrashWorker
<1>4. ASSUME \/ \E r \in Replays : OpenReplay(r) \/ ReplayPost(r) \/ ReplayLog(r)
                                     \/ CrashReplay(r)
             \/ \E i \in Rows : Tick(i) \/ Toggle(i)
             \/ UNCHANGED vars
      PROVE  Stranded' \subseteq Stranded /\ crashes' \in {crashes, crashes + 1}
  <2>1. UNCHANGED <<status, worker>> /\ crashes' \in {crashes, crashes + 1}
    <3>1. ASSUME NEW r \in Replays, OpenReplay(r) \/ ReplayPost(r) \/ ReplayLog(r)
          PROVE  UNCHANGED <<status, worker, crashes>>
      BY <3>1 DEF OpenReplay, ReplayPost, ReplayLog, table
    <3>2. ASSUME NEW r \in Replays, CrashReplay(r)
          PROVE  UNCHANGED <<status, worker>> /\ crashes' = crashes + 1
      BY <3>2 DEF CrashReplay, table
    <3>3. ASSUME NEW i \in Rows, Tick(i) \/ Toggle(i)
          PROVE  UNCHANGED <<status, worker, crashes>>
      BY <3>3 DEF Tick, Toggle, table
    <3>4. CASE UNCHANGED vars
      BY <3>4 DEF vars, table
    <3>5. QED
      BY <1>4, <3>1, <3>2, <3>3, <3>4
  <2>2. QED
    BY <2>1, OthersHandle
<1>5. QED
  BY <1>1, <1>2, <1>3, <1>4 DEF Next

\* A row in DELIVERING is in the hands of a worker that will settle it, though
\* several workers and a request may have the same row; each crash, wherever it
\* interrupts a batch, leaves at most one that nobody has (outbox_worker.py:48).
THEOREM DeliveringCorrect == Spec => []DeliveringIsHandled
<1>1. Init => DeliveringIsHandled
  <2> SUFFICES ASSUME Init PROVE DeliveringIsHandled
    OBVIOUS
  <2>1. Stranded = {} /\ crashes = 0
    BY DEF Init, Stranded
  <2>2. QED
    BY <2>1, FS_EmptySet DEF DeliveringIsHandled
<1>2. TypeOK /\ DeliveringIsHandled /\ [Next]_vars => DeliveringIsHandled'
  <2> SUFFICES ASSUME TypeOK, DeliveringIsHandled, [Next]_vars
      PROVE  DeliveringIsHandled'
    OBVIOUS
  <2> DEFINE n == Cardinality(Stranded)
  <2>1. crashes \in Nat /\ IsFiniteSet(Stranded) /\ n \in Nat /\ n <= crashes
    BY FS_CardinalityType DEF TypeOK, DeliveringIsHandled
  <2>2. ASSUME Stranded' \subseteq Stranded, crashes' \in {crashes, crashes + 1}
        PROVE  DeliveringIsHandled'
    <3>1. IsFiniteSet(Stranded') /\ Cardinality(Stranded') \in Nat /\ Cardinality(Stranded') <= n
      BY <2>1, <2>2, FS_Subset, FS_CardinalityType
    <3>2. QED
      BY <2>1, <2>2, <3>1 DEF DeliveringIsHandled
  <2>3. ASSUME NEW i, Stranded' \subseteq Stranded \union {i}, crashes' = crashes + 1
        PROVE  DeliveringIsHandled'
    <3>1. /\ IsFiniteSet(Stranded \union {i})
          /\ Cardinality(Stranded \union {i}) \in {n, n + 1}
      BY <2>1, FS_AddElement
    <3>2. /\ IsFiniteSet(Stranded') /\ Cardinality(Stranded') \in Nat
          /\ Cardinality(Stranded') <= Cardinality(Stranded \union {i})
      BY <2>3, <3>1, FS_Subset, FS_CardinalityType
    <3>3. QED
      BY <2>1, <2>3, <3>1, <3>2 DEF DeliveringIsHandled
  <2>4. QED
    BY <2>2, <2>3, CrashesStrandOne
<1>3. QED
  BY OutboxTypeCorrect, <1>1, <1>2, PTL DEF Spec

-----------------------------------------------------------------------------
(* Nothing is left out of the outbox but by a request that dies: the       *)
(* commits of deliver_with_retry in the middle of its work split what it   *)
(* queues, and only its end puts the parts together.                       *)

\* Where the subscriptions that a request has selected are.
Queued(q) ==
  /\ track[q].wrote.row # None => track[q].wrote.status \in Settled
  /\ track[q].pc \in {"enqueue", "post", "log", "settle"} =>
       track[q].affected \subseteq track[q].todo \union track[q].inserted \union Present
  /\ track[q].pc = "done" => track[q].affected \subseteq Present
  /\ track[q].pc = "failed" => crashes > 0

QueueInv == \A q \in Tracks : Queued(q)

\* A commit makes the inserts of the request appear, and hides no row.
LEMMA CommitKeepsRows ==
  ASSUME TypeOK, NEW q \in Tracks, Queued(q), CommitTrack(q)
  PROVE  Present \union track[q].inserted \subseteq Present'
<1>1. track[q].inserted \subseteq Rows
  BY DEF TypeOK, TrackState
<1>2. ASSUME NEW i \in Rows, status[i] # "ABSENT" \/ i \in track[q].inserted
      PROVE  status'[i] # "ABSENT"
  <2>1. i = track[q].wrote.row => track[q].wrote.status # "ABSENT"
    BY NoneAssumption DEF Queued, Settled
  <2>2. QED
    BY <1>2, <2>1 DEF CommitTrack
<1>3. QED
  BY <1>1, <1>2 DEF Present

\* A request that goes on keeps count of what it has still to queue.
LEMMA TrackKeepsQueue ==
  ASSUME TypeOK, QueueInv, NEW q \in Tracks, Detect(q) \/ TrackStep(q) \/ CrashTrack(q)
  PROVE  QueueInv'
<1> track[q] \in TrackState /\ track \in [Tracks -> TrackState]
  BY DEF TypeOK
<1> Queued(q)
  BY DEF QueueInv
<1>0. ASSUME Present \subseteq Present', crashes' \in {crashes, crashes + 1}, Queued(q)',
             \A p \in Tracks \ {q} : track'[p] = track[p]
      PROVE  QueueInv'
  <2>1. crashes \in Nat
    BY BoundsAssumption DEF TypeOK
  <2>2. crashes > 0 => crashes' > 0
    BY <1>0, <2>1
  <2>3. ASSUME NEW p \in Tracks, p # q PROVE Queued(p)'
    BY <1>0, <2>2, <2>3 DEF QueueInv, Queued
  <2>4. QED
    BY <1>0, <2>3 DEF QueueInv
<1>1. CASE Detect(q)
  <2>1. /\ track' = [track EXCEPT ![q] = [track[q] EXCEPT
                !.pc = "enqueue", !.affected = Affected(q), !.todo = Affected(q)]]
        /\ UNCHANGED <<status, crashes>>
    BY <1>1 DEF Detect, SetTrack, table
  <2>2. /\ track'[q].pc = "enqueue" /\ track'[q].affected = Affected(q)
        /\ track'[q].todo = Affected(q) /\ track'[q].wrote = track[q].wrote
    BY <2>1 DEF TrackState
  <2>3. Queued(q)'
    BY <2>2 DEF Queued
  <2>4. QED
    BY <1>0, <2>1, <2>3, BoundsAssumption DEF Present, TypeOK
<1>2. CASE InsertRow(q)
  <2>1. PICK i \in track[q].todo :
          track' = [track EXCEPT ![q] = [track[q] EXCEPT
            !.todo = @ \ {i}, !.item = i, !.inserted = @ \union {i},
            !.pc = IF Inline THEN "post" ELSE "enqueue"]]
    BY <1>2 DEF InsertRow, SetTrack
  <2>2. UNCHANGED <<status, crashes>> /\ track[q].pc = "enqueue"
    BY <1>2 DEF InsertRow, table
  <2>3. /\ track'[q].pc \in {"enqueue", "post"} /\ track'[q].affected = track[q].affected
        /\ track'[q].todo = track[q].todo \ {i}
        /\ track'[q].inserted = track[q].inserted \union {i}
        /\ track'[q].wrote = track[q].wrote
    BY <2>1 DEF TrackState
  <2>4. Present' = Present
    BY <2>2 DEF Present
  <2>5. Queued(q)'
    BY <2>2, <2>3, <2>4 DEF Queued
  <2>6. QED
    BY <1>0, <2>1, <2>2, <2>4, <2>5, BoundsAssumption DEF TypeOK
<1>3. CASE InlinePost(q) \/ InlineSettle(q)
  <2>1. /\ UNCHANGED <<status, crashes>>
        /\ track[q].pc \in {"post", "settle"}
        /\ \A p \in Tracks \ {q} : track'[p] = track[p]
    BY <1>3 DEF InlinePost, InlineSettle, SetTrack, table
  <2>2. /\ track'[q].pc \in {"log", "enqueue"} /\ track'[q].affected = track[q].affected
        /\ track'[q].todo = track[q].todo /\ track'[q].inserted = track[q].inserted
        /\ track'[q].wrote = track[q].wrote \/ track'[q].wrote.status \in Settled
    <3>1. CASE InlinePost(q)
      <4>1. PICK ok \in BOOLEAN :
              track' = [track EXCEPT ![q] = [track[q] EXCEPT !.pc = "log", !.ok = ok]]
        BY <3>1 DEF InlinePost, SetTrack
      <4>2. QED
        BY <4>1 DEF TrackState
    <3>2. CASE InlineSettle(q)
      <4>1. PICK s \in Settled : s = IF track[q].ok THEN "DELIVERED" ELSE "FAILED"
        BY DEF Settled
      <4>2. track' = [track EXCEPT ![q] = [track[q] EXCEPT
              !.pc = "enqueue", !.wrote = [row |-> track[q].item, status |-> s]]]
        BY <3>2, <4>1 DEF InlineSettle, SetTrack
      <4>3. QED
        BY <4>2 DEF TrackState
    <3>3. QED
      BY <1>3, <3>1, <3>2
  <2>3. Present' = Present
    BY <2>1 DEF Present
  <2>4. Queued(q)'
    BY <2>1, <2>2, <2>3 DEF Queued
  <2>5. QED
    BY <1>0, <2>1, <2>3, <2>4, BoundsAssumption DEF TypeOK
<1>4. CASE InlineLog(q) \/ FinishTrack(q)
  <2>1. /\ CommitTrack(q) /\ UNCHANGED crashes
        /\ \A p \in Tracks \ {q} : track'[p] = track[p]
        /\ track[q].pc \in {"log", "enqueue"}
    BY <1>4 DEF InlineLog, FinishTrack, SetTrack
  <2>2. /\ track'[q].affected = track[q].affected /\ track'[q].todo = track[q].todo
        /\ track'[q].inserted = {} /\ track'[q].wrote.row = None
        /\ track'[q].pc = "settle" \/ (track'[q].pc = "done" /\ track[q].todo = {})
    <3>1. CASE InlineLog(q)
      <4>1. track' = [track EXCEPT ![q] = [track[q] EXCEPT
              !.pc = "settle", !.inserted = {}, !.wrote = NoWrite]]
        BY <3>1 DEF InlineLog, SetTrack
      <4>2. QED
        BY <4>1 DEF TrackState, NoWrite
    <3>2. CASE FinishTrack(q)
      <4>1. /\ track[q].todo = {}
            /\ track' = [track EXCEPT ![q] = [track[q] EXCEPT
                 !.pc = "done", !.inserted = {}, !.wrote = NoWrite]]
        BY <3>2 DEF FinishTrack, SetTrack
      <4>2. QED
        BY <4>1 DEF TrackState, NoWrite
    <3>3. QED
      BY <1>4, <3>1, <3>2
  <2>3. Present \union track[q].inserted \subseteq Present'
    BY <2>1, CommitKeepsRows
  <2>4. track[q].affected \subseteq track[q].todo \union track[q].inserted \union Present
    BY <2>1 DEF Queued
  <2>5. Queued(q)'
    BY <2>2, <2>3, <2>4 DEF Queued
  <2>6. QED
    BY <1>0, <2>1, <2>3, <2>5, BoundsAssumption DEF TypeOK
<1>5. CASE CrashTrack(q)
  <2>1. /\ track' = [track EXCEPT ![q] = [track[q] EXCEPT
                !.pc = "failed", !.inserted = {}, !.wrote = NoWrite]]
        /\ UNCHANGED status /\ crashes' = crashes + 1
    BY <1>5 DEF CrashTrack, SetTrack, table
  <2>2. track'[q].pc = "failed" /\ track'[q].wrote.row = None
    BY <2>1 DEF TrackState, NoWrite
  <2>3. crashes \in Nat
    BY BoundsAssumption DEF TypeOK
  <2>4. Queued(q)'
    BY <2>1, <2>2, <2>3 DEF Queued
  <2>5. QED
    BY <1>0, <2>1, <2>3, <2>4 DEF Present
<1>6. QED
  BY <1>1, <1>2, <1>3, <1>4, <1>5 DEF TrackStep

\* Workers, replays and time take no row away.
LEMMA OthersKeepQueue ==
  ASSUME TypeOK, QueueInv, UNCHANGED track, crashes' \in {crashes, crashes + 1},
         \/ UNCHANGED status
         \/ \E i \in Rows, s \in {"PENDING", "DELIVERING"} \union Settled :
              status' = [status EXCEPT ![i] = s]
  PROVE  QueueInv'
<1>1. Present \subseteq Present'
  BY DEF Present, TypeOK, Settled
<1>2. crashes > 0 => crashes' > 0
  BY BoundsAssumption DEF TypeOK
<1>3. QED
  BY <1>1, <1>2 DEF QueueInv, Queued

\* The inductive invariant, for both settings of INLINE_WEBHOOK_DELIVERY.
LEMMA QueueInvariance == Spec => []QueueInv
<1>1. Init => QueueInv
  BY DEF Init, IdleTrack, NoWrite, QueueInv, Queued
<1>2. OutboxInv /\ QueueInv /\ [Next]_vars => QueueInv'
  <2> SUFFICES ASSUME OutboxInv, QueueInv, [Next]_vars PROVE QueueInv'
    OBVIOUS
  <2>0. TypeOK /\ crashes \in Nat
    BY BoundsAssumption DEF OutboxInv, TypeOK
  <2>1. ASSUME NEW q \in Tracks, Detect(q) \/ TrackStep(q) \/ CrashTrack(q)
        PROVE  QueueInv'
    BY <2>0, <2>1, TrackKeepsQueue
  <2>2. ASSUME NEW w \in Workers, WorkerStep(w) \/ CrashWorker(w)
        PROVE  QueueInv'
    <3>1. UNCHANGED track
      BY <2>2, WorkerLeavesTracks DEF CrashWorker
    <3>2. crashes' \in {crashes, crashes + 1}
      <4>1. CASE WorkerStep(w)
        <5>1. UNCHANGED crashes
          BY <4>1 DEF WorkerStep, Poll, MarkDelivering, LookupSubscription, WorkerPost,
             WorkerLog, SettleDelivered, SettleExhausted, SettleRetry
        <5>2. QED
          BY <2>0, <5>1
      <4>2. CASE CrashWorker(w)
        BY <2>0, <4>2 DEF CrashWorker
      <4>3. QED
        BY <2>2, <4>1, <4>2
    <3>3. CASE MarkDelivering(w) \/ SettleDelivered(w) \/ SettleExhausted(w) \/ SettleRetry(w)
      <4>1. PICK i : i = worker[w].item
        OBVIOUS
      <4>2. i \in Rows
        BY <3>3, <4>1 DEF OutboxInv, WorkerClaims, MarkDelivering, SettleDelivered,
           SettleExhausted, SettleRetry
      <4>3. \E s \in {"PENDING", "DELIVERING"} \union Settled :
              status' = [status EXCEPT ![i] = s]
        BY <3>3, <4>1 DEF MarkDelivering, SettleDelivered, SettleExhausted, SettleRetry, Settled
      <4>4. QED
        BY <2>0, <3>1, <3>2, <4>2, <4>3, OthersKeepQueue
    <3>4. CASE ~(MarkDelivering(w) \/ SettleDelivered(w) \/ SettleExhausted(w)
                   \/ SettleRetry(w))
      <4>1. UNCHANGED status
        BY <2>2, <3>4 DEF WorkerStep, Poll, LookupSubscription, WorkerPost, WorkerLog,
           CrashWorker, table
      <4>2. QED
        BY <2>0, <3>1, <3>2, <4>1, OthersKeepQueue
    <3>5. QED
      BY <3>3, <3>4
  <2>3. ASSUME \/ \E r \in Replays : OpenReplay(r) \/ ReplayPost(r) \/ ReplayLog(r)
                                       \/ CrashReplay(r)
               \/ \E i \in Rows : Tick(i) \/ Toggle(i)
               \/ UNCHANGED vars
        PROVE  QueueInv'
    <3>1. UNCHANGED <<status, track>> /\ crashes' \in {crashes, crashes + 1}
      <4>1. ASSUME NEW r \in Replays, OpenReplay(r) \/ ReplayPost(r) \/ ReplayLog(r)
            PROVE  UNCHANGED <<status, track, crashes>>
        BY <4>1 DEF OpenReplay, ReplayPost, ReplayLog, table
      <4>2. ASSUME NEW r \in Replays, CrashReplay(r)
            PROVE  UNCHANGED <<status, track>> /\ crashes' = crashes + 1
        BY <4>2 DEF CrashReplay, table
      <4>3. ASSUME NEW i \in Rows, Tick(i) \/ Toggle(i)
            PROVE  UNCHANGED <<status, track, crashes>>
        BY <4>3 DEF Tick, Toggle, table
      <4>4. CASE UNCHANGED vars
        BY <2>0, <4>4 DEF vars, table
      <4>5. QED
        BY <2>0, <2>3, <4>1, <4>2, <4>3, <4>4
    <3>2. QED
      BY <2>0, <3>1, OthersKeepQueue
  <2>4. QED
    BY <2>1, <2>2, <2>3 DEF Next
<1>3. QED
  BY <1>1, <1>2, OutboxInvariance, PTL DEF Spec

\* A request that was answered has committed a row of the outbox for every
\* subscription that select_affected_subscriptions gave it.
AnsweredIsQueued ==
  \A q \in Tracks : track[q].pc = "done" => \A i \in track[q].affected : status[i] # "ABSENT"

\* However many requests, workers and crashes, no answered request leaves one of
\* the subscriptions it affected without a row of the outbox.
THEOREM AnsweredCorrect == Spec => []AnsweredIsQueued
<1>1. QueueInv => AnsweredIsQueued
  BY DEF QueueInv, Queued, AnsweredIsQueued, Present
<1>2. QED
  BY <1>1, QueueInvariance, PTL

\* What it takes to lose a webhook: an inline delivery and a crash.  With either
\* excluded, a version is committed only with the rows of all it affects.
THEOREM QueuedCorrect == (~Inline \/ MaxCrashes = 0) => (Spec => []EveryChangeIsQueued)
<1>1. CASE ~Inline
  <2>1. OutboxIsTransactional => EveryChangeIsQueued
    BY DEF OutboxIsTransactional, EveryChangeIsQueued
  <2>2. QED
    BY <1>1, <2>1, OutboxTransactional, PTL
<1>2. CASE MaxCrashes = 0
  <2>1. TypeOK /\ QueueInv => EveryChangeIsQueued
    <3> SUFFICES ASSUME TypeOK, QueueInv PROVE EveryChangeIsQueued
      OBVIOUS
    <3>1. ~(crashes > 0)
      BY <1>2 DEF TypeOK
    <3>2. QED
      BY <3>1 DEF QueueInv, Queued, EveryChangeIsQueued, Present
  <2>2. QED
    BY <2>1, QueueInvariance, OutboxTypeCorrect, PTL
<1>3. QED
  BY <1>1, <1>2

-----------------------------------------------------------------------------
(* Row locks are waited for, but never in a circle.                        *)

\* A transaction waits at an UPDATE of a row that another one has locked.
TrackWaits(q)  == track[q].pc = "settle" /\ rowLock[track[q].item] # None
WorkerWaits(w) ==
  \/ worker[w].pc = "mark" /\ rowLock[worker[w].item] \notin {None, w}
  \/ worker[w].pc = "settle" /\ rowLock[worker[w].item] # None

HoldersGoOn ==
  \A i \in Rows :
    /\ \A q \in Tracks : rowLock[i] = q => ~TrackWaits(q)
    /\ \A w \in Workers : rowLock[i] = w => ~WorkerWaits(w)

\* A request holds a row from its UPDATE to the next commit, a worker the rows of
\* its poll until it has marked the first of them.
LockInv ==
  /\ \A q \in Tracks, i \in Rows :
       rowLock[i] = q => track[q].pc \in {"enqueue", "post", "log"}
  /\ \A w \in Workers, i \in Rows :
       rowLock[i] = w => /\ worker[w].pc = "mark" /\ worker[w].item \in Rows
                         /\ rowLock[worker[w].item] = w

\* A commit or a crash of a request lets go of its rows; only its UPDATE takes one.
LEMMA TrackKeepsLocks ==
  ASSUME TypeOK, LockInv, NEW q \in Tracks, Detect(q) \/ TrackStep(q) \/ CrashTrack(q)
  PROVE  LockInv'
<1>0. /\ track \in [Tracks -> TrackState] /\ track[q] \in TrackState
      /\ rowLock \in [Rows -> Tracks \union Workers \union {None}]
      /\ \A w \in Workers : q # w
  BY HoldersAssumption DEF TypeOK
<1>1. UNCHANGED worker /\ \A p \in Tracks \ {q} : track'[p] = track[p]
  BY <1>0 DEF Detect, TrackStep, InsertRow, InlinePost, InlineLog, InlineSettle, FinishTrack,
     CrashTrack, SetTrack
<1>2. CASE rowLock' = rowLock /\ track'[q].pc \in {"enqueue", "post", "log"}
  BY <1>1, <1>2 DEF LockInv
<1>3. CASE rowLock' = Release(q)
  <2>1. /\ \A i \in Rows : rowLock'[i] # q
        /\ \A i \in Rows : rowLock'[i] = rowLock[i] \/ rowLock'[i] = None
        /\ \A i \in Rows : rowLock[i] # q => rowLock'[i] = rowLock[i]
    BY <1>0, <1>3, NoneAssumption DEF Release
  <2>2. ASSUME NEW p \in Tracks, NEW i \in Rows, rowLock'[i] = p
        PROVE  track'[p].pc \in {"enqueue", "post", "log"}
    BY <1>1, <2>1, <2>2, NoneAssumption DEF LockInv
  <2>3. ASSUME NEW w \in Workers, NEW i \in Rows, rowLock'[i] = w
        PROVE  /\ worker'[w].pc = "mark" /\ worker'[w].item \in Rows
               /\ rowLock'[worker'[w].item] = w
    <3>1. rowLock[i] = w
      BY <2>1, <2>3, NoneAssumption
    <3>2. worker[w].pc = "mark" /\ worker[w].item \in Rows /\ rowLock[worker[w].item] = w
      BY <3>1 DEF LockInv
    <3>3. rowLock'[worker[w].item] = w
      BY <1>0, <2>1, <3>2
    <3>4. QED
      BY <1>1, <3>2, <3>3
  <2>4. QED
    BY <2>2, <2>3 DEF LockInv
<1>4. CASE InlineSettle(q)
  <2>1. PICK j : j = track[q].item
    OBVIOUS
  <2>2. rowLock[j] = None /\ rowLock' = [rowLock EXCEPT ![j] = q]
    BY <1>4, <2>1 DEF InlineSettle
  <2>3. track'[q].pc = "enqueue"
    BY <1>0, <1>4 DEF InlineSettle, SetTrack, TrackState
  <2>4. \A i \in Rows : rowLock'[i] = IF i = j THEN q ELSE rowLock[i]
    BY <1>0, <2>2
  <2>5. ASSUME NEW p \in Tracks, NEW i \in Rows, rowLock'[i] = p
        PROVE  track'[p].pc \in {"enqueue", "post", "log"}
    BY <1>1, <2>3, <2>4, <2>5 DEF LockInv
  <2>6. ASSUME NEW w \in Workers, NEW i \in Rows, rowLock'[i] = w
        PROVE  /\ worker'[w].pc = "mark" /\ worker'[w].item \in Rows
               /\ rowLock'[worker'[w].item] = w
    <3>1. rowLock[i] = w
      BY <1>0, <2>4, <2>6
    <3>2. worker[w].pc = "mark" /\ worker[w].item \in Rows /\ rowLock[worker[w].item] = w
      BY <3>1 DEF LockInv
    <3>3. worker[w].item # j
      BY <2>2, <3>2, NoneAssumption
    <3>4. QED
      BY <1>1, <2>4, <3>2, <3>3
  <2>7. QED
    BY <2>5, <2>6 DEF LockInv
<1>5. CASE Detect(q) \/ InsertRow(q) \/ InlinePost(q)
  <2>1. rowLock' = rowLock
    BY <1>5 DEF Detect, InsertRow, InlinePost
  <2>2. track'[q].pc \in {"enqueue", "post", "log"}
    <3>1. CASE Detect(q)
      BY <1>0, <3>1 DEF Detect, SetTrack, TrackState
    <3>2. CASE InsertRow(q)
      <4>1. PICK i \in track[q].todo :
              track' = [track EXCEPT ![q] = [track[q] EXCEPT
                !.todo = @ \ {i}, !.item = i, !.inserted = @ \union {i},
                !.pc = IF Inline THEN "post" ELSE "enqueue"]]
        BY <3>2 DEF InsertRow, SetTrack
      <4>2. QED
        BY <1>0, <4>1 DEF TrackState
    <3>3. CASE InlinePost(q)
      <4>1. PICK ok \in BOOLEAN :
              track' = [track EXCEPT ![q] = [track[q] EXCEPT !.pc = "log", !.ok = ok]]
        BY <3>3 DEF InlinePost, SetTrack
      <4>2. QED
        BY <1>0, <4>1 DEF TrackState
    <3>4. QED
      BY <1>5, <3>1, <3>2, <3>3
  <2>3. QED
    BY <1>2, <2>1, <2>2
<1>6. CASE InlineLog(q) \/ FinishTrack(q) \/ CrashTrack(q)
  BY <1>3, <1>6 DEF InlineLog, FinishTrack, CrashTrack, CommitTrack
<1>7. QED
  BY <1>4, <1>5, <1>6 DEF TrackStep

\* A worker locks rows that are free, and starts with one of them.
LEMMA WorkerKeepsLocks ==
  ASSUME OutboxInv, LockInv, NEW w \in Workers, WorkerStep(w) \/ CrashWorker(w)
  PROVE  LockInv'
<1>0. /\ worker \in [Workers -> WorkerState] /\ worker[w] \in WorkerState
      /\ rowLock \in [Rows -> Tracks \union Workers \union {None}]
      /\ \A q \in Tracks : q # w
  BY HoldersAssumption DEF OutboxInv, TypeOK
<1>1. UNCHANGED track
  BY WorkerLeavesTracks DEF CrashWorker
<1>2. \A v \in Workers \ {w} : worker'[v] = worker[v]
  <2>1. \A r, rest : Proceed(w, r, rest) => \A v \in Workers \ {w} : worker'[v] = worker[v]
    BY <1>0 DEF Proceed, SetWorker
  <2>2. CASE Poll(w)
    BY <2>1, <2>2 DEF Poll
  <2>3. CASE MarkDelivering(w) \/ LookupSubscription(w) \/ WorkerPost(w) \/ WorkerLog(w)
    BY <1>0, <2>3 DEF MarkDelivering, LookupSubscription, WorkerPost, WorkerLog, SetWorker
  <2>4. CASE SettleDelivered(w) \/ SettleExhausted(w) \/ SettleRetry(w)
    BY <2>1, <2>4 DEF SettleDelivered, SettleExhausted, SettleRetry, NextItem
  <2>5. CASE CrashWorker(w)
    BY <1>0, <2>5 DEF CrashWorker, SetWorker
  <2>6. QED
    BY <2>2, <2>3, <2>4, <2>5 DEF WorkerStep
<1>3. ASSUME \A i \in Rows : rowLock'[i] = IF rowLock[i] = w THEN None ELSE rowLock[i]
      PROVE  LockInv'
  <2>1. ASSUME NEW q \in Tracks, NEW i \in Rows, rowLock'[i] = q
        PROVE  track'[q].pc \in {"enqueue", "post", "log"}
    <3>1. rowLock[i] = q
      BY <1>3, <2>1, NoneAssumption
    <3>2. QED
      BY <1>1, <3>1 DEF LockInv
  <2>2. ASSUME NEW v \in Workers, NEW i \in Rows, rowLock'[i] = v
        PROVE  /\ worker'[v].pc = "mark" /\ worker'[v].item \in Rows
               /\ rowLock'[worker'[v].item] = v
    <3>1. v # w /\ rowLock[i] = v
      BY <1>3, <2>2, NoneAssumption
    <3>2. worker[v].pc = "mark" /\ worker[v].item \in Rows /\ rowLock[worker[v].item] = v
      BY <3>1 DEF LockInv
    <3>3. QED
      BY <1>2, <1>3, <3>1, <3>2
  <2>3. QED
    BY <2>1, <2>2 DEF LockInv
<1>4. CASE MarkDelivering(w) \/ CrashWorker(w)
  <2>1. rowLock' = Release(w)
    BY <1>4 DEF MarkDelivering, CrashWorker
  <2>2. QED
    BY <1>0, <1>3, <2>1, NoneAssumption DEF Release
<1>5. CASE \/ LookupSubscription(w) \/ WorkerPost(w) \/ WorkerLog(w)
           \/ SettleDelivered(w) \/ SettleExhausted(w) \/ SettleRetry(w)
  <2>1. UNCHANGED rowLock
    BY <1>5 DEF LookupSubscription, WorkerPost, WorkerLog, SettleDelivered,
       SettleExhausted, SettleRetry
  <2>2. worker[w].pc # "mark"
    BY <1>5 DEF LookupSubscription, WorkerPost, WorkerLog, SettleDelivered,
       SettleExhausted, SettleRetry
  <2>3. \A i \in Rows : rowLock[i] # w
    BY <2>2 DEF LockInv
  <2>4. QED
    BY <1>3, <2>1, <2>3
<1>6. CASE Poll(w)
  <2>1. PICK batch \in SUBSET Pollable :
          /\ batch # {}
          /\ rowLock' = [i \in Rows |-> IF i \in batch THEN w ELSE rowLock[i]]
          /\ Proceed(w, [IdleWorker EXCEPT !.seen =
               [i \in Rows |-> IF i \in batch THEN attempts[i] ELSE 0]], batch)
    BY <1>6 DEF Poll
  <2>2. /\ \A i \in Rows : rowLock[i] # w
        /\ \A i \in batch : i \in Rows /\ rowLock[i] = None
    BY <1>6 DEF Poll, LockInv, Pollable
  <2>3. worker'[w].pc = "mark" /\ worker'[w].item \in batch
    <3>1. PICK i \in batch : worker' = [worker EXCEPT ![w] =
            [[IdleWorker EXCEPT !.seen = [j \in Rows |-> IF j \in batch THEN attempts[j] ELSE 0]]
               EXCEPT !.pc = "mark", !.item = i, !.batch = batch]]
      BY <2>1 DEF Proceed, SetWorker
    <3>2. worker'[w] =
            [[IdleWorker EXCEPT !.seen = [j \in Rows |-> IF j \in batch THEN attempts[j] ELSE 0]]
               EXCEPT !.pc = "mark", !.item = i, !.batch = batch]
      BY <1>0, <3>1
    <3>3. QED
      BY <3>2 DEF IdleWorker
  <2>4. ASSUME NEW q \in Tracks, NEW i \in Rows, rowLock'[i] = q
        PROVE  track'[q].pc \in {"enqueue", "post", "log"}
    BY <1>0, <1>1, <2>1, <2>4 DEF LockInv
  <2>5. ASSUME NEW v \in Workers, NEW i \in Rows, rowLock'[i] = v
        PROVE  /\ worker'[v].pc = "mark" /\ worker'[v].item \in Rows
               /\ rowLock'[worker'[v].item] = v
    <3>1. CASE v = w
      BY <2>1, <2>2, <2>3, <3>1
    <3>2. CASE v # w
      <4>1. rowLock[i] = v
        BY <2>1, <2>5, <3>2
      <4>2. worker[v].pc = "mark" /\ worker[v].item \in Rows /\ rowLock[worker[v].item] = v
        BY <4>1 DEF LockInv
      <4>3. worker[v].item \notin batch
        BY <2>2, <4>2, NoneAssumption
      <4>4. QED
        BY <1>2, <2>1, <3>2, <4>2, <4>3
    <3>3. QED
      BY <3>1, <3>2
  <2>6. QED
    BY <2>4, <2>5 DEF LockInv
<1>7. QED
  BY <1>4, <1>5, <1>6 DEF WorkerStep

\* Replays and time neither take a lock nor let one go.
LEMMA LockInvariance == Spec => []LockInv
<1>1. Init => LockInv
  BY NoneAssumption DEF Init, LockInv
<1>2. OutboxInv /\ LockInv /\ [Next]_vars => LockInv'
  <2> SUFFICES ASSUME OutboxInv, LockInv, [Next]_vars PROVE LockInv'
    OBVIOUS
  <2>1. ASSUME NEW q \in Tracks, Detect(q) \/ TrackStep(q) \/ CrashTrack(q) PROVE LockInv'
    BY <2>1, TrackKeepsLocks DEF OutboxInv
  <2>2. ASSUME NEW w \in Workers, WorkerStep(w) \/ CrashWorker(w) PROVE LockInv'
    BY <2>2, WorkerKeepsLocks
  <2>3. ASSUME \/ \E r \in Replays : OpenReplay(r) \/ ReplayPost(r) \/ ReplayLog(r)
                                       \/ CrashReplay(r)
               \/ \E i \in Rows : Tick(i) \/ Toggle(i)
               \/ UNCHANGED vars
        PROVE  LockInv'
    <3>1. UNCHANGED <<rowLock, track, worker>>
      <4>1. ASSUME NEW r \in Replays, OpenReplay(r) \/ ReplayPost(r) \/ ReplayLog(r)
            PROVE  UNCHANGED <<rowLock, track, worker>>
        BY <4>1 DEF OpenReplay, ReplayPost, ReplayLog
      <4>2. ASSUME NEW r \in Replays, CrashReplay(r) PROVE UNCHANGED <<rowLock, track, worker>>
        BY <4>2 DEF CrashReplay
      <4>3. ASSUME NEW i \in Rows, Tick(i) \/ Toggle(i)
            PROVE  UNCHANGED <<rowLock, track, worker>>
        BY <4>3 DEF Tick, Toggle
      <4>4. CASE UNCHANGED vars
        BY <4>4 DEF vars
      <4>5. QED
        BY <2>3, <4>1, <4>2, <4>3, <4>4
    <3>2. QED
      BY <3>1 DEF LockInv
  <2>4. QED
    BY <2>1, <2>2, <2>3 DEF Next
<1>3. QED
  BY <1>1, <1>2, OutboxInvariance, PTL DEF Spec

\* Requests and workers update and lock the same rows of webhook_outbox, several of
\* them in one transaction, but whoever holds one never waits for another: no
\* deadlock, whatever the order of the rows in the batches and the changes.
THEOREM RowLocksNeverDeadlock == Spec => []HoldersGoOn
<1>1. LockInv => HoldersGoOn
  BY DEF LockInv, HoldersGoOn, TrackWaits, WorkerWaits
<1>2. QED
  BY <1>1, LockInvariance, PTL
=============================================================================
