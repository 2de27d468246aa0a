--------------------------- MODULE OutboxDelivery ---------------------------
(***************************************************************************)
(* Delivery of breaking-change webhooks to subscribed consumers           *)
(* (src/app/runtime/service.py, webhook.py and src/app/workers/           *)
(* outbox_worker.py).  A POST /track that finds a change inserts one row  *)
(* of webhook_outbox per affected subscription, in the transaction that   *)
(* records the new version; background workers poll the pending rows,     *)
(* send them and retry.  With INLINE_WEBHOOK_DELIVERY (the default) the   *)
(* request also sends each row itself, while the workers run.             *)
(*                                                                         *)
(* Status and attempts are the committed columns.  A statement that would *)
(* change a row locked by another transaction waits (rowLock).            *)
(***************************************************************************)
EXTENDS Naturals, FiniteSets

CONSTANTS Tracks,       \* POST /track requests that record a changed schema
          Rows,         \* outbox rows, one per request and subscription
          RowsOf,       \* the rows a request would insert
          DlqKeys,      \* (event_id, consumer_id), the key of the DLQ
          DlqKey,       \* one consumer may have several subscriptions
          Workers,      \* outbox workers, one per runtime process
          BatchSize,    \* LIMIT of the poll
          MaxAttempts,  \* max_attempts of a row
          Inline,       \* INLINE_WEBHOOK_DELIVERY
          Replays,      \* requests of operators to replay a dead letter
          MaxReceipts,  \* bound: receipts of a row are counted up to it
          MaxCrashes,   \* bound: crashes, cancellations and database errors
          MaxToggles,   \* bound: updates of a subscription's active flag
          None

ASSUME RowsOfAssumption ==
  /\ RowsOf \in [Tracks -> SUBSET Rows]
  /\ \A p, q \in Tracks : p # q => RowsOf[p] \cap RowsOf[q] = {}
ASSUME DlqKeyAssumption == DlqKey \in [Rows -> DlqKeys]
ASSUME BoundsAssumption ==
  /\ BatchSize \in Nat \ {0} /\ MaxAttempts \in Nat \ {0}
  /\ MaxReceipts \in Nat \ {0} /\ MaxCrashes \in Nat /\ MaxToggles \in Nat
  /\ Inline \in BOOLEAN
ASSUME NoneAssumption == None \notin Rows \union Tracks \union Workers
\* A row lock names one transaction, of a request or of a worker.
ASSUME HoldersAssumption == Tracks \cap Workers = {}

VARIABLES
  status,    \* webhook_outbox.status, "ABSENT" before the insert commits
  attempts,  \* webhook_outbox.attempts
  due,       \* next_retry_at <= NOW()
  rowLock,   \* the transaction that has locked or updated a row
  dlq,       \* keys of webhook_delivery_dlq
  active,    \* consumer_subscriptions.active, by row
  recorded,  \* rows with a success in webhook_delivery_attempts
  receipts,  \* times the consumer has received a row, saturating
  versioned, \* requests whose schema version is committed
  track,     \* what each request is doing
  worker,    \* what each worker is doing
  replay,    \* what each replay is doing
  crashes, toggles

table == <<status, attempts, due>>
vars  == <<status, attempts, due, rowLock, dlq, active, recorded, receipts,
           versioned, track, worker, replay, crashes, toggles>>

Settled     == {"DELIVERED", "FAILED"}
NoWrite     == [row |-> None, status |-> "ABSENT"]

\* inserted and wrote are the request's uncommitted insert and update.
IdleTrack  == [pc |-> "idle", affected |-> {}, todo |-> {}, item |-> None,
               ok |-> FALSE, inserted |-> {}, wrote |-> NoWrite]
IdleWorker == [pc |-> "idle", batch |-> {}, seen |-> [i \in Rows |-> 0],
               item |-> None, ok |-> FALSE]
IdleReplay == [pc |-> "idle", item |-> None, ok |-> FALSE]

Init ==
  /\ status    = [i \in Rows |-> "ABSENT"]
  /\ attempts  = [i \in Rows |-> 0]
  /\ due       = [i \in Rows |-> TRUE]
  /\ rowLock   = [i \in Rows |-> None]
  /\ dlq       = {}
  /\ active    = [i \in Rows |-> TRUE]
  /\ recorded  = {}
  /\ receipts  = [i \in Rows |-> 0]
  /\ versioned = {}
  /\ track     = [q \in Tracks |-> IdleTrack]
  /\ worker    = [w \in Workers |-> IdleWorker]
  /\ replay    = [r \in Replays |-> IdleReplay]
  /\ crashes   = 0
  /\ toggles   = 0

\* Mutant: any answer counts as a success.
PostUnchecked(i, ok) ==
  \E received \in BOOLEAN :
    receipts' = IF received /\ receipts[i] < MaxReceipts
                THEN [receipts EXCEPT ![i] = @ + 1] ELSE receipts

\* The POST: the consumer may have received the webhook even when the answer
\* is an error or is lost, and has received it when the answer is 2xx.
Post(i, ok) ==
  \E received \in BOOLEAN :
    /\ ok => received
    /\ receipts' = IF received /\ receipts[i] < MaxReceipts
                   THEN [receipts EXCEPT ![i] = @ + 1] ELSE receipts

\* INSERT ... ON CONFLICT (event_id, consumer_id): one entry for each key.
WithDeadLetter(i) == dlq \union {DlqKey[i]}

Release(holder) == [i \in Rows |-> IF rowLock[i] = holder THEN None ELSE rowLock[i]]

-----------------------------------------------------------------------------
(* The request.                                                            *)

SetTrack(q, r) == track' = [track EXCEPT ![q] = r]

\* select_affected_subscriptions: the active ones whose filters the change passes.
Affected(q) == {i \in RowsOf[q] : active[i]}

\* The new version is inserted and classified, and the subscriptions are read.
Detect(q) ==
  /\ track[q].pc = "idle"
  /\ SetTrack(q, [track[q] EXCEPT !.pc = "enqueue", !.affected = Affected(q),
                                  !.todo = Affected(q)])
  /\ UNCHANGED <<table, rowLock, dlq, active, recorded, receipts, versioned,
                 worker, replay, crashes, toggles>>

\* Mutant: every insert is committed on its own.
InsertRowAtOnce(q) ==
  /\ track[q].pc = "enqueue"
  /\ \E i \in track[q].todo :
       /\ SetTrack(q, [track[q] EXCEPT !.todo = @ \ {i}, !.item = i,
                          !.pc = IF Inline THEN "post" ELSE "enqueue"])
       /\ status' = [status EXCEPT ![i] = "PENDING"]
  /\ UNCHANGED <<attempts, due, rowLock, dlq, active, recorded, receipts,
                 versioned, worker, replay, crashes, toggles>>

InsertRow(q) ==
  /\ track[q].pc = "enqueue"
  /\ \E i \in track[q].todo :
       SetTrack(q, [track[q] EXCEPT !.todo = @ \ {i}, !.item = i,
                                    !.inserted = @ \union {i},
                                    !.pc = IF Inline THEN "post" ELSE "enqueue"])
  /\ UNCHANGED <<table, rowLock, dlq, active, recorded, receipts, versioned,
                 worker, replay, crashes, toggles>>

InlinePost(q) ==
  /\ track[q].pc = "post"
  /\ \E ok \in BOOLEAN :
       /\ Post(track[q].item, ok)
       /\ SetTrack(q, [track[q] EXCEPT !.pc = "log", !.ok = ok])
  /\ UNCHANGED <<table, rowLock, dlq, active, recorded, versioned, worker, replay,
                 crashes, toggles>>

\* db.commit(): the version, the inserts and the pending update become visible.
CommitTrack(q) ==
  LET t == track[q] IN
  /\ status' = [i \in Rows |-> IF i \in t.inserted THEN "PENDING"
                               ELSE IF i = t.wrote.row THEN t.wrote.status
                               ELSE status[i]]
  /\ attempts' = [i \in Rows |-> IF i = t.wrote.row THEN attempts[i] + 1
                                 ELSE attempts[i]]
  /\ rowLock' = Release(q)
  /\ versioned' = versioned \union {q}

\* Mutant: persist_dlq = False.
InlineLogNoDlq(q) ==
  /\ track[q].pc = "log"
  /\ recorded' = IF track[q].ok THEN recorded \union {track[q].item} ELSE recorded
  /\ CommitTrack(q)
  /\ SetTrack(q, [track[q] EXCEPT !.pc = "settle", !.inserted = {}, !.wrote = NoWrite])
  /\ UNCHANGED <<due, dlq, active, receipts, worker, replay, crashes, toggles>>

\* deliver_with_retry records the attempt, on failure with a DLQ entry, and
\* commits: the caller's transaction ends here, in the middle of its work.
InlineLog(q) ==
  /\ track[q].pc = "log"
  /\ LET i == track[q].item IN
       /\ recorded' = IF track[q].ok THEN recorded \union {i} ELSE recorded
       /\ dlq' = IF track[q].ok THEN dlq ELSE WithDeadLetter(i)
  /\ CommitTrack(q)
  /\ SetTrack(q, [track[q] EXCEPT !.pc = "settle", !.inserted = {}, !.wrote = NoWrite])
  /\ UNCHANGED <<due, active, receipts, worker, replay, crashes, toggles>>

\* UPDATE ... SET status WHERE id: in a new transaction, not committed yet.
InlineSettle(q) ==
  LET i == track[q].item IN
  /\ track[q].pc = "settle"
  /\ rowLock[i] = None
  /\ rowLock' = [rowLock EXCEPT ![i] = q]
  /\ SetTrack(q, [track[q] EXCEPT !.pc = "enqueue",
       !.wrote = [row |-> i, status |-> IF track[q].ok THEN "DELIVERED" ELSE "FAILED"]])
  /\ UNCHANGED <<table, dlq, active, recorded, receipts, versioned, worker, replay,
                 crashes, toggles>>

\* The commit of track_payload, once every affected subscription is served.
FinishTrack(q) ==
  /\ track[q].pc = "enqueue"
  /\ track[q].todo = {}
  /\ CommitTrack(q)
  /\ SetTrack(q, [track[q] EXCEPT !.pc = "done", !.inserted = {}, !.wrote = NoWrite])
  /\ UNCHANGED <<due, dlq, active, recorded, receipts, worker, replay, crashes, toggles>>

\* The request dies: what it has not committed is rolled back.
CrashTrack(q) ==
  /\ track[q].pc \notin {"idle", "done", "failed"}
  /\ crashes < MaxCrashes
  /\ crashes' = crashes + 1
  /\ rowLock' = Release(q)
  /\ SetTrack(q, [track[q] EXCEPT !.pc = "failed", !.inserted = {}, !.wrote = NoWrite])
  /\ UNCHANGED <<table, dlq, active, recorded, receipts, versioned, worker, replay, toggles>>

-----------------------------------------------------------------------------
(* The worker.                                                             *)

SetWorker(w, r) == worker' = [worker EXCEPT ![w] = r]

\* The next item of the batch, in an order fixed by created_at, or the end.
Proceed(w, r, rest) ==
  IF rest = {} THEN SetWorker(w, IdleWorker)
  ELSE \E i \in rest : SetWorker(w, [r EXCEPT !.pc = "mark", !.item = i,
                                              !.batch = rest])

\* Mutant: the poll also takes the rows given up.
PollableFailed ==
  {i \in Rows : status[i] \in {"PENDING", "FAILED"} /\ due[i] /\ rowLock[i] = None}

Pollable == {i \in Rows : status[i] = "PENDING" /\ due[i] /\ rowLock[i] = None}

\* SELECT ... FOR UPDATE SKIP LOCKED LIMIT: locks the batch, remembers attempts.
Poll(w) ==
  /\ worker[w].pc = "idle"
  /\ \E batch \in SUBSET Pollable :
       /\ batch # {}
       /\ Cardinality(batch) <= BatchSize
       /\ batch = Pollable \/ Cardinality(batch) = BatchSize
       /\ rowLock' = [i \in Rows |-> IF i \in batch THEN w ELSE rowLock[i]]
       /\ Proceed(w, [IdleWorker EXCEPT !.seen =
            [i \in Rows |-> IF i \in batch THEN attempts[i] ELSE 0]], batch)
  /\ UNCHANGED <<table, dlq, active, recorded, receipts, versioned, track, replay,
                 crashes, toggles>>

\* UPDATE ... SET status = 'DELIVERING' WHERE id, then a commit: it releases
\* the locks of the whole batch.
MarkDelivering(w) ==
  LET i == worker[w].item IN
  /\ worker[w].pc = "mark"
  /\ rowLock[i] \in {None, w}
  /\ status' = [status EXCEPT ![i] = "DELIVERING"]
  /\ rowLock' = Release(w)
  /\ SetWorker(w, [worker[w] EXCEPT !.pc = "lookup"])
  /\ UNCHANGED <<attempts, due, dlq, active, recorded, receipts, versioned,
                 track, replay, crashes, toggles>>

NextItem(w) == Proceed(w, worker[w], worker[w].batch \ {worker[w].item})

\* The subscription is read; deliver_with_retry sends nothing, and reports a
\* failure, for one that is not active.
LookupSubscription(w) ==
  /\ worker[w].pc = "lookup"
  /\ SetWorker(w, IF active[worker[w].item]
                  THEN [worker[w] EXCEPT !.pc = "post"]
                  ELSE [worker[w] EXCEPT !.pc = "settle", !.ok = FALSE])
  /\ UNCHANGED <<table, rowLock, dlq, active, recorded, receipts, versioned,
                 track, replay, crashes, toggles>>

WorkerPost(w) ==
  /\ worker[w].pc = "post"
  /\ \E ok \in BOOLEAN :
       /\ Post(worker[w].item, ok)
       /\ SetWorker(w, [worker[w] EXCEPT !.pc = "log", !.ok = ok])
  /\ UNCHANGED <<table, rowLock, dlq, active, recorded, versioned, track, replay,
                 crashes, toggles>>

WorkerLog(w) ==
  /\ worker[w].pc = "log"
  /\ recorded' = IF worker[w].ok THEN recorded \union {worker[w].item} ELSE recorded
  /\ SetWorker(w, [worker[w] EXCEPT !.pc = "settle"])
  /\ UNCHANGED <<table, rowLock, dlq, active, receipts, versioned, track, replay,
                 crashes, toggles>>

SettleDelivered(w) ==
  LET i == worker[w].item IN
  /\ worker[w].pc = "settle" /\ worker[w].ok
  /\ rowLock[i] = None
  /\ status'   = [status EXCEPT ![i] = "DELIVERED"]
  /\ attempts' = [attempts EXCEPT ![i] = @ + 1]
  /\ NextItem(w)
  /\ UNCHANGED <<due, rowLock, dlq, active, recorded, receipts, versioned,
                 track, replay, crashes, toggles>>

\* Mutant: the failed attempt is not counted.
SameAttempt(w) == worker[w].seen[worker[w].item]

\* The failure path counts from the attempts seen at the poll.
NextAttempt(w) == worker[w].seen[worker[w].item] + 1

SettleExhausted(w) ==
  LET i == worker[w].item IN
  /\ worker[w].pc = "settle" /\ ~worker[w].ok
  /\ NextAttempt(w) >= MaxAttempts
  /\ rowLock[i] = None
  /\ status'   = [status EXCEPT ![i] = "FAILED"]
  /\ attempts' = [attempts EXCEPT ![i] = NextAttempt(w)]
  /\ dlq' = WithDeadLetter(i)
  /\ NextItem(w)
  /\ UNCHANGED <<due, rowLock, active, recorded, receipts, versioned, track, replay,
                 crashes, toggles>>

\* Mutant: the status is not set back to PENDING.
SettleRetryUnreset(w) ==
  LET i == worker[w].item IN
  /\ worker[w].pc = "settle" /\ ~worker[w].ok
  /\ NextAttempt(w) < MaxAttempts
  /\ rowLock[i] = None
  /\ attempts' = [attempts EXCEPT ![i] = NextAttempt(w)]
  /\ due'      = [due EXCEPT ![i] = FALSE]
  /\ NextItem(w)
  /\ UNCHANGED <<status, rowLock, dlq, active, recorded, receipts, versioned,
                 track, replay, crashes, toggles>>

SettleRetry(w) ==
  LET i == worker[w].item IN
  /\ worker[w].pc = "settle" /\ ~worker[w].ok
  /\ NextAttempt(w) < MaxAttempts
  /\ rowLock[i] = None
  /\ status'   = [status EXCEPT ![i] = "PENDING"]
  /\ attempts' = [attempts EXCEPT ![i] = NextAttempt(w)]
  /\ due'      = [due EXCEPT ![i] = FALSE]
  /\ NextItem(w)
  /\ UNCHANGED <<rowLock, dlq, active, recorded, receipts, versioned, track, replay,
                 crashes, toggles>>

\* The process dies, the task is cancelled or a statement fails: the batch is
\* forgotten, and the next poll starts afresh.
CrashWorker(w) ==
  /\ worker[w].pc # "idle"
  /\ crashes < MaxCrashes
  /\ crashes' = crashes + 1
  /\ rowLock' = Release(w)
  /\ SetWorker(w, IdleWorker)
  /\ UNCHANGED <<table, dlq, active, recorded, receipts, versioned, track, replay,
                 toggles>>

-----------------------------------------------------------------------------
(* The replay of a dead letter by an operator.                             *)

SetReplay(r, s) == replay' = [replay EXCEPT ![r] = s]

\* The entry and the consumer's subscription are read.  The entry says nothing
\* of the subscription, so any row of its key may be the one sent again; an
\* inactive subscription is sent nothing.
OpenReplay(r) ==
  /\ replay[r].pc = "idle"
  /\ \E i \in Rows :
       /\ DlqKey[i] \in dlq
       /\ SetReplay(r, IF active[i] THEN [replay[r] EXCEPT !.pc = "post", !.item = i]
                       ELSE [replay[r] EXCEPT !.pc = "done"])
  /\ UNCHANGED <<table, rowLock, dlq, active, recorded, receipts, versioned,
                 track, worker, crashes, toggles>>

\* One attempt, whatever the row's status and its number of attempts.
ReplayPost(r) ==
  /\ replay[r].pc = "post"
  /\ \E ok \in BOOLEAN :
       /\ Post(replay[r].item, ok)
       /\ SetReplay(r, [replay[r] EXCEPT !.pc = "log", !.ok = ok])
  /\ UNCHANGED <<table, rowLock, dlq, active, recorded, versioned, track,
                 worker, crashes, toggles>>

\* The attempt is recorded.  Neither the dead letter nor the row of the outbox
\* is touched: persist_dlq is False, and nobody deletes the entry.
ReplayLog(r) ==
  /\ replay[r].pc = "log"
  /\ recorded' = IF replay[r].ok THEN recorded \union {replay[r].item} ELSE recorded
  /\ SetReplay(r, [replay[r] EXCEPT !.pc = "done"])
  /\ UNCHANGED <<table, rowLock, dlq, active, receipts, versioned, track,
                 worker, crashes, toggles>>

\* The request dies between the consumer's answer and the commit; one that dies
\* before it has changed nothing.
CrashReplay(r) ==
  /\ replay[r].pc = "log"
  /\ crashes < MaxCrashes
  /\ crashes' = crashes + 1
  /\ SetReplay(r, [replay[r] EXCEPT !.pc = "done", !.ok = FALSE])
  /\ UNCHANGED <<table, rowLock, dlq, active, recorded, receipts, versioned,
                 track, worker, toggles>>

-----------------------------------------------------------------------------
\* The backoff of a row has passed.
Tick(i) ==
  /\ status[i] = "PENDING" /\ ~due[i]
  /\ due' = [due EXCEPT ![i] = TRUE]
  /\ UNCHANGED <<status, attempts, rowLock, dlq, active, recorded, receipts,
                 versioned, track, worker, replay, crashes, toggles>>

\* PATCH of a subscription's active flag.
Toggle(i) ==
  /\ toggles < MaxToggles
  /\ toggles' = toggles + 1
  /\ active' = [active EXCEPT ![i] = ~@]
  /\ UNCHANGED <<table, rowLock, dlq, recorded, receipts, versioned, track,
                 worker, replay, crashes>>

TrackStep(q) ==
  \/ InsertRow(q) \/ InlinePost(q) \/ InlineLog(q) \/ InlineSettle(q)
  \/ FinishTrack(q)

WorkerStep(w) ==
  \/ Poll(w) \/ MarkDelivering(w) \/ LookupSubscription(w) \/ WorkerPost(w)
  \/ WorkerLog(w) \/ SettleDelivered(w) \/ SettleExhausted(w) \/ SettleRetry(w)

Next ==
  \/ \E q \in Tracks : Detect(q) \/ TrackStep(q) \/ CrashTrack(q)
  \/ \E w \in Workers : WorkerStep(w) \/ CrashWorker(w)
  \/ \E r \in Replays : OpenReplay(r) \/ ReplayPost(r) \/ ReplayLog(r) \/ CrashReplay(r)
  \/ \E i \in Rows : Tick(i) \/ Toggle(i)

Spec == Init /\ [][Next]_vars

\* A request and a worker go on unless they crash, and time passes.
FairSpec ==
  /\ Spec
  /\ \A q \in Tracks : WF_vars(TrackStep(q))
  /\ \A w \in Workers : WF_vars(WorkerStep(w))
  /\ \A i \in Rows : WF_vars(Tick(i))

-----------------------------------------------------------------------------

TrackState ==
  [pc : {"idle", "enqueue", "post", "log", "settle", "done", "failed"},
   affected : SUBSET Rows, todo : SUBSET Rows, item : Rows \union {None},
   ok : BOOLEAN, inserted : SUBSET Rows,
   wrote : [row : Rows \union {None}, status : {"ABSENT"} \union Settled]]

WorkerState ==
  [pc : {"idle", "mark", "lookup", "post", "log", "settle"},
   batch : SUBSET Rows, seen : [Rows -> Nat], item : Rows \union {None},
   ok : BOOLEAN]

ReplayState ==
  [pc : {"idle", "post", "log", "done"}, item : Rows \union {None}, ok : BOOLEAN]

TypeOK ==
  /\ status    \in [Rows -> {"ABSENT", "PENDING", "DELIVERING"} \union Settled]
  /\ attempts  \in [Rows -> Nat]
  /\ due       \in [Rows -> BOOLEAN]
  /\ rowLock   \in [Rows -> Tracks \union Workers \union {None}]
  /\ dlq       \subseteq DlqKeys
  /\ active    \in [Rows -> BOOLEAN]
  /\ recorded  \subseteq Rows
  /\ receipts  \in [Rows -> 0 .. MaxReceipts]
  /\ versioned \subseteq Tracks
  /\ track     \in [Tracks -> TrackState]
  /\ worker    \in [Workers -> WorkerState]
  /\ replay    \in [Replays -> ReplayState]
  /\ crashes   \in 0 .. MaxCrashes
  /\ toggles   \in 0 .. MaxToggles

\* A row is DELIVERED only if its consumer has received the webhook and the
\* success is in webhook_delivery_attempts, whoever wrote the status last.
DeliveredWasReceived ==
  \A i \in Rows : status[i] = "DELIVERED" => i \in recorded /\ receipts[i] > 0

\* A row that is given up is in the dead-letter queue for an operator to
\* replay: the system never drops a webhook silently.
FailedIsInDlq ==
  \A i \in Rows : status[i] = "FAILED" => DlqKey[i] \in dlq

\* The transactional outbox: a committed version has the outbox rows of all its
\* affected subscriptions, and a row has a committed version.
OutboxIsTransactional ==
  \A q \in Tracks :
    {i \in RowsOf[q] : status[i] # "ABSENT"} =
      IF q \in versioned THEN track[q].affected ELSE {}

\* The same promise at the end of a request: a version that is committed has been
\* announced, or queued, to every consumer it affects.
EveryChangeIsQueued ==
  \A q \in Tracks : track[q].pc \in {"done", "failed"} /\ q \in versioned =>
    \A i \in track[q].affected : status[i] # "ABSENT"

\* The replays that have sent a row again.
Resent(i) == {r \in Replays : replay[r].item = i /\ replay[r].pc \in {"log", "done"}}

\* A consumer is sent a webhook at most max_attempts times, and once more for each
\* time an operator asked for it.
PostsAreBounded ==
  \A i \in Rows : receipts[i] <= MaxAttempts + Cardinality(Resent(i))

InHands(i) ==
  \E w \in Workers : worker[w].item = i /\ worker[w].pc \in {"lookup", "post", "log", "settle"}

\* No poll selects such a row again.
Stranded == {i \in Rows : status[i] = "DELIVERING" /\ ~InHands(i)}

\* A row in DELIVERING is in the hands of a worker, which will settle it, but for
\* at most one that each crash has left there, of the batches it has interrupted.
DeliveringIsHandled == IsFiniteSet(Stranded) /\ Cardinality(Stranded) <= crashes

\* A settled row is never opened or counted again, and sent again only to
\* replay its dead letter.
SettledIsFinal ==
  [][\A i \in Rows : status[i] \in Settled =>
       /\ status'[i] = status[i]
       /\ attempts'[i] = attempts[i]
       /\ receipts'[i] # receipts[i] =>
            \E r \in Replays : r \in Resent(i)' \ Resent(i) /\ DlqKey[i] \in dlq]_vars

\* The rows as notices of DeliveryPromise: an open one is pending or being sent.
NoticeState(i) ==
  IF status[i] = "ABSENT" THEN "new"
  ELSE IF status[i] = "DELIVERED" THEN "delivered"
  ELSE IF status[i] = "FAILED" THEN "dead" ELSE "open"

Promise == INSTANCE DeliveryPromise WITH
  Changes <- Tracks, Notices <- Rows, NoticesOf <- RowsOf, Letter <- DlqKey,
  affected <- [q \in Tracks |-> track[q].affected], recorded <- versioned,
  state <- [i \in Rows |-> NoticeState(i)],
  has <- {i \in Rows : receipts[i] > 0}, letters <- dlq

\* The outbox with its batches, retries and crashes keeps the promise: a version
\* and the rows of all its affected subscriptions appear in one step, a row settles
\* once, as DELIVERED only after it was received and as FAILED only with its dead
\* letter, and a consumer receives nothing but open rows and replays.
ImplementsPromise == Promise!Spec

\* Every inserted row is in the end, and stays, delivered or in the dead-letter
\* queue, whatever the consumers answer and whoever dies, unless it is stranded.
EveryRowSettles ==
  \A i \in Rows : <>[](status[i] \in {"ABSENT"} \union Settled \/ i \in Stranded)
=============================================================================
