--------------------------- MODULE TrackPipeline ---------------------------
(***************************************************************************)
(* A payload on its whole way: the gateway forwards the delivery (module  *)
(* Gateway), track_contract records the schema as a version of its        *)
(* contract, announces the change and commits (app/runtime/service.py),   *)
(* the second half of POST /track keeps the legacy snapshot (module       *)
(* LegacyBaseline), and only then the gateway gets its answer.            *)
(*                                                                         *)
(* Versions are taken as module VersionHistory promises them, which module *)
(* SchemaRegistry is shown to implement; what is added here is the order   *)
(* of the event, the commits and the answer, each of which may be the last *)
(* thing a request does.                                                   *)
(***************************************************************************)
EXTENDS Gateway, LegacyBaseline, Sequences, Functions

CONSTANTS Namespaces,   \* of contracts; the legacy tables do not have them
          Benchmarks,   \* namespaces whose name starts with k6
          Fingerprints, \* of canonical schemas
          LegacyOf      \* the legacy fingerprint of a payload, which is coarser

ASSUME PipelineAssumption ==
  /\ Requests = Deliveries
  /\ LegacyOf \in [Fingerprints -> Schemas]

VARIABLES
  submission, \* the namespace and the canonical fingerprint of a request
  track,      \* where track_contract is
  version,    \* the version number it has given, 0 without one
  announced,  \* requests that have started to publish their drift event
  history     \* committed rows of contract_schema_versions

trackVars == <<submission, track, version, announced, history>>
pipeVars  == <<vars, legacyVars, trackVars>>

Contracts == Namespaces \X Endpoints

H == INSTANCE VersionHistory WITH Keys <- Contracts

PipeInit ==
  /\ Init
  /\ LegacyInit
  /\ submission \in [Requests -> [namespace : Namespaces, fp : Fingerprints]]
  /\ \A d \in Requests : payload[d].schema = LegacyOf[submission[d].fp]
  /\ track     = [d \in Requests |-> "idle"]
  /\ version   = [d \in Requests |-> 0]
  /\ announced = {}
  /\ H!Init

Contract(d) == <<submission[d].namespace, Endpoint(d)>>
Fp(d)       == submission[d].fp
Recorded(d) == Fp(d) \in Range(history[Contract(d)])

TrackTo(d, from, to) ==
  /\ d \in sent
  /\ track[d] \in from
  /\ track' = [track EXCEPT ![d] = to]
  /\ UNCHANGED <<submission, vars, legacyVars>>

-----------------------------------------------------------------------------
(* track_contract.                                                         *)

\* The advisory lock of the contract is held until the version is committed.
Holds(d, c) ==
  /\ Contract(d) = c
  /\ track[d] \in {"drafted", "announced"}
  /\ ~Recorded(d)

\* upsert_schema_version finds the schema.
FindVersion(d) ==
  /\ TrackTo(d, {"idle"}, "unchanged")
  /\ Recorded(d)
  /\ UNCHANGED <<version, announced, history>>

\* Mutant: the lock is not waited for.
DraftVersionAnyway(d) ==
  /\ TrackTo(d, {"idle"}, "drafted")
  /\ ~Recorded(d)
  /\ version' = [version EXCEPT ![d] = Len(history[Contract(d)]) + 1]
  /\ UNCHANGED <<announced, history>>

\* upsert_schema_version inserts the next version, not yet committed.
DraftVersion(d) ==
  /\ TrackTo(d, {"idle"}, "drafted")
  /\ ~Recorded(d)
  /\ \A q \in Requests : ~Holds(q, Contract(d))
  /\ version' = [version EXCEPT ![d] = Len(history[Contract(d)]) + 1]
  /\ UNCHANGED <<announced, history>>

\* _enqueue_webhook_outbox delivers inline, and deliver_with_retry commits.
CommitInline(d) ==
  /\ TrackTo(d, {"drafted"}, "delivered")
  /\ version[d] > 1
  /\ H!AddVersion(Contract(d), Fp(d))
  /\ UNCHANGED <<version, announced>>

\* publish_fire_and_forget: the event has left, whatever becomes of the request.
Announce(d) ==
  /\ TrackTo(d, {"drafted", "delivered"}, "announced")
  /\ version[d] > 1
  /\ announced' = announced \union {d}
  /\ UNCHANGED <<version, history>>

\* Mutant: a change need not be announced before the commit.
CommitUnannounced(d) ==
  /\ TrackTo(d, {"unchanged", "drafted", "announced"}, "committed")
  /\ IF Recorded(d) THEN UNCHANGED history ELSE H!AddVersion(Contract(d), Fp(d))
  /\ UNCHANGED <<version, announced>>

\* The handler's commit: of a known schema, a first version, a change.
CommitTrack(d) ==
  /\ TrackTo(d, {"unchanged", "drafted", "announced"}, "committed")
  /\ track[d] = "drafted" => version[d] = 1
  /\ IF Recorded(d) THEN UNCHANGED history ELSE H!AddVersion(Contract(d), Fp(d))
  /\ UNCHANGED <<version, announced>>

\* A statement fails, the process dies or the request never arrived: rollback
\* of what is not committed, and an error for the gateway.
AbortTrack(d) ==
  /\ RuntimeRefuses(d)
  /\ step[d] = "idle"
  /\ track' = [track EXCEPT ![d] = "failed"]
  /\ UNCHANGED <<submission, version, announced, history, legacyVars>>

-----------------------------------------------------------------------------
(* The second half of the handler, and its answer.                         *)

Benchmark(d) == submission[d].namespace \in Benchmarks

\* Mutant: the legacy half does not wait for the commit.
BeginSecondHalfEarly(d) ==
  /\ d \in sent
  /\ track[d] # "idle" /\ ~Benchmark(d)
  /\ BeginLegacy(d)
  /\ UNCHANGED <<vars, trackVars>>

BeginSecondHalf(d) ==
  /\ d \in sent
  /\ track[d] = "committed" /\ ~Benchmark(d)
  /\ BeginLegacy(d)
  /\ UNCHANGED <<vars, trackVars>>

SecondHalf(d) == LegacyStep(d) /\ UNCHANGED <<vars, trackVars>>

AbortSecondHalf(d) ==
  /\ FailLegacy(d)
  /\ RuntimeRefuses(d)
  /\ UNCHANGED trackVars

\* Mutant: the answer does not wait for the second half.
AnswerEarly(d) ==
  /\ track[d] = "committed"
  /\ RuntimeTracks(d)
  /\ UNCHANGED <<legacyVars, trackVars>>

\* The result is returned: at once for benchmark traffic.
AnswerTrack(d) ==
  /\ track[d] = "committed" /\ (Benchmark(d) \/ step[d] = "done")
  /\ RuntimeTracks(d)
  /\ UNCHANGED <<legacyVars, trackVars>>

GatewayMoves ==
  /\ \/ \E d \in Deliveries, q \in Request : Refuse(d, q) \/ Forward(d, q)
     \/ \E d \in Deliveries : Accept(d) \/ Fail(d)
     \/ Restart
  /\ UNCHANGED <<legacyVars, trackVars>>

TrackStep(d) ==
  \/ FindVersion(d) \/ DraftVersion(d) \/ CommitInline(d) \/ Announce(d)
  \/ CommitTrack(d) \/ AbortTrack(d)
  \/ BeginSecondHalf(d) \/ SecondHalf(d) \/ AbortSecondHalf(d)
  \/ AnswerTrack(d)

PipeNext == GatewayMoves \/ \E d \in Requests : TrackStep(d)

PipeSpec == PipeInit /\ [][PipeNext]_pipeVars

-----------------------------------------------------------------------------
\* Nobody has made a snapshot the baseline or compared it with one: whoever has
\* inserted it died before, or is still about to promote it.
Unpromoted(x) ==
  /\ baseline[x] = {}
  /\ step[x] \in {"read", "demote", "demoting", "promote", "failed"}

\* A 202 promises that the schema is a version of its contract and, but for
\* benchmark traffic, that its legacy fingerprint is a snapshot of the endpoint:
\* the answer is the last thing the two halves do.  It promises a baseline as well
\* unless the endpoint's snapshots are all unpromoted, since a request that finds
\* its schema known promotes nothing, also when the first request with it has died.
AcceptedIsRecorded ==
  \A d \in Requests : status[d] = 202 =>
    /\ Recorded(d)
    /\ ~Benchmark(d) =>
         /\ \E x \in RowsOf(Endpoint(d)) : Schema(x) = Schema(d)
         /\ ActiveOf(Endpoint(d)) = {} => \A x \in RowsOf(Endpoint(d)) : Unpromoted(x)

\* Of the events of requests that were not rolled back no two are about one
\* version, none is about a first one, and the version has the schema they tell:
\* of the events about a number at most one comes true, whatever was published
\* before a rollback gave the number free again.
AnnouncementsMatch ==
  \A d \in announced : Recorded(d) /\ track[d] # "failed" =>
    /\ version[d] \in 2 .. Len(history[Contract(d)])
    /\ history[Contract(d)][version[d]] = Fp(d)
    /\ \A e \in announced : Contract(e) = Contract(d) /\ version[e] = version[d] =>
         e = d \/ track[e] = "failed"

\* A committed change is announced, about to be, or lost by a request that died
\* after an inline delivery had committed for it.
ChangesAreAnnounced ==
  \A c \in Contracts : \A v \in 2 .. Len(history[c]) :
    \E d \in Requests :
      /\ Contract(d) = c /\ version[d] = v /\ Fp(d) = history[c][v]
      /\ d \in announced \/ track[d] \in {"delivered", "failed"}

\* A legacy violation is about two schemas that the registry holds for the
\* endpoint, in whichever namespaces: neither half knows a drift of payloads
\* that the other has never committed.
ViolationsAreRecorded ==
  \A x \in violations :
    \A s \in {x.observed, x.against} :
      \E n \in Namespaces : \E f \in Range(history[<<n, x.endpoint>>]) : LegacyOf[f] = s
=============================================================================
