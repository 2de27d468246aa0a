----------------------------- MODULE ReviewFlow -----------------------------
(***************************************************************************)
(* Contract reviews (src/app/runtime/contract_review.py) and the evidence  *)
(* they read: documents of the document store, rows of PostgreSQL.  A      *)
(* review collects one kind of evidence after another while requests,      *)
(* workers and publishers go on recording, asks a model for an opinion,    *)
(* checks that the opinion is grounded and stores it.                      *)
(*                                                                         *)
(* Everything recorded is one append-only log; a collection or table is    *)
(* the part of the log with its kind, and newest-first is by position.     *)
(* A row says "breaking" or "risky" if _severity_from_evidence finds one   *)
(* of the phrases for it in the row's summary and details, and otherwise   *)
(* "compatible".  The summary of a schema diff is a prefix of the JSON of  *)
(* its differences: what it says does not follow from the classification.  *)
(***************************************************************************)
EXTENDS Integers, FiniteSets, Sequences

CONSTANTS Reviews,       \* requests for a review
          Endpoints,     \* endpoints that documents were stored for
          Registered,    \* those whose registration was committed
          Sayings,       \* what diffs and violations say
          Outcomes,      \* answers of a model that parse
          EvidenceLimit, \* ContractReviewRequest.evidence_limit
          Models,        \* models that the provider asks in turn
          MaxRows,       \* bound: rows recorded
          None

Severities == {"breaking", "risky", "compatible"}
Decisions  == {"approve", "needs_changes", "block"}

\* The kinds of evidence in the order in which they are read.
ReadOrder == <<"schema-diff", "snapshot", "validation", "drift-violation",
               "dlq", "drift-event-dlq", "attempt">>
Kinds == {ReadOrder[i] : i \in DOMAIN ReadOrder}

\* A line of a review's evidence: the citation in it, or None.
Lines == [kind : Kinds, index : Nat \ {0}] \union {None}

ASSUME ReviewAssumption ==
  /\ Registered \subseteq Endpoints /\ Sayings \subseteq Severities
  /\ EvidenceLimit \in Nat \ {0} /\ Models \in Nat /\ MaxRows \in Nat
  /\ \A o \in Outcomes : o.decision \in Decisions /\ o.lines \subseteq Lines

VARIABLES
  log,       \* what was recorded, oldest first
  pc,        \* what a review does
  endpoint,  \* the endpoint it is about
  reads,     \* the statements that collected its evidence so far
  evidence,  \* for each kind, the rows collected
  asked,     \* the models asked so far
  review,    \* its ContractReviewOutcome; stored once pc is "stored"
  arrived    \* the length of the log when the request came

vars == <<log, pc, endpoint, reads, evidence, asked, review, arrived>>

Nothing  == [k \in Kinds |-> {}]
NoReview == [by |-> None, decision |-> None, lines |-> {}]

Init ==
  /\ log      = <<>>
  /\ pc       = [r \in Reviews |-> "idle"]
  /\ endpoint = [r \in Reviews |-> None]
  /\ reads    = [r \in Reviews |-> 0]
  /\ evidence = [r \in Reviews |-> Nothing]
  /\ asked    = [r \in Reviews |-> 0]
  /\ review   = [r \in Reviews |-> NoReview]
  /\ arrived  = [r \in Reviews |-> 0]

-----------------------------------------------------------------------------
(* Recording.  The runtime's endpoints and the legacy validator's are two  *)
(* tables, each with identifiers of its own.                               *)

RegistryId(e) == <<"contract_registry_endpoints", e>>
LegacyId(e)   == <<"api_endpoints", e>>

Record(k, id, says) ==
  /\ Len(log) < MaxRows
  /\ log' = Append(log, [kind |-> k, endpoint |-> id, says |-> says])
  /\ UNCHANGED <<pc, endpoint, reads, evidence, asked, review, arrived>>

\* Documents are stored before the request's commit, and stay if it fails.
StoreSnapshot(e) == Record("snapshot", RegistryId(e), "compatible")
StoreDiff(e) ==
  \E says \in Sayings : Record("schema-diff", RegistryId(e), says)
StoreValidationError == Record("validation", None, "compatible")

\* The legacy validator runs after the commit of the registration.
LogViolation(e) ==
  /\ e \in Registered
  /\ \E says \in Sayings : Record("drift-violation", LegacyId(e), says)

LogAttempt(e) ==
  e \in Registered /\ Record("attempt", RegistryId(e), "compatible")
DeadLetter(e) ==
  e \in Registered /\ Record("dlq", RegistryId(e), "compatible")
RecordEventFailure(e) ==
  e \in Registered /\ Record("drift-event-dlq", RegistryId(e), "compatible")

-----------------------------------------------------------------------------
(* Collecting.                                                             *)

All(k)     == {i \in DOMAIN log : log[i].kind = k}
Of(S, id)  == {i \in S : log[i].endpoint = id}
Latest(S, n) == {i \in S : Cardinality({j \in S : j > i}) < n}

\* Mutant: the window is taken over all endpoints' documents and not widened.
DocItemsNarrow(k, id) == Of(Latest(All(k), EvidenceLimit), id)

\* Documents: a window over all endpoints, then those of this endpoint.
DocItems(k, id) ==
  Latest(Of(Latest(All(k), 2 * EvidenceLimit), id), EvidenceLimit)

\* Rows: the newest of this endpoint.
RowItems(k, id, n) == Latest(Of(All(k), id), n)

Items(k, id) ==
  CASE k \in {"schema-diff", "snapshot"} -> DocItems(k, id)
    [] k = "validation"      -> Latest(All(k), EvidenceLimit)
    [] k \in {"drift-violation", "dlq"} -> RowItems(k, id, EvidenceLimit)
    [] k = "drift-event-dlq" -> Of(Latest(All(k), 2 * EvidenceLimit), id)
    [] k = "attempt"         -> RowItems(k, id, 2 * EvidenceLimit)

Request(r, e) ==
  /\ pc[r] = "idle"
  /\ endpoint' = [endpoint EXCEPT ![r] = e]
  /\ arrived'  = [arrived EXCEPT ![r] = Len(log)]
  /\ pc' = [pc EXCEPT ![r] = IF e \in Registered THEN "collect" ELSE "missing"]
  /\ UNCHANGED <<log, reads, evidence, asked, review>>

Collect(r) ==
  /\ pc[r] = "collect" /\ reads[r] < Len(ReadOrder)
  /\ reads' = [reads EXCEPT ![r] = @ + 1]
  /\ LET k == ReadOrder[reads[r] + 1]
     IN  evidence' = [evidence EXCEPT ![r][k] = Items(k, RegistryId(endpoint[r]))]
  /\ UNCHANGED <<log, pc, endpoint, asked, review, arrived>>

-----------------------------------------------------------------------------
(* Reviewing.                                                              *)

\* Delivery attempts alone are no evidence.
Insufficient(ev) == \A k \in Kinds \ {"attempt"} : ev[k] = {}

\* _severity_from_evidence
Says(ev, s) ==
  \E i \in ev["schema-diff"] \union ev["drift-violation"] : log[i].says = s
Severity(ev) ==
  IF Says(ev, "breaking") THEN "breaking"
  ELSE IF Says(ev, "risky") THEN "risky" ELSE "compatible"

\* _decision_for_severity
Decision(severity, insufficient) ==
  CASE insufficient \/ severity = "breaking" -> "block"
    [] ~insufficient /\ severity = "risky" -> "needs_changes"
    [] OTHER -> "approve"

Numbered(ev, k)  == [i \in 1..Cardinality(ev[k]) |-> [kind |-> k, index |-> i]]
CitationsOf(ev, k) == {Numbered(ev, k)[i] : i \in DOMAIN Numbered(ev, k)}
Citations(ev)    == UNION {CitationsOf(ev, k) : k \in Kinds}

\* The first five citations; drift-event dead letters are not among them.
EvidenceItems(ev) ==
  LET all == Numbered(ev, "schema-diff") \o Numbered(ev, "snapshot")
               \o Numbered(ev, "validation") \o Numbered(ev, "dlq")
               \o Numbered(ev, "attempt") \o Numbered(ev, "drift-violation")
  IN  {all[i] : i \in DOMAIN all \intersect 1..5}

\* _build_heuristic_review
Heuristic(ev) ==
  [by |-> "evidence", decision |-> Decision(Severity(ev), Insufficient(ev)),
   lines |-> EvidenceItems(ev)]

\* The grounding check looks for a citation as a substring of the line.
Mentions(line, c) ==
  /\ line # None
  /\ \/ c.kind = line.kind
     \/ c.kind = "dlq" /\ line.kind = "drift-event-dlq"
  /\ c.index \in {line.index, line.index \div 10}

Grounded(v, ev) ==
  v.lines # {} /\ \A line \in v.lines : \E c \in Citations(ev) : Mentions(line, c)

\* Mutant: one line with a citation is enough.
VerifySome(v, ev) ==
  IF \E line \in v.lines, c \in Citations(ev) : Mentions(line, c) THEN v
  ELSE Heuristic(ev)

\* verify_evidence_grounding
Verify(v, ev) == IF Grounded(v, ev) THEN v ELSE Heuristic(ev)

\* Between the last read and the store only a call of a model waits.
Settle(r, v) ==
  /\ review' = [review EXCEPT ![r] = Verify(v, evidence[r])]
  /\ pc' = [pc EXCEPT ![r] = "persist"]

CanAsk(r) == ~Insufficient(evidence[r]) /\ asked[r] < Models

Ready(r) == pc[r] = "collect" /\ reads[r] = Len(ReadOrder)

\* No model to ask, none left, or nothing to ask about.
ReviewWithoutModel(r) ==
  /\ Ready(r) /\ ~CanAsk(r)
  /\ Settle(r, Heuristic(evidence[r]))
  /\ UNCHANGED <<log, endpoint, reads, evidence, asked, arrived>>

ModelAnswers(r) ==
  /\ Ready(r) /\ CanAsk(r)
  /\ \E o \in Outcomes :
       Settle(r, [by |-> "model", decision |-> o.decision, lines |-> o.lines])
  /\ UNCHANGED <<log, endpoint, reads, evidence, asked, arrived>>

\* A timeout, an error, or an answer that does not parse.
ModelFails(r) ==
  /\ Ready(r) /\ CanAsk(r)
  /\ asked' = [asked EXCEPT ![r] = @ + 1]
  /\ UNCHANGED <<log, pc, endpoint, reads, evidence, review, arrived>>

Persist(r) ==
  /\ pc[r] = "persist"
  /\ pc' = [pc EXCEPT ![r] = "stored"]
  /\ UNCHANGED <<log, endpoint, reads, evidence, asked, review, arrived>>

\* A statement or the document store fails, or the client goes away.
Abort(r) ==
  /\ pc[r] \in {"collect", "persist"}
  /\ pc' = [pc EXCEPT ![r] = "failed"]
  /\ UNCHANGED <<log, endpoint, reads, evidence, asked, review, arrived>>

ReviewStep(r) ==
  \/ \E e \in Endpoints : Request(r, e)
  \/ Collect(r)
  \/ ReviewWithoutModel(r)
  \/ ModelAnswers(r)
  \/ ModelFails(r)
  \/ Persist(r)
  \/ Abort(r)

RecordStep(e) ==
  \/ StoreSnapshot(e)
  \/ StoreDiff(e)
  \/ LogViolation(e)
  \/ LogAttempt(e)
  \/ DeadLetter(e)
  \/ RecordEventFailure(e)

Next ==
  \/ \E r \in Reviews : ReviewStep(r)
  \/ \E e \in Endpoints : RecordStep(e)
  \/ StoreValidationError

Spec == Init /\ [][Next]_vars

-----------------------------------------------------------------------------
(* Properties.                                                             *)

\* Every value is in its set: a review's evidence are rows of the right kind
\* and of the endpoint under review, of which no more than the windows of
\* collect_contract_evidence allow.
TypeOK ==
  /\ log \in Seq([kind : Kinds, says : Severities,
                  endpoint : {RegistryId(e) : e \in Endpoints} \union
                             {LegacyId(e) : e \in Endpoints} \union {None}])
  /\ pc \in [Reviews -> {"idle", "collect", "persist", "stored", "missing", "failed"}]
  /\ endpoint \in [Reviews -> Endpoints \union {None}]
  /\ reads \in [Reviews -> 0..Len(ReadOrder)]
  /\ asked \in [Reviews -> 0..Models]
  /\ arrived \in [Reviews -> 0..MaxRows]
  /\ \A r \in Reviews :
       /\ review[r].decision \in Decisions \union {None}
       /\ review[r].lines \subseteq Lines
       /\ \A k \in Kinds :
            /\ evidence[r][k] \subseteq All(k)
            /\ Cardinality(evidence[r][k]) <= 2 * EvidenceLimit
            /\ k # "validation" =>
                 evidence[r][k] \subseteq Of(All(k), RegistryId(endpoint[r]))

\* What is stored rests on what was collected: an answer of the model was
\* asked for on sufficient evidence and every line of it mentions something
\* collected; a review derived from the evidence cites only what was
\* collected, and approves only if there was some and none of it said otherwise.
StoredReviewsAreGrounded ==
  \A r \in Reviews : pc[r] = "stored" =>
    LET ev == evidence[r]
        v  == review[r]
    IN  \/ v.by = "model" /\ ~Insufficient(ev) /\ Grounded(v, ev)
        \/ /\ v.by = "evidence"
           /\ v.lines \subseteq Citations(ev)
           /\ v.decision = "approve" =>
                ~Insufficient(ev) /\ ~Says(ev, "breaking") /\ ~Says(ev, "risky")

\* A schema diff that was stored before the request came and that reads as
\* breaking blocks, if no model answered, whatever is recorded meanwhile;
\* unless newer diffs pushed it out of the window: EvidenceLimit of the same
\* endpoint, or twice that many of any.
BreakInSightBlocks ==
  \A r \in Reviews : pc[r] = "stored" /\ review[r].by = "evidence" =>
    LET diffs == All("schema-diff")
        id    == RegistryId(endpoint[r])
    IN  \A i \in Of(diffs, id) \intersect 1..arrived[r] :
          log[i].says = "breaking" =>
            \/ review[r].decision = "block"
            \/ Cardinality({j \in diffs : j > i}) >= 2 * EvidenceLimit
            \/ Cardinality({j \in Of(diffs, id) : j > i}) >= EvidenceLimit

=============================================================================
