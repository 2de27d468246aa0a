-------------------------- MODULE ReviewFlowProofs --------------------------
(***************************************************************************)
(* What a stored review rests on, for every number of reviews, endpoints   *)
(* and rows and every evidence limit, while anything is recorded at any    *)
(* time.  The argument: the log only grows (Grows), so what was collected  *)
(* goes on saying what it said, and a row that newer ones have pushed out  *)
(* of a window stays out (Passed); a row recorded before the request is    *)
(* collected or was pushed out before it was looked for (Seen).  At the    *)
(* end: everything is well-typed, and no evidence outgrows its window.     *)
(***************************************************************************)
EXTENDS ReviewFlow, FiniteSetTheorems, TLAPS

Row == [kind : Kinds, says : Severities,
        endpoint : {RegistryId(e) : e \in Endpoints} \union
                   {LegacyId(e) : e \in Endpoints} \union {None}]

\* Newer schema diffs have pushed row i out of the windows of the endpoint.
Passed(i, id) ==
  \/ Cardinality({j \in All("schema-diff") : j > i}) >= 2 * EvidenceLimit
  \/ Cardinality({j \in Of(All("schema-diff"), id) : j > i}) >= EvidenceLimit

\* The schema diffs that were there when the request came.
Before(r) == Of(All("schema-diff"), RegistryId(endpoint[r])) \intersect 1..arrived[r]

Seen(r) ==
  \A i \in Before(r) :
    i \in evidence[r]["schema-diff"] \/ Passed(i, RegistryId(endpoint[r]))

\* The review is a grounded answer of a model or derived from the evidence.
Rests(r) ==
  \/ /\ review[r].by = "model"
     /\ ~Insufficient(evidence[r])
     /\ Grounded(review[r], evidence[r])
  \/ review[r] = Heuristic(evidence[r])

Typed(r) ==
  /\ evidence[r] \in [Kinds -> SUBSET (1..Len(log))]
  /\ arrived[r] \in 0..Len(log)
  /\ reads[r] \in Nat
  /\ pc[r] = "idle" => reads[r] = 0

Written(r) == pc[r] \in {"persist", "stored"} => reads[r] = 7 /\ Rests(r)

ReviewInv ==
  /\ log \in Seq(Row)
  /\ DOMAIN pc = Reviews /\ DOMAIN endpoint = Reviews /\ DOMAIN reads = Reviews
  /\ DOMAIN evidence = Reviews /\ DOMAIN review = Reviews
  /\ DOMAIN arrived = Reviews
  /\ \A r \in Reviews :
       /\ Typed(r)
       /\ Written(r)
       /\ reads[r] >= 1 => Seen(r)

-----------------------------------------------------------------------------
\* What was recorded stays where it is.
Grows ==
  /\ Len(log) \in Nat /\ Len(log') \in Nat /\ Len(log) <= Len(log')
  /\ DOMAIN log = 1..Len(log) /\ DOMAIN log' = 1..Len(log')
  /\ \A i \in 1..Len(log) : log'[i] = log[i]

\* A review makes seven reads, of the schema diffs first.
LEMMA SevenReads == Len(ReadOrder) = 7 /\ ReadOrder[1] = "schema-diff"
BY DEF ReadOrder

\* Schema diffs are one of the kinds it reads.
LEMMA KindOfDiff == "schema-diff" \in Kinds
BY DEF Kinds, ReadOrder

\* A step that leaves the log alone lets it grow by nothing.
LEMMA SameLogGrows ==
  ASSUME log \in Seq(Row), UNCHANGED log
  PROVE  Grows
BY DEF Grows

\* Recording appends one row.
LEMMA RecordGrows ==
  ASSUME log \in Seq(Row), NEW row \in Row, log' = Append(log, row)
  PROVE  Grows /\ log' \in Seq(Row)
BY DEF Grows

\* A set of rows is finite.
LEMMA FiniteRows ==
  ASSUME NEW n \in Nat, NEW S \in SUBSET (1..n)
  PROVE  IsFiniteSet(S) /\ Cardinality(S) \in Nat
<1>1. IsFiniteSet(1..n)
  BY FS_Interval
<1>2. IsFiniteSet(S)
  BY <1>1, FS_Subset
<1>3. QED
  BY <1>2, FS_CardinalityType

\* A larger set of rows has at least as many.
LEMMA MoreRows ==
  ASSUME NEW n \in Nat, NEW T \in SUBSET (1..n), NEW S \in SUBSET T,
         NEW m \in Nat, Cardinality(S) >= m
  PROVE  Cardinality(T) >= m
<1>1. IsFiniteSet(T) /\ Cardinality(T) \in Nat
  BY FiniteRows
<1>2. S \in SUBSET (1..n)
  OBVIOUS
<1>3. Cardinality(S) \in Nat
  BY <1>2, FiniteRows
<1>4. Cardinality(S) <= Cardinality(T)
  BY <1>1, FS_Subset
<1>5. QED
  BY <1>1, <1>3, <1>4

\* What has been pushed out of the windows stays out.
LEMMA PassedStays ==
  ASSUME Grows, NEW i \in 1..Len(log), NEW id, Passed(i, id)
  PROVE  Passed(i, id)'
<1> DEFINE A == {j \in All("schema-diff") : j > i}
           B == {j \in Of(All("schema-diff"), id) : j > i}
<1>1. 2 * EvidenceLimit \in Nat /\ EvidenceLimit \in Nat
  BY ReviewAssumption
<1>2. A \subseteq A' /\ A' \subseteq 1..Len(log')
  BY DEF Grows, All
<1>3. B \subseteq B' /\ B' \subseteq 1..Len(log')
  BY DEF Grows, All, Of
<1>4. Len(log') \in Nat
  BY DEF Grows
<1>5. CASE Cardinality(A) >= 2 * EvidenceLimit
  <2>1. Cardinality(A') >= 2 * EvidenceLimit
    BY <1>1, <1>2, <1>4, <1>5, MoreRows
  <2>2. QED
    BY <2>1 DEF Passed
<1>6. CASE Cardinality(B) >= EvidenceLimit
  <2>1. Cardinality(B') >= EvidenceLimit
    BY <1>1, <1>3, <1>4, <1>6, MoreRows
  <2>2. QED
    BY <2>1 DEF Passed
<1>7. QED
  BY <1>5, <1>6 DEF Passed

\* What a read of the schema diffs does not return was pushed out.
LEMMA NotReadIsPassed ==
  ASSUME log \in Seq(Row), NEW id,
         NEW i \in Of(All("schema-diff"), id), i \notin DocItems("schema-diff", id)
  PROVE  Passed(i, id)
<1> DEFINE D == All("schema-diff")
           W == Latest(D, 2 * EvidenceLimit)
           A == {j \in D : j > i}
           B == {j \in Of(D, id) : j > i}
           C == {j \in Of(W, id) : j > i}
<1>1. Len(log) \in Nat /\ DOMAIN log = 1..Len(log) /\ EvidenceLimit \in Nat
  BY ReviewAssumption
<1>2. A \subseteq 1..Len(log) /\ B \subseteq 1..Len(log) /\ C \subseteq B
  BY <1>1 DEF All, Of, Latest
<1>3. Cardinality(A) \in Nat /\ Cardinality(C) \in Nat
  <2>1. C \subseteq 1..Len(log)
    BY <1>2
  <2>2. QED
    BY <1>1, <1>2, <2>1, FiniteRows
<1>4. CASE i \notin W
  <2>1. ~(Cardinality(A) < 2 * EvidenceLimit)
    BY <1>4 DEF Latest, Of
  <2>2. Cardinality(A) >= 2 * EvidenceLimit
    BY <1>1, <1>3, <2>1
  <2>3. QED
    BY <2>2 DEF Passed
<1>5. CASE i \in W
  <2>1. i \in Of(W, id)
    BY <1>5 DEF Of
  <2>2. i \notin Latest(Of(W, id), EvidenceLimit)
    BY DEF DocItems
  <2>3. ~(Cardinality(C) < EvidenceLimit)
    BY <2>1, <2>2 DEF Latest
  <2>4. Cardinality(C) >= EvidenceLimit
    BY <1>1, <1>3, <2>3
  <2>5. Cardinality(B) >= EvidenceLimit
    BY <1>1, <1>2, <2>4, MoreRows
  <2>6. QED
    BY <2>5 DEF Passed
<1>6. QED
  BY <1>4, <1>5

\* The variables of a review stay as they are.
Same(r) ==
  /\ pc'[r] = pc[r] /\ endpoint'[r] = endpoint[r] /\ reads'[r] = reads[r]
  /\ evidence'[r] = evidence[r] /\ review'[r] = review[r] /\ arrived'[r] = arrived[r]

\* The evidence says later what it said when it was collected.
LEMMA HeuristicStays ==
  ASSUME Grows, NEW r \in Reviews, Typed(r), evidence'[r] = evidence[r]
  PROVE  Heuristic(evidence[r])' = Heuristic(evidence[r])
<1>1. evidence[r]["schema-diff"] \union evidence[r]["drift-violation"] \subseteq 1..Len(log)
  BY DEF Typed, Kinds, ReadOrder
<1>2. \A t : Says(evidence[r], t)' <=> Says(evidence[r], t)
  BY <1>1 DEF Says, Grows
<1>3. Severity(evidence[r])' = Severity(evidence[r])
  BY <1>2 DEF Severity
<1>4. QED
  BY <1>3 DEF Heuristic

\* What was there when the request came does not change.
LEMMA BeforeStays ==
  ASSUME Grows, NEW r \in Reviews, Typed(r), endpoint'[r] = endpoint[r],
         arrived'[r] = arrived[r]
  PROVE  Before(r)' = Before(r) /\ Before(r) \subseteq 1..Len(log)
BY DEF Before, Grows, Typed, All, Of

\* What a review has seen, it has seen for good.
LEMMA SeenStays ==
  ASSUME Grows, NEW r \in Reviews, Typed(r), Seen(r), endpoint'[r] = endpoint[r],
         arrived'[r] = arrived[r],
         evidence'[r]["schema-diff"] = evidence[r]["schema-diff"]
  PROVE  Seen(r)'
<1>1. Before(r)' = Before(r) /\ Before(r) \subseteq 1..Len(log)
  BY BeforeStays
<1>2. SUFFICES ASSUME NEW i \in Before(r), i \notin evidence[r]["schema-diff"]
               PROVE  Passed(i, RegistryId(endpoint[r]))'
  BY <1>1 DEF Seen
<1>3. i \in 1..Len(log) /\ Passed(i, RegistryId(endpoint[r]))
  BY <1>1, <1>2 DEF Seen
<1> DEFINE id == RegistryId(endpoint[r])
<1>4. id' = id
  BY DEF RegistryId
<1> HIDE DEF id
<1>5. QED
  BY <1>3, <1>4, PassedStays DEF id

\* A review that does nothing while the log grows.
LEMMA SameStays ==
  ASSUME ReviewInv, Grows, NEW r \in Reviews, Same(r)
  PROVE  Typed(r)' /\ Written(r)' /\ (reads'[r] >= 1 => Seen(r)')
<1>1. Typed(r) /\ Written(r) /\ (reads[r] >= 1 => Seen(r))
  BY DEF ReviewInv
<1>2. Typed(r)'
  BY <1>1 DEF Typed, Same, Grows
<1>3. Written(r)'
  <2>1. Heuristic(evidence[r])' = Heuristic(evidence[r])
    BY <1>1, HeuristicStays DEF Same
  <2>2. Insufficient(evidence[r])' = Insufficient(evidence[r])
        /\ Grounded(review[r], evidence[r])' = Grounded(review[r], evidence[r])
    BY DEF Same
  <2>3. QED
    BY <1>1, <2>1, <2>2 DEF Written, Rests, Same
<1>4. reads'[r] >= 1 => Seen(r)'
  BY <1>1, SeenStays DEF Same
<1>5. QED
  BY <1>2, <1>3, <1>4

-----------------------------------------------------------------------------
\* The parts of the invariant that are about the domains.
Domains ==
  /\ DOMAIN pc = Reviews /\ DOMAIN endpoint = Reviews /\ DOMAIN reads = Reviews
  /\ DOMAIN evidence = Reviews /\ DOMAIN review = Reviews
  /\ DOMAIN arrived = Reviews

\* At the start no review has read anything.
LEMMA InitReview == Init => ReviewInv
<1> SUFFICES ASSUME Init PROVE ReviewInv
  OBVIOUS
<1>1. log \in Seq(Row) /\ Len(log) = 0
  BY DEF Init
<1>2. \A r \in Reviews : Typed(r) /\ Written(r) /\ ~(reads[r] >= 1)
  BY <1>1 DEF Init, Typed, Written, Nothing
<1>3. QED
  BY <1>1, <1>2 DEF Init, ReviewInv

\* Recording disturbs no review.
LEMMA RecordKeeps ==
  ASSUME ReviewInv, NEW k \in Kinds, NEW says \in Severities,
         NEW id \in {RegistryId(e) : e \in Endpoints} \union
                    {LegacyId(e) : e \in Endpoints} \union {None},
         Record(k, id, says)
  PROVE  ReviewInv'
<1>1. Grows /\ log' \in Seq(Row)
  <2>1. [kind |-> k, endpoint |-> id, says |-> says] \in Row
    BY DEF Row
  <2>2. QED
    BY <2>1, RecordGrows DEF Record, ReviewInv
<1>2. \A r \in Reviews : Same(r)
  BY DEF Record, Same
<1>3. QED
  BY <1>1, <1>2, SameStays DEF Record, ReviewInv

\* Whatever the other services record, the reviews stay where they were.
LEMMA RecordStepKeeps ==
  ASSUME ReviewInv, NEW e \in Endpoints, RecordStep(e)
  PROVE  ReviewInv'
<1>1. /\ {"schema-diff", "snapshot", "validation", "drift-violation", "dlq",
          "drift-event-dlq", "attempt"} \subseteq Kinds
      /\ "compatible" \in Severities /\ Sayings \subseteq Severities
  BY ReviewAssumption DEF Kinds, ReadOrder, Severities
<1>2. CASE StoreSnapshot(e)
  BY <1>1, <1>2, RecordKeeps DEF StoreSnapshot
<1>3. CASE StoreDiff(e)
  BY <1>1, <1>3, RecordKeeps DEF StoreDiff
<1>4. CASE LogViolation(e)
  BY <1>1, <1>4, RecordKeeps DEF LogViolation
<1>5. CASE LogAttempt(e)
  BY <1>1, <1>5, RecordKeeps DEF LogAttempt
<1>6. CASE DeadLetter(e)
  BY <1>1, <1>6, RecordKeeps DEF DeadLetter
<1>7. CASE RecordEventFailure(e)
  BY <1>1, <1>7, RecordKeeps DEF RecordEventFailure
<1>8. QED
  BY <1>2, <1>3, <1>4, <1>5, <1>6, <1>7 DEF RecordStep

\* A step of one review leaves the others and the log alone.
LEMMA OthersStay ==
  ASSUME ReviewInv, NEW r \in Reviews, ReviewStep(r)
  PROVE  /\ UNCHANGED log /\ Grows /\ Domains'
         /\ \A s \in Reviews \ {r} : Same(s)
<1>1. UNCHANGED log
  BY DEF ReviewStep, Request, Collect, ReviewWithoutModel, ModelAnswers, ModelFails,
    Persist, Abort
<1>2. Domains' /\ \A s \in Reviews \ {r} : Same(s)
  BY DEF ReviewInv, Domains, Same, ReviewStep, Request, Collect, ReviewWithoutModel,
    ModelAnswers, ModelFails, Persist, Abort, Settle
<1>3. QED
  BY <1>1, <1>2, SameLogGrows DEF ReviewInv

\* It therefore keeps the invariant if it does so for its own review.
LEMMA OwnSuffices ==
  ASSUME ReviewInv, NEW r \in Reviews, ReviewStep(r),
         Typed(r)', Written(r)', reads'[r] >= 1 => Seen(r)'
  PROVE  ReviewInv'
<1>1. UNCHANGED log /\ Grows /\ Domains' /\ \A s \in Reviews \ {r} : Same(s)
  BY OthersStay
<1>2. \A s \in Reviews \ {r} : Typed(s)' /\ Written(s)' /\ (reads'[s] >= 1 => Seen(s)')
  BY <1>1, SameStays
<1>3. QED
  BY <1>1, <1>2 DEF ReviewInv, Domains

-----------------------------------------------------------------------------
\* What is read are rows of the log, and schema diffs are read first.
LEMMA ItemsAreRows ==
  ASSUME log \in Seq(Row), NEW k \in Kinds, NEW id
  PROVE  Items(k, id) \subseteq 1..Len(log)
<1>1. All(k) \subseteq 1..Len(log)
  BY DEF All
<1>2. /\ DocItems(k, id) \subseteq All(k)
      /\ \A n : RowItems(k, id, n) \subseteq All(k)
      /\ \A n : Latest(All(k), n) \subseteq All(k)
      /\ \A n : Of(Latest(All(k), n), id) \subseteq All(k)
  BY DEF DocItems, RowItems, Of, Latest
<1>3. k \in {"schema-diff", "snapshot", "validation", "drift-violation", "dlq",
             "drift-event-dlq", "attempt"}
  BY DEF Kinds, ReadOrder
<1>4. Items(k, id) \subseteq All(k)
  <2>1. CASE k \in {"schema-diff", "snapshot"}
    BY <1>2, <2>1 DEF Items
  <2>2. CASE k = "validation"
    BY <1>2, <2>2 DEF Items
  <2>3. CASE k \in {"drift-violation", "dlq"}
    BY <1>2, <2>3 DEF Items
  <2>4. CASE k = "drift-event-dlq"
    BY <1>2, <2>4 DEF Items
  <2>5. CASE k = "attempt"
    BY <1>2, <2>5 DEF Items
  <2>6. QED
    BY <1>3, <2>1, <2>2, <2>3, <2>4, <2>5
<1>5. QED
  BY <1>1, <1>4

\* Each of the seven reads is of a kind, and only the first is of schema diffs.
LEMMA DiffsFirst ==
  \A n \in 1..7 : ReadOrder[n] \in Kinds /\ (ReadOrder[n] = "schema-diff" <=> n = 1)
BY DEF ReadOrder, Kinds

\* A read adds to the evidence the newest rows of its kind.
LEMMA CollectKeeps ==
  ASSUME ReviewInv, NEW r \in Reviews, Collect(r)
  PROVE  ReviewInv'
<1> DEFINE k  == ReadOrder[reads[r] + 1]
           id == RegistryId(endpoint[r])
<1>1. /\ Typed(r) /\ Written(r) /\ (reads[r] >= 1 => Seen(r)) /\ log \in Seq(Row)
      /\ Domains
  BY DEF ReviewInv, Domains
<1>2. /\ pc[r] = "collect" /\ reads[r] \in 0..6 /\ reads'[r] = reads[r] + 1
      /\ evidence' = [evidence EXCEPT ![r][k] = Items(k, id)]
      /\ UNCHANGED <<log, pc, endpoint, asked, review, arrived>>
  BY <1>1, SevenReads DEF Collect, Typed, Domains
<1>3. k \in Kinds /\ (k = "schema-diff" <=> reads[r] = 0)
  BY <1>2, DiffsFirst
<1>4. evidence'[r] = [evidence[r] EXCEPT ![k] = Items(k, id)]
  BY <1>1, <1>2 DEF Domains
<1>5. Items(k, id) \subseteq 1..Len(log)
  BY <1>1, <1>3, ItemsAreRows
<1> HIDE DEF k
<1>6. Typed(r)'
  BY <1>1, <1>2, <1>3, <1>4, <1>5 DEF Typed
<1>7. Written(r)'
  BY <1>2 DEF Written
<1>8. Grows
  BY <1>1, <1>2, SameLogGrows
<1>9. Seen(r)'
  <2>1. CASE reads[r] = 0
    <3>1. evidence'[r]["schema-diff"] = DocItems("schema-diff", id)
      BY <1>1, <1>3, <1>4, <2>1 DEF Items, Typed
    <3>2. Before(r)' = Before(r) /\ Before(r) \subseteq 1..Len(log)
      BY <1>1, <1>2, <1>8, BeforeStays
    <3>3. SUFFICES ASSUME NEW i \in Before(r), i \notin DocItems("schema-diff", id)
                   PROVE  Passed(i, id)'
      BY <1>2, <3>1, <3>2 DEF Seen
    <3>4. i \in Of(All("schema-diff"), id)
      BY DEF Before
    <3>5. Passed(i, id)
      BY <1>1, <3>3, <3>4, NotReadIsPassed
    <3>6. QED
      BY <1>2, <3>5 DEF Passed, All, Of
  <2>2. CASE reads[r] # 0
    <3>1. evidence'[r]["schema-diff"] = evidence[r]["schema-diff"]
      BY <1>1, <1>3, <1>4, <2>2 DEF Typed
    <3>2. Seen(r)
      BY <1>1, <1>2, <2>2
    <3>3. QED
      BY <1>1, <1>2, <1>8, <3>1, <3>2, SeenStays
  <2>3. QED
    BY <2>1, <2>2
<1>10. QED
  BY <1>6, <1>7, <1>9, OwnSuffices DEF ReviewStep

\* The steps that change neither what was collected nor what was read.
LEMMA QuietKeeps ==
  ASSUME ReviewInv, NEW r \in Reviews, ReviewStep(r), Written(r)',
         pc[r] # "idle", pc'[r] # "idle",
         UNCHANGED <<log, endpoint, reads, evidence, arrived>>
  PROVE  ReviewInv'
<1>1. Typed(r) /\ (reads[r] >= 1 => Seen(r)) /\ log \in Seq(Row)
  BY DEF ReviewInv
<1>2. Typed(r)'
  BY <1>1 DEF Typed
<1>3. reads'[r] >= 1 => Seen(r)'
  BY <1>1, SameLogGrows, SeenStays
<1>4. QED
  BY <1>2, <1>3, OwnSuffices

\* Whatever the candidate was, the settled review rests on the evidence.
LEMMA SettledRests ==
  ASSUME ReviewInv, NEW r \in Reviews, Ready(r), NEW v, Settle(r, v),
         v = Heuristic(evidence[r]) \/ (v.by = "model" /\ ~Insufficient(evidence[r])),
         UNCHANGED <<log, evidence, reads>>
  PROVE  Written(r)' /\ pc'[r] = "persist"
<1>1. Domains /\ Typed(r) /\ log \in Seq(Row)
  BY DEF ReviewInv, Domains
<1>2. review'[r] = Verify(v, evidence[r]) /\ pc'[r] = "persist"
  BY <1>1 DEF Settle, Domains
<1>3. Heuristic(evidence[r])' = Heuristic(evidence[r])
  BY <1>1, SameLogGrows, HeuristicStays
<1>4. \/ review'[r] = Heuristic(evidence[r])
      \/ /\ review'[r].by = "model" /\ ~Insufficient(evidence[r])
         /\ Grounded(review'[r], evidence[r])
  BY <1>2 DEF Verify
<1>5. Rests(r)'
  BY <1>3, <1>4 DEF Rests
<1>6. QED
  BY <1>2, <1>5, SevenReads DEF Written, Ready

\* Every step of a review keeps the invariant.
LEMMA ReviewStepKeeps ==
  ASSUME ReviewInv, NEW r \in Reviews, ReviewStep(r)
  PROVE  ReviewInv'
<1>1. Domains /\ Typed(r) /\ Written(r) /\ log \in Seq(Row)
  BY DEF ReviewInv, Domains
<1>2. CASE \E e \in Endpoints : Request(r, e)
  <2>1. PICK e \in Endpoints : Request(r, e)
    BY <1>2
  <2>2. /\ reads[r] = 0 /\ reads' = reads
        /\ pc'[r] \in {"collect", "missing"} /\ arrived'[r] = Len(log)
        /\ UNCHANGED <<log, evidence>>
    BY <1>1, <2>1 DEF Request, Domains, Typed
  <2>3. Typed(r)'
    BY <1>1, <2>2 DEF Typed
  <2>4. Written(r)' /\ ~(reads'[r] >= 1)
    BY <2>2 DEF Written
  <2>5. QED
    BY <2>3, <2>4, OwnSuffices
<1>3. CASE Collect(r)
  BY <1>3, CollectKeeps
<1>4. CASE ReviewWithoutModel(r)
  <2>1. Written(r)' /\ pc'[r] = "persist"
    BY <1>4, SettledRests DEF ReviewWithoutModel
  <2>2. QED
    BY <1>4, <2>1, QuietKeeps DEF ReviewWithoutModel, Ready
<1>5. CASE ModelAnswers(r)
  <2>1. PICK o \in Outcomes :
          Settle(r, [by |-> "model", decision |-> o.decision, lines |-> o.lines])
    BY <1>5 DEF ModelAnswers
  <2>2. Ready(r) /\ ~Insufficient(evidence[r]) /\ UNCHANGED <<log, endpoint, reads, evidence, arrived>>
    BY <1>5 DEF ModelAnswers, CanAsk
  <2>3. Written(r)' /\ pc'[r] = "persist"
    BY <2>1, <2>2, SettledRests
  <2>4. QED
    BY <2>2, <2>3, QuietKeeps DEF Ready
<1>6. CASE ModelFails(r)
  <2>1. Written(r)'
    BY <1>6 DEF ModelFails, Ready, Written
  <2>2. QED
    BY <1>6, <2>1, QuietKeeps DEF ModelFails, Ready
<1>7. CASE Persist(r)
  <2>1. /\ pc[r] = "persist" /\ pc'[r] = "stored"
        /\ UNCHANGED <<log, endpoint, reads, evidence, review, arrived>>
    BY <1>1, <1>7 DEF Persist, Domains
  <2>2. Written(r)'
    BY <1>1, <2>1 DEF Written, Rests, Heuristic, Severity, Says
  <2>3. QED
    BY <2>1, <2>2, QuietKeeps
<1>8. CASE Abort(r)
  <2>1. /\ pc[r] # "idle" /\ pc'[r] = "failed"
        /\ UNCHANGED <<log, endpoint, reads, evidence, arrived>>
    BY <1>1, <1>8 DEF Abort, Domains
  <2>2. Written(r)'
    BY <2>1 DEF Written
  <2>3. QED
    BY <2>1, <2>2, QuietKeeps
<1>9. QED
  BY <1>2, <1>3, <1>4, <1>5, <1>6, <1>7, <1>8 DEF ReviewStep

\* A step of nobody.
LEMMA StutterKeeps ==
  ASSUME ReviewInv, UNCHANGED vars
  PROVE  ReviewInv'
<1>1. log \in Seq(Row) /\ UNCHANGED log /\ \A r \in Reviews : Same(r)
  BY DEF vars, Same, ReviewInv
<1>2. QED
  BY <1>1, SameLogGrows, SameStays DEF ReviewInv, vars

\* The inductive invariant: reviews have seen what was there before them, and
\* what they will store rests on what they have seen.
THEOREM ReviewInvariance == Spec => []ReviewInv
<1>1. Init => ReviewInv
  BY InitReview
<1>2. ReviewInv /\ [Next]_vars => ReviewInv'
  <2> SUFFICES ASSUME ReviewInv, [Next]_vars PROVE ReviewInv'
    OBVIOUS
  <2>1. CASE \E r \in Reviews : ReviewStep(r)
    BY <2>1, ReviewStepKeeps
  <2>2. CASE \E e \in Endpoints : RecordStep(e)
    BY <2>2, RecordStepKeeps
  <2>3. CASE StoreValidationError
    <3>1. "validation" \in Kinds /\ "compatible" \in Severities
      BY DEF Kinds, ReadOrder, Severities
    <3>2. QED
      BY <2>3, <3>1, RecordKeeps DEF StoreValidationError
  <2>4. CASE UNCHANGED vars
    BY <2>4, StutterKeeps
  <2>5. QED
    BY <2>1, <2>2, <2>3, <2>4 DEF Next
<1>3. QED
  BY <1>1, <1>2, PTL DEF Spec

-----------------------------------------------------------------------------
\* A review derived from the evidence cites only what was collected.
LEMMA ItemsAreCited ==
  ASSUME NEW n \in Nat, NEW ev \in [Kinds -> SUBSET (1..n)]
  PROVE  EvidenceItems(ev) \subseteq Citations(ev)
<1> DEFINE C == Citations(ev)
<1>1. ASSUME NEW k \in Kinds PROVE Numbered(ev, k) \in Seq(C)
  <2>1. Cardinality(ev[k]) \in Nat
    BY FiniteRows
  <2>2. DOMAIN Numbered(ev, k) = 1..Cardinality(ev[k])
    BY DEF Numbered
  <2>3. CitationsOf(ev, k) \subseteq C
    BY DEF Citations
  <2>4. \A i \in 1..Cardinality(ev[k]) : Numbered(ev, k)[i] \in C
    BY <2>2, <2>3 DEF CitationsOf
  <2>5. Numbered(ev, k) \in [1..Cardinality(ev[k]) -> C]
    BY <2>4 DEF Numbered
  <2>6. QED
    BY <2>1, <2>5
<1>2. {"schema-diff", "snapshot", "validation", "drift-violation", "dlq",
       "attempt"} \subseteq Kinds
  BY DEF Kinds, ReadOrder
<1> HIDE DEF C
<1> DEFINE all == Numbered(ev, "schema-diff") \o Numbered(ev, "snapshot")
                    \o Numbered(ev, "validation") \o Numbered(ev, "dlq")
                    \o Numbered(ev, "attempt") \o Numbered(ev, "drift-violation")
<1>3. all \in Seq(C)
  BY <1>1, <1>2
<1>4. EvidenceItems(ev) = {all[i] : i \in DOMAIN all \intersect 1..5}
  BY DEF EvidenceItems
<1> HIDE DEF all
<1>5. EvidenceItems(ev) \subseteq C
  BY <1>3, <1>4
<1>6. QED
  BY <1>5 DEF C

\* A grounded answer of the model, or a review whose decision and citations
\* are those of the evidence: for every stored review.
THEOREM GroundedCorrect == Spec => []StoredReviewsAreGrounded
<1>1. ReviewInv => StoredReviewsAreGrounded
  <2> SUFFICES ASSUME ReviewInv, NEW r \in Reviews, pc[r] = "stored",
                      review[r] = Heuristic(evidence[r])
               PROVE  /\ review[r].by = "evidence"
                      /\ review[r].lines \subseteq Citations(evidence[r])
                      /\ review[r].decision = "approve" =>
                           /\ ~Insufficient(evidence[r])
                           /\ ~Says(evidence[r], "breaking")
                           /\ ~Says(evidence[r], "risky")
    BY DEF StoredReviewsAreGrounded, ReviewInv, Written, Rests
  <2>1. Len(log) \in Nat /\ evidence[r] \in [Kinds -> SUBSET (1..Len(log))]
    BY DEF ReviewInv, Typed
  <2>2. review[r].lines \subseteq Citations(evidence[r])
    BY <2>1, ItemsAreCited DEF Heuristic
  <2>3. review[r].decision = Decision(Severity(evidence[r]), Insufficient(evidence[r]))
        /\ review[r].by = "evidence"
    BY DEF Heuristic
  <2>4. QED
    BY <2>2, <2>3 DEF Decision, Severity
<1>2. QED
  BY <1>1, ReviewInvariance, PTL

\* No approval by a fallback hides a diff that read as breaking before the
\* request, whatever was recorded meanwhile.
THEOREM BreakCorrect == Spec => []BreakInSightBlocks
<1>1. ReviewInv => BreakInSightBlocks
  <2> SUFFICES ASSUME ReviewInv, NEW r \in Reviews, pc[r] = "stored",
                      review[r].by = "evidence",
                      NEW i \in Before(r), log[i].says = "breaking",
                      ~Passed(i, RegistryId(endpoint[r]))
               PROVE  review[r].decision = "block"
    BY DEF BreakInSightBlocks, Before, Passed
  <2>1. i \in evidence[r]["schema-diff"] /\ review[r] = Heuristic(evidence[r])
    BY DEF ReviewInv, Written, Rests, Seen
  <2>2. Severity(evidence[r]) = "breaking"
    BY <2>1 DEF Severity, Says
  <2>3. review[r].decision = Decision("breaking", Insufficient(evidence[r]))
    BY <2>1, <2>2 DEF Heuristic
  <2>4. QED
    BY <2>3 DEF Decision
<1>2. QED
  BY <1>1, ReviewInvariance, PTL

-----------------------------------------------------------------------------
\* A set of row numbers that is not empty has a least one: the rows below it
\* are the least of the sets of rows below one of the set.
LEMMA LeastRow ==
  ASSUME NEW n \in Nat, NEW S \in SUBSET (1..n), S # {}
  PROVE  \E m \in S : \A j \in S : m <= j
<1> DEFINE Below(m) == {j \in S : j < m}
           T == {Below(m) : m \in S}
           R == StrictSubsetOrdering(S)
<1>1. IsFiniteSet(S)
  BY FiniteRows
<1>2. IsWellFoundedOn(R, SUBSET S)
  BY <1>1, FS_StrictSubsetOrderingWellFounded, FS_FiniteSubsetsOfFinite
<1>3. S \subseteq Nat
  OBVIOUS
<1>4. T \subseteq SUBSET S /\ T # {}
  OBVIOUS
<1>5. \A x, y \in SUBSET S : y \subseteq x /\ y # x => <<y, x>> \in R
  BY DEF StrictSubsetOrdering
<1> HIDE DEF R, T
<1>6. PICK x \in T : \A y \in T : ~(<<y, x>> \in R)
  BY <1>2, <1>4, WFMin
<1>7. PICK m \in S : x = Below(m)
  BY <1>6 DEF T
<1>8. ASSUME NEW j \in S, ~(m <= j) PROVE FALSE
  <2>1. j < m /\ j \in Nat /\ m \in Nat
    BY <1>3, <1>8
  <2>2. Below(j) \subseteq Below(m) /\ j \in Below(m) /\ j \notin Below(j)
    <3>1. \A i \in S : i < j => i < m
      BY <1>3, <2>1
    <3>2. Below(j) \subseteq Below(m)
      BY <3>1
    <3>3. ~(j < j)
      BY <2>1
    <3>4. j \in Below(m) /\ j \notin Below(j)
      BY <2>1, <3>3
    <3>5. QED
      BY <3>2, <3>4
  <2>3. Below(j) \in T
    BY DEF T
  <2> HIDE DEF Below
  <2>4. QED
    BY <1>4, <1>5, <1>6, <1>7, <2>2, <2>3
<1>9. QED
  BY <1>8

\* A window of n rows has at most n rows.
LEMMA WindowIsBounded ==
  ASSUME NEW n \in Nat, NEW S \in SUBSET (1..n), NEW w \in Nat \ {0}
  PROVE  Cardinality(Latest(S, w)) <= w
<1> DEFINE L == Latest(S, w)
<1>1. L \in SUBSET (1..n)
  BY DEF Latest
<1>2. CASE L = {}
  BY <1>2, FS_EmptySet
<1>3. CASE L # {}
  <2>1. PICK m \in L : \A j \in L : m <= j
    BY <1>1, <1>3, LeastRow
  <2> DEFINE A == {j \in S : j > m}
  <2>2. Cardinality(A) < w
    BY DEF Latest
  <2>3. L \subseteq A \union {m}
    BY <1>1, <2>1 DEF Latest
  <2>4. A \in SUBSET (1..n) /\ m \in 1..n /\ m \notin A
    <3>1. m \in S /\ S \subseteq 1..n
      BY DEF Latest
    <3>2. ~(m > m)
      BY <3>1
    <3>3. A \subseteq S
      OBVIOUS
    <3>4. m \notin A
      BY <3>2
    <3> HIDE DEF A
    <3>5. QED
      BY <3>1, <3>3, <3>4
  <2> HIDE DEF A, L
  <2>5. IsFiniteSet(A) /\ Cardinality(A) \in Nat
    BY <2>4, FiniteRows
  <2>6. IsFiniteSet(A \union {m}) /\ Cardinality(A \union {m}) = Cardinality(A) + 1
    BY <2>4, <2>5, FS_AddElement
  <2>7. Cardinality(L) <= Cardinality(A \union {m})
    BY <2>3, <2>6, FS_Subset
  <2>8. Cardinality(L) \in Nat
    BY <1>1, FiniteRows
  <2>9. QED
    BY <2>2, <2>5, <2>6, <2>7, <2>8 DEF L
<1>4. QED
  BY <1>2, <1>3

\* What is read of a kind are rows of that kind, of the endpoint unless they
\* are validation errors, and never more than twice the limit.
LEMMA ItemsAreWindowed ==
  ASSUME log \in Seq(Row), NEW k \in Kinds, NEW id
  PROVE  /\ Items(k, id) \subseteq All(k)
         /\ Cardinality(Items(k, id)) <= 2 * EvidenceLimit
         /\ k # "validation" => Items(k, id) \subseteq Of(All(k), id)
<1> DEFINE n == Len(log)
<1>1. /\ EvidenceLimit \in Nat \ {0} /\ 2 * EvidenceLimit \in Nat \ {0}
      /\ EvidenceLimit <= 2 * EvidenceLimit
  BY ReviewAssumption
<1>2. n \in Nat /\ All(k) \in SUBSET (1..n) /\ Of(All(k), id) \in SUBSET (1..n)
  BY DEF All, Of
<1>3. \A S, w : Latest(S, w) \subseteq S /\ Of(S, id) \subseteq S
  BY DEF Latest, Of
<1>4. \A S, T : S \subseteq T => Of(S, id) \subseteq Of(T, id)
  BY DEF Of
<1>5. ASSUME NEW S \in SUBSET (1..n) PROVE Cardinality(S) \in Nat
  BY <1>2, FiniteRows
<1>6. ASSUME NEW S \in SUBSET (1..n), NEW w \in {EvidenceLimit, 2 * EvidenceLimit}
      PROVE  /\ Latest(S, w) \in SUBSET (1..n)
             /\ Cardinality(Latest(S, w)) <= 2 * EvidenceLimit
  <2>1. Latest(S, w) \in SUBSET (1..n)
    BY <1>3
  <2>2. Cardinality(Latest(S, w)) <= w
    BY <1>1, <1>2, WindowIsBounded
  <2>3. QED
    BY <1>1, <1>5, <2>1, <2>2
<1> DEFINE W == Latest(All(k), 2 * EvidenceLimit)
<1>7. /\ W \in SUBSET (1..n) /\ Cardinality(W) <= 2 * EvidenceLimit
      /\ W \subseteq All(k)
  BY <1>2, <1>3, <1>6
<1>8. Of(W, id) \in SUBSET (1..n) /\ Of(W, id) \subseteq Of(All(k), id)
  BY <1>3, <1>4, <1>7
<1>9. Cardinality(Of(W, id)) <= 2 * EvidenceLimit
  <2>1. IsFiniteSet(W)
    BY <1>2, <1>7, FiniteRows
  <2>2. Cardinality(Of(W, id)) <= Cardinality(W)
    BY <1>3, <2>1, FS_Subset
  <2>3. QED
    BY <1>1, <1>5, <1>7, <1>8, <2>2
<1>10. CASE k \in {"schema-diff", "snapshot"}
  <2>1. Items(k, id) = Latest(Of(W, id), EvidenceLimit)
    BY <1>10 DEF Items, DocItems
  <2> HIDE DEF W, n
  <2>2. QED
    <3>1. Cardinality(Items(k, id)) <= 2 * EvidenceLimit
      BY <1>6, <1>8, <2>1
    <3>2. Items(k, id) \subseteq Of(All(k), id)
      BY <1>3, <1>8, <2>1
    <3>3. QED
      BY <1>3, <3>1, <3>2
<1>11. CASE k = "validation"
  BY <1>2, <1>3, <1>6, <1>11 DEF Items
<1>12. CASE k \in {"drift-violation", "dlq"}
  BY <1>2, <1>3, <1>6, <1>12 DEF Items, RowItems
<1>13. CASE k = "drift-event-dlq"
  BY <1>3, <1>8, <1>9, <1>13 DEF Items
<1>14. CASE k = "attempt"
  BY <1>2, <1>3, <1>6, <1>14 DEF Items, RowItems
<1>15. QED
  BY <1>10, <1>11, <1>12, <1>13, <1>14 DEF Kinds, ReadOrder

\* A review derived from the evidence decides, and cites by kind and number.
LEMMA HeuristicIsTyped ==
  ASSUME NEW n \in Nat, NEW ev \in [Kinds -> SUBSET (1..n)]
  PROVE  Heuristic(ev).decision \in Decisions /\ Heuristic(ev).lines \subseteq Lines
<1>1. ASSUME NEW k \in Kinds PROVE CitationsOf(ev, k) \subseteq Lines
  <2>1. Cardinality(ev[k]) \in Nat
    BY FiniteRows
  <2>2. \A i \in 1..Cardinality(ev[k]) : [kind |-> k, index |-> i] \in Lines
    BY <2>1 DEF Lines
  <2>3. QED
    BY <2>2 DEF CitationsOf, Numbered
<1>2. Citations(ev) \subseteq Lines
  BY <1>1 DEF Citations
<1>3. Heuristic(ev).lines \subseteq Lines
  BY <1>2, ItemsAreCited DEF Heuristic
<1>4. Decision(Severity(ev), Insufficient(ev)) \in Decisions
  BY DEF Decision, Severity, Decisions
<1>5. QED
  BY <1>3, <1>4 DEF Heuristic

\* The parts of TypeOK, with what keeps them: the log has room for its bound,
\* and a review that has read nothing has no evidence.
States == {"idle", "collect", "persist", "stored", "missing", "failed"}

Windowed(r) ==
  \A k \in Kinds :
    /\ evidence[r][k] \subseteq All(k)
    /\ Cardinality(evidence[r][k]) <= 2 * EvidenceLimit
    /\ k # "validation" => evidence[r][k] \subseteq Of(All(k), RegistryId(endpoint[r]))

Opined(r) ==
  review[r].decision \in Decisions \union {None} /\ review[r].lines \subseteq Lines

Blank(r) == reads[r] = 0 => evidence[r] = Nothing

Shaped ==
  /\ pc \in [Reviews -> States] /\ endpoint \in [Reviews -> Endpoints \union {None}]
  /\ reads \in [Reviews -> 0..7] /\ asked \in [Reviews -> 0..Models]
  /\ arrived \in [Reviews -> 0..MaxRows]

TypeInv ==
  /\ Len(log) <= MaxRows /\ Shaped
  /\ \A r \in Reviews : Blank(r) /\ Opined(r) /\ Windowed(r)

\* The type invariant of the module follows from this part and the rest.
LEMMA TypeInvTypes == ReviewInv /\ TypeInv => TypeOK
BY SevenReads DEF ReviewInv, Row, TypeInv, Shaped, Opined, Windowed, States, TypeOK

\* Rows that are added leave the evidence what it was.
LEMMA WindowedStays ==
  ASSUME Grows, NEW r, Windowed(r),
         evidence'[r] = evidence[r], endpoint'[r] = endpoint[r]
  PROVE  Windowed(r)'
<1>1. \A k, id : All(k) \subseteq All(k)' /\ Of(All(k), id) \subseteq Of(All(k), id)'
  BY DEF Grows, All, Of
<1>2. QED
  BY <1>1 DEF Windowed, RegistryId

\* Rows that are added keep the types of the log and of the reviews.
LEMMA RecordTypes ==
  ASSUME ReviewInv, TypeInv, Grows, Len(log') <= MaxRows,
         UNCHANGED <<pc, endpoint, reads, evidence, asked, review, arrived>>
  PROVE  TypeInv'
<1>1. \A r \in Reviews : Windowed(r)'
  BY WindowedStays DEF TypeInv
<1>2. QED
  BY <1>1 DEF TypeInv, Shaped, Blank, Opined

\* A step of a review has to keep the types of its own values.
LEMMA OwnTypesSuffice ==
  ASSUME ReviewInv, TypeInv, NEW r \in Reviews, ReviewStep(r),
         Shaped', Blank(r)', Opined(r)', Windowed(r)'
  PROVE  TypeInv'
<1>1. UNCHANGED log /\ Grows /\ \A s \in Reviews \ {r} : Same(s)
  BY OthersStay
<1>2. ASSUME NEW s \in Reviews \ {r} PROVE Blank(s)' /\ Opined(s)' /\ Windowed(s)'
  <2>1. Blank(s) /\ Opined(s) /\ Windowed(s) /\ Same(s)
    BY <1>1 DEF TypeInv
  <2>2. Windowed(s)'
    BY <1>1, <2>1, WindowedStays DEF Same
  <2>3. QED
    BY <2>1, <2>2 DEF Same, Blank, Opined
<1>3. QED
  BY <1>1, <1>2 DEF TypeInv

\* A collected kind of evidence is within its window.
LEMMA CollectTypes ==
  ASSUME ReviewInv, TypeInv, NEW r \in Reviews, Collect(r)
  PROVE  TypeInv'
<1> DEFINE k  == ReadOrder[reads[r] + 1]
           id == RegistryId(endpoint[r])
<1>1. /\ log \in Seq(Row) /\ Shaped /\ Blank(r) /\ Opined(r) /\ Windowed(r)
      /\ Domains /\ Typed(r)
  BY DEF ReviewInv, TypeInv, Domains
<1>2. /\ reads[r] \in 0..6 /\ reads' = [reads EXCEPT ![r] = @ + 1]
      /\ evidence' = [evidence EXCEPT ![r][k] = Items(k, id)]
      /\ UNCHANGED <<log, pc, endpoint, asked, review, arrived>>
  BY <1>1, SevenReads DEF Collect, Shaped
<1>3. k \in Kinds
  BY <1>2, DiffsFirst
<1>4. evidence'[r] = [evidence[r] EXCEPT ![k] = Items(k, id)]
  BY <1>1, <1>2 DEF Domains
<1>5. /\ Items(k, id) \subseteq All(k)
      /\ Cardinality(Items(k, id)) <= 2 * EvidenceLimit
      /\ k # "validation" => Items(k, id) \subseteq Of(All(k), id)
  BY <1>1, <1>3, ItemsAreWindowed
<1> HIDE DEF k
<1>6. Shaped' /\ reads'[r] # 0
  BY <1>1, <1>2 DEF Shaped
<1>7. Windowed(r)'
  <2>1. \A q \in Kinds : evidence'[r][q] = IF q = k THEN Items(k, id) ELSE evidence[r][q]
    BY <1>1, <1>3, <1>4 DEF Typed
  <2>2. \A q, i : All(q)' = All(q) /\ Of(All(q), i)' = Of(All(q), i)
    BY <1>2 DEF All, Of
  <2>3. endpoint'[r] = endpoint[r]
    BY <1>2
  <2>4. QED
    BY <1>1, <1>5, <2>1, <2>2, <2>3 DEF Windowed, RegistryId
<1>8. Blank(r)' /\ Opined(r)'
  BY <1>1, <1>2, <1>6 DEF Blank, Opined
<1>9. QED
  BY <1>6, <1>7, <1>8, OwnTypesSuffice DEF ReviewStep

\* The steps that collect nothing have to keep the shape and the opinion.
LEMMA QuietTypes ==
  ASSUME ReviewInv, TypeInv, NEW r \in Reviews, ReviewStep(r), Shaped', Opined(r)',
         UNCHANGED <<log, endpoint, reads, evidence>>
  PROVE  TypeInv'
<1>1. Blank(r) /\ Windowed(r) /\ Grows
  BY SameLogGrows DEF TypeInv, ReviewInv
<1>2. Windowed(r)'
  BY <1>1, WindowedStays
<1>3. Blank(r)'
  BY <1>1 DEF Blank
<1>4. QED
  BY <1>2, <1>3, OwnTypesSuffice

\* Every step of a review keeps the types.
LEMMA ReviewStepTypes ==
  ASSUME ReviewInv, TypeInv, NEW r \in Reviews, ReviewStep(r)
  PROVE  TypeInv'
<1>1. /\ Shaped /\ Blank(r) /\ Opined(r) /\ Windowed(r) /\ Domains /\ Typed(r)
      /\ Len(log) \in 0..MaxRows
  BY ReviewAssumption DEF ReviewInv, TypeInv, Domains
<1>2. Heuristic(evidence[r]).decision \in Decisions /\ Heuristic(evidence[r]).lines \subseteq Lines
  <2>1. Len(log) \in Nat /\ evidence[r] \in [Kinds -> SUBSET (1..Len(log))]
    BY <1>1 DEF Typed
  <2>2. QED
    BY <2>1, HeuristicIsTyped
<1>3. CASE \E e \in Endpoints : Request(r, e)
  <2>1. PICK e \in Endpoints : Request(r, e)
    BY <1>3
  <2>2. Shaped'
    BY <1>1, <2>1 DEF Request, Shaped, States
  <2>3. reads[r] = 0 /\ evidence[r] = Nothing
    BY <1>1, <2>1 DEF Request, Typed, Blank
  <2>4. Blank(r)' /\ Opined(r)'
    BY <1>1, <2>1, <2>3 DEF Request, Blank, Opined
  <2>5. Windowed(r)'
    <3>1. \A k \in Kinds : evidence'[r][k] = {}
      BY <2>1, <2>3 DEF Request, Nothing
    <3>2. Cardinality({}) <= 2 * EvidenceLimit
      BY FS_EmptySet, ReviewAssumption
    <3>3. ASSUME NEW k \in Kinds
          PROVE  /\ evidence'[r][k] \subseteq All(k)'
                 /\ Cardinality(evidence'[r][k]) <= 2 * EvidenceLimit
                 /\ evidence'[r][k] \subseteq Of(All(k), RegistryId(endpoint[r]))'
      BY <3>1, <3>2
    <3>4. QED
      BY <3>3 DEF Windowed
  <2>6. QED
    BY <2>2, <2>4, <2>5, OwnTypesSuffice
<1>4. CASE Collect(r)
  BY <1>4, CollectTypes
<1>5. ASSUME NEW v, Settle(r, v), v.decision \in Decisions, v.lines \subseteq Lines,
             UNCHANGED <<log, endpoint, reads, evidence, asked, arrived>>
      PROVE  TypeInv'
  <2>1. Shaped'
    BY <1>1, <1>5 DEF Settle, Shaped, States
  <2>2. review'[r] \in {v, Heuristic(evidence[r])}
    BY <1>1, <1>5 DEF Settle, Verify, Domains
  <2>3. Opined(r)'
    BY <1>2, <1>5, <2>2 DEF Opined
  <2>4. QED
    BY <1>5, <2>1, <2>3, QuietTypes
<1>6. CASE ReviewWithoutModel(r)
  BY <1>2, <1>5, <1>6 DEF ReviewWithoutModel
<1>7. CASE ModelAnswers(r)
  <2>1. PICK o \in Outcomes :
          Settle(r, [by |-> "model", decision |-> o.decision, lines |-> o.lines])
    BY <1>7 DEF ModelAnswers
  <2>2. o.decision \in Decisions /\ o.lines \subseteq Lines
    BY ReviewAssumption
  <2>3. QED
    BY <1>5, <1>7, <2>1, <2>2 DEF ModelAnswers
<1>8. CASE ModelFails(r)
  <2>1. Shaped'
    BY <1>1, <1>8, ReviewAssumption DEF ModelFails, CanAsk, Shaped
  <2>2. Opined(r)'
    BY <1>1, <1>8 DEF ModelFails, Opined
  <2>3. QED
    BY <1>8, <2>1, <2>2, QuietTypes DEF ModelFails
<1>9. CASE Persist(r)
  <2>1. Shaped' /\ Opined(r)'
    BY <1>1, <1>9 DEF Persist, Shaped, States, Opined
  <2>2. QED
    BY <1>9, <2>1, QuietTypes DEF Persist
<1>10. CASE Abort(r)
  <2>1. Shaped' /\ Opined(r)'
    BY <1>1, <1>10 DEF Abort, Shaped, States, Opined
  <2>2. QED
    BY <1>10, <2>1, QuietTypes DEF Abort
<1>11. QED
  BY <1>3, <1>4, <1>6, <1>7, <1>8, <1>9, <1>10 DEF ReviewStep

\* Every value is in its set, and the evidence of a review is within the
\* windows of collect_contract_evidence, for any number of rows and any limit.
THEOREM ReviewTypeCorrect == Spec => []TypeOK
<1>1. Init => TypeInv
  <2> SUFFICES ASSUME Init PROVE TypeInv
    OBVIOUS
  <2>1. Len(log) <= MaxRows /\ Shaped
    BY ReviewAssumption DEF Init, Shaped, States
  <2>2. \A r \in Reviews : Blank(r) /\ Opined(r)
    BY DEF Init, Blank, Opined, NoReview
  <2>3. Cardinality({}) = 0 /\ 2 * EvidenceLimit \in Nat
    BY FS_EmptySet, ReviewAssumption
  <2>4. \A r \in Reviews : Windowed(r)
    BY <2>3 DEF Init, Windowed, Nothing
  <2>5. QED
    BY <2>1, <2>2, <2>4 DEF TypeInv
<1>2. ReviewInv /\ TypeInv /\ [Next]_vars => TypeInv'
  <2> SUFFICES ASSUME ReviewInv, TypeInv, [Next]_vars PROVE TypeInv'
    OBVIOUS
  <2>1. CASE \E r \in Reviews : ReviewStep(r)
    BY <2>1, ReviewStepTypes
  <2>2. ASSUME NEW k, NEW id, NEW says, Record(k, id, says), Grows PROVE TypeInv'
    <3>1. Len(log') <= MaxRows
      BY <2>2, ReviewAssumption DEF Record, ReviewInv, Grows
    <3>2. QED
      BY <2>2, <3>1, RecordTypes DEF Record
  <2>3. CASE UNCHANGED vars
    <3>1. Grows /\ Len(log') <= MaxRows
      BY <2>3, SameLogGrows DEF vars, ReviewInv, TypeInv
    <3>2. QED
      BY <2>3, <3>1, RecordTypes DEF vars
  <2>4. CASE \E e \in Endpoints : RecordStep(e)
    <3>1. PICK k, id, says : Record(k, id, says)
      BY <2>4 DEF RecordStep, StoreSnapshot, StoreDiff, LogViolation, LogAttempt,
        DeadLetter, RecordEventFailure
    <3>2. Grows
      BY <3>1 DEF Record, ReviewInv, Grows
    <3>3. QED
      BY <2>2, <3>1, <3>2
  <2>5. CASE StoreValidationError
    <3>1. Record("validation", None, "compatible")
      BY <2>5 DEF StoreValidationError
    <3>2. Grows
      BY <3>1 DEF Record, ReviewInv, Grows
    <3>3. QED
      BY <2>2, <3>1, <3>2
  <2>6. QED
    BY <2>1, <2>3, <2>4, <2>5 DEF Next
<1>3. QED
  BY <1>1, <1>2, ReviewInvariance, TypeInvTypes, PTL DEF Spec

=============================================================================
