-------------------------- MODULE ComparisonProofs --------------------------
(***************************************************************************)
(* What the comparisons of two schemas say, for schemas of any size.      *)
(*                                                                         *)
(* The registry's (module Compatibility), for any two and any three        *)
(* flattened schemas: it is made path by path (ClassAt), so everything     *)
(* follows from what _classify makes of two and of three nodes.            *)
(*                                                                         *)
(* The monitor's (module MonitorNode): what a node has become after any    *)
(* number of scalars in any order, what the difference of two nodes tells  *)
(* and does not tell, and how far it agrees with the registry's.           *)
(*                                                                         *)
(* Two payloads (module SchemaComparison): that the three comparisons fit  *)
(* what was lost, and each other, follows for any two payloads from what   *)
(* is read off each of them (WellRead).                                    *)
(***************************************************************************)
EXTENDS SchemaComparison, FiniteSetTheorems, SequenceTheorems, TLAPS

\* A flattened schema: nullable is a Boolean, as bool() makes it.
WellFormed(F) == \A p \in DOMAIN F : F[p].kind = "leaf" => F[p].nullable \in BOOLEAN

Classes == {"SAFE", "BACKWARD_COMPATIBLE", "FORWARD_COMPATIBLE", "RISKY", "BREAKING"}

\* What becomes of a path of the old schema.
ClassAt(F, G, p) == IF p \in DOMAIN G THEN Classify(F[p], G[p]) ELSE "BREAKING"

-----------------------------------------------------------------------------
(* Nodes.                                                                  *)

\* The order of the classes.
LEMMA Ranks ==
  /\ Rank["SAFE"] = 0 /\ Rank["BACKWARD_COMPATIBLE"] = 1 /\ Rank["FORWARD_COMPATIBLE"] = 2
  /\ Rank["RISKY"] = 3 /\ Rank["BREAKING"] = 4
  /\ \A c \in Classes : Rank[c] \in 0 .. 4
BY DEF Rank, Classes

\* _classify gives one of the classes.
LEMMA ClassifyType ==
  ASSUME NEW old, NEW new
  PROVE  Classify(old, new) \in Classes
BY DEF Classify, Classes

\* A node that stays as it is, is safe.
LEMMA SameIsSafe ==
  ASSUME NEW n
  PROVE  Classify(n, n) = "SAFE"
<1>1. ~(NullableOf(n) = {FALSE} /\ NullableOf(n) = {TRUE})
  OBVIOUS
<1>2. QED
  BY <1>1 DEF Classify

\* Only leaves have the type of a leaf.
LEMMA LeavesAmongLeaves ==
  ASSUME NEW a, NEW b, TypeOf(a) = TypeOf(b)
  PROVE  a.kind = "leaf" <=> b.kind = "leaf"
<1>1. \A t, u : [is |-> t] # [is |-> "printed", schema |-> u]
  OBVIOUS
<1>2. QED
  BY <1>1 DEF TypeOf

\* Nodes that _flatten makes: of one type, the nullability of one is that of the
\* other or its opposite, or neither has any.
LEMMA NullableOfOneType ==
  ASSUME NEW a, NEW b, TypeOf(a) = TypeOf(b),
         a.kind = "leaf" => a.nullable \in BOOLEAN,
         b.kind = "leaf" => b.nullable \in BOOLEAN
  PROVE  \/ NullableOf(a) = {} /\ NullableOf(b) = {}
         \/ NullableOf(a) \in {{TRUE}, {FALSE}} /\ NullableOf(b) \in {{TRUE}, {FALSE}}
BY LeavesAmongLeaves DEF NullableOf

\* A node that changes twice is at most as bad as the worse of the two changes.
LEMMA NodesCompose ==
  ASSUME NEW a, NEW b, NEW c,
         a.kind = "leaf" => a.nullable \in BOOLEAN,
         b.kind = "leaf" => b.nullable \in BOOLEAN,
         c.kind = "leaf" => c.nullable \in BOOLEAN
  PROVE  \/ Rank[Classify(a, c)] <= Rank[Classify(a, b)]
         \/ Rank[Classify(a, c)] <= Rank[Classify(b, c)]
<1>0. Classify(a, b) \in Classes /\ Classify(b, c) \in Classes /\ Classify(a, c) \in Classes
  BY ClassifyType
<1>1. CASE Classify(a, b) = "BREAKING" \/ Classify(b, c) = "BREAKING"
  BY <1>0, <1>1, Ranks
<1>2. CASE Classify(a, c) = "SAFE"
  BY <1>0, <1>2, Ranks
<1>3. CASE /\ Classify(a, b) # "BREAKING" /\ Classify(b, c) # "BREAKING"
           /\ TypeOf(a) = TypeOf(b) /\ TypeOf(b) = TypeOf(c)
  <2>1. /\ \/ NullableOf(a) = {} /\ NullableOf(b) = {}
           \/ NullableOf(a) \in {{TRUE}, {FALSE}} /\ NullableOf(b) \in {{TRUE}, {FALSE}}
        /\ \/ NullableOf(b) = {} /\ NullableOf(c) = {}
           \/ NullableOf(b) \in {{TRUE}, {FALSE}} /\ NullableOf(c) \in {{TRUE}, {FALSE}}
    BY <1>3, NullableOfOneType
  <2>2. ~(NullableOf(a) = {TRUE} /\ NullableOf(b) = {FALSE})
    BY <1>3 DEF Classify
  <2>3. ~(NullableOf(b) = {TRUE} /\ NullableOf(c) = {FALSE})
    BY <1>3 DEF Classify
  <2>4. Classify(a, c) = "BACKWARD_COMPATIBLE" =>
          Classify(a, b) = "BACKWARD_COMPATIBLE" \/ Classify(b, c) = "BACKWARD_COMPATIBLE"
    BY <1>3, <2>1, <2>2, <2>3 DEF Classify
  <2>5. Classify(a, c) \in {"SAFE", "BACKWARD_COMPATIBLE"}
    BY <1>3, <2>1, <2>2, <2>3 DEF Classify
  <2>6. QED
    BY <1>0, <2>4, <2>5, Ranks
<1>4. CASE /\ Classify(a, b) # "BREAKING" /\ Classify(b, c) # "BREAKING"
           /\ TypeOf(a) # TypeOf(b) \/ TypeOf(b) # TypeOf(c)
  <2>1. \A x, y : Classify(x, y) # "BREAKING" /\ TypeOf(x) # TypeOf(y) =>
          /\ TypeOf(x) = [is |-> "integer"] /\ TypeOf(y) = [is |-> "number"]
          /\ Classify(x, y) = "RISKY"
    BY DEF Classify
  <2>2. [is |-> "integer"] # [is |-> "number"]
    OBVIOUS
  <2>3. TypeOf(a) = [is |-> "integer"] /\ TypeOf(c) = [is |-> "number"]
    BY <1>4, <2>1, <2>2
  <2>4. Classify(a, c) = "RISKY"
    BY <2>2, <2>3 DEF Classify
  <2>5. Classify(a, b) = "RISKY" \/ Classify(b, c) = "RISKY"
    BY <1>4, <2>1
  <2>6. QED
    BY <1>0, <2>4, <2>5, Ranks
<1>5. QED
  BY <1>1, <1>3, <1>4

-----------------------------------------------------------------------------
(* Schemas.                                                                *)

\* summarize_classification of differences that have a class: none is worse, and
\* it is one of them unless it is SAFE.
LEMMA SummaryIsWorst ==
  ASSUME NEW diffs, \A d \in diffs : d[2] \in Classes
  PROVE  /\ Summary(diffs) \in Classes
         /\ \A d \in diffs : Rank[d[2]] <= Rank[Summary(diffs)]
         /\ Summary(diffs) = "SAFE" \/ \E d \in diffs : Summary(diffs) = d[2]
<1> DEFINE classes == {"SAFE"} \union {d[2] : d \in diffs}
<1>1. classes \subseteq Classes /\ "SAFE" \in classes
  BY DEF Classes
<1>2. \E c \in classes : \A d \in classes : Rank[d] <= Rank[c]
  <2>1. ASSUME NEW c \in classes, \A d \in classes : d # "BREAKING" => Rank[d] <= Rank[c],
               "BREAKING" \notin classes \/ c = "BREAKING"
        PROVE  \A d \in classes : Rank[d] <= Rank[c]
    BY <1>1, <2>1, Ranks
  <2>2. CASE "BREAKING" \in classes
    BY <1>1, <2>2, Ranks DEF Classes
  <2>3. CASE "BREAKING" \notin classes /\ "RISKY" \in classes
    BY <1>1, <2>3, Ranks DEF Classes
  <2>4. CASE "BREAKING" \notin classes /\ "RISKY" \notin classes
              /\ "FORWARD_COMPATIBLE" \in classes
    BY <1>1, <2>4, Ranks DEF Classes
  <2>5. CASE "BREAKING" \notin classes /\ "RISKY" \notin classes
              /\ "FORWARD_COMPATIBLE" \notin classes /\ "BACKWARD_COMPATIBLE" \in classes
    BY <1>1, <2>5, Ranks DEF Classes
  <2>6. CASE classes = {"SAFE"}
    BY <2>6, Ranks
  <2>7. QED
    BY <1>1, <2>2, <2>3, <2>4, <2>5, <2>6 DEF Classes
<1>3. PICK c \in classes : c = Summary(diffs) /\ \A d \in classes : Rank[d] <= Rank[c]
  BY <1>2 DEF Summary
<1>4. QED
  BY <1>1, <1>3

\* diff_and_classify and summarize_classification together: the worst of what
\* becomes of the paths of the old schema.
LEMMA SummaryByPath ==
  ASSUME NEW F, NEW G
  PROVE  /\ Summary(Diffs(F, G)) \in Classes
         /\ \A p \in DOMAIN F : Rank[ClassAt(F, G, p)] <= Rank[Summary(Diffs(F, G))]
         /\ \/ Summary(Diffs(F, G)) = "SAFE"
            \/ \E p \in DOMAIN F : Summary(Diffs(F, G)) = ClassAt(F, G, p)
<1> DEFINE s == Summary(Diffs(F, G))
<1>1. \A d \in Diffs(F, G) : /\ d[2] \in Classes
                             /\ d[2] = "SAFE" \/ \E p \in DOMAIN F : d[2] = ClassAt(F, G, p)
  <2> SUFFICES ASSUME NEW d \in Diffs(F, G)
      PROVE  d[2] \in Classes /\ (d[2] = "SAFE" \/ \E p \in DOMAIN F : d[2] = ClassAt(F, G, p))
    OBVIOUS
  <2>1. CASE \E p \in DOMAIN G \ DOMAIN F : d = <<p, "SAFE">>
    BY <2>1 DEF Classes
  <2>2. CASE \E p \in DOMAIN F \ DOMAIN G : d = <<p, "BREAKING">>
    BY <2>2 DEF Classes, ClassAt
  <2>3. CASE \E p \in DOMAIN F \intersect DOMAIN G : d = <<p, Classify(F[p], G[p])>>
    BY <2>3, ClassifyType DEF ClassAt
  <2>4. QED
    BY <2>1, <2>2, <2>3 DEF Diffs
<1>2. /\ s \in Classes
      /\ \A d \in Diffs(F, G) : Rank[d[2]] <= Rank[s]
      /\ s = "SAFE" \/ \E d \in Diffs(F, G) : s = d[2]
  BY <1>1, SummaryIsWorst
<1>3. ASSUME NEW p \in DOMAIN F PROVE Rank[ClassAt(F, G, p)] <= Rank[s]
  <2>1. CASE p \notin DOMAIN G
    <3>1. <<p, "BREAKING">> \in Diffs(F, G)
      BY <2>1 DEF Diffs
    <3>2. QED
      BY <1>2, <2>1, <3>1 DEF ClassAt
  <2>2. CASE p \in DOMAIN G /\ F[p] # G[p]
    <3>1. <<p, Classify(F[p], G[p])>> \in Diffs(F, G)
      BY <2>2 DEF Diffs
    <3>2. QED
      BY <1>2, <2>2, <3>1 DEF ClassAt
  <2>3. CASE p \in DOMAIN G /\ F[p] = G[p]
    <3>1. ClassAt(F, G, p) = "SAFE"
      BY <2>3, SameIsSafe DEF ClassAt
    <3>2. QED
      BY <1>2, <3>1, Ranks
  <2>4. QED
    BY <2>1, <2>2, <2>3
<1>4. s = "SAFE" \/ \E p \in DOMAIN F : s = ClassAt(F, G, p)
  BY <1>1, <1>2
<1>5. QED
  BY <1>2, <1>3, <1>4

\* A change is SAFE exactly if it is at every path of the old schema.
LEMMA SafeByPath ==
  ASSUME NEW F, NEW G
  PROVE  Summary(Diffs(F, G)) = "SAFE" <=> \A p \in DOMAIN F : ClassAt(F, G, p) = "SAFE"
<1>1. /\ Summary(Diffs(F, G)) \in Classes
      /\ \A p \in DOMAIN F : Rank[ClassAt(F, G, p)] <= Rank[Summary(Diffs(F, G))]
      /\ \/ Summary(Diffs(F, G)) = "SAFE"
         \/ \E p \in DOMAIN F : Summary(Diffs(F, G)) = ClassAt(F, G, p)
  BY SummaryByPath
<1>2. \A p \in DOMAIN F : ClassAt(F, G, p) \in Classes
  BY ClassifyType DEF ClassAt, Classes
<1>3. QED
  BY <1>1, <1>2, Ranks DEF Classes

\* A change is SAFE exactly if every path of the old schema is there in the new
\* one, with its type and its nullability: what is new does not matter.
THEOREM SafeMeansKept ==
  ASSUME NEW F, NEW G, WellFormed(F), WellFormed(G)
  PROVE  Summary(Diffs(F, G)) = "SAFE" <=>
           \A p \in DOMAIN F : /\ p \in DOMAIN G /\ TypeOf(F[p]) = TypeOf(G[p])
                               /\ NullableOf(F[p]) = NullableOf(G[p])
<1>1. ASSUME NEW p \in DOMAIN F
      PROVE  ClassAt(F, G, p) = "SAFE" <=>
               /\ p \in DOMAIN G /\ TypeOf(F[p]) = TypeOf(G[p])
               /\ NullableOf(F[p]) = NullableOf(G[p])
  <2>1. CASE p \notin DOMAIN G
    BY <2>1 DEF ClassAt
  <2>2. CASE p \in DOMAIN G /\ TypeOf(F[p]) # TypeOf(G[p])
    BY <2>2 DEF ClassAt, Classify
  <2>3. CASE p \in DOMAIN G /\ TypeOf(F[p]) = TypeOf(G[p])
    <3>1. \/ NullableOf(F[p]) = {} /\ NullableOf(G[p]) = {}
          \/ NullableOf(F[p]) \in {{TRUE}, {FALSE}} /\ NullableOf(G[p]) \in {{TRUE}, {FALSE}}
      BY <2>3, NullableOfOneType DEF WellFormed
    <3>2. QED
      BY <2>3, <3>1 DEF ClassAt, Classify
  <2>4. QED
    BY <2>1, <2>2, <2>3
<1>2. QED
  BY <1>1, SafeByPath

\* The registry classifies a version against its predecessor only.  That is enough:
\* over two changes a schema changes by at most the worse of the two.
THEOREM ClassificationsCompose ==
  ASSUME NEW F, NEW G, NEW H, WellFormed(F), WellFormed(G), WellFormed(H)
  PROVE  \/ Rank[Summary(Diffs(F, H))] <= Rank[Summary(Diffs(F, G))]
         \/ Rank[Summary(Diffs(F, H))] <= Rank[Summary(Diffs(G, H))]
<1> SUFFICES ASSUME NEW fg, fg = Summary(Diffs(F, G)), NEW gh, gh = Summary(Diffs(G, H)),
                    NEW fh, fh = Summary(Diffs(F, H))
             PROVE  Rank[fh] <= Rank[fg] \/ Rank[fh] <= Rank[gh]
  OBVIOUS
<1>1. /\ fg \in Classes /\ \A p \in DOMAIN F : Rank[ClassAt(F, G, p)] <= Rank[fg]
      /\ gh \in Classes /\ \A p \in DOMAIN G : Rank[ClassAt(G, H, p)] <= Rank[gh]
      /\ fh \in Classes /\ (fh = "SAFE" \/ \E p \in DOMAIN F : fh = ClassAt(F, H, p))
  BY SummaryByPath
<1>2. /\ Rank[fg] \in 0 .. 4 /\ Rank[gh] \in 0 .. 4 /\ Rank[fh] \in 0 .. 4
  BY <1>1, Ranks
<1>3. CASE fh = "SAFE"
  BY <1>2, <1>3, Ranks
<1>4. ASSUME NEW p \in DOMAIN F, fh = ClassAt(F, H, p)
      PROVE  Rank[fh] <= Rank[fg] \/ Rank[fh] <= Rank[gh]
  <2>1. CASE p \notin DOMAIN G
    <3>1. Rank[fg] = 4
      BY <1>1, <1>2, <2>1, Ranks DEF ClassAt
    <3>2. QED
      BY <1>2, <3>1
  <2>2. CASE p \in DOMAIN G /\ p \notin DOMAIN H
    <3>1. Rank[gh] = 4
      BY <1>1, <1>2, <2>2, Ranks DEF ClassAt
    <3>2. QED
      BY <1>2, <3>1
  <2>3. CASE p \in DOMAIN G /\ p \in DOMAIN H
    <3>1. \/ Rank[Classify(F[p], H[p])] <= Rank[Classify(F[p], G[p])]
          \/ Rank[Classify(F[p], H[p])] <= Rank[Classify(G[p], H[p])]
      BY <2>3, NodesCompose DEF WellFormed
    <3>2. /\ Rank[Classify(F[p], G[p])] <= Rank[fg] /\ Rank[Classify(F[p], G[p])] \in 0 .. 4
          /\ Rank[Classify(G[p], H[p])] <= Rank[gh] /\ Rank[Classify(G[p], H[p])] \in 0 .. 4
          /\ fh = Classify(F[p], H[p])
      BY <1>1, <1>4, <2>3, ClassifyType, Ranks DEF ClassAt
    <3>3. QED
      BY <1>2, <3>1, <3>2
  <2>4. QED
    BY <2>1, <2>2, <2>3
<1>5. QED
  BY <1>1, <1>3, <1>4

-----------------------------------------------------------------------------
(* The node of a path: scalars that are emitted one at a time.             *)

CONSTANTS Paths, Texts   \* paths of scalars, and the values of strings

Scalars == [kind : {"null", "string", "integer", "number", "boolean"}, value : Texts]

VARIABLES
  tree,     \* states: the nodes under their paths
  emitted   \* history: which scalars were emitted at which paths

inferVars == <<tree, emitted>>

InferInit == tree = <<>> /\ emitted = {}

\* One call of _emit_value: in whatever order, and the same one again.
EmitAt(p, v) ==
  /\ tree' = EmitScalar(v, p, tree)
  /\ emitted' = emitted \union {<<p, v>>}

InferNext == \E p \in Paths, v \in Scalars : EmitAt(p, v)

InferSpec == InferInit /\ [][InferNext]_inferVars

ScalarsAt(p) == {v \in Scalars : <<p, v>> \in emitted}

\* The nodes are those of the sets of scalars, and of them only.
TreeIsOfSets ==
  /\ DOMAIN tree = {p \in Paths : ScalarsAt(p) # {}}
  /\ \A p \in DOMAIN tree : tree[p] = NodeOf(ScalarsAt(p))

InferInv == TreeIsOfSets /\ \A p \in Paths : IsFiniteSet(StringsIn(ScalarsAt(p)))

\* One more scalar adds its kind, unless it is null, and the string that it is.
LEMMA SetsGrow ==
  ASSUME NEW V \in SUBSET Scalars, NEW v \in Scalars
  PROVE  /\ TypesIn(V \union {v}) = TypesIn(V) \union ({v.kind} \ {"null"})
         /\ NullIn(V \union {v}) <=> NullIn(V) \/ v.kind = "null"
         /\ StringsIn(V \union {v}) =
              StringsIn(V) \union (IF v.kind = "string" THEN {v.value} ELSE {})
BY DEF TypesIn, NullIn, StringsIn

\* The type of a node after one more scalar, as _emit_value computes it.
LEMMA TypeGrows ==
  ASSUME NEW V \in SUBSET Scalars, NEW v \in Scalars
  PROVE  TypeIn(V \union {v}) =
           IF v.kind = "null" THEN TypeIn(V)
           ELSE IF TypeIn(V) = "null" THEN v.kind
           ELSE IF TypeIn(V) # v.kind THEN "mixed" ELSE TypeIn(V)
<1>1. TypesIn(V \union {v}) = TypesIn(V) \union ({v.kind} \ {"null"})
  BY SetsGrow
<1>2. TypesIn(V) \subseteq {"string", "integer", "number", "boolean"} /\ v.kind \in
        {"null", "string", "integer", "number", "boolean"}
  BY DEF TypesIn, Scalars
<1>3. CASE v.kind = "null"
  BY <1>1, <1>3 DEF TypeIn
<1>4. CASE v.kind # "null" /\ TypesIn(V) = {}
  BY <1>1, <1>2, <1>4 DEF TypeIn
<1>5. ASSUME v.kind # "null", NEW t \in TypesIn(V), TypesIn(V) = {t}
      PROVE  TypeIn(V \union {v}) = (IF TypeIn(V) # v.kind THEN "mixed" ELSE TypeIn(V))
             /\ TypeIn(V) # "null"
  BY <1>1, <1>2, <1>5 DEF TypeIn
<1>6. CASE v.kind # "null" /\ TypesIn(V) # {} /\ \A t \in TypesIn(V) : TypesIn(V) # {t}
  BY <1>1, <1>2, <1>6 DEF TypeIn
<1>7. QED
  BY <1>3, <1>4, <1>5, <1>6 DEF TypeIn

\* A string more, or none: the strings stay finitely many, and once they are more
\* than the threshold they stay so.
LEMMA StringsGrow ==
  ASSUME NEW V \in SUBSET Scalars, NEW v \in Scalars, IsFiniteSet(StringsIn(V))
  PROVE  /\ IsFiniteSet(StringsIn(V \union {v}))
         /\ Cardinality(StringsIn(V \union {v})) \in Nat
         /\ ManyIn(V) => ManyIn(V \union {v})
<1> DEFINE T == StringsIn(V \union {v})
<1>1. T = StringsIn(V) \union (IF v.kind = "string" THEN {v.value} ELSE {})
  BY SetsGrow
<1>2. CASE v.kind = "string"
  <2>0. IsFiniteSet(StringsIn(V) \union {v.value})
    BY FS_AddElement
  <2>1. T = StringsIn(V) \union {v.value}
    BY <1>1, <1>2
  <2>2. IsFiniteSet(T)
    BY <2>0, <2>1
  <2>3. Cardinality(StringsIn(V)) \in Nat /\ Cardinality(T) \in Nat
    BY <2>2, FS_CardinalityType
  <2>4. StringsIn(V) \in SUBSET T
    BY <2>1
  <2>5. Cardinality(StringsIn(V)) <= Cardinality(T)
    BY <2>2, <2>4, FS_Subset
  <2>6. ManyIn(V) => ManyIn(V \union {v})
    BY <2>3, <2>5, EnumAssumption DEF ManyIn
  <2>7. QED
    BY <2>2, <2>3, <2>6
<1>3. CASE v.kind # "string"
  <2>1. T = StringsIn(V)
    BY <1>1, <1>3
  <2>2. QED
    BY <2>1, FS_CardinalityType DEF ManyIn
<1>4. QED
  BY <1>2, <1>3

\* One string is not too many, nor is none.
LEMMA FewStrings ==
  ASSUME NEW x
  PROVE  ~(Cardinality({}) > EnumThreshold) /\ ~(Cardinality({x}) > EnumThreshold)
<1>1. Cardinality({}) = 0 /\ Cardinality({x}) = 1
  BY FS_EmptySet, FS_Singleton
<1>2. QED
  BY <1>1, EnumAssumption

\* The first scalar of a path makes its node.
LEMMA FirstNode ==
  ASSUME NEW v \in Scalars
  PROVE  NodeOf({v}) = IF v.kind = "null" THEN [NewNode("null") EXCEPT !.nullable = TRUE]
                       ELSE WithValue(NewNode(v.kind), v)
<1>1. /\ TypesIn({v}) = {v.kind} \ {"null"}
      /\ NullIn({v}) <=> v.kind = "null"
      /\ StringsIn({v}) = IF v.kind = "string" THEN {v.value} ELSE {}
  BY DEF TypesIn, NullIn, StringsIn
<1>2. TypeIn({v}) = v.kind
  BY <1>1 DEF TypeIn
<1>4. ~ManyIn({v})
  <2>1. StringsIn({v}) = {} \/ StringsIn({v}) = {v.value}
    BY <1>1
  <2>2. QED
    BY <2>1, FewStrings DEF ManyIn
<1>5. CASE v.kind = "null"
  <2>1. NullIn({v}) = TRUE /\ ManyIn({v}) = FALSE /\ StringsIn({v}) = {}
    BY <1>1, <1>4, <1>5 DEF NullIn, ManyIn
  <2>2. QED
    BY <1>2, <1>5, <2>1 DEF NodeOf, NewNode
<1>6. CASE v.kind # "null"
  <2>1. NewNode(v.kind).strings \union {v.value} = {v.value} /\ ~NewNode(v.kind).noEnum
    BY DEF NewNode
  <2>2. StringsIn({v}) = (IF v.kind = "string" /\ ~NewNode(v.kind).noEnum
                        THEN NewNode(v.kind).strings \union {v.value} ELSE NewNode(v.kind).strings)
    BY <1>1, <2>1 DEF NewNode
  <2>3. ~(Cardinality(StringsIn({v})) > EnumThreshold)
    BY <1>4 DEF ManyIn
  <2>4. WithValue(NewNode(v.kind), v) =
          [NewNode(v.kind) EXCEPT !.type = v.kind, !.nullable = FALSE,
             !.strings = StringsIn({v}), !.noEnum = FALSE]
    BY <1>6, <2>2, <2>3 DEF WithValue, NewNode
  <2>5. NullIn({v}) = FALSE /\ ManyIn({v}) = FALSE
    BY <1>1, <1>4, <1>6 DEF NullIn, ManyIn
  <2>6. QED
    BY <1>2, <1>6, <2>4, <2>5 DEF NodeOf, NewNode
<1>7. QED
  BY <1>5, <1>6

\* Every further scalar makes of the node of a set that of the set with it.
LEMMA NextNode ==
  ASSUME NEW V \in SUBSET Scalars, V # {}, IsFiniteSet(StringsIn(V)), NEW v \in Scalars
  PROVE  NodeOf(V \union {v}) =
           IF v.kind = "null" THEN [NodeOf(V) EXCEPT !.nullable = TRUE]
           ELSE WithValue(NodeOf(V), v)
<1> DEFINE U == V \union {v}
<1>1. /\ NullIn(U) <=> NullIn(V) \/ v.kind = "null"
      /\ StringsIn(U) = StringsIn(V) \union (IF v.kind = "string" THEN {v.value} ELSE {})
  BY SetsGrow
<1>2. TypeIn(U) = IF v.kind = "null" THEN TypeIn(V)
                  ELSE IF TypeIn(V) = "null" THEN v.kind
                  ELSE IF TypeIn(V) # v.kind THEN "mixed" ELSE TypeIn(V)
  BY TypeGrows
<1>3. TypeIn(V) = "null" => NullIn(V)
  BY DEF TypeIn, TypesIn, NullIn, Scalars
<1>4. ManyIn(V) => ManyIn(U)
  BY StringsGrow
<1>5. CASE v.kind = "null"
  <2>1. StringsIn(U) = StringsIn(V)
    BY <1>1, <1>5
  <2>2. QED
    BY <1>1, <1>2, <1>5, <2>1 DEF NodeOf, ManyIn
<1>6. CASE v.kind # "null"
  <2> DEFINE strings == IF v.kind = "string" /\ ~NodeOf(V).noEnum
                        THEN NodeOf(V).strings \union {v.value} ELSE NodeOf(V).strings
             many    == Cardinality(strings) > EnumThreshold
  <2>1. /\ (IF many THEN {} ELSE strings) = (IF ManyIn(U) THEN {} ELSE StringsIn(U))
        /\ (NodeOf(V).noEnum \/ many) = ManyIn(U)
    <3>1. CASE ManyIn(V)
      <4>0. ManyIn(V) = TRUE /\ ManyIn(U) = TRUE
        BY <1>4, <3>1 DEF ManyIn
      <4>1. NodeOf(V).strings = {} /\ NodeOf(V).noEnum = TRUE
        BY <4>0 DEF NodeOf
      <4>2. strings = {}
        BY <4>1
      <4>3. (NodeOf(V).noEnum \/ many) = TRUE
        BY <4>1
      <4>4. (IF many THEN {} ELSE strings) = {} /\ (IF ManyIn(U) THEN {} ELSE StringsIn(U)) = {}
        BY <4>0, <4>2
      <4>5. QED
        BY <4>0, <4>3, <4>4
    <3>2. CASE ~ManyIn(V)
      <4>0. ManyIn(V) = FALSE
        BY <3>2 DEF ManyIn
      <4>1. NodeOf(V).strings = StringsIn(V) /\ NodeOf(V).noEnum = FALSE
        BY <4>0 DEF NodeOf
      <4>2. strings = StringsIn(U)
        BY <1>1, <4>1
      <4>3. many = ManyIn(U)
        BY <4>2 DEF ManyIn
      <4>4. QED
        BY <4>1, <4>2, <4>3 DEF ManyIn
    <3>3. QED
      BY <3>1, <3>2
  <2>2. WithValue(NodeOf(V), v) =
          [NodeOf(V) EXCEPT
             !.type = IF TypeIn(V) = "null" THEN v.kind
                      ELSE IF TypeIn(V) # v.kind THEN "mixed" ELSE TypeIn(V),
             !.nullable = NullIn(V) \/ TypeIn(V) = "null",
             !.strings  = IF many THEN {} ELSE strings,
             !.noEnum   = NodeOf(V).noEnum \/ many]
    BY DEF WithValue, NodeOf
  <2>3. (NullIn(V) \/ TypeIn(V) = "null") = NullIn(U)
    BY <1>1, <1>3, <1>6 DEF NullIn
  <2>4. WithValue(NodeOf(V), v) =
          [NodeOf(V) EXCEPT !.type = TypeIn(U), !.nullable = NullIn(U),
             !.strings = IF ManyIn(U) THEN {} ELSE StringsIn(U), !.noEnum = ManyIn(U)]
    BY <1>2, <1>6, <2>1, <2>2, <2>3
  <2>5. QED
    BY <1>6, <2>4 DEF NodeOf
<1>7. QED
  BY <1>5, <1>6

\* One call keeps every node that of its set, and the others as they are.
LEMMA EmitKeepsSets ==
  ASSUME InferInv, NEW p \in Paths, NEW v \in Scalars, EmitAt(p, v)
  PROVE  InferInv'
<1>1. /\ ScalarsAt(p)' = ScalarsAt(p) \union {v}
      /\ \A q \in Paths \ {p} : ScalarsAt(q)' = ScalarsAt(q)
  BY DEF EmitAt, ScalarsAt
<1>2. \A q \in Paths : ScalarsAt(q) \in SUBSET Scalars
  BY DEF ScalarsAt
<1>3. \A q \in Paths : IsFiniteSet(StringsIn(ScalarsAt(q)'))
  <2>1. IsFiniteSet(StringsIn(ScalarsAt(p) \union {v}))
    BY <1>2, StringsGrow DEF InferInv
  <2>2. QED
    BY <1>1, <2>1 DEF InferInv
<1> DEFINE S == Ensure(tree, p, v.kind)
<1>4. /\ DOMAIN S = DOMAIN tree \union {p}
      /\ \A q \in DOMAIN tree : S[q] = tree[q]
      /\ p \notin DOMAIN tree => S[p] = NewNode(v.kind)
  BY DEF Ensure
<1>5. /\ tree' = [S EXCEPT ![p] = IF v.kind = "null" THEN [S[p] EXCEPT !.nullable = TRUE]
                                  ELSE WithValue(S[p], v)]
      /\ S = [q \in DOMAIN S |-> S[q]]
  BY DEF EmitAt, EmitScalar, Ensure
<1>6. /\ DOMAIN tree' = DOMAIN tree \union {p}
      /\ \A q \in DOMAIN tree \ {p} : tree'[q] = tree[q]
      /\ tree'[p] = IF v.kind = "null" THEN [S[p] EXCEPT !.nullable = TRUE]
                    ELSE WithValue(S[p], v)
  <2> HIDE DEF S
  <2>1. QED
    BY <1>4, <1>5
<1>7. tree'[p] = NodeOf(ScalarsAt(p) \union {v})
  <2>1. CASE ScalarsAt(p) = {}
    <3>1. S[p] = NewNode(v.kind) /\ ScalarsAt(p) \union {v} = {v}
      BY <1>4, <2>1 DEF InferInv, TreeIsOfSets
    <3>2. QED
      BY <1>6, <3>1, FirstNode
  <2>2. CASE ScalarsAt(p) # {}
    <3>1. S[p] = NodeOf(ScalarsAt(p))
      BY <1>4, <2>2 DEF InferInv, TreeIsOfSets
    <3>2. QED
      BY <1>2, <1>6, <2>2, <3>1, NextNode DEF InferInv
  <2>3. QED
    BY <2>1, <2>2
<1>8. DOMAIN tree' = {q \in Paths : ScalarsAt(q)' # {}}
  BY <1>1, <1>6 DEF InferInv, TreeIsOfSets
<1>9. \A q \in DOMAIN tree' : tree'[q] = NodeOf(ScalarsAt(q)')
  BY <1>1, <1>6, <1>7 DEF InferInv, TreeIsOfSets
<1>10. QED
  BY <1>3, <1>8, <1>9 DEF InferInv, TreeIsOfSets

\* However many scalars an answer has, in whatever order the items of its lists
\* come and however often each of them: infer_schema has at every path the node of
\* the set of scalars there (induction over the calls of _emit_value).
THEOREM OrderIsForgotten == InferSpec => []TreeIsOfSets
<1>1. InferInit => InferInv
  <2> SUFFICES ASSUME InferInit PROVE InferInv
    OBVIOUS
  <2>1. DOMAIN tree = {} /\ \A p \in Paths : ScalarsAt(p) = {}
    BY DEF InferInit, ScalarsAt
  <2>2. StringsIn({}) = {}
    BY DEF StringsIn
  <2>3. QED
    BY <2>1, <2>2, FS_EmptySet DEF InferInv, TreeIsOfSets
<1>2. InferInv /\ [InferNext]_inferVars => InferInv'
  <2>1. ASSUME InferInv, InferNext PROVE InferInv'
    BY <2>1, EmitKeepsSets DEF InferNext
  <2>2. ASSUME InferInv, UNCHANGED inferVars PROVE InferInv'
    BY <2>2 DEF InferInv, TreeIsOfSets, ScalarsAt, inferVars
  <2>3. QED
    BY <2>1, <2>2
<1>3. InferInv => TreeIsOfSets
  BY DEF InferInv
<1>4. QED
  BY <1>1, <1>2, <1>3, PTL DEF InferSpec

-----------------------------------------------------------------------------
(* Differences of the monitor.                                             *)

\* The schema of an answer, given the scalars that it has at every path.
SchemaOf(V) == [p \in DOMAIN V |-> Finished(NodeOf(V[p]))]

KindsIn(V) == {v.kind : v \in V}

\* What _finalize reports of the node of a set.
LEMMA FinishedNode ==
  ASSUME NEW V
  PROVE  /\ Finished(NodeOf(V)).type = TypeIn(V) /\ Finished(NodeOf(V)).nullable = NullIn(V)
         /\ Finished(NodeOf(V)).item = "none"
         /\ Finished(NodeOf(V)).enum = IF ManyIn(V) THEN {} ELSE StringsIn(V)
BY DEF Finished, NodeOf

\* Of the differences that _pick_change_type knows, none is left out of the table.
LEMMA Severities ==
  /\ SEVERITY_TABLE["type_changed"] = "breaking" /\ SEVERITY_TABLE["int_to_number"] = "risky"
  /\ SEVERITY_TABLE["number_to_int"] = "breaking"
  /\ SEVERITY_TABLE["nullable_added"] = "risky" /\ SEVERITY_TABLE["nullable_removed"] = "safe"
  /\ SEVERITY_TABLE["enum_expanded"] = "risky" /\ SEVERITY_TABLE["enum_narrowed"] = "safe"
  /\ SEVERITY_TABLE["enum_changed"] = "risky"
  /\ SEVERITY_TABLE["array_item_type_changed"] = "breaking"
  /\ SEVERITY_TABLE["removed_field"] = "breaking"
  /\ SEVERITY_TABLE["nested_object_removed"] = "breaking"
  /\ SEVERITY_TABLE["added_field"] = "safe"
BY DEF SEVERITY_TABLE

\* Nothing is found in two nodes exactly if they have one type and one nullability,
\* no two enumerations that differ and, of lists, one type of items.
LEMMA NothingFound ==
  ASSUME NEW a, NEW b
  PROVE  pick_change_type(a, b) = "none" <=>
           /\ a.type = b.type /\ a.nullable = b.nullable
           /\ a.enum = {} \/ b.enum = {} \/ a.enum = b.enum
           /\ a.type = "array" => a.item = b.item
BY DEF pick_change_type, TypeChange, ChangeInside

\* A node breaks exactly if its type changes otherwise than from integer to number,
\* or if only the items of a list do.
LEMMA NodeBreaks ==
  ASSUME NEW a, NEW b
  PROVE  /\ pick_change_type(a, b) # "none" /\ SEVERITY_TABLE[pick_change_type(a, b)] = "breaking"
         <=> \/ a.type # b.type /\ ~(a.type = "integer" /\ b.type = "number")
             \/ /\ a.type = b.type /\ a.type = "array" /\ a.item # b.item
                /\ a.nullable = b.nullable
                /\ a.enum = {} \/ b.enum = {} \/ a.enum = b.enum
<1>1. CASE a.type # b.type
  BY <1>1, Severities DEF pick_change_type, TypeChange
<1>2. CASE a.type = b.type /\ a.nullable # b.nullable
  BY <1>2, Severities DEF pick_change_type
<1>3. CASE a.type = b.type /\ a.nullable = b.nullable
  BY <1>3, Severities DEF pick_change_type, ChangeInside
<1>4. QED
  BY <1>1, <1>2, <1>3

\* What breaks for the monitor at a path.
LEMMA PathBreaks ==
  ASSUME NEW F, NEW G, NEW p
  PROVE  MonitorSeverity(F, G, p) = "breaking" <=>
           /\ p \in DOMAIN F
           /\ \/ p \notin DOMAIN G
              \/ F[p].type # G[p].type /\ ~(F[p].type = "integer" /\ G[p].type = "number")
              \/ /\ F[p].type = G[p].type /\ F[p].type = "array" /\ F[p].item # G[p].item
                 /\ F[p].nullable = G[p].nullable
                 /\ F[p].enum = {} \/ G[p].enum = {} \/ F[p].enum = G[p].enum
<1>1. CASE p \in DOMAIN F /\ p \in DOMAIN G
  BY <1>1, NodeBreaks DEF MonitorSeverity, ChangeAt
<1>2. CASE p \in DOMAIN F /\ p \notin DOMAIN G
  BY <1>2, Severities DEF MonitorSeverity, ChangeAt
<1>3. CASE p \notin DOMAIN F
  BY <1>3, Severities DEF MonitorSeverity, ChangeAt
<1>4. QED
  BY <1>1, <1>2, <1>3

\* The monitor records nothing of two answers exactly if they have scalars at the
\* same paths, and at each of them the same type, null in both or in neither, and
\* the same strings, but for strings that are none or too many in one of them.
THEOREM SilenceMeans ==
  ASSUME NEW V, NEW W
  PROVE  Silent(SchemaOf(V), SchemaOf(W)) <=>
           /\ DOMAIN V = DOMAIN W
           /\ \A p \in DOMAIN V :
                /\ TypeIn(V[p]) = TypeIn(W[p]) /\ NullIn(V[p]) = NullIn(W[p])
                /\ \/ StringsIn(V[p]) = StringsIn(W[p])
                   \/ \E X \in {V[p], W[p]} : ManyIn(X) \/ StringsIn(X) = {}
<1> DEFINE F == SchemaOf(V)  G == SchemaOf(W)
<1>1. DOMAIN F = DOMAIN V /\ DOMAIN G = DOMAIN W
  BY DEF SchemaOf
<1>2. ASSUME NEW p \in DOMAIN V, p \in DOMAIN W
      PROVE  ChangeAt(F, G, p) = "none" <=>
                /\ TypeIn(V[p]) = TypeIn(W[p]) /\ NullIn(V[p]) = NullIn(W[p])
                /\ \/ StringsIn(V[p]) = StringsIn(W[p])
                   \/ \E X \in {V[p], W[p]} : ManyIn(X) \/ StringsIn(X) = {}
  <2>1. F[p] = Finished(NodeOf(V[p])) /\ G[p] = Finished(NodeOf(W[p]))
    BY <1>2 DEF SchemaOf
  <2>2. ChangeAt(F, G, p) = "none" <=>
          /\ F[p].type = G[p].type /\ F[p].nullable = G[p].nullable
          /\ F[p].enum = {} \/ G[p].enum = {} \/ F[p].enum = G[p].enum
          /\ F[p].type = "array" => F[p].item = G[p].item
    BY <1>1, <1>2, NothingFound DEF ChangeAt
  <2>3. StringsIn(V[p]) = StringsIn(W[p]) => ManyIn(V[p]) = ManyIn(W[p])
    BY DEF ManyIn
  <2>4. QED
    BY <2>1, <2>2, <2>3, FinishedNode
<1>3. ASSUME NEW p, p \in DOMAIN V <=> p \notin DOMAIN W
      PROVE  ChangeAt(F, G, p) # "none"
  BY <1>1, <1>3 DEF ChangeAt
<1>4. QED
  BY <1>1, <1>2, <1>3 DEF Silent

\* A list has no strings of its own.
ListsHaveNoEnum(F) == \A p \in DOMAIN F : F[p].type = "array" => F[p].enum = {}

\* The monitor compares a run with the one before it only.  That is enough for
\* what breaks: what breaks over two runs has broken in one of them, unless a list
\* became nullable, or ceased to be, in the first, which hides what its items do.
THEOREM BreaksCompose ==
  ASSUME NEW F, NEW G, NEW H, ListsHaveNoEnum(F), ListsHaveNoEnum(G),
         NEW p, MonitorSeverity(F, H, p) = "breaking",
         F[p].type = "array" /\ p \in DOMAIN G => F[p].nullable = G[p].nullable
  PROVE  MonitorSeverity(F, G, p) = "breaking" \/ MonitorSeverity(G, H, p) = "breaking"
<1>1. p \in DOMAIN F
  BY PathBreaks
<1>2. CASE p \notin DOMAIN G
  BY <1>1, <1>2, PathBreaks
<1>3. CASE p \in DOMAIN G /\ p \notin DOMAIN H
  BY <1>3, PathBreaks
<1>4. CASE p \in DOMAIN G /\ p \in DOMAIN H
  <2> SUFFICES ASSUME MonitorSeverity(F, G, p) # "breaking", MonitorSeverity(G, H, p) # "breaking"
      PROVE  FALSE
    OBVIOUS
  <2>1. /\ F[p].type = G[p].type \/ (F[p].type = "integer" /\ G[p].type = "number")
        /\ G[p].type = H[p].type \/ (G[p].type = "integer" /\ H[p].type = "number")
    BY <1>1, <1>4, PathBreaks
  <2>2. F[p].type = "array" /\ H[p].type = "array" /\ F[p].item # H[p].item
        /\ F[p].nullable = H[p].nullable
    BY <1>1, <1>4, <2>1, PathBreaks
  <2>3. G[p].type = "array" /\ F[p].enum = {} /\ G[p].enum = {}
    BY <1>1, <1>4, <2>1, <2>2 DEF ListsHaveNoEnum
  <2>4. F[p].item = G[p].item /\ G[p].item = H[p].item
    BY <1>1, <1>4, <2>2, <2>3, PathBreaks
  <2>5. QED
    BY <2>2, <2>4
<1>5. QED
  BY <1>2, <1>3, <1>4

\* An object of scalars, as the registry flattens it and as the monitor infers it.
FlatOf(v)     == [k \in DOMAIN v |-> Leaf(v[k].kind)]
InferredOf(v) == [k \in DOMAIN v |-> Finished(NodeOf({v[k]}))]

\* Of two objects whose fields are scalars, however many, the registry says that
\* the second breaks the first exactly if the monitor says so at some field.
THEOREM BothSayBreaking ==
  ASSUME NEW v, NEW w, \A k \in DOMAIN v : v[k] \in Scalars, \A k \in DOMAIN w : w[k] \in Scalars
  PROVE  Summary(Diffs(FlatOf(v), FlatOf(w))) = "BREAKING" <=>
           \E k \in DOMAIN v : MonitorSeverity(InferredOf(v), InferredOf(w), k) = "breaking"
<1> DEFINE F == FlatOf(v)  G == FlatOf(w)  S == InferredOf(v)  T == InferredOf(w)
<1>1. ASSUME NEW x \in Scalars PROVE TypeIn({x}) = x.kind
  <2>1. TypesIn({x}) = {x.kind} \ {"null"}
    BY DEF TypesIn
  <2>2. QED
    BY <2>1 DEF TypeIn
<1>2. /\ DOMAIN S = DOMAIN v /\ DOMAIN T = DOMAIN w
      /\ \A k \in DOMAIN v : S[k].type = v[k].kind
      /\ \A k \in DOMAIN w : T[k].type = w[k].kind
  BY <1>1, FinishedNode DEF InferredOf
<1>3. ASSUME NEW k \in DOMAIN v
      PROVE  ClassAt(F, G, k) = "BREAKING" <=> MonitorSeverity(S, T, k) = "breaking"
  <2>1. CASE k \notin DOMAIN w
    <3>1. ClassAt(F, G, k) = "BREAKING"
      BY <2>1 DEF ClassAt, FlatOf
    <3>2. QED
      BY <1>2, <2>1, <3>1, PathBreaks
  <2>2. CASE k \in DOMAIN w
    <3>1. /\ TypeOf(F[k]) = [is |-> v[k].kind] /\ NullableOf(F[k]) = {v[k].kind = "null"}
          /\ TypeOf(G[k]) = [is |-> w[k].kind] /\ NullableOf(G[k]) = {w[k].kind = "null"}
      BY <2>2 DEF FlatOf, Leaf, TypeOf, NullableOf
    <3>2. ClassAt(F, G, k) = "BREAKING" <=>
            v[k].kind # w[k].kind /\ ~(v[k].kind = "integer" /\ w[k].kind = "number")
      <4>1. ClassAt(F, G, k) = Classify(F[k], G[k])
        BY <2>2 DEF ClassAt, FlatOf
      <4>2. CASE v[k].kind = w[k].kind
        <5>1. TypeOf(F[k]) = TypeOf(G[k]) /\ NullableOf(F[k]) = NullableOf(G[k])
          BY <3>1, <4>2
        <5>2. Classify(F[k], G[k]) # "BREAKING"
          BY <5>1 DEF Classify
        <5>3. QED
          BY <4>1, <4>2, <5>2
      <4>3. CASE v[k].kind # w[k].kind
        <5>1. \A a, b : [is |-> a] = [is |-> b] <=> a = b
          OBVIOUS
        <5>2. /\ TypeOf(F[k]) # TypeOf(G[k])
              /\ TypeOf(F[k]) = [is |-> "integer"] <=> v[k].kind = "integer"
              /\ TypeOf(G[k]) = [is |-> "number"] <=> w[k].kind = "number"
          BY <3>1, <4>3, <5>1
        <5>3. Classify(F[k], G[k]) = IF v[k].kind = "integer" /\ w[k].kind = "number"
                                     THEN "RISKY" ELSE "BREAKING"
          BY <5>2 DEF Classify
        <5>4. QED
          BY <4>1, <4>3, <5>3
      <4>4. QED
        BY <4>2, <4>3
    <3>3. v[k].kind # "array"
      BY DEF Scalars
    <3>4. QED
      BY <1>2, <2>2, <3>2, <3>3, PathBreaks
  <2>3. QED
    BY <2>1, <2>2
<1>4. /\ Summary(Diffs(F, G)) \in Classes
      /\ \A k \in DOMAIN F : Rank[ClassAt(F, G, k)] <= Rank[Summary(Diffs(F, G))]
      /\ \/ Summary(Diffs(F, G)) = "SAFE"
         \/ \E k \in DOMAIN F : Summary(Diffs(F, G)) = ClassAt(F, G, k)
  BY SummaryByPath
<1>5. Summary(Diffs(F, G)) = "BREAKING" <=> \E k \in DOMAIN v : ClassAt(F, G, k) = "BREAKING"
  <2>1. DOMAIN F = DOMAIN v
    BY DEF FlatOf
  <2> HIDE DEF F, G
  <2>2. \A k \in DOMAIN F : ClassAt(F, G, k) \in Classes
    BY ClassifyType DEF ClassAt, Classes
  <2>3. QED
    BY <1>4, <2>1, <2>2, Ranks DEF Classes
<1>6. QED
  BY <1>3, <1>5

-----------------------------------------------------------------------------
(* Two payloads.                                                           *)

\* Whatever is compared was read off a payload before.
LEMMA SeenIsRead == ComparisonSpec => [](seen \in Seq({Views(d) : d \in Payloads}))
<1> DEFINE R == {Views(d) : d \in Payloads}
<1>1. ComparisonInit => seen \in Seq(R)
  BY DEF ComparisonInit
<1>2. seen \in Seq(R) /\ [ComparisonNext]_seen => (seen \in Seq(R))'
  <2> SUFFICES ASSUME seen \in Seq(R), [ComparisonNext]_seen PROVE seen' \in Seq(R)
    OBVIOUS
  <2>1. ASSUME NEW d \in Payloads, Observe(d) PROVE seen' \in Seq(R)
    <3>1. Views(d) \in R
      OBVIOUS
    <3>2. QED
      BY <2>1, <3>1 DEF Observe
  <2>2. QED
    BY <2>1 DEF ComparisonNext
<1>3. QED
  BY <1>1, <1>2, PTL DEF ComparisonSpec

\* Both payloads of a pair were read.
LEMMA PairsAreRead ==
  ASSUME WellRead, seen \in Seq({Views(d) : d \in Payloads}), NEW p \in Compared
  PROVE  Faithful(p[1]) /\ Faithful(p[2])
<1>1. p = seen /\ Len(p) = 2
  BY DEF Compared
<1>2. p[1] \in {Views(d) : d \in Payloads} /\ p[2] \in {Views(d) : d \in Payloads}
  BY <1>1
<1>3. QED
  BY <1>2 DEF WellRead, Faithful

-----------------------------------------------------------------------------
(* The registry and the legacy tables.                                     *)

\* _classify of two leaves that canonicalize makes.
LEMMA LeavesCompared ==
  ASSUME NEW j, NEW k
  PROVE  /\ Leaf(j) = Leaf(k) => j = k
         /\ Classify(Leaf(j), Leaf(k)) = IF j = k THEN "SAFE"
                                         ELSE IF j = "integer" /\ k = "number" THEN "RISKY"
                                         ELSE "BREAKING"
<1>1. /\ TypeOf(Leaf(j)) = [is |-> j] /\ TypeOf(Leaf(k)) = [is |-> k]
      /\ NullableOf(Leaf(j)) = {j = "null"} /\ NullableOf(Leaf(k)) = {k = "null"}
  BY DEF Leaf, TypeOf, NullableOf
<1>2. \A a, b : [is |-> a] = [is |-> b] <=> a = b
  OBVIOUS
<1>3. Leaf(j) = Leaf(k) => j = k
  BY DEF Leaf
<1>4. CASE j = k
  <2>1. Classify(Leaf(j), Leaf(k)) = "SAFE"
    BY <1>4, SameIsSafe
  <2>2. QED
    BY <1>3, <1>4, <2>1
<1>5. CASE j # k
  <2>1. /\ TypeOf(Leaf(j)) # TypeOf(Leaf(k))
        /\ TypeOf(Leaf(j)) = [is |-> "integer"] <=> j = "integer"
        /\ TypeOf(Leaf(k)) = [is |-> "number"] <=> k = "number"
    BY <1>1, <1>2, <1>5
  <2>2. Classify(Leaf(j), Leaf(k)) = IF j = "integer" /\ k = "number" THEN "RISKY" ELSE "BREAKING"
    BY <2>1 DEF Classify
  <2>3. QED
    BY <1>3, <1>5, <2>2
<1>6. QED
  BY <1>4, <1>5

\* A leaf that becomes an object with a field "type" has another type, the printed
\* schema of that field.
LEMMA LeafToObject ==
  ASSUME NEW j, NEW n, n.kind = "object"
  PROVE  Classify(Leaf(j), n) = "BREAKING"
<1>1. TypeOf(Leaf(j)) = [is |-> j]
  BY DEF Leaf, TypeOf
<1>2. TypeOf(n) = [is |-> "printed", schema |-> n.keys["type"]]
  BY DEF TypeOf
<1>3. \A t, u : [is |-> t] # [is |-> "printed", schema |-> u]
  OBVIOUS
<1>4. TypeOf(Leaf(j)) # TypeOf(n) /\ TypeOf(n) # [is |-> "number"]
  BY <1>1, <1>2, <1>3
<1>5. QED
  BY <1>4 DEF Classify

\* Without fields named "type" the leaves of the registry are the scalars and lists.
LEMMA PlainLeaves ==
  ASSUME NEW v, PositionsAreRead(v), RegistryReads(v), AllPlain(v)
  PROVE  /\ DOMAIN v.registry = {x.path : x \in Found(v)}
         /\ \A x \in Found(v) : v.registry[x.path] = Leaf(x.kind)
         /\ \A x, y \in Found(v) : x.path = y.path => x.kind = y.kind
<1>1. ASSUME NEW x \in Found(v)
      PROVE  x.path \in DOMAIN v.registry /\ v.registry[x.path] = Leaf(x.kind)
  <2>1. PICK y \in v.positions : /\ y.value.kind # "object"
                                 /\ x = [path |-> y.path, kind |-> y.value.kind]
    BY DEF Found
  <2>2. x.path = y.path /\ x.kind = y.value.kind
    BY <2>1
  <2>3. QED
    BY <2>1, <2>2 DEF AllPlain, RegistryReads
<1>2. ASSUME NEW path \in DOMAIN v.registry PROVE \E x \in Found(v) : x.path = path
  <2>1. CASE \E x \in v.positions : x.path = path /\ x.value.kind # "object"
    <3>1. PICK x \in v.positions : x.path = path /\ x.value.kind # "object"
      BY <2>1
    <3>2. [path |-> x.path, kind |-> x.value.kind] \in Found(v)
      BY <3>1 DEF Found
    <3>3. [path |-> x.path, kind |-> x.value.kind].path = path
      BY <3>1
    <3>4. QED
      BY <3>2, <3>3
  <2>2. CASE path \in Seq(STRING) /\ \E y \in v.positions : y.path = Append(path, "type")
    <3>1. PICK y \in v.positions : y.path = Append(path, "type")
      BY <2>2
    <3>2. Len(path) \in 0 .. Len(y.path) - 1 /\ SubSeq(y.path, 1, Len(path)) = path
      BY <2>2, <3>1
    <3>3. Plain(v, y.path)
      BY DEF AllPlain
    <3>4. QED
      BY <3>1, <3>2, <3>3 DEF Plain
  <2>3. QED
    BY <2>1, <2>2 DEF RegistryReads
<1>3. ASSUME NEW x \in Found(v), NEW y \in Found(v), x.path = y.path PROVE x.kind = y.kind
  <2>1. Leaf(x.kind) = Leaf(y.kind)
    BY <1>1, <1>3
  <2>2. QED
    BY <2>1, LeavesCompared
<1>4. QED
  BY <1>1, <1>2, <1>3

\* RegistryJudgesLosses for any payloads, of any size and number, off which is read
\* what is there: SAFE is never said of a version that has lost something, and
\* nothing else is said of one that has not.
THEOREM LossesAreJudged ==
  ASSUME WellRead
  PROVE  ComparisonSpec => []RegistryJudgesLosses
<1>1. ASSUME NEW v, NEW w, Faithful(v), Faithful(w), Summary(Judgement(v, w)) = "SAFE",
             NEW x \in Lost(v, w), Plain(v, x.path), Plain(w, x.path)
      PROVE  FALSE
  <2>1. PICK y \in v.positions : /\ y.value.kind # "object"
                                 /\ x = [path |-> y.path, kind |-> y.value.kind]
    BY <1>1 DEF Lost, Found
  <2>2. x.path = y.path /\ x.kind = y.value.kind
    BY <2>1
  <2>3. x.path \in DOMAIN v.registry /\ v.registry[x.path] = Leaf(x.kind)
    BY <1>1, <2>1, <2>2 DEF Faithful, RegistryReads
  <2>4. ClassAt(v.registry, w.registry, x.path) = "SAFE"
    BY <1>1, <2>3, SafeByPath DEF Judgement
  <2>5. x.path \in DOMAIN w.registry /\ Classify(Leaf(x.kind), w.registry[x.path]) = "SAFE"
    BY <2>3, <2>4 DEF ClassAt
  <2>6. w.registry[x.path].kind # "object"
    BY <2>5, LeafToObject
  <2>7. PICK z \in w.positions : /\ z.path = x.path /\ z.value.kind # "object"
                                 /\ w.registry[x.path] = Leaf(z.value.kind)
    BY <1>1, <2>5, <2>6 DEF Faithful, RegistryReads
  <2>8. z.value.kind = x.kind
    BY <2>5, <2>7, LeavesCompared
  <2>9. [path |-> z.path, kind |-> z.value.kind] \in Found(w)
    BY <2>7 DEF Found
  <2>10. x = [path |-> z.path, kind |-> z.value.kind]
    BY <2>1, <2>2, <2>7, <2>8
  <2>11. QED
    BY <1>1, <2>9, <2>10 DEF Lost
<1>2. ASSUME NEW v, NEW w, Faithful(v), Faithful(w), AllPlain(v), AllPlain(w), Lost(v, w) = {}
      PROVE  Summary(Judgement(v, w)) = "SAFE"
  <2>1. ASSUME NEW path \in DOMAIN v.registry
        PROVE  ClassAt(v.registry, w.registry, path) = "SAFE"
    <3>1. PICK x \in Found(v) : x.path = path /\ v.registry[path] = Leaf(x.kind)
      BY <1>2, PlainLeaves DEF Faithful
    <3>2. x \in Found(w)
      BY <1>2 DEF Lost
    <3>3. path \in DOMAIN w.registry /\ w.registry[path] = Leaf(x.kind)
      BY <1>2, <3>1, <3>2, PlainLeaves DEF Faithful
    <3>4. QED
      BY <3>1, <3>3, SameIsSafe DEF ClassAt
  <2>2. QED
    BY <2>1, SafeByPath DEF Judgement
<1>3. seen \in Seq({Views(d) : d \in Payloads}) => RegistryJudgesLosses
  <2> SUFFICES ASSUME seen \in Seq({Views(d) : d \in Payloads}) PROVE RegistryJudgesLosses
    OBVIOUS
  <2>1. \A p \in Compared : Faithful(p[1]) /\ Faithful(p[2])
    BY PairsAreRead
  <2>2. QED
    BY <1>1, <1>2, <2>1 DEF RegistryJudgesLosses
<1>4. QED
  BY <1>3, SeenIsRead, PTL

\* What the comparison of the registry says at one path.
LEMMA ClassOfPath ==
  ASSUME NEW v, NEW w, NEW path
  PROVE  /\ path \in DOMAIN v.registry /\ path \notin DOMAIN w.registry =>
              RegistryClass(v, w, path) = "BREAKING"
         /\ path \notin DOMAIN v.registry /\ path \in DOMAIN w.registry =>
              RegistryClass(v, w, path) = "SAFE"
         /\ path \in DOMAIN v.registry /\ path \in DOMAIN w.registry =>
              RegistryClass(v, w, path) =
                IF v.registry[path] = w.registry[path] THEN "none"
                ELSE Classify(v.registry[path], w.registry[path])
<1> DEFINE F == v.registry  G == w.registry
           c == {d[2] : d \in {x \in Diffs(F, G) : x[1] = path}}
<1>1. RegistryClass(v, w, path) = IF c = {} THEN "none" ELSE CHOOSE x \in c : TRUE
  BY DEF RegistryClass, Judgement
<1>2. ASSUME NEW d \in Diffs(F, G), d[1] = path
      PROVE  \/ path \in DOMAIN G \ DOMAIN F /\ d[2] = "SAFE"
             \/ path \in DOMAIN F \ DOMAIN G /\ d[2] = "BREAKING"
             \/ /\ path \in DOMAIN F \intersect DOMAIN G /\ F[path] # G[path]
                /\ d[2] = Classify(F[path], G[path])
  BY <1>2 DEF Diffs
<1>3. ASSUME NEW s, <<path, s>> \in Diffs(F, G) PROVE s \in c
  <2>1. <<path, s>>[1] = path /\ <<path, s>>[2] = s
    OBVIOUS
  <2>2. QED
    BY <1>3, <2>1
<1>4. \A s : c = {s} => RegistryClass(v, w, path) = s
  BY <1>1
<1>5. CASE path \in DOMAIN F /\ path \notin DOMAIN G
  <2>1. <<path, "BREAKING">> \in Diffs(F, G)
    BY <1>5 DEF Diffs
  <2>2. c = {"BREAKING"}
    BY <1>2, <1>3, <1>5, <2>1
  <2>3. QED
    BY <1>4, <1>5, <2>2
<1>6. CASE path \notin DOMAIN F /\ path \in DOMAIN G
  <2>1. <<path, "SAFE">> \in Diffs(F, G)
    BY <1>6 DEF Diffs
  <2>2. c = {"SAFE"}
    BY <1>2, <1>3, <1>6, <2>1
  <2>3. QED
    BY <1>4, <1>6, <2>2
<1>7. CASE path \in DOMAIN F /\ path \in DOMAIN G /\ F[path] # G[path]
  <2>1. <<path, Classify(F[path], G[path])>> \in Diffs(F, G)
    BY <1>7 DEF Diffs
  <2>2. c = {Classify(F[path], G[path])}
    BY <1>2, <1>3, <1>7, <2>1
  <2>3. QED
    BY <1>4, <1>7, <2>2
<1>8. CASE path \in DOMAIN F /\ path \in DOMAIN G /\ F[path] = G[path]
  <2>1. c = {}
    BY <1>2, <1>8
  <2>2. QED
    BY <1>1, <1>8, <2>1
<1>9. QED
  BY <1>5, <1>6, <1>7, <1>8

\* What the flattened legacy schema has at a path: the kind of what is found there.
LEMMA LegacyTypes ==
  ASSUME NEW v, LegacyReads(v), NEW path
  PROVE  TypesAt(v.leaves, path) = {x.kind : x \in {y \in Found(v) : y.path = path}}
<1> DEFINE S == {y \in v.positions : y.value.kind # "object"}
           Old == {x.type : x \in {y \in v.leaves : y.path = path}}
           New == {x.kind : x \in {y \in Found(v) : y.path = path}}
<1>1. v.leaves = {[path |-> x.path, type |-> x.value.kind] : x \in S}
  BY DEF LegacyReads
<1>2. Found(v) = {[path |-> x.path, kind |-> x.value.kind] : x \in S}
  BY DEF Found
<1>3. ASSUME NEW k PROVE k \in Old <=> \E y \in S : y.path = path /\ y.value.kind = k
  <2>1. k \in Old <=> \E x \in v.leaves : x.path = path /\ x.type = k
    OBVIOUS
  <2>2. \A y : /\ [path |-> y.path, type |-> y.value.kind].path = y.path
               /\ [path |-> y.path, type |-> y.value.kind].type = y.value.kind
    OBVIOUS
  <2>3. QED
    BY <1>1, <2>1, <2>2
<1>4. ASSUME NEW k PROVE k \in New <=> \E y \in S : y.path = path /\ y.value.kind = k
  <2>1. k \in New <=> \E x \in Found(v) : x.path = path /\ x.kind = k
    OBVIOUS
  <2>2. \A y : /\ [path |-> y.path, kind |-> y.value.kind].path = y.path
               /\ [path |-> y.path, kind |-> y.value.kind].kind = y.value.kind
    OBVIOUS
  <2>3. QED
    BY <1>2, <2>1, <2>2
<1>5. Old = New
  BY <1>3, <1>4
<1>6. QED
  BY <1>5 DEF TypesAt

\* At a path of the flattened schema one thing is found, at any other nothing.
LEMMA KindAtPath ==
  ASSUME NEW v, Faithful(v), AllPlain(v), NEW path
  PROVE  /\ path \in DOMAIN v.registry =>
              \E x \in Found(v) :
                /\ x.path = path /\ v.registry[path] = Leaf(x.kind)
                /\ x.kind \in Primitive \union {"null", "array"}
                /\ TypesAt(v.leaves, path) = {x.kind}
         /\ path \notin DOMAIN v.registry =>
              TypesAt(v.leaves, path) = {}
<1> DEFINE Here == {t.kind : t \in {y \in Found(v) : y.path = path}}
<1>1. TypesAt(v.leaves, path) = Here
  BY LegacyTypes DEF Faithful
<1>2. /\ DOMAIN v.registry = {x.path : x \in Found(v)}
      /\ \A x \in Found(v) : v.registry[x.path] = Leaf(x.kind)
      /\ \A x, y \in Found(v) : x.path = y.path => x.kind = y.kind
  BY PlainLeaves DEF Faithful
<1>3. ASSUME path \in DOMAIN v.registry
      PROVE  \E x \in Found(v) :
                /\ x.path = path /\ v.registry[path] = Leaf(x.kind)
                /\ x.kind \in Primitive \union {"null", "array"} /\ Here = {x.kind}
  <2>1. PICK x \in Found(v) : x.path = path
    BY <1>2, <1>3
  <2>2. Here = {x.kind}
    BY <1>2, <2>1
  <2>3. PICK y \in v.positions : /\ y.value.kind # "object"
                                 /\ x = [path |-> y.path, kind |-> y.value.kind]
    BY DEF Found
  <2>4. x.kind = y.value.kind
    BY <2>3
  <2>5. x.kind \in Primitive \union {"null", "array"}
    BY <2>3, <2>4 DEF Faithful, PositionsAreRead
  <2>6. QED
    BY <1>2, <2>1, <2>2, <2>5
<1>4. path \notin DOMAIN v.registry => Here = {}
  BY <1>2
<1>5. QED
  BY <1>1, <1>3, <1>4

\* The legacy severity of a path, when one thing at most was found there before
\* and one at most after.
LEMMA LegacySeverities ==
  ASSUME NEW L, NEW K, NEW path, NEW old, NEW new,
         old = TypesAt(L, path), new = TypesAt(K, path)
  PROVE  /\ old = {} /\ new # {} => LegacySeverity(L, K, path) = "SAFE"
         /\ old # {} /\ new = {} => LegacySeverity(L, K, path) = "BREAKING"
         /\ \A j, k : old = {j} /\ new = {k} =>
              LegacySeverity(L, K, path) = IF j = k THEN "none" ELSE Mutation(j, k)
<1>1. LegacySeverity(L, K, path) =
        IF old = new THEN "none" ELSE IF old = {} THEN "SAFE" ELSE IF new = {} THEN "BREAKING"
        ELSE Mutation(CHOOSE t \in old : TRUE, CHOOSE t \in new : TRUE)
  BY DEF LegacySeverity
<1>2. \A j : (CHOOSE t \in {j} : TRUE) = j
  OBVIOUS
<1>3. ASSUME NEW j, NEW k, old = {j}, new = {k}
      PROVE  LegacySeverity(L, K, path) = IF j = k THEN "none" ELSE Mutation(j, k)
  <2>1. CASE j = k
    BY <1>1, <1>3, <2>1
  <2>2. CASE j # k
    <3>1. LegacySeverity(L, K, path) = Mutation(CHOOSE t \in {j} : TRUE, CHOOSE t \in {k} : TRUE)
      BY <1>1, <1>3, <2>2
    <3>2. QED
      BY <1>2, <2>2, <3>1
  <2>3. QED
    BY <2>1, <2>2
<1>4. QED
  BY <1>1, <1>3

\* The two comparisons of POST /track agree, path by path.
LEMMA LegacyFits ==
  ASSUME NEW v, NEW w, Faithful(v), Faithful(w), AllPlain(v), AllPlain(w)
  PROVE  LegacyAgrees(v, w)
<1> SUFFICES ASSUME NEW path \in DOMAIN v.registry \union DOMAIN w.registry
             PROVE  \/ LegacySeverity(v.leaves, w.leaves, path) = RegistryClass(v, w, path)
                    \/ /\ LegacySeverity(v.leaves, w.leaves, path) = "none"
                       /\ RegistryClass(v, w, path) = "BREAKING"
                       /\ \E x \in Found(v) \union Found(w) :
                            x.path = path /\ x.kind \in {"null", "array"}
  BY DEF LegacyAgrees
<1>1. PICK old : old = TypesAt(v.leaves, path)
  OBVIOUS
<1>2. PICK new : new = TypesAt(w.leaves, path)
  OBVIOUS
<1>3. /\ old = {} /\ new # {} => LegacySeverity(v.leaves, w.leaves, path) = "SAFE"
      /\ old # {} /\ new = {} => LegacySeverity(v.leaves, w.leaves, path) = "BREAKING"
      /\ \A j, k : old = {j} /\ new = {k} =>
           LegacySeverity(v.leaves, w.leaves, path) = IF j = k THEN "none" ELSE Mutation(j, k)
  BY <1>1, <1>2, LegacySeverities
<1>4. CASE path \notin DOMAIN v.registry
  <2>1. old = {} /\ new # {}
    <3>1. TypesAt(v.leaves, path) = {}
      BY <1>4, KindAtPath
    <3>2. path \in DOMAIN w.registry
      BY <1>4
    <3>3. PICK x \in Found(w) : TypesAt(w.leaves, path) = {x.kind}
      BY <3>2, KindAtPath
    <3>4. QED
      BY <1>1, <1>2, <3>1, <3>3
  <2>2. RegistryClass(v, w, path) = "SAFE"
    BY <1>4, ClassOfPath
  <2>3. QED
    BY <1>3, <2>1, <2>2
<1>5. CASE path \notin DOMAIN w.registry
  <2>1. old # {} /\ new = {}
    <3>1. TypesAt(w.leaves, path) = {}
      BY <1>5, KindAtPath
    <3>2. path \in DOMAIN v.registry
      BY <1>5
    <3>3. PICK x \in Found(v) : TypesAt(v.leaves, path) = {x.kind}
      BY <3>2, KindAtPath
    <3>4. QED
      BY <1>1, <1>2, <3>1, <3>3
  <2>2. RegistryClass(v, w, path) = "BREAKING"
    BY <1>5, ClassOfPath
  <2>3. QED
    BY <1>3, <2>1, <2>2
<1>6. CASE path \in DOMAIN v.registry /\ path \in DOMAIN w.registry
  <2>1. PICK x \in Found(v) : /\ x.path = path /\ v.registry[path] = Leaf(x.kind)
                              /\ x.kind \in Primitive \union {"null", "array"} /\ old = {x.kind}
    BY <1>1, <1>6, KindAtPath
  <2>2. PICK y \in Found(w) : /\ y.path = path /\ w.registry[path] = Leaf(y.kind)
                              /\ y.kind \in Primitive \union {"null", "array"} /\ new = {y.kind}
    BY <1>2, <1>6, KindAtPath
  <2>3. LegacySeverity(v.leaves, w.leaves, path) =
          IF x.kind = y.kind THEN "none" ELSE Mutation(x.kind, y.kind)
    BY <1>3, <2>1, <2>2
  <2>4. RegistryClass(v, w, path) =
          IF Leaf(x.kind) = Leaf(y.kind) THEN "none" ELSE Classify(Leaf(x.kind), Leaf(y.kind))
    BY <1>6, <2>1, <2>2, ClassOfPath
  <2>5. CASE x.kind = y.kind
    BY <2>3, <2>4, <2>5
  <2>6. CASE x.kind # y.kind
    <3>1. RegistryClass(v, w, path) = IF x.kind = "integer" /\ y.kind = "number" THEN "RISKY"
                                      ELSE "BREAKING"
      BY <2>4, <2>6, LeavesCompared
    <3>2. CASE {x.kind, y.kind} \subseteq Primitive
      BY <2>3, <2>6, <3>1, <3>2 DEF Mutation
    <3>3. CASE ~({x.kind, y.kind} \subseteq Primitive)
      <4>1. x.kind \in {"null", "array"} \/ y.kind \in {"null", "array"}
        BY <2>1, <2>2, <3>3
      <4>2. LegacySeverity(v.leaves, w.leaves, path) = "none"
        BY <2>3, <2>6, <3>3 DEF Mutation
      <4>3. RegistryClass(v, w, path) = "BREAKING"
        BY <3>1, <3>3 DEF Primitive
      <4>4. QED
        BY <2>1, <2>2, <4>1, <4>2, <4>3
    <3>4. QED
      BY <3>2, <3>3
  <2>7. QED
    BY <2>5, <2>6
<1>7. QED
  BY <1>4, <1>5, <1>6

-----------------------------------------------------------------------------
(* The monitor.                                                            *)

\* A path that the monitor has as it stands is one outside lists.
LEMMA ErasedBack ==
  ASSUME NEW z \in Seq(STRING), NEW path, Erased(z) = path, \A i \in DOMAIN path : path[i] # ItemStep
  PROVE  z = path
<1>1. Len(z) \in Nat /\ DOMAIN z = 1 .. Len(z)
  OBVIOUS
<1>2. /\ DOMAIN path = DOMAIN z
      /\ path = [i \in DOMAIN path |-> path[i]]
      /\ \A i \in DOMAIN z : path[i] = IF z[i] \in Indices THEN ItemStep ELSE z[i]
  BY DEF Erased
<1>3. \A i \in DOMAIN z : z[i] = path[i]
  BY <1>2
<1>4. z = [i \in DOMAIN z |-> z[i]]
  OBVIOUS
<1>5. QED
  BY <1>2, <1>3, <1>4

\* A path outside lists is its own.
LEMMA ErasedSame ==
  ASSUME NEW path \in Seq(STRING), ~InArray(path)
  PROVE  Erased(path) = path
<1>1. \A i \in DOMAIN path : path[i] \notin Indices
  BY DEF InArray
<1>2. path = [i \in DOMAIN path |-> path[i]]
  OBVIOUS
<1>3. QED
  BY <1>1, <1>2 DEF Erased

\* Only the root has the path of the root.
LEMMA ErasedRoot ==
  ASSUME NEW z \in Seq(STRING)
  PROVE  Erased(z) = <<>> <=> z = <<>>
<1>1. \A i \in DOMAIN <<>> : <<>>[i] # ItemStep
  OBVIOUS
<1>2. Erased(z) = <<>> => z = <<>>
  BY <1>1, ErasedBack
<1>3. z = <<>> => Erased(z) = <<>>
  <2>1. DOMAIN <<>> = {} /\ <<>> = [i \in {} |-> i]
    OBVIOUS
  <2>2. QED
    BY <2>1 DEF Erased
<1>4. QED
  BY <1>2, <1>3

\* The path of what is below a position.
LEMMA ErasedBelow ==
  ASSUME NEW path \in Seq(STRING), NEW step \in STRING
  PROVE  step \in Indices => Erased(Append(path, step)) = Append(Erased(path), ItemStep)
<1> DEFINE S == STRING \union {ItemStep}
<1>1. Len(path) \in Nat /\ DOMAIN path = 1 .. Len(path)
  OBVIOUS
<1>2. PICK e : e = Erased(path)
  OBVIOUS
<1>3. e = [i \in 1 .. Len(path) |-> IF path[i] \in Indices THEN ItemStep ELSE path[i]]
  BY <1>1, <1>2 DEF Erased
<1>4. \A i \in 1 .. Len(path) : path[i] \in STRING
  OBVIOUS
<1>5. e \in [1 .. Len(path) -> S]
  BY <1>1, <1>3, <1>4
<1>6. e \in Seq(S) /\ Len(e) = Len(path)
  BY <1>1, <1>5
<1>7. ASSUME step \in Indices PROVE Erased(Append(path, step)) = Append(e, ItemStep)
  <2>1. PICK s : s = Append(path, step)
    OBVIOUS
  <2>2. PICK t : t = Append(e, ItemStep)
    OBVIOUS
  <2>3. /\ DOMAIN s = 1 .. Len(path) + 1 /\ s[Len(path) + 1] = step
        /\ \A i \in 1 .. Len(path) : s[i] = path[i]
    <3>1. s \in Seq(STRING) /\ Len(s) = Len(path) + 1
      BY <2>1, AppendProperties
    <3>2. DOMAIN s = 1 .. Len(path) + 1
      BY <3>1
    <3>3. s[Len(path) + 1] = step /\ \A i \in 1 .. Len(path) : s[i] = path[i]
      BY <2>1, AppendProperties
    <3>4. QED
      BY <3>2, <3>3
  <2>4. t \in Seq(S) /\ Len(t) = Len(path) + 1
    BY <1>1, <1>6, <2>2
  <2>5. t[Len(path) + 1] = ItemStep /\ \A i \in 1 .. Len(path) : t[i] = e[i]
    BY <1>1, <1>6, <2>2
  <2>6. t = [i \in 1 .. Len(path) + 1 |-> t[i]]
    BY <1>1, <2>4
  <2>7. Erased(s) = [i \in 1 .. Len(path) + 1 |-> IF s[i] \in Indices THEN ItemStep ELSE s[i]]
    BY <2>3 DEF Erased
  <2>8. ASSUME NEW i \in 1 .. Len(path) + 1
        PROVE  (IF s[i] \in Indices THEN ItemStep ELSE s[i]) = t[i]
    <3>1. CASE i \in 1 .. Len(path)
      BY <1>3, <2>3, <2>5, <3>1
    <3>2. CASE i = Len(path) + 1
      BY <1>7, <2>3, <2>5, <3>2
    <3>3. i \in 1 .. Len(path) \/ i = Len(path) + 1
      BY <1>1
    <3>4. QED
      BY <3>1, <3>2, <3>3
  <2>9. Erased(s) = t
    BY <2>6, <2>7, <2>8
  <2>10. QED
    BY <2>1, <2>2, <2>9
<1>8. QED
  BY <1>2, <1>7

\* What is found of an object at a path of the monitor's is what its node says,
\* unless that says that several kinds are mixed there.
LEMMA KindsOfNode ==
  ASSUME NEW v, Faithful(v), IsObject(v), NEW path \in DOMAIN v.monitor, UniformAt(v, path)
  PROVE  IF v.monitor[path].type = "mixed"
         THEN \A k : ~(Kinds(v, path) \subseteq {k, "null"})
         ELSE Kinds(v, path) = {v.monitor[path].type} \union
                                 (IF v.monitor[path].nullable THEN {"null"} ELSE {})
<1> DEFINE V == {x.value : x \in At(v, path)}  node == v.monitor[path]
<1>1. NodeReads(v, path)
  BY DEF Faithful, MonitorReads
<1>2. /\ Kinds(v, path) = KindsIn(V) /\ Kinds(v, path) # {}
      /\ Kinds(v, path) \subseteq Primitive \union {"null", "object", "array"}
  <2>1. PICK x \in v.positions : Erased(x.path) = path
    BY DEF Faithful, MonitorReads
  <2>2. x \in At(v, path)
    BY <2>1 DEF At
  <2>3. At(v, path) \subseteq v.positions
    BY DEF At
  <2>4. QED
    BY <2>2, <2>3 DEF Kinds, KindsIn, Faithful, PositionsAreRead
<1> HIDE DEF V, node
<1>3. CASE OnlyScalars(v, path)
  <2>1. node = [Finished(NodeOf(V)) EXCEPT !.required = node.required]
    BY <1>1, <1>3 DEF NodeReads, V, node
  <2>2. node.type = TypeIn(V) /\ node.nullable = NullIn(V)
    <3>1. /\ Finished(NodeOf(V)).type = TypeIn(V) /\ Finished(NodeOf(V)).nullable = NullIn(V)
      BY FinishedNode
    <3>2. \A n, r : [n EXCEPT !.required = r].type = n.type
      OBVIOUS
    <3>3. QED
      BY <2>1, <3>1 DEF Finished
  <2>3. TypesIn(V) = KindsIn(V) \ {"null"} /\ (NullIn(V) <=> "null" \in KindsIn(V))
    BY DEF TypesIn, NullIn, KindsIn
  <2>4. "mixed" \notin KindsIn(V) /\ KindsIn(V) # {}
    <3>1. "mixed" \notin Primitive \union {"null", "object", "array"}
      BY DEF Primitive
    <3>2. QED
      BY <1>2, <3>1
  <2>5. CASE TypesIn(V) = {}
    BY <1>2, <2>2, <2>3, <2>4, <2>5 DEF TypeIn, node
  <2>6. CASE \E t \in TypesIn(V) : TypesIn(V) = {t}
    BY <1>2, <2>2, <2>3, <2>4, <2>6 DEF TypeIn, node
  <2>7. CASE TypesIn(V) # {} /\ ~\E t \in TypesIn(V) : TypesIn(V) = {t}
    <3>1. node.type = "mixed"
      BY <2>2, <2>7 DEF TypeIn
    <3>2. ASSUME NEW k, Kinds(v, path) \subseteq {k, "null"} PROVE FALSE
      <4>1. TypesIn(V) \subseteq {k}
        BY <1>2, <2>3, <3>2
      <4>2. QED
        BY <2>7, <4>1
    <3>3. QED
      BY <3>1, <3>2 DEF node
  <2>8. QED
    BY <2>5, <2>6, <2>7 DEF node
<1>4. CASE ~OnlyScalars(v, path)
  <2>1. node.type \in Kinds(v, path) /\ node.nullable = FALSE
    BY <1>1, <1>4 DEF NodeReads, node
  <2>2. \E k : Kinds(v, path) = {k}
    <3>1. CASE Kinds(v, path) = {"object"}
      BY <3>1
    <3>2. CASE \E x \in At(v, path) : At(v, path) = {x}
      <4>1. PICK x \in At(v, path) : At(v, path) = {x}
        BY <3>2
      <4>2. Kinds(v, path) = {x.value.kind}
        BY <4>1 DEF Kinds
      <4>3. QED
        BY <4>2
    <3>3. QED
      BY <1>4, <3>1, <3>2 DEF UniformAt
  <2>3. Kinds(v, path) = {node.type} /\ node.type # "mixed"
    BY <1>2, <2>1, <2>2 DEF Primitive
  <2>4. QED
    BY <2>1, <2>3 DEF node
<1>5. QED
  BY <1>3, <1>4

\* The node of a field outside lists is that of the one thing found there.
LEMMA FieldNode ==
  ASSUME NEW v, Faithful(v), IsObject(v), NEW y \in v.positions, ~InArray(y.path), y.path # <<>>
  PROVE  /\ y.path \in DOMAIN v.monitor /\ v.monitor[y.path].type = y.value.kind
         /\ v.monitor[y.path].nullable = (y.value.kind = "null")
         /\ y.value.kind = "array" => v.monitor[y.path].enum = {}
<1> DEFINE node == v.monitor[y.path]
<1>1. /\ y.path \in Seq(STRING) /\ \A i \in DOMAIN y.path : y.path[i] # ItemStep
      /\ \A x, z \in v.positions : x.path = z.path => x = z
  BY DEF Faithful, PositionsAreRead
<1>2. Erased(y.path) = y.path
  BY <1>1, ErasedSame
<1>3. At(v, y.path) = {y}
  <2>1. ASSUME NEW z \in At(v, y.path) PROVE z = y
    <3>1. z \in v.positions /\ Erased(z.path) = y.path
      BY DEF At
    <3>2. z.path \in Seq(STRING)
      BY <3>1 DEF Faithful, PositionsAreRead
    <3>3. z.path = y.path
      BY <1>1, <3>1, <3>2, ErasedBack
    <3>4. QED
      BY <1>1, <3>1, <3>3
  <2>2. y \in At(v, y.path)
    BY <1>2 DEF At
  <2>3. QED
    BY <2>1, <2>2
<1>4. y.path \in DOMAIN v.monitor
  <2>1. Len(y.path) \in DOMAIN y.path
    BY <1>1
  <2>2. y.path[Len(y.path)] \notin Indices
    BY <2>1 DEF InArray
  <2>3. QED
    BY <1>2, <2>2 DEF Faithful, MonitorReads
<1>5. NodeReads(v, y.path)
  <2>1. UniformAt(v, y.path)
    BY <1>3 DEF UniformAt
  <2>2. QED
    BY <1>4, <2>1 DEF Faithful, MonitorReads
<1>6. Kinds(v, y.path) = {y.value.kind} /\ {x.value : x \in At(v, y.path)} = {y.value}
  BY <1>3 DEF Kinds
<1>7. CASE y.value.kind \in {"object", "array"}
  <2>1. ~OnlyScalars(v, y.path)
    BY <1>6, <1>7 DEF OnlyScalars
  <2>2. node.type \in Kinds(v, y.path) /\ node.nullable = FALSE /\ node.enum = {}
    BY <1>5, <2>1 DEF NodeReads
  <2>3. QED
    BY <1>4, <1>6, <1>7, <2>2
<1>8. CASE y.value.kind \notin {"object", "array"}
  <2>1. OnlyScalars(v, y.path)
    BY <1>6, <1>8 DEF OnlyScalars
  <2>2. node = [Finished(NodeOf({y.value})) EXCEPT !.required = node.required]
    BY <1>5, <1>6, <2>1 DEF NodeReads
  <2>3. node.type = TypeIn({y.value}) /\ node.nullable = NullIn({y.value})
    BY <2>2, FinishedNode DEF Finished
  <2>4. TypesIn({y.value}) = {y.value.kind} \ {"null"}
    BY DEF TypesIn
  <2>5. TypeIn({y.value}) = y.value.kind
    BY <2>4 DEF TypeIn
  <2>6. NullIn({y.value}) = (y.value.kind = "null")
    BY DEF NullIn
  <2>7. QED
    BY <1>4, <1>8, <2>3, <2>5, <2>6
<1>9. QED
  BY <1>7, <1>8

\* What the monitor has a node for, outside lists, is found there.
LEMMA FieldFound ==
  ASSUME NEW w, Faithful(w), IsObject(w), NEW path \in DOMAIN w.monitor,
         \A i \in DOMAIN path : path[i] # ItemStep
  PROVE  \E z \in w.positions : z.path = path
<1>1. PICK z \in w.positions : Erased(z.path) = path
  BY DEF Faithful, MonitorReads
<1>2. z.path \in Seq(STRING)
  BY DEF Faithful, PositionsAreRead
<1>3. z.path = path
  BY <1>1, <1>2, ErasedBack
<1>4. QED
  BY <1>3

\* The registry and the monitor agree on what breaks of fields that were no objects.
LEMMA MonitorFits ==
  ASSUME NEW v, NEW w, Faithful(v), Faithful(w), IsObject(v), IsObject(w), AllPlain(v), AllPlain(w)
  PROVE  MonitorAgrees(v, w)
<1> SUFFICES ASSUME NEW x \in Found(v), ~InArray(x.path)
             PROVE  (MonitorSeverity(v.monitor, w.monitor, x.path) = "breaking")
                      <=> \/ RegistryClass(v, w, x.path) = "BREAKING"
                          \/ /\ x.kind = "array"
                             /\ v.monitor[x.path].item # w.monitor[x.path].item
  BY DEF MonitorAgrees
<1> DEFINE path == x.path  F == v.monitor  G == w.monitor
<1>1. PICK y \in v.positions : y.value.kind # "object" /\ y.path = path /\ y.value.kind = x.kind
  <2>1. PICK y \in v.positions : /\ y.value.kind # "object"
                                 /\ x = [path |-> y.path, kind |-> y.value.kind]
    BY DEF Found
  <2>2. x.path = y.path /\ x.kind = y.value.kind
    BY <2>1
  <2>3. QED
    BY <2>1, <2>2
<1>2. path # <<>>
  <2>1. [path |-> <<>>, value |-> v.payload] \in v.positions
    BY DEF Faithful, PositionsAreRead
  <2>2. path = <<>> => y = [path |-> <<>>, value |-> v.payload]
    BY <1>1, <2>1 DEF Faithful, PositionsAreRead
  <2>3. QED
    BY <1>1, <2>2 DEF IsObject
<1>3. /\ path \in DOMAIN F /\ F[path].type = x.kind /\ F[path].nullable = (x.kind = "null")
      /\ x.kind = "array" => F[path].enum = {}
  BY <1>1, <1>2, FieldNode
<1>4. path \in DOMAIN v.registry /\ v.registry[path] = Leaf(x.kind)
  BY PlainLeaves DEF Faithful
<1>5. /\ \A i \in DOMAIN path : path[i] # ItemStep
  BY <1>1 DEF Faithful, PositionsAreRead
<1>6. path \in DOMAIN w.registry =>
        \E z \in w.positions : /\ z.path = path /\ z.value.kind # "object"
                               /\ w.registry[path] = Leaf(z.value.kind)
  <2>1. ASSUME path \in DOMAIN w.registry
        PROVE  \E z \in w.positions : /\ z.path = path /\ z.value.kind # "object"
                                      /\ w.registry[path] = Leaf(z.value.kind)
    <3>1. PICK u \in Found(w) : u.path = path /\ w.registry[path] = Leaf(u.kind)
      BY <2>1, PlainLeaves DEF Faithful
    <3>2. PICK z \in w.positions : /\ z.value.kind # "object"
                                   /\ u = [path |-> z.path, kind |-> z.value.kind]
      BY DEF Found
    <3>3. u.path = z.path /\ u.kind = z.value.kind
      BY <3>2
    <3>4. QED
      BY <3>1, <3>2, <3>3
  <2>2. QED
    BY <2>1
<1>7. CASE path \notin DOMAIN G
  <2>1. path \notin DOMAIN w.registry
    BY <1>1, <1>2, <1>6, <1>7, FieldNode
  <2>2. RegistryClass(v, w, path) = "BREAKING"
    BY <1>4, <2>1, ClassOfPath
  <2>3. MonitorSeverity(F, G, path) = "breaking"
    BY <1>3, <1>7, PathBreaks
  <2>4. QED
    BY <2>2, <2>3
<1>8. CASE path \in DOMAIN G
  <2>1. PICK z \in w.positions : z.path = path
    BY <1>5, <1>8, FieldFound
  <2>2. /\ G[path].type = z.value.kind /\ G[path].nullable = (z.value.kind = "null")
        /\ z.value.kind = "array" => G[path].enum = {}
    BY <1>2, <2>1, FieldNode
  <2>3. \A u \in w.positions : u.path = path => u = z
    BY <2>1 DEF Faithful, PositionsAreRead
  <2>4. MonitorSeverity(F, G, path) = "breaking" <=>
          \/ x.kind # z.value.kind /\ ~(x.kind = "integer" /\ z.value.kind = "number")
          \/ x.kind = "array" /\ z.value.kind = "array" /\ F[path].item # G[path].item
    BY <1>3, <1>8, <2>2, PathBreaks
  <2>5. CASE z.value.kind = "object"
    <3>1. path \notin DOMAIN w.registry
      BY <1>6, <2>3, <2>5
    <3>2. RegistryClass(v, w, path) = "BREAKING"
      BY <1>4, <3>1, ClassOfPath
    <3>3. x.kind # "object"
      BY <1>1
    <3>4. QED
      BY <2>4, <2>5, <3>2, <3>3
  <2>6. CASE z.value.kind # "object"
    <3>1. [path |-> z.path, kind |-> z.value.kind] \in Found(w)
      BY <2>6 DEF Found
    <3>2. path \in DOMAIN w.registry /\ w.registry[path] = Leaf(z.value.kind)
      <4>1. [path |-> z.path, kind |-> z.value.kind].path = path
        BY <2>1
      <4>2. [path |-> z.path, kind |-> z.value.kind].kind = z.value.kind
        OBVIOUS
      <4>3. QED
        BY <3>1, <4>1, <4>2, PlainLeaves DEF Faithful
    <3>3. RegistryClass(v, w, path) =
            IF Leaf(x.kind) = Leaf(z.value.kind) THEN "none"
            ELSE Classify(Leaf(x.kind), Leaf(z.value.kind))
      BY <1>4, <3>2, ClassOfPath
    <3>4. RegistryClass(v, w, path) = "BREAKING" <=>
            x.kind # z.value.kind /\ ~(x.kind = "integer" /\ z.value.kind = "number")
      <4>1. CASE x.kind = z.value.kind
        BY <3>3, <4>1
      <4>2. CASE x.kind # z.value.kind
        BY <3>3, <4>2, LeavesCompared
      <4>3. QED
        BY <4>1, <4>2
    <3>5. x.kind = "array" /\ z.value.kind # "array" => RegistryClass(v, w, path) = "BREAKING"
      BY <3>4
    <3>6. QED
      BY <2>4, <3>4, <3>5
  <2>7. QED
    BY <2>5, <2>6
<1>9. QED
  BY <1>7, <1>8

\* DetectorsAgree for any payloads off which is read what is there.
THEOREM ComparisonsAgree ==
  ASSUME WellRead
  PROVE  ComparisonSpec => []DetectorsAgree
<1>1. seen \in Seq({Views(d) : d \in Payloads}) => DetectorsAgree
  <2> SUFFICES ASSUME seen \in Seq({Views(d) : d \in Payloads}) PROVE DetectorsAgree
    OBVIOUS
  <2>1. \A p \in Compared : Faithful(p[1]) /\ Faithful(p[2])
    BY PairsAreRead
  <2>2. QED
    BY <2>1, LegacyFits, MonitorFits DEF DetectorsAgree
<1>2. QED
  BY <1>1, SeenIsRead, PTL

\* When nothing is recorded after an object, an object was compared with it, and the
\* two have the same paths, types and nullability, and lists the same type of items.
LEMMA SilentNodes ==
  ASSUME NEW v, NEW w, Faithful(v), Faithful(w), IsObject(v), Silent(v.monitor, w.monitor)
  PROVE  /\ IsObject(w) /\ DOMAIN v.monitor = DOMAIN w.monitor
         /\ \A path \in DOMAIN v.monitor :
              /\ v.monitor[path].type = w.monitor[path].type
              /\ v.monitor[path].nullable = w.monitor[path].nullable
              /\ v.monitor[path].type = "array" => v.monitor[path].item = w.monitor[path].item
<1> DEFINE F == v.monitor  G == w.monitor
<1>1. ASSUME NEW path, path \in DOMAIN F <=> path \notin DOMAIN G
      PROVE  ChangeAt(F, G, path) # "none"
  BY <1>1 DEF ChangeAt
<1>2. DOMAIN F = DOMAIN G
  BY <1>1 DEF Silent
<1>3. IsObject(w)
  BY <1>2 DEF Faithful, MonitorReads
<1>4. ASSUME NEW path \in DOMAIN F PROVE pick_change_type(F[path], G[path]) = "none"
  BY <1>2 DEF Silent, ChangeAt
<1>5. QED
  BY <1>2, <1>3, <1>4, NothingFound

\* At the path of a list that shares it with nothing else, the node says whether
\* its items are all objects.
LEMMA ListNode ==
  ASSUME NEW v, Faithful(v), IsObject(v), NEW path \in DOMAIN v.monitor, UniformAt(v, path),
         v.monitor[path].type = "array", v.monitor[path].nullable = FALSE
  PROVE  /\ Kinds(v, path) = {"array"}
         /\ v.monitor[path].item = "object" <=> Kinds(v, Append(path, ItemStep)) = {"object"}
<1>1. Kinds(v, path) = {"array"}
  BY KindsOfNode
<1>2. ItemsRead(v, path)
  BY DEF Faithful, MonitorReads
<1>3. QED
  BY <1>1, <1>2 DEF ItemsRead

\* A path without a node is the root's, or that of the items of a list of objects.
LEMMA PathWithoutNode ==
  ASSUME NEW v, Faithful(v), IsObject(v), Uniform(v), NEW x \in v.positions,
         Erased(x.path) \notin DOMAIN v.monitor, x.path # <<>>
  PROVE  \E q \in DOMAIN v.monitor :
           /\ Erased(x.path) = Append(q, ItemStep) /\ UniformAt(v, q)
           /\ v.monitor[q].type = "array" /\ v.monitor[q].nullable = FALSE
           /\ Kinds(v, Append(q, ItemStep)) = {"object"}
<1> DEFINE step == x.path[Len(x.path)]
<1>1. ASSUME NEW z \in v.positions, Erased(z.path) = Erased(x.path), z.path # <<>>
      PROVE  z.value.kind = "object" /\ z.path[Len(z.path)] \in Indices
  BY <1>1 DEF Faithful, MonitorReads
<1>2. step \in Indices
  BY <1>1
<1>3. PICK y \in v.positions : x.path = Append(y.path, step) /\ y.value.kind = "array"
  <2>1. PositionsAreRead(v)
    BY DEF Faithful
  <2>2. \E y \in v.positions : /\ x.path = Append(y.path, x.path[Len(x.path)])
                               /\ x.path[Len(x.path)] \in Indices => y.value.kind = "array"
    BY <2>1 DEF PositionsAreRead
  <2>3. QED
    BY <1>2, <2>2
<1>4. x.path \in Seq(STRING) /\ y.path \in Seq(STRING)
  BY DEF Faithful, PositionsAreRead
<1>5. step \in STRING
  <2>1. Len(x.path) \in DOMAIN x.path
    BY <1>4
  <2>2. QED
    BY <1>4, <2>1
<1>6. Erased(x.path) = Append(Erased(y.path), ItemStep)
  BY <1>2, <1>3, <1>4, <1>5, ErasedBelow
<1>7. y.path # <<>>
  <2>1. [path |-> <<>>, value |-> v.payload] \in v.positions
    BY DEF Faithful, PositionsAreRead
  <2>2. y.path = <<>> => y = [path |-> <<>>, value |-> v.payload]
    BY <2>1 DEF Faithful, PositionsAreRead
  <2>3. QED
    BY <1>3, <2>2 DEF IsObject
<1> DEFINE q == Erased(y.path)
<1>8. q \in DOMAIN v.monitor
  BY <1>3, <1>7 DEF Faithful, MonitorReads
<1>9. UniformAt(v, q)
  BY DEF Uniform
<1>10. "array" \in Kinds(v, q)
  <2>1. y \in At(v, q)
    BY DEF At
  <2>2. QED
    BY <1>3, <2>1 DEF Kinds
<1>11. Kinds(v, q) = {"array"}
  <2>1. \E z \in At(v, q) : At(v, q) = {z}
    BY <1>9, <1>10 DEF UniformAt, OnlyScalars
  <2>2. QED
    BY <1>10, <2>1 DEF Kinds
<1>12. v.monitor[q].type = "array" /\ v.monitor[q].nullable = FALSE
  <2>1. NodeReads(v, q)
    BY <1>8, <1>9 DEF Faithful, MonitorReads
  <2>2. ~OnlyScalars(v, q)
    BY <1>11 DEF OnlyScalars
  <2>3. QED
    BY <1>11, <2>1, <2>2 DEF NodeReads
<1>13. Kinds(v, Erased(x.path)) = {"object"}
  <2>1. ASSUME NEW z \in At(v, Erased(x.path)) PROVE z.value.kind = "object"
    <3>1. z \in v.positions /\ Erased(z.path) = Erased(x.path)
      BY DEF At
    <3>2. z.path \in Seq(STRING)
      BY <3>1 DEF Faithful, PositionsAreRead
    <3>3. z.path # <<>>
      BY <1>4, <3>1, <3>2, ErasedRoot
    <3>4. QED
      BY <1>1, <3>1, <3>3
  <2>2. x \in At(v, Erased(x.path))
    BY DEF At
  <2>3. QED
    BY <2>1, <2>2 DEF Kinds
<1>14. QED
  BY <1>6, <1>8, <1>9, <1>12, <1>13

\* SilenceMeansSame for any payloads off which is read what is there.
THEOREM SilenceIsSameness ==
  ASSUME WellRead
  PROVE  ComparisonSpec => []SilenceMeansSame
<1>1. ASSUME NEW v, NEW w, Faithful(v), Faithful(w), Uniform(v), Uniform(w), IsObject(v),
             Silent(v.monitor, w.monitor), NEW x \in v.positions, NEW k,
             Kinds(v, Erased(x.path)) \subseteq {k, "null"}
      PROVE  Kinds(w, Erased(x.path)) = Kinds(v, Erased(x.path))
  <2> DEFINE path == Erased(x.path)
  <2>1. /\ IsObject(w) /\ DOMAIN v.monitor = DOMAIN w.monitor
        /\ \A p \in DOMAIN v.monitor :
             /\ v.monitor[p].type = w.monitor[p].type
             /\ v.monitor[p].nullable = w.monitor[p].nullable
             /\ v.monitor[p].type = "array" => v.monitor[p].item = w.monitor[p].item
    BY <1>1, SilentNodes
  <2>2. ASSUME NEW p \in DOMAIN w.monitor PROVE UniformAt(w, p)
    <3>1. PICK z \in w.positions : p = Erased(z.path)
      BY <1>1, <2>1 DEF Faithful, MonitorReads
    <3>2. QED
      BY <1>1, <3>1 DEF Uniform
  <2>3. CASE path \in DOMAIN v.monitor
    <3>1. UniformAt(v, path)
      BY <1>1 DEF Uniform
    <3>2. Kinds(v, path) = {v.monitor[path].type} \union
                             (IF v.monitor[path].nullable THEN {"null"} ELSE {})
          /\ v.monitor[path].type # "mixed"
      BY <1>1, <2>3, <3>1, KindsOfNode
    <3>3. Kinds(w, path) = {w.monitor[path].type} \union
                             (IF w.monitor[path].nullable THEN {"null"} ELSE {})
      BY <1>1, <2>1, <2>2, <2>3, <3>2, KindsOfNode
    <3>4. QED
      BY <2>1, <2>3, <3>2, <3>3
  <2>4. CASE path \notin DOMAIN v.monitor /\ x.path # <<>>
    <3>1. PICK q \in DOMAIN v.monitor :
                 /\ path = Append(q, ItemStep) /\ UniformAt(v, q)
                 /\ v.monitor[q].type = "array" /\ v.monitor[q].nullable = FALSE
                 /\ Kinds(v, Append(q, ItemStep)) = {"object"}
      BY <1>1, <2>4, PathWithoutNode
    <3>2. v.monitor[q].item = "object"
      BY <1>1, <3>1, ListNode
    <3>3. /\ q \in DOMAIN w.monitor /\ w.monitor[q].type = "array"
          /\ w.monitor[q].nullable = FALSE /\ w.monitor[q].item = "object"
      BY <2>1, <3>1, <3>2
    <3>4. Kinds(w, Append(q, ItemStep)) = {"object"}
      BY <1>1, <2>1, <2>2, <3>3, ListNode
    <3>5. QED
      BY <3>1, <3>4
  <2>5. CASE x.path = <<>>
    <3>1. ASSUME NEW u, Faithful(u), IsObject(u) PROVE Kinds(u, <<>>) = {"object"}
      <4>1. PICK r : r = [path |-> <<>>, value |-> u.payload]
        OBVIOUS
      <4>2. r \in u.positions /\ r.path = <<>> /\ r.value.kind = "object"
        BY <3>1, <4>1 DEF Faithful, PositionsAreRead, IsObject
      <4>3. Erased(<<>>) = <<>>
        <5>1. <<>> \in Seq(STRING)
          OBVIOUS
        <5>2. QED
          BY <5>1, ErasedRoot
      <4>4. ASSUME NEW z \in At(u, <<>>) PROVE z = r
        <5>1. z \in u.positions /\ Erased(z.path) = <<>>
          BY DEF At
        <5>2. z.path \in Seq(STRING)
          BY <3>1, <5>1 DEF Faithful, PositionsAreRead
        <5>3. z.path = <<>>
          BY <5>1, <5>2, ErasedRoot
        <5>4. QED
          BY <3>1, <4>2, <5>1, <5>3 DEF Faithful, PositionsAreRead
      <4>5. At(u, <<>>) = {r}
        BY <4>2, <4>3, <4>4 DEF At
      <4>6. QED
        BY <4>2, <4>5 DEF Kinds
    <3>2. path = <<>>
      <4>1. <<>> \in Seq(STRING)
        OBVIOUS
      <4>2. QED
        BY <2>5, <4>1, ErasedRoot
    <3>3. QED
      BY <1>1, <2>1, <3>1, <3>2
  <2>6. QED
    BY <2>3, <2>4, <2>5
<1>2. seen \in Seq({Views(d) : d \in Payloads}) => SilenceMeansSame
  <2> SUFFICES ASSUME seen \in Seq({Views(d) : d \in Payloads}) PROVE SilenceMeansSame
    OBVIOUS
  <2>1. \A p \in Compared : Faithful(p[1]) /\ Faithful(p[2])
    BY PairsAreRead
  <2> SUFFICES ASSUME NEW p \in Compared, Uniform(p[1]), Uniform(p[2]), IsObject(p[1]),
                      Silent(p[1].monitor, p[2].monitor), NEW x \in p[1].positions,
                      NEW k, Kinds(p[1], Erased(x.path)) \subseteq {k, "null"}
               PROVE  Kinds(p[2], Erased(x.path)) = Kinds(p[1], Erased(x.path))
    BY DEF SilenceMeansSame
  <2>2. QED
    BY <1>1, <2>1
<1>3. QED
  BY <1>2, SeenIsRead, PTL
=============================================================================
