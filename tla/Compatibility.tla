--------------------------- MODULE Compatibility ---------------------------
(***************************************************************************)
(* The comparison of two flattened schemas (src/app/runtime/classifier.py):*)
(* functions from paths to nodes, which are compared path by path, and the *)
(* worst difference is the classification of the change.                   *)
(***************************************************************************)
EXTENDS Naturals

\* The leaf of a canonical schema that canonicalize makes of a scalar.
Leaf(t) == [kind |-> "leaf", type |-> t, nullable |-> t = "null"]

\* _type_of and _nullable_of: of an object with a field "type", the printed
\* schema of that field, and nothing.
TypeOf(n)     == IF n.kind = "leaf" THEN [is |-> n.type]
                 ELSE [is |-> "printed", schema |-> n.keys["type"]]
NullableOf(n) == IF n.kind = "leaf" THEN {n.nullable} ELSE {}

\* _classify of two nodes.  Leaves that canonicalize makes of one type have one
\* nullability, so that the two branches about it are never taken for them.
Classify(old, new) ==
  IF TypeOf(old) # TypeOf(new)
  THEN IF TypeOf(old) = [is |-> "integer"] /\ TypeOf(new) = [is |-> "number"]
       THEN "RISKY" ELSE "BREAKING"
  ELSE IF NullableOf(old) = {FALSE} /\ NullableOf(new) = {TRUE} THEN "BACKWARD_COMPATIBLE"
  ELSE IF NullableOf(old) = {TRUE} /\ NullableOf(new) = {FALSE} THEN "BREAKING"
  ELSE "SAFE"

\* Mutant: a path that is gone is no difference.
DiffsWithoutRemovals(F, G) ==
     {<<p, "SAFE">> : p \in DOMAIN G \ DOMAIN F}
  \union {<<p, Classify(F[p], G[p])>> :
            p \in {q \in DOMAIN F \intersect DOMAIN G : F[q] # G[q]}}

\* diff_and_classify: the classes of the paths at which two flattened schemas
\* differ; a path that is new is safe, one that is gone is breaking.
Diffs(F, G) ==
     {<<p, "SAFE">> : p \in DOMAIN G \ DOMAIN F}
  \union {<<p, "BREAKING">> : p \in DOMAIN F \ DOMAIN G}
  \union {<<p, Classify(F[p], G[p])>> :
            p \in {q \in DOMAIN F \intersect DOMAIN G : F[q] # G[q]}}

\* SeverityRank
Rank == [SAFE |-> 0, BACKWARD_COMPATIBLE |-> 1, FORWARD_COMPATIBLE |-> 2, RISKY |-> 3,
         BREAKING |-> 4]

\* summarize_classification: the worst difference.
Summary(diffs) ==
  LET classes == {"SAFE"} \union {d[2] : d \in diffs}
  IN  CHOOSE c \in classes : \A d \in classes : Rank[d] <= Rank[c]
=============================================================================
