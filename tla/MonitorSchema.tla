---------------------------- MODULE MonitorSchema ----------------------------
(***************************************************************************)
(* The schema that the monitor infers from one answer of an endpoint      *)
(* (src/backend/app/core/schema_infer.py): a walk that collects, under     *)
(* every path, what module MonitorNode makes of the values found there.    *)
(*                                                                         *)
(* The items of an array share one path, so a node is written by all of   *)
(* them in their order: what the first leaves there the others find.       *)
(***************************************************************************)
EXTENDS Payloads, SequencesExt, MonitorNode

\* The keys of a list of objects, and those that not all of them have.
KeysOf(items)    == UNION {DOMAIN items[i].fields : i \in DOMAIN items}
PartialKeys(items) ==
  {k \in KeysOf(items) : \E i \in DOMAIN items : k \notin DOMAIN items[i].fields}

\* array_item_type of a list that is not all objects; null does not count, and
\* the type of an object or a list in it is "unknown".
ItemType(items) ==
  LET types == {IF x.kind \in {"object", "array"} THEN "unknown" ELSE x.kind :
                  x \in {items[i] : i \in DOMAIN items}} \ {"null"}
  IN  CASE types = {}             -> "null"
        [] Cardinality(types) = 1 -> CHOOSE t \in types : TRUE
        [] OTHER                  -> "mixed"

RECURSIVE Walk(_, _, _)

\* _emit_value
Emit(v, path, S) ==
  CASE v.kind \in {"object", "array"} -> Walk(v, path, S)
    [] OTHER -> EmitScalar(v, path, S)

\* The fields of an object, in whatever order: their paths are apart.
EmitFields(f, path, S) ==
  FoldSet(LAMBDA k, T : Emit(f[k], Append(path, k), T), S, DOMAIN f)

\* _walk.  The path of the items of a root array is the path of the array.
Walk(v, path, S) ==
  LET at    == IF path = <<>> THEN <<ItemStep>> ELSE path
      below == Append(path, ItemStep)
      T     == Ensure(S, at, "array")
      kinds == {v.items[i].kind : i \in DOMAIN v.items}
  IN
  CASE v.kind = "object" ->
         EmitFields(v.fields, path, IF path = <<>> THEN S ELSE Ensure(S, path, "object"))
    [] v.kind = "array" /\ v.items = <<>> ->
         [T EXCEPT ![at].item = "unknown"]
    [] v.kind = "array" /\ kinds = {"object"} ->
         LET U == FoldLeft(LAMBDA W, x : EmitFields(x.fields, below, W),
                           [T EXCEPT ![at].item = "object"], v.items)
             partial == {Append(below, k) : k \in PartialKeys(v.items)}
         IN  [p \in DOMAIN U |-> IF p \in partial THEN [U[p] EXCEPT !.required = FALSE] ELSE U[p]]
    [] v.kind = "array" /\ kinds # {"object"} ->
         [FoldLeft(LAMBDA W, x : Emit(x, below, W), T, v.items)
            EXCEPT ![at].item = ItemType(v.items)]
    [] OTHER -> Emit(v, IF path = <<>> THEN <<"[root]">> ELSE path, S)

infer_schema(v) ==
  LET S == Walk(v, <<>>, <<>>)
  IN  [p \in DOMAIN S |-> Finished(S[p])]
=============================================================================
