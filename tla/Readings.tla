------------------------------ MODULE Readings ------------------------------
(***************************************************************************)
(* What the repository reads off one payload, and a consumer without any  *)
(* schema: the walks of modules Classifier, LegacySchema and MonitorSchema *)
(* side by side, as SchemaComparison compares them.                        *)
(***************************************************************************)
EXTENDS Classifier, LegacySchema, MonitorSchema

\* Where a consumer finds what in a value, without regard to any schema.
RECURSIVE Positions(_, _)
Positions(v, path) ==
  {[path |-> path, value |-> v]} \union
  (CASE v.kind = "object" ->
          UNION {Positions(v.fields[k], Append(path, k)) : k \in DOMAIN v.fields}
     [] v.kind = "array" ->
          UNION {Positions(v.items[i], Append(path, Index(i))) : i \in DOMAIN v.items}
     [] OTHER -> {})

\* A value without the order of the items of its arrays.
RECURSIVE Unordered(_)
Unordered(v) ==
  CASE v.kind = "object" -> [fields |-> [k \in DOMAIN v.fields |-> Unordered(v.fields[k])]]
    [] v.kind = "array"  -> [items |-> Count([i \in DOMAIN v.items |-> Unordered(v.items[i])])]
    [] OTHER             -> [scalar |-> v]

ReadingOf(v) ==
  [payload   |-> v,
   positions |-> Positions(v, <<>>),
   unordered |-> Unordered(v),
   registry  |-> Flat(v),
   version   |-> canonicalize(v),
   leaves    |-> Leaves(v, <<>>),
   snapshot  |-> Structure(v),
   monitor   |-> infer_schema(v)]
=============================================================================
