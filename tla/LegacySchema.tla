---------------------------- MODULE LegacySchema ----------------------------
(***************************************************************************)
(* What POST /track reads off a payload for the legacy tables             *)
(* (src/app/core/parser.py, engine.py): a structural fingerprint that does *)
(* not tell the order or the repetition of scalars in an array, and the    *)
(* types of a flattened schema.  They have the names of module Payloads:   *)
(* int is integer, float is number, bool is boolean.                       *)
(***************************************************************************)
EXTENDS Payloads

\* extract_structural_type, and what serialize_ast_to_string keeps of it.
RECURSIVE Structure(_)
Structure(v) ==
  CASE v.kind = "object" -> [object |-> [k \in DOMAIN v.fields |-> Structure(v.fields[k])]]
    [] v.kind = "array" ->
         LET s == [i \in DOMAIN v.items |-> Structure(v.items[i])]
             nested == SelectSeq(s, LAMBDA x : "leaf" \notin DOMAIN x)
         IN  [leaves |-> {s[i] : i \in DOMAIN s} \ {nested[i] : i \in DOMAIN nested},
              nested |-> Count(nested)]
    [] OTHER -> [leaf |-> v.kind]

\* normalize_types and _flatten_schema: the type at every path, not of objects.
RECURSIVE Leaves(_, _)
Leaves(v, path) ==
  CASE v.kind = "object" ->
         UNION {Leaves(v.fields[k], Append(path, k)) : k \in DOMAIN v.fields}
    [] v.kind = "array" ->
         {[path |-> path, type |-> "array"]} \union
         UNION {Leaves(v.items[i], Append(path, Index(i))) : i \in DOMAIN v.items}
    [] OTHER -> {[path |-> path, type |-> v.kind]}
=============================================================================
