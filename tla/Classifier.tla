----------------------------- MODULE Classifier -----------------------------
(***************************************************************************)
(* The schema of a payload, as the registry sees it                       *)
(* (src/app/runtime/canonical.py and classifier.py): a payload becomes a   *)
(* canonical schema, which is flattened into leaves under their paths; how *)
(* two of them compare is in module Compatibility.                         *)
(***************************************************************************)
EXTENDS Payloads, Compatibility

-----------------------------------------------------------------------------
(* canonical.py                                                            *)

\* canonicalize: values are forgotten, the shape and the types are kept: a node of
\* a canonical schema is a typed leaf, an object or a list.
RECURSIVE canonicalize(_)
canonicalize(v) ==
  CASE v.kind = "object" ->
         [kind |-> "object", keys |-> [k \in DOMAIN v.fields |-> canonicalize(v.fields[k])]]
    [] v.kind = "array" ->
         [kind |-> "array", items |-> [i \in DOMAIN v.items |-> canonicalize(v.items[i])]]
    [] OTHER -> Leaf(v.kind)

-----------------------------------------------------------------------------
(* classifier.py                                                           *)

\* A leaf is a dictionary with the key "type"; so is an object with such a field.
HasType(n) == n.kind = "leaf" \/ (n.kind = "object" /\ "type" \in DOMAIN n.keys)

ArrayLeaf == [kind |-> "leaf", type |-> "array", nullable |-> FALSE]

\* _flatten: the leaves under their paths; an object without fields has none.
RECURSIVE Flatten(_, _)
Flatten(n, path) ==
  IF HasType(n) THEN {[path |-> path, node |-> n]}
  ELSE IF n.kind = "object"
  THEN UNION {Flatten(n.keys[k], Append(path, k)) : k \in DOMAIN n.keys}
  ELSE {[path |-> path, node |-> ArrayLeaf]} \union
       UNION {Flatten(n.items[i], Append(path, Index(i))) : i \in DOMAIN n.items}

\* The flattened schema of a payload, as a function on paths.
Flat(v) ==
  LET leaves == Flatten(canonicalize(v), <<>>)
  IN  [p \in {x.path : x \in leaves} |-> (CHOOSE x \in leaves : x.path = p).node]
=============================================================================
