----------------------------- MODULE MonitorNode -----------------------------
(***************************************************************************)
(* One path of a schema of the monitor: the node that the scalars found   *)
(* there leave behind, and the difference of two such nodes               *)
(* (src/backend/app/core/schema_infer.py, schema_diff.py, severity.py).    *)
(* How an answer is walked for its scalars is in module MonitorSchema.     *)
(***************************************************************************)
EXTENDS Integers, FiniteSets

CONSTANT EnumThreshold   \* more strings at one path are no enumeration

ASSUME EnumAssumption == EnumThreshold \in Nat \ {0}

\* The step of a path into a list: its items share one.
ItemStep == "[*]"

\* A node of which only a type is known yet.
NewNode(t) == [type |-> t, required |-> TRUE, nullable |-> FALSE, item |-> "none",
               strings |-> {}, noEnum |-> FALSE]

\* _ensure: a node keeps the type it was made with.
Ensure(S, path, t) ==
  [p \in DOMAIN S \union {path} |-> IF p \in DOMAIN S THEN S[p] ELSE NewNode(t)]

\* Mutant: a null is not absorbed by the type that comes after it.
WithValueStrict(node, v) ==
  [node EXCEPT !.type = IF @ # v.kind THEN "mixed" ELSE @,
               !.strings = IF v.kind = "string" THEN @ \union {v.value} ELSE @]

\* What a scalar that is not null makes of its node.
WithValue(node, v) ==
  LET strings == IF v.kind = "string" /\ ~node.noEnum
                 THEN node.strings \union {v.value} ELSE node.strings
      many    == Cardinality(strings) > EnumThreshold
  IN  [node EXCEPT !.type     = IF @ = "null" THEN v.kind ELSE IF @ # v.kind THEN "mixed" ELSE @,
                   !.nullable = @ \/ node.type = "null",
                   !.strings  = IF many THEN {} ELSE strings,
                   !.noEnum   = @ \/ many]

\* _emit_value of a scalar
EmitScalar(v, path, S) ==
  IF v.kind = "null"
  THEN [Ensure(S, path, "null") EXCEPT ![path].nullable = TRUE]
  ELSE [Ensure(S, path, v.kind) EXCEPT ![path] = WithValue(@, v)]

\* _finalize.  No strings at a node mean no enum_values.
Finished(node) ==
  [type |-> node.type, required |-> node.required, nullable |-> node.nullable,
   item |-> node.item, enum |-> node.strings]

-----------------------------------------------------------------------------
(* schema_diff.py, severity.py                                             *)

\* What _pick_change_type finds in nodes of equal type and nullability.
ChangeInside(old, new) ==
  IF old.enum # {} /\ new.enum # {} /\ old.enum # new.enum
  THEN IF old.enum \subseteq new.enum THEN "enum_expanded"
       ELSE IF new.enum \subseteq old.enum THEN "enum_narrowed" ELSE "enum_changed"
  ELSE IF old.type = "array" /\ old.item # new.item THEN "array_item_type_changed"
  ELSE "none"

TypeChange(old, new) ==
  IF old.type = "integer" /\ new.type = "number" THEN "int_to_number"
  ELSE IF old.type = "number" /\ new.type = "integer" THEN "number_to_int"
  ELSE "type_changed"

\* Mutant: nullability is not compared.
pick_change_type_of_types(old, new) ==
  IF old.type # new.type THEN TypeChange(old, new) ELSE ChangeInside(old, new)

\* _pick_change_type of two nodes of one path: the first difference counts.
pick_change_type(old, new) ==
  IF old.type # new.type THEN TypeChange(old, new)
  ELSE IF old.nullable # new.nullable
  THEN IF new.nullable THEN "nullable_added" ELSE "nullable_removed"
  ELSE ChangeInside(old, new)

SEVERITY_TABLE ==
  [removed_field |-> "breaking", added_field |-> "safe", type_changed |-> "breaking",
   int_to_number |-> "risky", number_to_int |-> "breaking", nullable_added |-> "risky",
   nullable_removed |-> "safe", enum_expanded |-> "risky", enum_narrowed |-> "safe",
   enum_changed |-> "risky", nested_object_removed |-> "breaking",
   array_item_type_changed |-> "breaking"]

\* diff_schemas: the type of the change at a path, "none" without one.
ChangeAt(old, new, path) ==
  IF path \in DOMAIN old /\ path \in DOMAIN new THEN pick_change_type(old[path], new[path])
  ELSE IF path \in DOMAIN old
  THEN IF old[path].type = "object" THEN "nested_object_removed" ELSE "removed_field"
  ELSE IF path \in DOMAIN new THEN "added_field" ELSE "none"

MonitorSeverity(old, new, path) ==
  IF ChangeAt(old, new, path) = "none" THEN "none"
  ELSE SEVERITY_TABLE[ChangeAt(old, new, path)]

\* The monitor records nothing of two answers.
Silent(old, new) == \A p \in DOMAIN old \union DOMAIN new : ChangeAt(old, new, p) = "none"
-----------------------------------------------------------------------------
(* What a node says: of a set of scalars, the node that they leave.  Neither *)
(* their order nor how often each of them was there is in it.               *)

TypesIn(V)   == {v.kind : v \in V} \ {"null"}
StringsIn(V) == {v.value : v \in {u \in V : u.kind = "string"}}
NullIn(V)    == \E v \in V : v.kind = "null"
ManyIn(V)    == Cardinality(StringsIn(V)) > EnumThreshold

TypeIn(V) ==
  IF TypesIn(V) = {} THEN "null"
  ELSE IF \E t \in TypesIn(V) : TypesIn(V) = {t} THEN CHOOSE t \in TypesIn(V) : TRUE
  ELSE "mixed"

NodeOf(V) ==
  [type |-> TypeIn(V), required |-> TRUE, nullable |-> NullIn(V), item |-> "none",
   strings |-> IF ManyIn(V) THEN {} ELSE StringsIn(V), noEnum |-> ManyIn(V)]
=============================================================================
