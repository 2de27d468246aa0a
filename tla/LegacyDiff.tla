----------------------------- MODULE LegacyDiff -----------------------------
(***************************************************************************)
(* The older comparison that POST /track still makes for the legacy       *)
(* tables (src/app/core/engine.py): the differences of two flattened       *)
(* schemas (module LegacySchema) get a severity or none, and are then not  *)
(* logged.                                                                 *)
(***************************************************************************)

Primitive == {"integer", "number", "string", "boolean"}

\* Mutant: a widening is not told from a narrowing.
MutationUndirected(old, new) ==
  IF ~({old, new} \subseteq Primitive) THEN "none"
  ELSE IF {old, new} = {"integer", "number"} THEN "RISKY" ELSE "BREAKING"

\* classify_risky_mutations; null and array get nothing here, nor afterwards.
Mutation(old, new) ==
  IF ~({old, new} \subseteq Primitive) THEN "none"
  ELSE IF old = "integer" /\ new = "number" THEN "RISKY" ELSE "BREAKING"

\* The types that a flattened schema has at a path.
TypesAt(L, path) == {x.type : x \in {y \in L : y.path = path}}

\* structural_diff and classify_contract_drift of two flattened schemas: what a
\* path is given.
LegacySeverity(L, K, path) ==
  LET old == TypesAt(L, path)
      new == TypesAt(K, path)
  IN  IF old = new THEN "none"
      ELSE IF old = {} THEN "SAFE"
      ELSE IF new = {} THEN "BREAKING"
      ELSE Mutation(CHOOSE t \in old : TRUE, CHOOSE t \in new : TRUE)
=============================================================================
