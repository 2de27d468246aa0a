--------------------------- MODULE VersionHistory ---------------------------
(***************************************************************************)
(* What the contract registry promises to its readers: every endpoint has *)
(* a numbered, append-only history of pairwise different schemas.  It is  *)
(* the abstract counterpart of the table contract_schema_versions         *)
(* (migrations/003), whose detailed behaviour is module SchemaRegistry.   *)
(***************************************************************************)
EXTENDS Naturals, Sequences

CONSTANTS Keys,          \* endpoint identities
          Fingerprints   \* hashes of canonical schemas

VARIABLE history         \* history[k][v] is the fingerprint of version v

Init == history = [k \in Keys |-> << >>]

\* A schema never seen on the endpoint becomes its next version.
AddVersion(k, f) ==
  /\ \A v \in DOMAIN history[k] : history[k][v] # f
  /\ history' = [history EXCEPT ![k] = Append(@, f)]

Next == \E k \in Keys, f \in Fingerprints : AddVersion(k, f)

Spec == Init /\ [][Next]_history
=============================================================================
