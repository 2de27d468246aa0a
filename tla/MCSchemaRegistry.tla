-------------------------- MODULE MCSchemaRegistry --------------------------
(* Instances of SchemaRegistry for TLC. *)
EXTENDS SchemaRegistry, TLC

CONSTANTS k1, k2, f1, f2, f3

MCKeys         == {k1, k2}
MCFingerprints == {f1, f2}
OneKey         == {k1}
ThreeFingerprints == {f1, f2, f3}
MCSeverities   == {"SAFE", "RISKY", "BREAKING"}

\* _lock_id maps both endpoints to one lock, or keeps them apart.
Colliding == [k \in Keys |-> 1]
Apart     == [k \in Keys |-> IF k = k1 THEN 1 ELSE 2]

\* Every ordered pair of schemas has its own direction of change: forwards is
\* breaking, backwards is risky, so that a verdict against a wrong row shows.
Position(f) == CASE f = f1 -> 1 [] f = f2 -> 2 [] OTHER -> 3
MCVerdict ==
  [f \in Fingerprints |-> [g \in Fingerprints |->
     CASE Position(f) = Position(g)     -> "SAFE"
       [] Position(g) = Position(f) + 1 -> "BREAKING"
       [] OTHER                         -> "RISKY"]]

=============================================================================
