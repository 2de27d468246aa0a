-------------------------- MODULE MCTrackPipeline --------------------------
(* Instances of TrackPipeline for TLC. *)
EXTENDS TrackPipeline, TLC

CONSTANTS f1, f2, s1, s2

LegacyOfTwo == (f1 :> s1) @@ (f2 :> s2)
OneLock     == [e \in Endpoints |-> 1]
EveryPair   == Schemas \X Schemas

\* One delivery is benchmark traffic, and two arrive in a run with a restart.
SmallInstance ==
  /\ Cardinality({d \in Requests : Benchmark(d)}) <= 1
  /\ boot > 0 => Cardinality({d \in Deliveries : pc[d] # "idle"}) <= 2

\* The schemas change places under both of their fingerprints.
Swap == (f1 :> f2) @@ (f2 :> f1) @@ (s1 :> s2) @@ (s2 :> s1)

Symmetry == Permutations(Deliveries) \union {Swap}
=============================================================================
