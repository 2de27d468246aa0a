---------------------------- MODULE MCMonitorRun ----------------------------
(* Instances of MonitorRun for TLC. *)
EXTENDS MonitorRun

CONSTANTS a, b

\* Whether two schemas differ visibly does not depend on their order.
Both == {<<a, b>>, <<b, a>>}

NoHistory == [e \in Endpoints |-> <<>>]

\* One endpoint was fetched before, the others are new.
OneKnown ==
  [e \in Endpoints |->
     IF e = CHOOSE x \in Endpoints : TRUE
     THEN <<[run |-> None, schema |-> b, from |-> 0, raw |-> TRUE]>> ELSE <<>>]

=============================================================================
