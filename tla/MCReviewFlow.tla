---------------------------- MODULE MCReviewFlow ----------------------------
(* Instances of ReviewFlow for TLC. *)
EXTENDS ReviewFlow, TLC

Line(k, i) == [kind |-> k, index |-> i]

\* What a model may answer: nothing cited, a citation, a number that only
\* begins like a collected one, and a line without any citation.
SomeOutcomes ==
  {[decision |-> "approve", lines |-> {}],
   [decision |-> "approve", lines |-> {Line("schema-diff", 1)}],
   [decision |-> "block",   lines |-> {Line("drift-event-dlq", 10)}],
   [decision |-> "approve", lines |-> {Line("snapshot", 1), None}]}
=============================================================================
