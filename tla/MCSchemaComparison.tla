------------------------- MODULE MCSchemaComparison -------------------------
(* An instance of SchemaComparison for TLC: the payloads it compares. *)
EXTENDS SchemaComparison, Readings

one == Scalar("integer", 1)
half == Scalar("number", 1)
x == Scalar("string", "x")
y == Scalar("string", "y")
null == Scalar("null", 0)
A(v) == Object([a |-> v])

Scalars == {one, half, x, y, null}

\* Lists with what they do to a node that they share.
Lists ==
  {Array(<<>>), Array(<<one>>), Array(<<x>>), Array(<<null>>), Array(<<one, x>>), Array(<<x, one>>),
   Array(<<x, y>>), Array(<<y, x>>), Array(<<null, one>>), Array(<<one, null>>), Array(<<null, one, x>>),
   Array(<<A(one)>>), Array(<<A(one), A(x)>>), Array(<<A(x), A(one)>>), Array(<<A(one), Object(<<>>)>>),
   Array(<<one, A(one)>>), Array(<<A(one), one>>),
   Array(<<Array(<<one>>)>>), Array(<<Array(<<one>>), Array(<<x>>)>>), Array(<<Array(<<x>>), Array(<<one>>)>>),
   Array(<<A(null), A(one)>>), Array(<<A(A(one)), A(A(x))>>), Array(<<A(Array(<<A(one)>>))>>),
   Array(<<Object([type |-> one])>>)}

Values == Scalars \union Lists \union {Object(<<>>), A(one), A(x), A(null), Object([type |-> one]),
  Object([type |-> x, a |-> one]), Object([type |-> x, a |-> x])}

Documents ==
  {Object([a |-> v]) : v \in Values} \union
  {Object([a |-> one, b |-> v]) : v \in Values} \union
  {Object([type |-> x, b |-> v]) : v \in Values} \union
  {Object([type |-> v]) : v \in Scalars} \union {Object(<<>>)} \union Lists
=============================================================================
