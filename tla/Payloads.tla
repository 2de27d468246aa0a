------------------------------ MODULE Payloads ------------------------------
(***************************************************************************)
(* JSON values as the comparisons of this project tell them apart: trees  *)
(* of objects, arrays and scalars.  A path is the sequence of the names    *)
(* that the code joins with dots; the names here contain neither dots nor *)
(* brackets, and none is "nullable", "required" or "enum", the words that *)
(* canonical schemas use besides "type".                                   *)
(***************************************************************************)
EXTENDS Integers, Sequences, FiniteSets

\* A scalar has a kind and, for a string, a value.
Scalar(k, x)  == [kind |-> k, value |-> x]
Object(f)     == [kind |-> "object", fields |-> f]
Array(s)      == [kind |-> "array", items |-> s]

\* The step of a path into an array.
Index(i)      == <<"[*0]", "[*1]", "[*2]">>[i]
Indices       == {Index(i) : i \in 1 .. 3}

InArray(path) == \E i \in DOMAIN path : path[i] \in Indices

\* How often each element of a sequence is in it.
Count(s) == [x \in {s[i] : i \in DOMAIN s} |-> Cardinality({i \in DOMAIN s : s[i] = x})]
=============================================================================
