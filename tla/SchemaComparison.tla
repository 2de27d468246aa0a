-------------------------- MODULE SchemaComparison --------------------------
(***************************************************************************)
(* Two payloads of one endpoint, one after the other, and the three       *)
(* comparisons the repository makes of them: the registry's (module       *)
(* Compatibility), the legacy one (LegacyDiff) and the monitor's           *)
(* (MonitorNode).  They were written apart; what is stated here is how     *)
(* far they agree with each other and with what a consumer finds.          *)
(*                                                                         *)
(* What each of them reads off one payload before it compares is the       *)
(* constant Views, given by module Readings; ReadingIsFaithful states what *)
(* the comparisons may rely on of it.                                      *)
(***************************************************************************)
EXTENDS Payloads, Compatibility, LegacyDiff, MonitorNode

CONSTANTS Payloads,   \* a finite set of JSON objects and, for the monitor, arrays
          Views(_)    \* what is read off a payload

VARIABLE seen   \* the payloads so far, with what is read off each

ComparisonInit == seen = <<>>

Observe(v) == Len(seen) < 2 /\ seen' = Append(seen, Views(v))

ComparisonNext == \E v \in Payloads : Observe(v)

ComparisonSpec == ComparisonInit /\ [][ComparisonNext]_seen

\* The pairs that are compared.
Compared == {p \in {seen} : Len(p) = 2}

-----------------------------------------------------------------------------
(* What a consumer finds.                                                  *)

IsObject(v) == v.payload.kind = "object"

\* The scalars and lists.
Found(v) ==
  {[path |-> x.path, kind |-> x.value.kind] : x \in {y \in v.positions : y.value.kind # "object"}}

\* What the first payload has of them and the second not.
Lost(v, w) == Found(v) \ Found(w)

\* No object on the way to a path has a field named "type".
Plain(v, path) ==
  \A i \in 0 .. Len(path) - 1 :
    \A y \in v.positions : y.path # Append(SubSeq(path, 1, i), "type")

AllPlain(v) == \A x \in v.positions : Plain(v, x.path)

\* The path of a position for the monitor, and what shares it.
Erased(path) == [i \in DOMAIN path |-> IF path[i] \in Indices THEN ItemStep ELSE path[i]]

At(v, path)    == {x \in v.positions : Erased(x.path) = path}
Kinds(v, path) == {x.value.kind : x \in At(v, path)}

OnlyScalars(v, path) == Kinds(v, path) \intersect {"object", "array"} = {}

\* What an array shows the monitor at one path is all scalars, all objects, or one list.
UniformAt(v, path) ==
  OnlyScalars(v, path) \/ Kinds(v, path) = {"object"} \/ \E x \in At(v, path) : At(v, path) = {x}

Uniform(v) == \A x \in v.positions : UniformAt(v, Erased(x.path))

-----------------------------------------------------------------------------
(* What is read off one payload.                                           *)

\* The positions of a payload, from the root; only a step into a list is an index.
PositionsAreRead(v) ==
  /\ [path |-> <<>>, value |-> v.payload] \in v.positions
  /\ \A x, y \in v.positions : x.path = y.path => x = y
  /\ \A x \in v.positions :
       /\ x.path \in Seq(STRING) /\ \A i \in DOMAIN x.path : x.path[i] # ItemStep
       /\ x.value.kind \in Primitive \union {"null", "object", "array"}
       /\ x.path # <<>> =>
            \E y \in v.positions :
              /\ x.path = Append(y.path, x.path[Len(x.path)])
              /\ x.path[Len(x.path)] \in Indices => y.value.kind = "array"

\* The leaves of the registry are the scalars and lists, but that an object with
\* a field "type" hides what is below it.
RegistryReads(v) ==
  /\ \A x \in v.positions :
       x.value.kind # "object" /\ Plain(v, x.path) =>
         x.path \in DOMAIN v.registry /\ v.registry[x.path] = Leaf(x.value.kind)
  /\ \A path \in DOMAIN v.registry :
       \/ \E x \in v.positions : /\ x.path = path /\ x.value.kind # "object"
                                 /\ v.registry[path] = Leaf(x.value.kind)
       \/ /\ v.registry[path].kind = "object" /\ path \in Seq(STRING)
          /\ \E y \in v.positions : y.path = Append(path, "type")

\* The flattened legacy schema has all of them.
LegacyReads(v) ==
  v.leaves = {[path |-> x.path, type |-> x.value.kind] :
                x \in {y \in v.positions : y.value.kind # "object"}}

\* The node of a path of scalars is what the set of them says, whatever their
\* order, but for "required"; that of an object or a list says what it is.
NodeReads(v, path) ==
  IF OnlyScalars(v, path)
  THEN v.monitor[path] = [Finished(NodeOf({x.value : x \in At(v, path)}))
                            EXCEPT !.required = v.monitor[path].required]
  ELSE /\ v.monitor[path].type \in Kinds(v, path)
       /\ v.monitor[path].nullable = FALSE /\ v.monitor[path].enum = {}

\* A list says of its items whether they are all objects, for which it has no node.
ItemsRead(v, path) ==
  Kinds(v, path) = {"array"} =>
    (v.monitor[path].item = "object" <=> Kinds(v, Append(path, ItemStep)) = {"object"})

\* The monitor has nodes for the paths below the root of an object and no others; the
\* items of a list at the root share the path of the list.
MonitorReads(v) ==
  /\ IsObject(v) <=> <<ItemStep>> \notin DOMAIN v.monitor
  /\ IsObject(v) =>
       /\ DOMAIN v.monitor \subseteq {Erased(x.path) : x \in v.positions} \ {<<>>}
       /\ \A x \in v.positions :
            \/ Erased(x.path) \in DOMAIN v.monitor \/ x.path = <<>>
            \/ x.value.kind = "object" /\ x.path[Len(x.path)] \in Indices
       /\ \A path \in DOMAIN v.monitor :
            UniformAt(v, path) => NodeReads(v, path) /\ ItemsRead(v, path)

Faithful(v) == PositionsAreRead(v) /\ RegistryReads(v) /\ LegacyReads(v) /\ MonitorReads(v)

WellRead == \A d \in Payloads : Faithful(Views(d))

-----------------------------------------------------------------------------
(* What the comparisons say of two payloads.                               *)

\* What is read says what is there, and forgets what it should: payloads that are
\* one version to the registry are one snapshot to the legacy tables, and an
\* endpoint that gives the items of its lists in another order has the same schema
\* in the monitor, unless objects, lists and scalars are mixed, when the first decides.
ReadingIsFaithful ==
  /\ WellRead
  /\ \A p \in Compared :
       LET v == p[1]  w == p[2] IN
       /\ IsObject(v) /\ IsObject(w) /\ v.version = w.version => v.snapshot = w.snapshot
       /\ Uniform(v) /\ v.unordered = w.unordered => v.monitor = w.monitor

Judgement(v, w) == Diffs(v.registry, w.registry)

\* The registry never calls a version safe that has lost something outside
\* objects with a field "type", and without such a field alarms about nothing else.
RegistryJudgesLosses ==
  \A p \in Compared :
    LET v == p[1]  w == p[2]  class == Summary(Judgement(v, w)) IN
    IsObject(v) /\ IsObject(w) =>
      /\ class = "SAFE" => \A x \in Lost(v, w) : ~Plain(v, x.path) \/ ~Plain(w, x.path)
      /\ AllPlain(v) /\ AllPlain(w) /\ Lost(v, w) = {} => class = "SAFE"

RegistryClass(v, w, path) ==
  LET c == {d[2] : d \in {x \in Judgement(v, w) : x[1] = path}}
  IN  IF c = {} THEN "none" ELSE CHOOSE x \in c : TRUE

\* The two comparisons of one POST /track agree at every path, but that the legacy
\* one says nothing when null or a list takes the place of something, or the reverse.
LegacyAgrees(v, w) ==
  \A path \in DOMAIN v.registry \union DOMAIN w.registry :
    LET class  == RegistryClass(v, w, path)
        legacy == LegacySeverity(v.leaves, w.leaves, path)
    IN  \/ legacy = class
        \/ /\ legacy = "none" /\ class = "BREAKING"
           /\ \E x \in Found(v) \union Found(w) : x.path = path /\ x.kind \in {"null", "array"}

\* A field that was no object breaks for the monitor if and only if it does for the
\* registry, unless it is a list, of whose items the registry says it elsewhere.
MonitorAgrees(v, w) ==
  \A x \in {y \in Found(v) : ~InArray(y.path)} :
    (MonitorSeverity(v.monitor, w.monitor, x.path) = "breaking")
      <=> \/ RegistryClass(v, w, x.path) = "BREAKING"
          \/ x.kind = "array" /\ v.monitor[x.path].item # w.monitor[x.path].item

\* The three comparisons agree, as far as they look alike.
DetectorsAgree ==
  \A p \in Compared :
    LET v == p[1]  w == p[2] IN
    IsObject(v) /\ IsObject(w) /\ AllPlain(v) /\ AllPlain(w) =>
      LegacyAgrees(v, w) /\ MonitorAgrees(v, w)

\* When the monitor records nothing, every path that had one kind of value in the
\* first answer, or one and null, has the same kinds in the second, if neither
\* mixes objects, lists and scalars; in a list at the root, whose items share its
\* path, anything may have changed.
SilenceMeansSame ==
  \A p \in Compared :
    LET v == p[1]  w == p[2] IN
    Uniform(v) /\ Uniform(w) /\ IsObject(v) /\ Silent(v.monitor, w.monitor) =>
      \A path \in {Erased(x.path) : x \in v.positions} :
        (\E k \in Kinds(v, path) : Kinds(v, path) \subseteq {k, "null"})
          => Kinds(w, path) = Kinds(v, path)
=============================================================================
