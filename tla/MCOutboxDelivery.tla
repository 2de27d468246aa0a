-------------------------- MODULE MCOutboxDelivery --------------------------
(* Instances of OutboxDelivery for TLC. *)
EXTENDS OutboxDelivery, TLC

CONSTANTS t1, t2, a, b, c, w1, w2, r1

\* One change with two subscribed consumers.
OneTrack   == {t1}
TwoRows    == {a, b}
BothOfOne  == [q \in Tracks |-> {a, b}]

\* Two changes, the first with two subscriptions and the second with one.
TwoTracks  == {t1, t2}
ThreeRows  == {a, b, c}
TwoAndOne  == [q \in Tracks |-> IF q = t1 THEN {a, b} ELSE {c}]

\* Every row its own dead letter, or the two subscriptions of the first change
\* are of one consumer.
OwnKey     == [i \in Rows |-> i]
SharedKey  == [i \in Rows |-> IF i = c THEN c ELSE a]

OneWorker  == {w1}
TwoWorkers == {w1, w2}

\* An operator replays a dead letter once, or never.
OneReplay  == {r1}
NoReplays  == {}
=============================================================================
