----------------------------- MODULE EventLedger -----------------------------
(***************************************************************************)
(* What becomes of the drift events that are raised, as those count on it *)
(* who read the broker and the dead-letter queue: an event is published,   *)
(* or waits in the queue until a replay of it has been taken by the       *)
(* broker.  It is the abstract counterpart of the publishing tasks and of  *)
(* the table drift_event_dlq, whose detailed behaviour is module EventDlq. *)
(***************************************************************************)

CONSTANT Events

VARIABLES
  fate,      \* "unsent", then "published", "waiting" or "lost"; or "replayed"
  accepted   \* events the broker has

vars == <<fate, accepted>>

Init == fate = [e \in Events |-> "unsent"] /\ accepted = {}

Become(e, f) == fate' = [fate EXCEPT ![e] = f]

\* The broker takes an event of which the sender does not know it yet, or never will.
Take(e) ==
  /\ fate[e] \in {"unsent", "waiting", "replayed"}
  /\ accepted' = accepted \union {e}
  /\ UNCHANGED fate

Publish(e) ==
  /\ fate[e] = "unsent"
  /\ Become(e, "published")
  /\ accepted' = accepted \union {e}

\* It is given up, and kept for a replay.
Keep(e) == fate[e] = "unsent" /\ Become(e, "waiting") /\ UNCHANGED accepted

\* Only what the broker has counts as replayed.
Replay(e) ==
  /\ fate[e] \in {"waiting", "replayed"} /\ e \in accepted
  /\ Become(e, "replayed")
  /\ UNCHANGED accepted

\* A replay that fails opens the entry, also one that another has settled.
Reopen(e) ==
  /\ fate[e] \in {"waiting", "replayed"}
  /\ Become(e, "waiting")
  /\ UNCHANGED accepted

\* The sender stops: only what neither end has promised anything about is lost.
Lose(E) ==
  /\ \A e \in E : fate[e] = "unsent"
  /\ fate' = [e \in Events |-> IF e \in E THEN "lost" ELSE fate[e]]
  /\ UNCHANGED accepted

Next ==
  \/ \E e \in Events : Take(e) \/ Publish(e) \/ Keep(e) \/ Replay(e) \/ Reopen(e)
  \/ \E E \in SUBSET Events : Lose(E)

Spec == Init /\ [][Next]_vars
=============================================================================
