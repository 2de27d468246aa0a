--------------------------- MODULE DeliveryPromise ---------------------------
(***************************************************************************)
(* What the outbox promises to the one who changes a contract: a change   *)
(* is recorded together with a notice for each consumer it affects, and a *)
(* notice ends once, delivered to a consumer that has it or given up with *)
(* a dead letter.  It is the abstract counterpart of the tables           *)
(* webhook_outbox (migrations/005) and webhook_delivery_dlq (003), whose  *)
(* detailed behaviour is module OutboxDelivery.                           *)
(***************************************************************************)

CONSTANTS Changes,    \* schema changes that may be recorded
          Notices,    \* webhooks, one per change and affected consumer
          NoticesOf,  \* the notices a change may need, those of all subscriptions
          Letter      \* the dead letter of a notice

VARIABLES affected,   \* the notices a change needs
          recorded,   \* changes that are recorded
          state,      \* "new", "open", and in the end "delivered" or "dead"
          has,        \* notices the consumer has received
          letters     \* dead letters

vars == <<affected, recorded, state, has, letters>>

Init ==
  /\ affected = [c \in Changes |-> {}]
  /\ recorded = {}
  /\ state    = [n \in Notices |-> "new"]
  /\ has      = {}
  /\ letters  = {}

\* A change is found, and with it the subscriptions that it affects.
Find(c, notices) ==
  /\ c \notin recorded /\ affected[c] = {}
  /\ notices \subseteq NoticesOf[c]
  /\ affected' = [affected EXCEPT ![c] = notices]
  /\ UNCHANGED <<recorded, state, has, letters>>

\* It is recorded once, and opens all the notices it needs.
Record(c) ==
  /\ c \notin recorded
  /\ \A n \in affected[c] : state[n] = "new"
  /\ recorded' = recorded \union {c}
  /\ state' = [n \in Notices |-> IF n \in affected[c] THEN "open" ELSE state[n]]
  /\ UNCHANGED <<affected, has, letters>>

\* A consumer receives a notice that is open, or that has a dead letter to replay.
Receive(n) ==
  /\ state[n] = "open" \/ Letter[n] \in letters
  /\ has' = has \union {n}
  /\ UNCHANGED <<affected, recorded, state, letters>>

Deliver(n) ==
  /\ state[n] = "open" /\ n \in has
  /\ state' = [state EXCEPT ![n] = "delivered"]
  /\ UNCHANGED <<affected, recorded, has, letters>>

GiveUp(n) ==
  /\ state[n] = "open"
  /\ state' = [state EXCEPT ![n] = "dead"]
  /\ letters' = letters \union {Letter[n]}
  /\ UNCHANGED <<affected, recorded, has>>

Next ==
  \/ \E c \in Changes : Record(c) \/ \E notices \in SUBSET Notices : Find(c, notices)
  \/ \E n \in Notices : Receive(n) \/ Deliver(n) \/ GiveUp(n)

Spec == Init /\ [][Next]_vars
=============================================================================
