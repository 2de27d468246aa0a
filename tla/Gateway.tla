------------------------------- MODULE Gateway -------------------------------
(***************************************************************************)
(* The webhook gateway (gateway/src/server.ts, idempotency.ts and         *)
(* forward.ts): POST /webhooks/:source checks a delivery, forwards it to  *)
(* the runtime's POST /track and remembers its idempotency key.           *)
(*                                                                         *)
(* The handler runs on one JavaScript thread: everything before            *)
(* "await forwarder.forward" is one step, everything after it another.    *)
(* The store of keys lives in the memory of the process.  What happens     *)
(* between the two steps, the runtime's work and the network, is external. *)
(***************************************************************************)
EXTENDS Naturals, FiniteSets

CONSTANTS Deliveries,   \* HTTP requests, each handled once
          Keys,         \* idempotency keys
          MaxRestarts,  \* bound: restarts of the gateway process
          None

ASSUME GatewayAssumption == None \notin Keys /\ MaxRestarts \in Nat

\* What the handler can tell apart of a delivery: its idempotency key header,
\* its signature header, and whether its body is a JSON object.
Request == [key       : Keys \union {None},
            signature : {"none", "forged", "valid"},
            body      : {"object", "malformed", "absent"}]
NoRequest == [key |-> None, signature |-> "none", body |-> "absent"]

VARIABLES
  store,     \* InMemoryIdempotencyStore.keys
  pc,        \* "idle", "forwarding" (at the await), "answered" or "reset"
  request,   \* the delivery, once it has arrived
  status,    \* HTTP status of the response, 0 before it
  sent,      \* forwards the runtime has not dealt with
  handled,   \* forwards the runtime has tracked
  boot,      \* restarts of the process so far
  servedBy   \* the value of boot when the delivery arrived

vars == <<store, pc, request, status, sent, handled, boot, servedBy>>

Init ==
  /\ store    = {}
  /\ pc       = [d \in Deliveries |-> "idle"]
  /\ request  = [d \in Deliveries |-> NoRequest]
  /\ status   = [d \in Deliveries |-> 0]
  /\ sent     = {}
  /\ handled  = {}
  /\ boot     = 0
  /\ servedBy = [d \in Deliveries |-> 0]

-----------------------------------------------------------------------------
\* Mutant: a duplicate is not refused.
RefusalNoDuplicate(q) ==
  CASE q.signature = "none" -> 401
    [] q.signature # "none" /\ q.key = None -> 400
    [] OTHER -> IF q.body = "absent" THEN 500
                ELSE IF q.signature = "forged" THEN 403
                ELSE IF q.body = "malformed" THEN 400 ELSE 0

\* The early returns of the handler in their order: the status of the first
\* that applies, or 0.  The duplicate check comes before the signature is
\* verified, and the HMAC of a request without a body throws.
Refusal(q) ==
  CASE q.signature = "none" -> 401
    [] q.signature # "none" /\ q.key = None -> 400
    [] q.signature # "none" /\ q.key \in store -> 409
    [] OTHER -> IF q.body = "absent" THEN 500
                ELSE IF q.signature = "forged" THEN 403
                ELSE IF q.body = "malformed" THEN 400 ELSE 0

Answer(d, code) ==
  /\ pc' = [pc EXCEPT ![d] = "answered"]
  /\ status' = [status EXCEPT ![d] = code]

Arrive(d, q) ==
  /\ pc[d] = "idle"
  /\ request' = [request EXCEPT ![d] = q]
  /\ servedBy' = [servedBy EXCEPT ![d] = boot]

\* The handler up to an early return.
Refuse(d, q) ==
  /\ Arrive(d, q)
  /\ Refusal(q) # 0
  /\ Answer(d, Refusal(q))
  /\ UNCHANGED <<store, sent, handled, boot>>

\* Mutant: the key is registered before the forward.
ForwardRegistered(d, q) ==
  /\ Arrive(d, q)
  /\ Refusal(q) = 0
  /\ pc' = [pc EXCEPT ![d] = "forwarding"]
  /\ sent' = sent \union {d}
  /\ store' = store \union {q.key}
  /\ UNCHANGED <<status, handled, boot>>

\* The handler up to its await.
Forward(d, q) ==
  /\ Arrive(d, q)
  /\ Refusal(q) = 0
  /\ pc' = [pc EXCEPT ![d] = "forwarding"]
  /\ sent' = sent \union {d}
  /\ UNCHANGED <<store, status, handled, boot>>

\* The runtime handles POST /track, whether or not the gateway still waits.
RuntimeTracks(d) ==
  /\ d \in sent
  /\ sent' = sent \ {d}
  /\ handled' = handled \union {d}
  /\ UNCHANGED <<store, pc, request, status, boot, servedBy>>

\* The runtime answers with an error, or the request is lost on its way.
RuntimeRefuses(d) ==
  /\ d \in sent
  /\ sent' = sent \ {d}
  /\ UNCHANGED <<store, pc, request, status, handled, boot, servedBy>>

\* The forward resolves: response.ok.
Accept(d) ==
  /\ pc[d] = "forwarding"
  /\ d \in handled
  /\ store' = store \union {request[d].key}
  /\ Answer(d, 202)
  /\ UNCHANGED <<request, sent, handled, boot, servedBy>>

\* The forward rejects: an error status, or a connection that breaks before or
\* after the runtime has done its work.
Fail(d) ==
  /\ pc[d] = "forwarding"
  /\ Answer(d, 502)
  /\ UNCHANGED <<store, request, sent, handled, boot, servedBy>>

\* The process dies and starts again: the store and the open connections are
\* gone, what is on its way to the runtime is not.
Restart ==
  /\ boot < MaxRestarts
  /\ boot' = boot + 1
  /\ store' = {}
  /\ pc' = [d \in Deliveries |-> IF pc[d] = "forwarding" THEN "reset" ELSE pc[d]]
  /\ UNCHANGED <<request, status, sent, handled, servedBy>>

Next ==
  \/ \E d \in Deliveries, q \in Request : Refuse(d, q) \/ Forward(d, q)
  \/ \E d \in Deliveries :
       RuntimeTracks(d) \/ RuntimeRefuses(d) \/ Accept(d) \/ Fail(d)
  \/ Restart

Spec == Init /\ [][Next]_vars

-----------------------------------------------------------------------------
\* Every variable has its type; the status codes are those of the handler.
TypeOK ==
  /\ store    \subseteq Keys
  /\ pc       \in [Deliveries -> {"idle", "forwarding", "answered", "reset"}]
  /\ request  \in [Deliveries -> Request]
  /\ status   \in [Deliveries -> {0, 202, 400, 401, 403, 409, 500, 502}]
  /\ sent     \subseteq Deliveries
  /\ handled  \subseteq Deliveries
  /\ boot     \in 0 .. MaxRestarts
  /\ servedBy \in [Deliveries -> 0 .. MaxRestarts]

\* Whatever reaches the runtime, in whichever order the answers come back, was
\* signed with the shared secret, is well-formed and carries a key.
OnlyVerifiedIsHandled ==
  \A d \in handled :
    /\ request[d].signature = "valid" /\ request[d].body = "object"
    /\ request[d].key # None

\* "Duplicate" is said only of a key under which the runtime has tracked another
\* delivery: neither a forged or malformed delivery nor a failed forward uses
\* up a key, so a sender that stops on 409 has lost nothing.
DuplicateWasHandled ==
  \A d \in Deliveries : status[d] = 409 =>
    \E e \in handled \ {d} : request[e].key = request[d].key

\* A 202 promises that the runtime has tracked this very delivery.
AcceptedWasHandled == \A d \in Deliveries : status[d] = 202 => d \in handled

\* What the gateway says of the runtime is true: 202 and 409 alike.
AnswersAreTrue == DuplicateWasHandled /\ AcceptedWasHandled

\* From the 202 of a key to the end of the process no later delivery with the
\* key is forwarded.
NoReplayAfterAccept ==
  [][\A d, e \in Deliveries :
       /\ pc[d] = "idle" /\ pc'[d] = "forwarding"
       /\ status[e] = 202 /\ servedBy[e] = boot
       => request[e].key # request'[d].key]_vars

\* Of the deliveries that one process receives with one key, one is accepted.
AcceptedOnce ==
  \A d, e \in Deliveries :
    /\ d # e
    /\ status[d] = 202 /\ status[e] = 202
    /\ servedBy[d] = servedBy[e]
    => request[d].key # request[e].key
=============================================================================
