--------------------------- MODULE GatewayProofs ---------------------------
(***************************************************************************)
(* The gateway is correct for every number of deliveries, keys and        *)
(* restarts.  The argument: a key enters the store only with the answer   *)
(* of the runtime to a delivery that passed every check, so the store     *)
(* never knows more than the runtime does (Backed), and as long as the    *)
(* process lives it forgets nothing it has accepted (Remembered).         *)
(***************************************************************************)
EXTENDS Gateway, TLAPS

Verified(q) == q.signature = "valid" /\ q.body = "object" /\ q.key \in Keys

\* What the handler has let through was verified, and the waiting deliveries
\* belong to the running process.
Passed(d) ==
  /\ d \in sent \union handled \/ pc[d] = "forwarding" =>
       pc[d] # "idle" /\ Verified(request[d])
  /\ pc[d] = "forwarding" => servedBy[d] = boot
  /\ pc[d] = "idle" => status[d] = 0

\* Every key of the store is one under which the runtime has tracked something.
Backed == \A k \in store : \E e \in handled : request[e].key = k

\* An accepted delivery is tracked, and its key stored until a restart.
Remembered(d) ==
  status[d] = 202 =>
    /\ pc[d] = "answered" /\ d \in handled /\ Verified(request[d])
    /\ servedBy[d] = boot => request[d].key \in store

GatewayInv ==
  /\ TypeOK
  /\ \A d \in Deliveries : servedBy[d] <= boot /\ Passed(d) /\ Remembered(d)
  /\ Backed
  /\ DuplicateWasHandled

-----------------------------------------------------------------------------
\* The checks of the handler: what passes all of them is verified and new, and
\* what is refused gets a status of the handler, 409 only for a key it knows.
LEMMA RefusalCases ==
  ASSUME NEW q \in Request
  PROVE  /\ Refusal(q) = 0 => Verified(q) /\ q.key \notin store
         /\ Refusal(q) \in {0, 400, 401, 403, 409, 500}
         /\ Refusal(q) = 409 => q.key \in store
<1>1. CASE q.signature = "none"
  BY <1>1 DEF Refusal
<1>2. CASE q.signature # "none" /\ q.key = None
  BY <1>2 DEF Refusal
<1>3. CASE q.signature # "none" /\ q.key # None /\ q.key \in store
  BY <1>3 DEF Refusal
<1>4. CASE q.signature # "none" /\ q.key # None /\ q.key \notin store
  <2>1. Refusal(q) = IF q.body = "absent" THEN 500
                     ELSE IF q.signature = "forged" THEN 403
                     ELSE IF q.body = "malformed" THEN 400 ELSE 0
    BY <1>4 DEF Refusal
  <2>2. QED
    BY <1>4, <2>1 DEF Request, Verified
<1>5. QED
  BY <1>1, <1>2, <1>3, <1>4

\* Nothing has arrived, nothing is stored.
LEMMA GatewayInit == Init => GatewayInv
  BY GatewayAssumption
  DEF Init, GatewayInv, TypeOK, Passed, Remembered, Backed, DuplicateWasHandled,
      Request, NoRequest

\* A delivery is refused: no other delivery, key or forward is concerned, and a
\* 409 has its reason in the store.
LEMMA RefuseStep ==
  ASSUME GatewayInv, NEW d \in Deliveries, NEW q \in Request, Refuse(d, q)
  PROVE  GatewayInv'
<1> USE DEF Refuse, Arrive, Answer
<1>1. d \notin sent \union handled
  BY DEF GatewayInv, Passed
<1>2. TypeOK'
  BY RefusalCases DEF GatewayInv, TypeOK
<1>3. (\A e \in Deliveries : servedBy[e] <= boot /\ Passed(e) /\ Remembered(e))'
  BY <1>1, RefusalCases DEF GatewayInv, TypeOK, Passed, Remembered, Verified
<1>4. Backed'
  BY <1>1 DEF GatewayInv, TypeOK, Backed
<1>5. DuplicateWasHandled'
  <2>1. ASSUME Refusal(q) = 409
        PROVE  \E e \in handled \ {d} : request[e].key = q.key
    BY <1>1, <2>1, RefusalCases DEF GatewayInv, Backed
  <2>2. QED
    BY <1>1, <2>1 DEF GatewayInv, TypeOK, DuplicateWasHandled
<1>6. QED
  BY <1>2, <1>3, <1>4, <1>5 DEF GatewayInv

\* A delivery is forwarded: it was verified, and has no status yet.
LEMMA ForwardStep ==
  ASSUME GatewayInv, NEW d \in Deliveries, NEW q \in Request, Forward(d, q)
  PROVE  GatewayInv'
<1> USE DEF Forward, Arrive
<1>1. d \notin sent \union handled /\ status[d] = 0
  BY DEF GatewayInv, Passed
<1>2. Verified(q)
  BY RefusalCases
<1>3. TypeOK'
  BY DEF GatewayInv, TypeOK
<1>4. (\A e \in Deliveries : servedBy[e] <= boot /\ Passed(e) /\ Remembered(e))'
  BY <1>1, <1>2 DEF GatewayInv, TypeOK, Passed, Remembered, Verified
<1>5. Backed' /\ DuplicateWasHandled'
  BY <1>1 DEF GatewayInv, TypeOK, Backed, DuplicateWasHandled
<1>6. QED
  BY <1>3, <1>4, <1>5 DEF GatewayInv

\* The runtime and the network: only sent and handled change, and handled grows.
LEMMA RuntimeStep ==
  ASSUME GatewayInv, NEW d \in Deliveries, RuntimeTracks(d) \/ RuntimeRefuses(d)
  PROVE  GatewayInv'
  BY DEF GatewayInv, TypeOK, Passed, Remembered, Backed, DuplicateWasHandled,
         RuntimeTracks, RuntimeRefuses, Verified

\* The forward resolves or rejects: a key is stored only with a tracked delivery.
LEMMA AnswerStep ==
  ASSUME GatewayInv, NEW d \in Deliveries, Accept(d) \/ Fail(d)
  PROVE  GatewayInv'
  BY DEF GatewayInv, TypeOK, Passed, Remembered, Backed, DuplicateWasHandled,
         Accept, Fail, Answer, Verified

\* A restart empties the store, so the accepted deliveries are all of the past.
LEMMA RestartStep == GatewayInv /\ Restart => GatewayInv'
  BY GatewayAssumption
  DEF GatewayInv, TypeOK, Passed, Remembered, Backed, DuplicateWasHandled,
      Restart, Verified

\* Every step of the handler, the runtime and the process keeps the invariant.
LEMMA GatewayStep == GatewayInv /\ [Next]_vars => GatewayInv'
<1> SUFFICES ASSUME GatewayInv, [Next]_vars PROVE GatewayInv'
  OBVIOUS
<1>1. CASE UNCHANGED vars
  BY <1>1 DEF vars, GatewayInv, TypeOK, Passed, Remembered, Backed,
              DuplicateWasHandled, Verified
<1>2. CASE Next
  BY <1>2, RefuseStep, ForwardStep, RuntimeStep, AnswerStep, RestartStep DEF Next
<1>3. QED
  BY <1>1, <1>2

-----------------------------------------------------------------------------
\* The inductive invariant holds in every reachable state.
THEOREM GatewayInvariance == Spec => []GatewayInv
<1>1. Init => GatewayInv
  BY GatewayInit
<1>2. GatewayInv /\ [Next]_vars => GatewayInv'
  BY GatewayStep
<1>3. QED
  BY <1>1, <1>2, PTL DEF Spec

\* The gateway's variables keep their types, whatever the order of answers.
THEOREM GatewayTypeCorrect == Spec => []TypeOK
  BY GatewayInvariance, PTL DEF GatewayInv

\* The runtime only tracks deliveries that passed every check of the handler.
THEOREM VerifiedCorrect == Spec => []OnlyVerifiedIsHandled
<1>1. GatewayInv => OnlyVerifiedIsHandled
  BY GatewayAssumption
  DEF GatewayInv, TypeOK, Passed, Verified, OnlyVerifiedIsHandled
<1>2. QED
  BY <1>1, GatewayInvariance, PTL

\* A 409 is said only of a key under which something else was tracked.
THEOREM DuplicateCorrect == Spec => []DuplicateWasHandled
  BY GatewayInvariance, PTL DEF GatewayInv

\* A 202 is said only of a delivery that was tracked.
THEOREM AcceptedCorrect == Spec => []AcceptedWasHandled
<1>1. GatewayInv => AcceptedWasHandled
  BY DEF GatewayInv, Remembered, AcceptedWasHandled
<1>2. QED
  BY <1>1, GatewayInvariance, PTL

\* Neither 202 nor 409 is said of something the runtime has not tracked.
THEOREM AnswersCorrect == Spec => []AnswersAreTrue
  BY DuplicateCorrect, AcceptedCorrect, PTL DEF AnswersAreTrue

\* From the 202 on, until a restart, no delivery with the key is forwarded.
THEOREM ReplayCorrect == Spec => NoReplayAfterAccept
<1> DEFINE NoReplay ==
      \A d, e \in Deliveries :
        /\ pc[d] = "idle" /\ pc'[d] = "forwarding"
        /\ status[e] = 202 /\ servedBy[e] = boot
        => request[e].key # request'[d].key
<1>1. GatewayInv /\ [Next]_vars => [NoReplay]_vars
  <2> SUFFICES ASSUME GatewayInv, Next,
                      NEW d \in Deliveries, NEW e \in Deliveries,
                      pc[d] = "idle", pc'[d] = "forwarding",
                      status[e] = 202, servedBy[e] = boot
               PROVE  request[e].key # request'[d].key
    OBVIOUS
  <2>1. request[e].key \in store
    BY DEF GatewayInv, Remembered
  <2>2. PICK q \in Request : Forward(d, q)
    BY DEF Next, Refuse, Forward, Arrive, Answer, RuntimeTracks, RuntimeRefuses,
           Accept, Fail, Restart, GatewayInv, TypeOK
  <2>3. request'[d] = q /\ q.key \notin store
    BY <2>2, RefusalCases DEF Forward, Arrive, GatewayInv, TypeOK
  <2>4. QED
    BY <2>1, <2>3
<1>2. QED
  BY <1>1, GatewayInvariance, PTL DEF Spec, NoReplayAfterAccept

-----------------------------------------------------------------------------
(* AcceptedOnce can fail, and in one way only: between two deliveries with *)
(* one key that are both at the await of the handler.                      *)

\* A sender that waits for the answer before it sends a delivery again.
Serial ==
  \A d, e \in Deliveries :
    d # e /\ pc[d] = "forwarding" /\ pc[e] = "forwarding" => request[d].key # request[e].key

\* A delivery at the await has a key that its process has not accepted.
Unspent(d) ==
  pc[d] = "forwarding" =>
    \A e \in Deliveries :
      status[e] = 202 /\ servedBy[e] = servedBy[d] => request[e].key # request[d].key

SerialInv == AcceptedOnce /\ \A d \in Deliveries : Unspent(d)

\* A key that passes the duplicate check is not the key of an accepted delivery.
LEMMA SerialForward ==
  ASSUME GatewayInv, SerialInv, NEW d \in Deliveries, NEW q \in Request, Forward(d, q)
  PROVE  SerialInv'
<1>1. /\ pc[d] = "idle" /\ status' = status /\ status[d] # 202
      /\ request'[d] = q /\ servedBy'[d] = boot
      /\ \A e \in Deliveries \ {d} :
           pc'[e] = pc[e] /\ request'[e] = request[e] /\ servedBy'[e] = servedBy[e]
  BY DEF Forward, Arrive, GatewayInv, TypeOK, Passed
<1>2. \A e \in Deliveries :
        status[e] = 202 /\ servedBy[e] = boot => request[e].key # q.key
  <2>1. q.key \notin store
    BY RefusalCases DEF Forward
  <2>2. QED
    BY <2>1 DEF GatewayInv, Remembered
<1>3. AcceptedOnce'
  BY <1>1 DEF SerialInv, AcceptedOnce
<1>4. ASSUME NEW e \in Deliveries PROVE Unspent(e)'
  BY <1>1, <1>2 DEF SerialInv, Unspent
<1>5. QED
  BY <1>3, <1>4 DEF SerialInv

\* The delivery that is accepted was the only one at the await with its key.
LEMMA SerialAccept ==
  ASSUME GatewayInv, Serial, SerialInv, NEW d \in Deliveries, Accept(d)
  PROVE  SerialInv'
<1>1. /\ pc[d] = "forwarding" /\ pc'[d] = "answered"
      /\ request' = request /\ servedBy' = servedBy
      /\ \A e \in Deliveries \ {d} : pc'[e] = pc[e] /\ status'[e] = status[e]
  BY DEF Accept, Answer, GatewayInv, TypeOK
<1>2. AcceptedOnce'
  BY <1>1 DEF SerialInv, AcceptedOnce, Unspent
<1>3. ASSUME NEW e \in Deliveries PROVE Unspent(e)'
  BY <1>1 DEF SerialInv, Serial, Unspent
<1>4. QED
  BY <1>2, <1>3 DEF SerialInv

\* No other step accepts a delivery or brings one to the await.
LEMMA SerialElsewhere ==
  ASSUME GatewayInv, SerialInv, [Next]_vars,
         \A d \in Deliveries : ~Accept(d) /\ \A q \in Request : ~Forward(d, q)
  PROVE  SerialInv'
<1>1. CASE UNCHANGED vars
  BY <1>1 DEF vars, SerialInv, AcceptedOnce, Unspent
<1>2. ASSUME NEW d \in Deliveries, NEW q \in Request, Refuse(d, q) PROVE SerialInv'
  <2>1. /\ pc[d] = "idle" /\ pc'[d] = "answered" /\ status'[d] # 202
        /\ \A e \in Deliveries \ {d} :
             /\ pc'[e] = pc[e] /\ request'[e] = request[e]
             /\ servedBy'[e] = servedBy[e] /\ status'[e] = status[e]
    BY <1>2, RefusalCases DEF Refuse, Arrive, Answer, GatewayInv, TypeOK
  <2>2. QED
    BY <2>1 DEF SerialInv, AcceptedOnce, Unspent
<1>3. ASSUME NEW d \in Deliveries, RuntimeTracks(d) \/ RuntimeRefuses(d) PROVE SerialInv'
  BY <1>3 DEF RuntimeTracks, RuntimeRefuses, SerialInv, AcceptedOnce, Unspent
<1>4. ASSUME NEW d \in Deliveries, Fail(d) PROVE SerialInv'
  <2>1. /\ pc'[d] = "answered" /\ status'[d] # 202
        /\ request' = request /\ servedBy' = servedBy
        /\ \A e \in Deliveries \ {d} : pc'[e] = pc[e] /\ status'[e] = status[e]
    BY <1>4 DEF Fail, Answer, GatewayInv, TypeOK
  <2>2. QED
    BY <2>1 DEF SerialInv, AcceptedOnce, Unspent
<1>5. CASE Restart
  BY <1>5 DEF Restart, SerialInv, AcceptedOnce, Unspent
<1>6. QED
  BY <1>1, <1>2, <1>3, <1>4, <1>5 DEF Next

\* The duplicate check of the handler is enough for a sender that has one delivery
\* of a key on its way at a time: one process then accepts a key once.
THEOREM SerialCorrect == Spec /\ []Serial => []AcceptedOnce
<1>1. Init => SerialInv
  BY DEF Init, SerialInv, AcceptedOnce, Unspent
<1>2. GatewayInv /\ Serial /\ SerialInv /\ [Next]_vars => SerialInv'
  BY SerialForward, SerialAccept, SerialElsewhere
<1>3. SerialInv => AcceptedOnce
  BY DEF SerialInv
<1>4. QED
  BY <1>1, <1>2, <1>3, GatewayInvariance, PTL DEF Spec
=============================================================================
