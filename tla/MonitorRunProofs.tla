-------------------------- MODULE MonitorRunProofs --------------------------
(***************************************************************************)
(* The monitor's safety for any number of requests, endpoints and         *)
(* connections and any size of the pool, although locks stay behind on    *)
(* connections that the pool hands out again.                              *)
(*                                                                         *)
(* First, two runs never work at once: PostgreSQL grants the lock to one  *)
(* connection (HeldByOne); a run that can commit still has the connection *)
(* on which it was granted (RunningHolds), and the pool gives a connection *)
(* to one request only (CheckedOutOnce).                                   *)
(*                                                                         *)
(* Then the tables: since nobody else commits while a run gathers, the    *)
(* snapshot a coroutine compared with is still the newest when the run    *)
(* commits (FoundCurrent, Compared), and the run has left nothing in the  *)
(* tables before (Unwritten).                                              *)
(***************************************************************************)
EXTENDS MonitorRun, SequenceTheorems, TLAPS

\* The part of the type invariant the argument rests on.
PoolType ==
  /\ pc \in [Users -> {"idle", "load", "gather", "record", "unlock", "leave", "end"}]
  /\ conn \in [Users -> Conns \union {None}]
  /\ pool \in Seq(Conns)
  /\ held \in [Conns -> Nat]
  /\ broken \in [Runs -> BOOLEAN]

\* A connection is idle, or checked out by one request.
CheckedOutOnce ==
  /\ \A u, v \in Users : conn[u] = conn[v] /\ conn[u] # None => u = v
  /\ \A u \in Users, i \in DOMAIN pool : conn[u] # pool[i]

\* The queue has no connection twice.
IdleOnce == \A i, j \in DOMAIN pool : pool[i] = pool[j] => i = j

HeldByOne == \A c, d \in Conns : held[c] > 0 /\ held[d] > 0 => c = d

RunningHolds ==
  \A r \in Runs : Running(r) => conn[r] \in Conns /\ held[conn[r]] > 0

PoolInv == PoolType /\ CheckedOutOnce /\ IdleOnce /\ HeldByOne /\ RunningHolds

\* At the start the pool is empty and nobody has a connection.
LEMMA InitPool == Init => PoolInv
  BY MonitorAssumption, SMT
  DEF Init, PoolInv, PoolType, CheckedOutOnce, IdleOnce, HeldByOne, RunningHolds, Running,
      Users

-----------------------------------------------------------------------------
\* What is left of the queue, and where its head goes.
LEMMA RestOfPool ==
  ASSUME PoolInv, NEW c \in Conns, Given(c)
  PROVE  /\ Rest \in Seq(Conns)
         /\ \A i \in DOMAIN Rest : \E j \in DOMAIN pool : Rest[i] = pool[j]
         /\ \A i, j \in DOMAIN Rest : Rest[i] = Rest[j] => i = j
         /\ \A i \in DOMAIN Rest : Rest[i] # c
         /\ \A u \in Users : conn[u] # c
<1> USE DEF PoolInv, PoolType
<1>1. CASE pool = <<>>
  <2>1. Rest = <<>> /\ c \notin Open
    BY <1>1 DEF Rest, Given
  <2> QED
    BY <1>1, <2>1 DEF Open
<1>2. CASE pool # <<>>
  <2>1. c = Head(pool) /\ Rest = Tail(pool)
    BY <1>2 DEF Rest, Given
  <2>2. Len(pool) \in Nat \ {0} /\ DOMAIN pool = 1 .. Len(pool) /\ c = pool[1]
    BY <1>2, <2>1
  <2>3. /\ Rest \in Seq(Conns) /\ DOMAIN Rest = 1 .. Len(pool) - 1
        /\ \A i \in 1 .. Len(pool) - 1 : Rest[i] = pool[i + 1]
    BY <1>2, <2>1, <2>2
  <2>4. \A i \in DOMAIN Rest : i + 1 \in DOMAIN pool /\ i + 1 # 1
    BY <2>2, <2>3
  <2>5. \A i \in DOMAIN Rest : \E j \in DOMAIN pool : Rest[i] = pool[j]
    BY <2>3, <2>4
  <2>6. \A i, j \in DOMAIN Rest : Rest[i] = Rest[j] => i = j
    <3> SUFFICES ASSUME NEW i \in DOMAIN Rest, NEW j \in DOMAIN Rest, Rest[i] = Rest[j]
                 PROVE  i = j
      OBVIOUS
    <3>1. pool[i + 1] = pool[j + 1]
      BY <2>3
    <3>2. i + 1 = j + 1
      BY <2>4, <3>1 DEF IdleOnce
    <3> QED
      BY <2>3, <3>2
  <2>7. \A i \in DOMAIN Rest : Rest[i] # c
    <3> SUFFICES ASSUME NEW i \in DOMAIN Rest, Rest[i] = c  PROVE FALSE
      OBVIOUS
    <3>1. pool[i + 1] = pool[1] /\ 1 \in DOMAIN pool
      BY <2>2, <2>3
    <3> QED
      BY <2>4, <3>1 DEF IdleOnce
  <2>8. \A u \in Users : conn[u] # c
    BY <2>2 DEF CheckedOutOnce
  <2> QED
    BY <2>3, <2>5, <2>6, <2>7, <2>8
<1> QED
  BY <1>1, <1>2

\* Whoever checks out a connection is its only user.
LEMMA CheckOutKeeps ==
  ASSUME PoolInv, NEW u \in Users, NEW c \in Conns, CheckOut(u, c)
  PROVE  /\ conn' \in [Users -> Conns \union {None}] /\ pool' \in Seq(Conns)
         /\ CheckedOutOnce' /\ IdleOnce'
         /\ conn'[u] = c
         /\ \A v \in Users \ {u} : conn'[v] = conn[v] /\ conn[v] # c
<1>1. /\ Rest \in Seq(Conns)
      /\ \A i \in DOMAIN Rest : \E j \in DOMAIN pool : Rest[i] = pool[j]
      /\ \A i, j \in DOMAIN Rest : Rest[i] = Rest[j] => i = j
      /\ \A i \in DOMAIN Rest : Rest[i] # c
      /\ \A v \in Users : conn[v] # c
  BY RestOfPool DEF CheckOut
<1>2. conn' = [conn EXCEPT ![u] = c] /\ pool' = Rest
  BY DEF CheckOut
<1>3. /\ conn' \in [Users -> Conns \union {None}]
      /\ conn'[u] = c
      /\ \A v \in Users \ {u} : conn'[v] = conn[v] /\ conn[v] # c
  BY <1>1, <1>2 DEF PoolInv, PoolType
<1>4. CheckedOutOnce'
  BY <1>1, <1>2, <1>3 DEF PoolInv, CheckedOutOnce
<1>5. IdleOnce'
  BY <1>1, <1>2 DEF IdleOnce
<1> QED
  BY <1>1, <1>2, <1>3, <1>4, <1>5

\* A connection that is given back is nobody's, and no other lock is touched.
LEMMA CheckInKeeps ==
  ASSUME PoolInv, NEW u \in Users, CheckIn(u)
  PROVE  /\ conn' \in [Users -> Conns \union {None}] /\ pool' \in Seq(Conns)
         /\ held' \in [Conns -> Nat]
         /\ CheckedOutOnce' /\ IdleOnce' /\ HeldByOne'
         /\ \A v \in Users \ {u} :
              /\ conn'[v] = conn[v]
              /\ conn[v] \in Conns => held'[conn[v]] = held[conn[v]]
<1> USE DEF PoolInv, PoolType
<1>1. /\ conn' = [conn EXCEPT ![u] = None]
      /\ conn' \in [Users -> Conns \union {None}]
      /\ conn'[u] = None /\ \A v \in Users \ {u} : conn'[v] = conn[v]
  BY DEF CheckIn
<1>2. CASE conn[u] = None
  BY <1>1, <1>2, MonitorAssumption DEF CheckIn, CheckedOutOnce, IdleOnce, HeldByOne
<1>3. CASE conn[u] # None /\ Len(pool) < PoolSize
  <2>1. pool' = Append(pool, conn[u]) /\ held' = held /\ conn[u] \in Conns
    BY <1>3 DEF CheckIn
  <2>2. /\ pool' \in Seq(Conns) /\ Len(pool) \in Nat
        /\ DOMAIN pool = 1 .. Len(pool) /\ DOMAIN pool' = 1 .. Len(pool) + 1
        /\ \A i \in DOMAIN pool : pool'[i] = pool[i] /\ pool[i] # conn[u]
        /\ pool'[Len(pool) + 1] = conn[u]
    BY <2>1 DEF CheckedOutOnce
  <2>3. \A i \in DOMAIN pool' : i \in DOMAIN pool \/ i = Len(pool) + 1
    BY <2>2
  <2>4. IdleOnce'
    BY <2>2, <2>3 DEF IdleOnce
  <2>5. \A v \in Users, i \in DOMAIN pool' : conn'[v] # pool'[i]
    <3> SUFFICES ASSUME NEW v \in Users, NEW i \in DOMAIN pool'
                 PROVE  conn'[v] # pool'[i]
      OBVIOUS
    <3>1. pool'[i] \in Conns
      BY <2>2
    <3>2. CASE v = u
      BY <1>1, <3>1, <3>2, MonitorAssumption
    <3>3. CASE v # u /\ i \in DOMAIN pool
      BY <1>1, <2>2, <3>3 DEF CheckedOutOnce
    <3>4. CASE v # u /\ i = Len(pool) + 1
      BY <1>1, <1>3, <2>2, <3>4 DEF CheckedOutOnce
    <3> QED
      BY <2>3, <3>2, <3>3, <3>4
  <2>6. CheckedOutOnce'
    BY <1>1, <2>5 DEF CheckedOutOnce
  <2> QED
    BY <1>1, <2>1, <2>2, <2>4, <2>6 DEF HeldByOne
<1>4. CASE conn[u] # None /\ ~(Len(pool) < PoolSize)
  <2>1. held' = [held EXCEPT ![conn[u]] = 0] /\ pool' = pool /\ conn[u] \in Conns
    BY <1>4 DEF CheckIn
  <2>2. \A v \in Users \ {u} : conn[v] # conn[u]
    BY <1>4 DEF CheckedOutOnce
  <2>3. /\ held' \in [Conns -> Nat] /\ HeldByOne'
        /\ \A v \in Users \ {u} : conn[v] \in Conns => held'[conn[v]] = held[conn[v]]
    BY <2>1, <2>2 DEF HeldByOne
  <2>4. CheckedOutOnce' /\ IdleOnce'
    BY <1>1, <2>1, MonitorAssumption DEF CheckedOutOnce, IdleOnce
  <2> QED
    BY <1>1, <2>1, <2>3, <2>4
<1> QED
  BY <1>2, <1>3, <1>4

-----------------------------------------------------------------------------
\* A step that leaves connections alone and starts no run.
LEMMA QuietKeepsPool ==
  ASSUME PoolInv, UNCHANGED <<connVars, broken>>,
         pc' \in [Users -> {"idle", "load", "gather", "record", "unlock", "leave", "end"}],
         \A r \in Runs : Running(r)' => Running(r)
  PROVE  PoolInv'
  BY DEF PoolInv, PoolType, CheckedOutOnce, IdleOnce, HeldByOne, RunningHolds, connVars

\* A run that gives its connection back no longer works.
LEMMA LeavingKeepsPool ==
  ASSUME PoolInv, NEW u \in Users, CheckIn(u),
         NEW next \in {"record", "unlock", "end"}, Goto(u, next),
         broken' \in [Runs -> BOOLEAN], \A r \in Runs \ {u} : broken'[r] = broken[r]
  PROVE  PoolInv'
<1>1. /\ conn' \in [Users -> Conns \union {None}] /\ pool' \in Seq(Conns)
      /\ held' \in [Conns -> Nat]
      /\ CheckedOutOnce' /\ IdleOnce' /\ HeldByOne'
      /\ \A v \in Users \ {u} :
           /\ conn'[v] = conn[v]
           /\ conn[v] \in Conns => held'[conn[v]] = held[conn[v]]
  BY CheckInKeeps
<1>2. /\ pc' \in [Users -> {"idle", "load", "gather", "record", "unlock", "leave", "end"}]
      /\ pc'[u] = next /\ \A v \in Users \ {u} : pc'[v] = pc[v]
  BY DEF Goto, PoolInv, PoolType
<1>3. ASSUME NEW r \in Runs, Running(r)'
      PROVE  conn'[r] \in Conns /\ held'[conn'[r]] > 0
  <2>1. r \in Users \ {u}
    BY <1>2, <1>3 DEF Running, Users
  <2>2. Running(r)
    BY <1>2, <1>3, <2>1 DEF Running
  <2> QED
    BY <1>1, <2>1, <2>2 DEF PoolInv, RunningHolds
<1> QED
  BY <1>1, <1>2, <1>3 DEF PoolInv, PoolType, RunningHolds

\* The lock is granted only if no other connection has it.
LEMMA StartKeepsPool ==
  ASSUME PoolInv, NEW r \in Runs, Start(r)
  PROVE  PoolInv'
<1> r \in Users
  BY DEF Users
<1>1. PICK c \in Conns :
        /\ CheckOut(r, c)
        /\ IF \A d \in Conns \ {c} : held[d] = 0
           THEN held' = [held EXCEPT ![c] = @ + 1] /\ Goto(r, "load")
           ELSE Goto(r, "leave") /\ UNCHANGED held
  BY DEF Start
<1>2. /\ conn' \in [Users -> Conns \union {None}] /\ pool' \in Seq(Conns)
      /\ CheckedOutOnce' /\ IdleOnce'
      /\ conn'[r] = c
      /\ \A v \in Users \ {r} : conn'[v] = conn[v] /\ conn[v] # c
  BY <1>1, CheckOutKeeps
<1>3. /\ pc' \in [Users -> {"idle", "load", "gather", "record", "unlock", "leave", "end"}]
      /\ \A v \in Users \ {r} : pc'[v] = pc[v]
      /\ pc'[r] \in {"load", "leave"} /\ broken' = broken
  BY <1>1 DEF Start, Goto, PoolInv, PoolType
<1>4. CASE \A d \in Conns \ {c} : held[d] = 0
  <2>1. held' \in [Conns -> Nat] /\ held'[c] > 0 /\ \A d \in Conns \ {c} : held'[d] = 0
    BY <1>1, <1>4 DEF PoolInv, PoolType
  <2>2. HeldByOne'
    BY <2>1 DEF HeldByOne
  <2>3. ASSUME NEW s \in Runs, Running(s)'
        PROVE  conn'[s] \in Conns /\ held'[conn'[s]] > 0
    <3>1. CASE s = r
      BY <1>2, <2>1, <3>1
    <3>2. CASE s # r
      <4>1. Running(s) /\ s \in Users \ {r}
        BY <1>3, <2>3, <3>2 DEF Running, Users
      <4>2. conn[s] \in Conns \ {c} /\ held[conn[s]] > 0
        BY <1>2, <4>1 DEF PoolInv, RunningHolds
      <4> QED
        BY <1>4, <4>2
    <3> QED
      BY <3>1, <3>2
  <2> QED
    BY <1>2, <1>3, <2>1, <2>2, <2>3 DEF PoolInv, PoolType, RunningHolds
<1>5. CASE ~(\A d \in Conns \ {c} : held[d] = 0)
  <2>1. held' = held /\ pc'[r] = "leave"
    BY <1>1, <1>5 DEF Goto, PoolInv, PoolType
  <2>2. ASSUME NEW s \in Runs, Running(s)'
        PROVE  conn'[s] \in Conns /\ held'[conn'[s]] > 0
    BY <1>2, <1>3, <2>1, <2>2 DEF Running, Users, PoolInv, RunningHolds
  <2>3. HeldByOne'
    BY <2>1 DEF PoolInv, HeldByOne
  <2> QED
    BY <1>2, <1>3, <2>1, <2>2, <2>3 DEF PoolInv, PoolType, RunningHolds
<1> QED
  BY <1>4, <1>5

\* Whatever connection the unlock gets, no run that works has it.
LEMMA UnlockKeepsPool ==
  ASSUME PoolInv, NEW r \in Runs, Unlock(r)
  PROVE  PoolInv'
<1> r \in Users
  BY DEF Users
<1>1. PICK c \in Conns :
        CheckOut(r, c) /\ held' = [held EXCEPT ![c] = IF @ = 0 THEN 0 ELSE @ - 1]
  BY DEF Unlock
<1>2. /\ conn' \in [Users -> Conns \union {None}] /\ pool' \in Seq(Conns)
      /\ CheckedOutOnce' /\ IdleOnce'
      /\ conn'[r] = c
      /\ \A v \in Users \ {r} : conn'[v] = conn[v] /\ conn[v] # c
  BY <1>1, CheckOutKeeps
<1>3. /\ pc' \in [Users -> {"idle", "load", "gather", "record", "unlock", "leave", "end"}]
      /\ \A v \in Users \ {r} : pc'[v] = pc[v]
      /\ pc'[r] = "leave" /\ broken' = broken
  BY DEF Unlock, Goto, PoolInv, PoolType
<1>4. held' \in [Conns -> Nat] /\ \A d \in Conns : held'[d] <= held[d]
  BY <1>1 DEF PoolInv, PoolType
<1>5. \A d \in Conns \ {c} : held'[d] = held[d]
  BY <1>1 DEF PoolInv, PoolType
<1>6. HeldByOne'
  BY <1>4 DEF PoolInv, PoolType, HeldByOne
<1>7. ASSUME NEW s \in Runs, Running(s)'
      PROVE  conn'[s] \in Conns /\ held'[conn'[s]] > 0
  <2>1. Running(s) /\ s \in Users \ {r}
    BY <1>3, <1>7 DEF Running, Users
  <2> QED
    BY <1>2, <1>5, <2>1 DEF PoolInv, RunningHolds
<1> QED
  BY <1>2, <1>3, <1>4, <1>6, <1>7 DEF PoolInv, PoolType, RunningHolds

\* A run whose statement has failed can no longer commit.
LEMMA BreakKeepsPool ==
  ASSUME PoolInv, NEW r \in Runs, Break(r)
  PROVE  PoolInv'
<1> r \in Users
  BY DEF Users
<1>1. /\ broken' \in [Runs -> BOOLEAN] /\ broken'[r] /\ pc' = pc
      /\ \A s \in Runs \ {r} : broken'[s] = broken[s]
  BY DEF Break, PoolInv, PoolType
<1>2. \A s \in Runs : Running(s)' => Running(s) /\ s # r
  BY <1>1 DEF Running
<1>3. CASE UNCHANGED connVars
  BY <1>1, <1>2, <1>3
  DEF PoolInv, PoolType, CheckedOutOnce, IdleOnce, HeldByOne, RunningHolds, connVars
<1>4. CASE /\ held' = [held EXCEPT ![conn[r]] = 0]
           /\ conn' = [conn EXCEPT ![r] = None]
           /\ UNCHANGED pool
  <2>1. conn[r] \in Conns
    BY DEF Break, At, Running, PoolInv, RunningHolds
  <2>2. /\ held' \in [Conns -> Nat] /\ held'[conn[r]] = 0
        /\ \A d \in Conns \ {conn[r]} : held'[d] = held[d]
    BY <1>4, <2>1 DEF PoolInv, PoolType
  <2>3. /\ conn' \in [Users -> Conns \union {None}] /\ conn'[r] = None
        /\ \A v \in Users \ {r} : conn'[v] = conn[v]
    BY <1>4 DEF PoolInv, PoolType
  <2>4. HeldByOne'
    BY <2>2 DEF PoolInv, HeldByOne
  <2>5. CheckedOutOnce'
    <3>1. \A i \in DOMAIN pool : pool[i] # None
      BY MonitorAssumption DEF PoolInv, PoolType
    <3> QED
      BY <1>4, <2>3, <3>1 DEF PoolInv, CheckedOutOnce
  <2>6. ASSUME NEW s \in Runs, Running(s)'
        PROVE  conn'[s] \in Conns /\ held'[conn'[s]] > 0
    <3>1. Running(s) /\ s \in Users \ {r}
      BY <1>2, <2>6 DEF Users
    <3>2. conn[s] \in Conns /\ held[conn[s]] > 0 /\ conn[s] # conn[r]
      BY <2>1, <3>1, MonitorAssumption DEF PoolInv, RunningHolds, CheckedOutOnce
    <3> QED
      BY <2>2, <2>3, <3>1, <3>2
  <2> QED
    BY <1>1, <1>4, <2>2, <2>3, <2>4, <2>5, <2>6
    DEF PoolInv, PoolType, IdleOnce, RunningHolds
<1> QED
  BY <1>3, <1>4 DEF Break

\* The failure is recorded on a connection that goes straight back.
LEMMA RecordKeepsPool ==
  ASSUME PoolInv, NEW r \in Runs, RecordFailure(r)
  PROVE  PoolInv'
<1>1. PICK c \in Conns : Given(c) /\ pool' = Append(Rest, c)
  BY DEF RecordFailure
<1>2. /\ Rest \in Seq(Conns)
      /\ \A i \in DOMAIN Rest : \E j \in DOMAIN pool : Rest[i] = pool[j]
      /\ \A i, j \in DOMAIN Rest : Rest[i] = Rest[j] => i = j
      /\ \A i \in DOMAIN Rest : Rest[i] # c
      /\ \A u \in Users : conn[u] # c
  BY <1>1, RestOfPool
<1>3. /\ pool' \in Seq(Conns) /\ Len(Rest) \in Nat
      /\ DOMAIN Rest = 1 .. Len(Rest) /\ DOMAIN pool' = 1 .. Len(Rest) + 1
      /\ \A i \in DOMAIN Rest : pool'[i] = Rest[i]
      /\ pool'[Len(Rest) + 1] = c
  BY <1>1, <1>2
<1>4. \A i \in DOMAIN pool' : i \in DOMAIN Rest \/ i = Len(Rest) + 1
  BY <1>3
<1>5. /\ pc' \in [Users -> {"idle", "load", "gather", "record", "unlock", "leave", "end"}]
      /\ \A s \in Runs : Running(s)' => Running(s)
      /\ conn' = conn /\ held' = held /\ broken' = broken
  <2>1. pc' = [pc EXCEPT ![r] = "unlock"] /\ conn' = conn /\ held' = held /\ broken' = broken
    BY DEF RecordFailure, Goto
  <2> QED
    BY <2>1 DEF PoolInv, PoolType, Running, Users
<1>6. IdleOnce'
  BY <1>2, <1>3, <1>4 DEF IdleOnce
<1>7. CheckedOutOnce'
  BY <1>2, <1>3, <1>4, <1>5 DEF PoolInv, CheckedOutOnce
<1> QED
  BY <1>3, <1>5, <1>6, <1>7 DEF PoolInv, PoolType, HeldByOne, RunningHolds

\* Another request of the service takes a connection and leaves the locks alone.
LEMMA BrowseKeepsPool ==
  ASSUME PoolInv, NEW q \in Readers, Browse(q)
  PROVE  PoolInv'
<1> q \in Users
  BY DEF Users
<1>1. PICK c \in Conns : CheckOut(q, c)
  BY DEF Browse
<1>2. /\ conn' \in [Users -> Conns \union {None}] /\ pool' \in Seq(Conns)
      /\ CheckedOutOnce' /\ IdleOnce'
      /\ \A v \in Users \ {q} : conn'[v] = conn[v]
  BY <1>1, CheckOutKeeps
<1>3. /\ pc' \in [Users -> {"idle", "load", "gather", "record", "unlock", "leave", "end"}]
      /\ \A s \in Runs : s \in Users \ {q} /\ pc'[s] = pc[s]
      /\ held' = held /\ broken' = broken
  BY MonitorAssumption DEF Browse, Goto, PoolInv, PoolType, Users
<1>4. RunningHolds' /\ HeldByOne'
  BY <1>2, <1>3 DEF PoolInv, RunningHolds, Running, HeldByOne
<1> QED
  BY <1>2, <1>3, <1>4 DEF PoolInv, PoolType

\* A crash closes the connections, and the server takes back their locks.
LEMMA CrashKeepsPool == PoolInv /\ Crash => PoolInv'
<1> SUFFICES ASSUME PoolInv, Crash  PROVE PoolInv'
  OBVIOUS
<1>1. /\ pc' \in [Users -> {"idle", "load", "gather", "record", "unlock", "leave", "end"}]
      /\ \A r \in Runs : ~Running(r)'
      /\ conn' = [u \in Users |-> None] /\ pool' = <<>>
      /\ held' = [c \in Conns |-> 0] /\ broken' = [r \in Runs |-> FALSE]
  BY DEF Crash, PoolInv, PoolType, Running, Users
<1> QED
  BY <1>1 DEF PoolInv, PoolType, CheckedOutOnce, IdleOnce, HeldByOne, RunningHolds

-----------------------------------------------------------------------------
\* The handler of a run, step by step.
LEMMA HandleKeepsPool ==
  ASSUME PoolInv, NEW r \in Runs, Handle(r) \/ FailInsert(r) \/ FailLoad(r)
  PROVE  PoolInv'
<1> r \in Users
  BY DEF Users
<1>1. CASE Load(r) \/ FailInsert(r)
  <2>1. \E next \in {"gather", "leave"} : pc' = [pc EXCEPT ![r] = next] /\ pc[r] = "load"
    BY <1>1 DEF Load, FailInsert, Goto, At
  <2>2. UNCHANGED <<connVars, broken>>
    BY <1>1 DEF Load, FailInsert
  <2>3. /\ pc' \in [Users -> {"idle", "load", "gather", "record", "unlock", "leave", "end"}]
        /\ \A s \in Runs : Running(s)' => Running(s)
    BY <2>1, <2>2 DEF Running, PoolInv, PoolType, Users
  <2> QED
    BY <2>2, <2>3, QuietKeepsPool
<1>2. CASE FailLoad(r) \/ CommitRun(r) \/ Rollback(r)
  <2>1. \E next \in {"record", "unlock"} : Goto(r, next)
    BY <1>2 DEF FailLoad, CommitRun, Rollback
  <2>2. CheckIn(r) /\ broken' \in [Runs -> BOOLEAN] /\ \A s \in Runs \ {r} : broken'[s] = broken[s]
    BY <1>2 DEF FailLoad, CommitRun, Rollback, PoolInv, PoolType
  <2> QED
    BY <2>1, <2>2, LeavingKeepsPool
<1>3. CASE Leave(r)
  <2>1. CheckIn(r) /\ Goto(r, "end") /\ broken' = broken
    BY <1>3 DEF Leave
  <2>2. broken' \in [Runs -> BOOLEAN]
    BY <2>1 DEF PoolInv, PoolType
  <2> QED
    BY <2>1, <2>2, LeavingKeepsPool
<1>4. ASSUME NEW e \in Endpoints, Coroutine(r, e)
      PROVE  PoolInv'
  <2>1. UNCHANGED <<connVars, broken, pc>>
    BY <1>4 DEF Coroutine, Fetch, Stored, Compare, Saved, Raise
  <2>2. /\ pc' \in [Users -> {"idle", "load", "gather", "record", "unlock", "leave", "end"}]
        /\ \A s \in Runs : Running(s)' => Running(s)
    BY <2>1 DEF PoolInv, PoolType, Running
  <2> QED
    BY <2>1, <2>2, QuietKeepsPool
<1> QED
  BY <1>1, <1>2, <1>3, <1>4, RecordKeepsPool, UnlockKeepsPool DEF Handle

\* The inductive invariant of the pool and the lock (locking.py, database.py).
THEOREM PoolInvariance == Spec => []PoolInv
<1>1. PoolInv /\ [Next]_vars => PoolInv'
  <2> SUFFICES ASSUME PoolInv, [Next]_vars  PROVE PoolInv'
    OBVIOUS
  <2>1. ASSUME NEW r \in Runs,
               Start(r) \/ Handle(r) \/ FailInsert(r) \/ FailLoad(r) \/ Break(r)
        PROVE  PoolInv'
    BY <2>1, StartKeepsPool, HandleKeepsPool, BreakKeepsPool
  <2>2. ASSUME NEW q \in Readers, Browse(q)
        PROVE  PoolInv'
    BY <2>2, BrowseKeepsPool
  <2>3. ASSUME NEW q \in Readers, Leave(q)
        PROVE  PoolInv'
    <3>1. q \in Users /\ CheckIn(q) /\ Goto(q, "end") /\ broken' = broken
      BY <2>3 DEF Leave, Users
    <3>2. broken' \in [Runs -> BOOLEAN]
      BY <3>1 DEF PoolInv, PoolType
    <3> QED
      BY <3>1, <3>2, LeavingKeepsPool
  <2>4. CASE Crash
    BY <2>4, CrashKeepsPool
  <2>5. CASE UNCHANGED vars
    <3>1. UNCHANGED <<connVars, broken, pc>>
      BY <2>5 DEF vars
    <3>2. /\ pc' \in [Users -> {"idle", "load", "gather", "record", "unlock", "leave", "end"}]
          /\ \A s \in Runs : Running(s)' => Running(s)
      BY <3>1 DEF PoolInv, PoolType, Running
    <3> QED
      BY <3>1, <3>2, QuietKeepsPool
  <2> QED
    BY <2>1, <2>2, <2>3, <2>4, <2>5 DEF Next
<1> QED
  BY <1>1, InitPool, PTL DEF Spec

\* Two runs that can commit both hold the lock, and so are one.
LEMMA OneRunning == PoolInv => OneRunAtATime
<1> SUFFICES ASSUME PoolInv, NEW r \in Runs, NEW s \in Runs, Running(r), Running(s)
             PROVE  r = s
  BY DEF OneRunAtATime
<1>1. conn[r] \in Conns /\ conn[s] \in Conns /\ held[conn[r]] > 0 /\ held[conn[s]] > 0
  BY DEF PoolInv, RunningHolds
<1>2. conn[r] = conn[s]
  BY <1>1 DEF PoolInv, HeldByOne
<1> QED
  BY <1>1, <1>2, MonitorAssumption DEF PoolInv, CheckedOutOnce, Users

\* No two runs of run_monitor work at once, through crashes, failed statements, lost
\* connections, and locks that stay behind in the pool.
THEOREM OneRunCorrect == Spec => []OneRunAtATime
  BY OneRunning, PoolInvariance, PTL

-----------------------------------------------------------------------------
(* LockIsReleased can fail, and it takes another request or a failed       *)
(* insertion: the connection with the lock waits alone in the pool until   *)
(* the unlock takes it out again.                                          *)

\* Requests of the service that do not overlap.
OneAtATime ==
  \A u, v \in Users : pc[u] \notin {"idle", "end"} /\ pc[v] \notin {"idle", "end"} => u = v

\* Where the lock is, and that there is at most one connection.
AloneInv ==
  /\ \A u \in Users : pc[u] \in {"idle", "end", "record", "unlock"} => conn[u] = None
  /\ pool = <<>> \/ \E c \in Conns : pool = <<c>>
  /\ \A u \in Users : conn[u] # None => pool = <<>>
  /\ \A c \in Conns : held[c] # 0 =>
       /\ held[c] = 1
       /\ \E r \in Runs : \/ pc[r] \in {"load", "gather"} /\ conn[r] = c
                          \/ pc[r] \in {"record", "unlock"} /\ pool = <<c>>

\* The pool gives the one connection it has, or a new one.
LEMMA AloneOut ==
  ASSUME AloneInv, NEW c \in Conns, Given(c)
  PROVE  Rest = <<>> /\ (pool = <<>> \/ pool = <<c>>)
<1>1. CASE pool = <<>>
  BY <1>1 DEF Rest
<1>2. ASSUME NEW d \in Conns, pool = <<d>>
      PROVE  Rest = <<>> /\ pool = <<c>>
  <2>1. pool # <<>> /\ Head(pool) = d /\ Tail(pool) = <<>>
    BY <1>2
  <2> QED
    BY <1>2, <2>1 DEF Rest, Given
<1> QED
  BY <1>1, <1>2 DEF AloneInv

\* A connection that comes back finds the pool empty.
LEMMA AloneIn ==
  ASSUME PoolInv, AloneInv, NEW u \in Users, CheckIn(u)
  PROVE  /\ held' = held /\ conn'[u] = None
         /\ \A v \in Users \ {u} : conn'[v] = conn[v]
         /\ IF conn[u] = None THEN pool' = pool
            ELSE conn[u] \in Conns /\ pool = <<>> /\ pool' = <<conn[u]>>
<1>1. conn' = [conn EXCEPT ![u] = None] /\ conn \in [Users -> Conns \union {None}]
  BY DEF CheckIn, PoolInv, PoolType
<1>2. CASE conn[u] = None
  BY <1>1, <1>2 DEF CheckIn
<1>3. CASE conn[u] # None
  <2>1. pool = <<>> /\ Len(pool) = 0 /\ Len(pool) < PoolSize
    BY <1>3, MonitorAssumption DEF AloneInv
  <2>2. held' = held /\ pool' = Append(pool, conn[u])
    BY <1>3, <2>1 DEF CheckIn
  <2>3. pool' = <<conn[u]>>
    BY <2>1, <2>2
  <2> QED
    BY <1>1, <1>3, <2>1, <2>2, <2>3
<1> QED
  BY <1>2, <1>3

\* A request that begins is the only one, so that nobody has the lock.
LEMMA AloneBegins ==
  ASSUME PoolInv, AloneInv, OneAtATime', NEW u \in Users,
         pc[u] \in {"idle", "end"}, pc'[u] \notin {"idle", "end"},
         \A v \in Users \ {u} : pc'[v] = pc[v]
  PROVE  /\ \A v \in Users : pc[v] \in {"idle", "end"} /\ conn[v] = None
         /\ \A c \in Conns : held[c] = 0
<1>1. \A v \in Users : pc[v] \in {"idle", "end"}
  BY DEF OneAtATime
<1> QED
  BY <1>1 DEF AloneInv, Users

\* A run that starts alone gets the lock, on the only connection there is.
LEMMA AloneStarts ==
  ASSUME PoolInv, AloneInv, OneAtATime', NEW r \in Runs, Start(r)
  PROVE  AloneInv'
<1> r \in Users /\ pc \in [Users -> {"idle", "load", "gather", "record", "unlock", "leave", "end"}]
  BY DEF Users, PoolInv, PoolType
<1>1. PICK c \in Conns :
        /\ CheckOut(r, c)
        /\ IF \A d \in Conns \ {c} : held[d] = 0
           THEN held' = [held EXCEPT ![c] = @ + 1] /\ Goto(r, "load")
           ELSE Goto(r, "leave") /\ UNCHANGED held
  BY DEF Start
<1>2. /\ pc[r] = "idle" /\ pc'[r] \in {"load", "leave"}
      /\ \A v \in Users \ {r} : pc'[v] = pc[v]
  BY <1>1 DEF Start, At, Goto
<1>3. /\ \A v \in Users : pc[v] \in {"idle", "end"} /\ conn[v] = None
      /\ \A d \in Conns : held[d] = 0
  BY <1>2, AloneBegins
<1>4. held' = [held EXCEPT ![c] = 1] /\ pc'[r] = "load"
  BY <1>1, <1>3 DEF Goto
<1>5. conn' = [conn EXCEPT ![r] = c] /\ pool' = <<>>
  BY <1>1, AloneOut DEF CheckOut
<1>6. /\ \A d \in Conns : held'[d] = IF d = c THEN 1 ELSE 0
      /\ conn'[r] = c /\ \A v \in Users \ {r} : conn'[v] = None
  BY <1>3, <1>4, <1>5 DEF PoolInv, PoolType
<1> QED
  BY <1>2, <1>4, <1>5, <1>6 DEF AloneInv

\* Another request that starts alone finds no lock anywhere.
LEMMA AloneBrowses ==
  ASSUME PoolInv, AloneInv, OneAtATime', NEW q \in Readers, Browse(q)
  PROVE  AloneInv'
<1> q \in Users /\ pc \in [Users -> {"idle", "load", "gather", "record", "unlock", "leave", "end"}]
  BY DEF Users, PoolInv, PoolType
<1>1. PICK c \in Conns : CheckOut(q, c)
  BY DEF Browse
<1>2. /\ pc[q] \in {"idle", "end"} /\ pc'[q] = "leave" /\ held' = held
      /\ \A v \in Users \ {q} : pc'[v] = pc[v]
  BY DEF Browse, Goto
<1>3. /\ \A v \in Users : pc[v] \in {"idle", "end"} /\ conn[v] = None
      /\ \A d \in Conns : held[d] = 0
  BY <1>2, AloneBegins
<1>4. conn' = [conn EXCEPT ![q] = c] /\ pool' = <<>>
  BY <1>1, AloneOut DEF CheckOut
<1> QED
  BY <1>2, <1>3, <1>4 DEF AloneInv, PoolInv, PoolType

\* A run gives its connection back before its unlock, and a request at its end.
LEMMA AloneReturns ==
  ASSUME PoolInv, AloneInv, OneAtATime, NEW u \in Users, CheckIn(u),
         NEW next \in {"record", "unlock", "end"}, Goto(u, next),
         IF next = "end" THEN pc[u] = "leave" ELSE u \in Runs /\ pc[u] \in {"load", "gather"}
  PROVE  AloneInv'
<1>1. /\ held' = held /\ conn'[u] = None
      /\ \A v \in Users \ {u} : conn'[v] = conn[v]
      /\ IF conn[u] = None THEN pool' = pool
         ELSE conn[u] \in Conns /\ pool = <<>> /\ pool' = <<conn[u]>>
  BY AloneIn
<1>2. /\ pc[u] \notin {"idle", "end"} /\ pc'[u] = next
      /\ \A v \in Users \ {u} : pc'[v] = pc[v]
  BY DEF Goto, PoolInv, PoolType
<1>3. \A v \in Users \ {u} : pc[v] \in {"idle", "end"} /\ conn[v] = None /\ conn'[v] = None
  BY <1>1, <1>2 DEF AloneInv, OneAtATime
<1>4. ASSUME NEW c \in Conns, held[c] # 0
      PROVE  /\ held[c] = 1 /\ next # "end" /\ u \in Runs /\ conn[u] = c
  BY <1>3, <1>4 DEF AloneInv, Users
<1>5. ASSUME NEW c \in Conns, held'[c] # 0
      PROVE  held'[c] = 1 /\ u \in Runs /\ pc'[u] \in {"record", "unlock"} /\ pool' = <<c>>
  BY <1>1, <1>2, <1>4, <1>5, MonitorAssumption
<1>6. pool' = <<>> \/ \E c \in Conns : pool' = <<c>>
  BY <1>1 DEF AloneInv
<1> QED
  BY <1>1, <1>3, <1>5, <1>6 DEF AloneInv

\* The failure is recorded on the connection that has the lock, and so is the unlock.
LEMMA AloneUnlocks ==
  ASSUME PoolInv, AloneInv, OneAtATime, NEW r \in Runs, RecordFailure(r) \/ Unlock(r)
  PROVE  AloneInv'
<1> r \in Users /\ pc \in [Users -> {"idle", "load", "gather", "record", "unlock", "leave", "end"}]
  BY DEF Users, PoolInv, PoolType
<1>1. /\ pc[r] \in {"record", "unlock"} /\ conn[r] = None
      /\ \A v \in Users \ {r} : pc[v] \in {"idle", "end"} /\ conn[v] = None
  BY DEF RecordFailure, Unlock, At, OneAtATime, AloneInv
<1>2. \A d \in Conns : held[d] # 0 => held[d] = 1 /\ pool = <<d>>
  BY <1>1 DEF AloneInv, Users
<1>3. CASE RecordFailure(r)
  <2>1. PICK c \in Conns : Given(c) /\ pool' = Append(Rest, c)
    BY <1>3 DEF RecordFailure
  <2>2. pool' = <<c>> /\ (pool = <<>> \/ pool = <<c>>)
    <3>1. Rest = <<>> /\ (pool = <<>> \/ pool = <<c>>)
      BY <2>1, AloneOut
    <3>2. Append(Rest, c) = Append(<<>>, c) /\ Append(<<>>, c) = <<c>>
      BY <3>1
    <3> QED
      BY <2>1, <3>1, <3>2
  <2>3. /\ pc'[r] = "unlock" /\ conn' = conn /\ held' = held
        /\ \A v \in Users \ {r} : pc'[v] = pc[v]
    BY <1>3 DEF RecordFailure, Goto
  <2>4. ASSUME NEW d \in Conns, held'[d] # 0
        PROVE  held'[d] = 1 /\ pool' = <<d>>
    BY <1>2, <2>2, <2>3, <2>4
  <2> QED
    BY <1>1, <2>2, <2>3, <2>4 DEF AloneInv
<1>4. CASE Unlock(r)
  <2>1. PICK c \in Conns :
          CheckOut(r, c) /\ held' = [held EXCEPT ![c] = IF @ = 0 THEN 0 ELSE @ - 1]
    BY <1>4 DEF Unlock
  <2>2. conn' = [conn EXCEPT ![r] = c] /\ pool' = <<>> /\ (pool = <<>> \/ pool = <<c>>)
    BY <2>1, AloneOut DEF CheckOut
  <2>3. \A d \in Conns \ {c} : held[d] = 0
    BY <1>2, <2>2
  <2>4. \A d \in Conns : held'[d] = 0
    BY <1>2, <2>1, <2>3 DEF PoolInv, PoolType
  <2>5. pc'[r] = "leave" /\ \A v \in Users \ {r} : pc'[v] = pc[v]
    BY <1>4 DEF Unlock, Goto
  <2> QED
    BY <1>1, <2>2, <2>4, <2>5 DEF AloneInv, PoolInv, PoolType
<1> QED
  BY <1>3, <1>4

\* A run whose connection is lost has lost the lock.
LEMMA AloneBreaks ==
  ASSUME PoolInv, AloneInv, OneAtATime, NEW r \in Runs, Break(r)
  PROVE  AloneInv'
<1>1. pc' = pc /\ pc[r] = "gather" /\ r \in Users
  BY DEF Break, At, Users
<1>2. CASE UNCHANGED connVars
  BY <1>1, <1>2 DEF connVars, AloneInv
<1>3. CASE /\ held' = [held EXCEPT ![conn[r]] = 0]
           /\ conn' = [conn EXCEPT ![r] = None]
           /\ UNCHANGED pool
  <2>1. \A v \in Users \ {r} : pc[v] \in {"idle", "end"}
    BY <1>1 DEF OneAtATime
  <2>2. \A d \in Conns : held[d] # 0 => conn[r] = d
    BY <1>1, <2>1 DEF AloneInv, Users
  <2>3. \A d \in Conns : held'[d] = 0
    BY <1>3, <2>2 DEF PoolInv, PoolType
  <2>4. \A v \in Users : conn'[v] = None \/ conn'[v] = conn[v]
    BY <1>3 DEF PoolInv, PoolType
  <2> QED
    BY <1>1, <1>3, <2>3, <2>4 DEF AloneInv
<1> QED
  BY <1>2, <1>3 DEF Break

\* What a run does between the lock and its commit, and a crash of the process.
LEMMA AloneGoesOn ==
  ASSUME PoolInv, AloneInv,
         \/ UNCHANGED vars
         \/ Crash
         \/ \E r \in Runs : Load(r) \/ \E e \in Endpoints : Coroutine(r, e)
  PROVE  AloneInv'
<1>1. CASE UNCHANGED vars
  BY <1>1 DEF vars, connVars, AloneInv
<1>2. CASE Crash
  BY <1>2 DEF Crash, AloneInv
<1>3. ASSUME NEW r \in Runs, Load(r)  PROVE AloneInv'
  <2>1. /\ pc[r] = "load" /\ pc'[r] = "gather" /\ UNCHANGED connVars
        /\ \A v \in Users \ {r} : pc'[v] = pc[v]
    BY <1>3 DEF Load, At, Goto, PoolInv, PoolType, Users
  <2> QED
    BY <2>1 DEF connVars, AloneInv, Users
<1>4. ASSUME NEW r \in Runs, NEW e \in Endpoints, Coroutine(r, e)  PROVE AloneInv'
  <2>1. UNCHANGED <<connVars, pc>>
    BY <1>4 DEF Coroutine, Fetch, Stored, Compare, Saved, Raise
  <2> QED
    BY <2>1 DEF connVars, AloneInv
<1> QED
  BY <1>1, <1>2, <1>3, <1>4

\* "Always releases on exit if acquired" is true of a service that handles one
\* request after the other, through lost connections, failed runs and crashes, as
\* long as the insertion of the run, outside the try block, does not fail.
THEOREM LockReleasedAlone ==
  Spec /\ []OneAtATime /\ [][\A r \in Runs : ~FailInsert(r)]_vars => []LockIsReleased
<1>1. Init => AloneInv
  BY DEF Init, AloneInv
<1>2. /\ PoolInv /\ OneAtATime /\ OneAtATime' /\ AloneInv
      /\ [Next]_vars /\ [\A r \in Runs : ~FailInsert(r)]_vars
      => AloneInv'
  <2> SUFFICES ASSUME PoolInv, OneAtATime, OneAtATime', AloneInv,
                      [Next]_vars, [\A r \in Runs : ~FailInsert(r)]_vars
               PROVE  AloneInv'
    OBVIOUS
  <2>1. ASSUME NEW r \in Runs, Start(r)  PROVE AloneInv'
    BY <2>1, AloneStarts
  <2>2. ASSUME NEW q \in Readers, Browse(q)  PROVE AloneInv'
    BY <2>2, AloneBrowses
  <2>3. ASSUME NEW u \in Users, Leave(u)  PROVE AloneInv'
    <3>1. CheckIn(u) /\ Goto(u, "end") /\ pc[u] = "leave"
      BY <2>3 DEF Leave, At
    <3> QED
      BY <3>1, AloneReturns
  <2>4. ASSUME NEW r \in Runs, FailLoad(r) \/ CommitRun(r) \/ Rollback(r)  PROVE AloneInv'
    <3>1. /\ CheckIn(r) /\ pc[r] \in {"load", "gather"} /\ r \in Users
          /\ \E next \in {"record", "unlock"} : Goto(r, next)
      BY <2>4 DEF FailLoad, CommitRun, Rollback, At, Users
    <3> QED
      BY <3>1, AloneReturns
  <2>5. ASSUME NEW r \in Runs, RecordFailure(r) \/ Unlock(r)  PROVE AloneInv'
    BY <2>5, AloneUnlocks
  <2>6. ASSUME NEW r \in Runs, Break(r)  PROVE AloneInv'
    BY <2>6, AloneBreaks
  <2>7. ASSUME NEW r \in Runs, FailInsert(r)  PROVE AloneInv'
    BY <2>7, AloneGoesOn
  <2> QED
    BY <2>1, <2>2, <2>3, <2>4, <2>5, <2>6, <2>7, AloneGoesOn DEF Next, Handle, Users
<1>3. PoolInv /\ AloneInv => LockIsReleased
  BY DEF AloneInv, LockIsReleased
<1> QED
  BY <1>1, <1>2, <1>3, PoolInvariance, PTL DEF Spec

-----------------------------------------------------------------------------
(* What the runs leave in the tables.                                      *)

\* The rest of the type invariant.
TaskType ==
  /\ task \in [Runs -> [Endpoints -> {"idle", "fetch", "store", "compare", "save",
                                       "done", "failed", "raised"}]]
  /\ found \in [Runs -> [Endpoints -> [schema : Schemas \union {None}, from : Nat]]]
  /\ unsent \in [Runs -> SUBSET (Endpoints \X {"snapshot", "diffs"})]
  /\ flushing \in [Runs -> Endpoints \union {None}]
  /\ history \in [Endpoints -> Seq(Snapshots)]
  /\ report \in [Runs -> {None} \union
       [status : {"success", "partial_failure", "failed"},
        snapshots : SUBSET Endpoints, diffs : SUBSET Endpoints]]
  /\ faults \in 0 .. MaxFaults

\* The sweep takes samples away and nothing else.
LEMMA SweepKeeps ==
  ASSUME NEW s \in Seq(Snapshots)
  PROVE  /\ Swept(s) \in Seq(Snapshots) /\ Len(Swept(s)) = Len(s)
         /\ \A i \in 1 .. Len(s) :
              /\ Swept(s)[i].run = s[i].run /\ Swept(s)[i].schema = s[i].schema
              /\ Swept(s)[i].from = s[i].from
              /\ Swept(s)[i].raw => i + Keep > Len(s)
<1>1. DOMAIN s = 1 .. Len(s) /\ Len(s) \in Nat
  OBVIOUS
<1>2. \A i \in 1 .. Len(s) :
        /\ [s[i] EXCEPT !.raw = FALSE] \in Snapshots
        /\ [s[i] EXCEPT !.raw = FALSE].run = s[i].run
        /\ [s[i] EXCEPT !.raw = FALSE].schema = s[i].schema
        /\ [s[i] EXCEPT !.raw = FALSE].from = s[i].from
        /\ [s[i] EXCEPT !.raw = FALSE].raw = FALSE
  <2> SUFFICES ASSUME NEW i \in 1 .. Len(s)
               PROVE  LET t == [s[i] EXCEPT !.raw = FALSE] IN
                      /\ t \in Snapshots /\ t.run = s[i].run /\ t.schema = s[i].schema
                      /\ t.from = s[i].from /\ t.raw = FALSE
    OBVIOUS
  <2>1. s[i] \in Snapshots
    OBVIOUS
  <2> QED
    BY <2>1 DEF Snapshots
<1>3. Swept(s) = [i \in 1 .. Len(s) |-> IF i + Keep > Len(s) THEN s[i]
                                        ELSE [s[i] EXCEPT !.raw = FALSE]]
  BY <1>1 DEF Swept
<1>4. Swept(s) \in [1 .. Len(s) -> Snapshots]
  BY <1>1, <1>2, <1>3
<1>5. Swept(s) \in Seq(Snapshots) /\ Len(Swept(s)) = Len(s)
  BY <1>1, <1>4, IsASeq, LenProperties
<1> QED
  BY <1>2, <1>3, <1>5

\* A commit appends one snapshot to each endpoint and changes no other but for its
\* sample; the sweep, before or after it, bounds the samples.
LEMMA CommitAppendsSnapshot ==
  ASSUME TaskType, NEW r \in Runs, NEW e \in Endpoints
  PROVE  LET h == history[e]  new == Added(r, e) IN
         /\ new \in Seq(Snapshots) /\ Len(new) = Len(h) + 1
         /\ \A i \in 1 .. Len(h) :
              /\ new[i].run = h[i].run /\ new[i].schema = h[i].schema
              /\ new[i].from = h[i].from
         /\ new[Len(h) + 1].run = r
         /\ new[Len(h) + 1].schema = found[r][e].schema
         /\ new[Len(h) + 1].from = found[r][e].from
         /\ \A i \in 1 .. Len(h) + 1 : new[i].raw => i + Keep >= Len(h) + 1
<1> DEFINE h == history[e]
<1>1. h \in Seq(Snapshots) /\ Len(h) \in Nat
  BY DEF TaskType
<1>2. /\ Entry(r, e) \in Snapshots
      /\ Entry(r, e).run = r /\ Entry(r, e).schema = found[r][e].schema
      /\ Entry(r, e).from = found[r][e].from
  BY DEF TaskType, Entry, Snapshots
<1> HIDE DEF h
<1>3. CASE <<e, "snapshot">> \in unsent[r]
  <2>1. Added(r, e) = Append(Swept(h), Entry(r, e))
    BY <1>3 DEF Added, h
  <2>2. /\ Swept(h) \in Seq(Snapshots) /\ Len(Swept(h)) = Len(h)
        /\ \A i \in 1 .. Len(h) :
              /\ Swept(h)[i].run = h[i].run /\ Swept(h)[i].schema = h[i].schema
              /\ Swept(h)[i].from = h[i].from
              /\ Swept(h)[i].raw => i + Keep > Len(h)
    BY <1>1, SweepKeeps
  <2>3. /\ Added(r, e) \in Seq(Snapshots) /\ Len(Added(r, e)) = Len(h) + 1
        /\ \A i \in 1 .. Len(h) : Added(r, e)[i] = Swept(h)[i]
        /\ Added(r, e)[Len(h) + 1] = Entry(r, e)
    BY <1>1, <1>2, <2>1, <2>2
  <2>4. \A i \in 1 .. Len(h) + 1 : Added(r, e)[i].raw => i + Keep >= Len(h) + 1
    <3> SUFFICES ASSUME NEW i \in 1 .. Len(h) + 1, Added(r, e)[i].raw
                 PROVE  i + Keep >= Len(h) + 1
      OBVIOUS
    <3>1. CASE i = Len(h) + 1
      BY <1>1, <3>1, MonitorAssumption
    <3>2. CASE i \in 1 .. Len(h)
      BY <1>1, <2>2, <2>3, <3>2, MonitorAssumption
    <3> QED
      BY <1>1, <3>1, <3>2
  <2> QED
    BY <1>2, <2>2, <2>3, <2>4 DEF h
<1>4. CASE <<e, "snapshot">> \notin unsent[r]
  <2> DEFINE a == Append(h, Entry(r, e))
  <2>1. Added(r, e) = Swept(a)
    BY <1>4 DEF Added, h
  <2>2. /\ a \in Seq(Snapshots) /\ Len(a) = Len(h) + 1
        /\ \A i \in 1 .. Len(h) : a[i] = h[i]
        /\ a[Len(h) + 1] = Entry(r, e)
    BY <1>1, <1>2
  <2> HIDE DEF a
  <2>3. /\ Swept(a) \in Seq(Snapshots) /\ Len(Swept(a)) = Len(a)
        /\ \A i \in 1 .. Len(a) :
              /\ Swept(a)[i].run = a[i].run /\ Swept(a)[i].schema = a[i].schema
              /\ Swept(a)[i].from = a[i].from
              /\ Swept(a)[i].raw => i + Keep > Len(a)
    BY <2>2, SweepKeeps
  <2>4. \A i \in 1 .. Len(h) : i \in 1 .. Len(a)
    BY <1>1, <2>2
  <2>5. Len(h) + 1 \in 1 .. Len(a)
    BY <1>1, <2>2
  <2>6. \A i \in 1 .. Len(a) : Swept(a)[i].raw => i + Keep >= Len(a)
    BY <1>1, <2>2, <2>3, MonitorAssumption
  <2> QED
    BY <1>2, <2>1, <2>2, <2>3, <2>4, <2>5, <2>6 DEF h
<1> QED
  BY <1>3, <1>4

TaskStates == {"idle", "fetch", "store", "compare", "save", "done", "failed", "raised"}

\* A coroutine that takes a turn leaves the others where they are.
LEMMA TurnMoves ==
  ASSUME TaskType, NEW r \in Runs, NEW e \in Endpoints, NEW next \in TaskStates,
         Turn(r, e, next)
  PROVE  /\ task' \in [Runs -> [Endpoints -> TaskStates]]
         /\ task'[r][e] = next
         /\ \A s \in Runs, f \in Endpoints : s # r \/ f # e => task'[s][f] = task[s][f]
BY DEF TaskType, Turn, TaskStates

\* So does one that flushes.
LEMMA FlushMoves ==
  ASSUME TaskType, NEW r \in Runs, NEW e \in Endpoints,
         NEW objects \in SUBSET (Endpoints \X {"snapshot", "diffs"}),
         NEW during \in TaskStates, NEW after \in TaskStates,
         Flush(r, e, objects, during, after)
  PROVE  /\ task' \in [Runs -> [Endpoints -> TaskStates]]
         /\ task'[r][e] \in {"raised", during, after}
         /\ \A s \in Runs, f \in Endpoints : s # r \/ f # e => task'[s][f] = task[s][f]
         /\ unsent' \in [Runs -> SUBSET (Endpoints \X {"snapshot", "diffs"})]
         /\ flushing' \in [Runs -> Endpoints \union {None}]
<1> DEFINE all == unsent[r] \union objects
<1>1. PICK next \in {"raised", during, after} : Turn(r, e, next)
  BY DEF Flush
<1>2. next \in TaskStates
  BY DEF TaskStates
<1>3. /\ \E rest \in {all, {}} : unsent' = [unsent EXCEPT ![r] = rest]
      /\ flushing' = flushing \/ flushing' = [flushing EXCEPT ![r] = e]
  BY DEF Flush
<1>4. all \in SUBSET (Endpoints \X {"snapshot", "diffs"})
  BY DEF TaskType
<1> HIDE DEF all
<1>5. unsent' \in [Runs -> SUBSET (Endpoints \X {"snapshot", "diffs"})]
  BY <1>3, <1>4 DEF TaskType
<1>6. flushing' \in [Runs -> Endpoints \union {None}]
  BY <1>3 DEF TaskType
<1> QED
  BY <1>1, <1>2, <1>5, <1>6, TurnMoves

\* What a run has found: its differences are to the newest snapshot there is, and
\* that one has been parsed.
FoundCurrent(r) ==
  \A e \in Endpoints : found[r][e].from # 0 =>
    /\ pc[r] = "gather" /\ ~broken[r]
    /\ found[r][e].from = Len(history[e])
    /\ history[e][found[r][e].from].schema # None

\* How far a coroutine has come tells what it has found.
Compared(r) ==
  \A e \in Endpoints : ~broken[r] =>
    /\ task[r][e] \in {"compare", "save", "done"} =>
         pc[r] = "gather" /\ found[r][e].schema # None
    /\ task[r][e] \in {"save", "done"} => found[r][e].from = Changed(r, e)

\* A run leaves nothing in the tables before its commit.
Unwritten ==
  \A r \in Runs, e \in Endpoints : \A i \in DOMAIN history[e] :
    history[e][i].run = r => pc[r] \notin {"idle", "load", "gather"}

MonitorInv ==
  /\ PoolInv /\ TaskType
  /\ \A r \in Runs : FoundCurrent(r) /\ Compared(r)
  /\ Unwritten
  /\ SamplesAreBounded /\ DiffsAreConsecutive /\ SuccessIsComplete

\* Whether a snapshot differs visibly from the one before it.
ChangedAt(e, i) ==
  /\ i > 1 /\ history[e][i - 1].schema # history[e][i].schema
  /\ <<history[e][i - 1].schema, history[e][i].schema>> \in Visible

\* SuccessIsComplete for one run, endpoint and snapshot.
CompleteWith(r, e, i) ==
  /\ history[e][i].run = r /\ history[e][i].schema # None
  /\ \A j \in DOMAIN history[e] : history[e][j].run = r => j = i
  /\ history[e][i].from = IF ChangedAt(e, i) THEN i - 1 ELSE 0
  /\ ChangedAt(e, i) <=> e \in report[r].diffs

AllComplete ==
  \A r \in Runs, e \in Endpoints :
    report[r] # None /\ report[r].status = "success" =>
      \E i \in DOMAIN history[e] : CompleteWith(r, e, i)

\* The property in these terms.
LEMMA CompleteMeans == SuccessIsComplete <=> AllComplete
<1> DEFINE Complete(r, e) ==
      \E i \in DOMAIN history[e] :
        LET new == history[e][i]
            changed == /\ i > 1 /\ history[e][i - 1].schema # new.schema
                       /\ <<history[e][i - 1].schema, new.schema>> \in Visible
        IN  /\ new.run = r /\ new.schema # None
            /\ \A j \in DOMAIN history[e] : history[e][j].run = r => j = i
            /\ new.from = IF changed THEN i - 1 ELSE 0
            /\ changed <=> e \in report[r].diffs
<1>1. \A r \in Runs, e \in Endpoints :
        Complete(r, e) <=> \E i \in DOMAIN history[e] : CompleteWith(r, e, i)
  BY Zenon DEF CompleteWith, ChangedAt
<1>2. SuccessIsComplete <=>
        \A r \in Runs, e \in Endpoints :
          report[r] # None /\ report[r].status = "success" => Complete(r, e)
  BY Zenon DEF SuccessIsComplete
<1> HIDE DEF Complete
<1> QED
  BY <1>1, <1>2 DEF AllComplete

\* And in the next state.
LEMMA CompleteMeansNext == SuccessIsComplete' <=> AllComplete'
  BY CompleteMeans, PTL

\* The differences are to an answer that was parsed.
LEMMA ChangedIsPrior ==
  ASSUME TaskType, NEW r \in Runs, NEW e \in Endpoints
  PROVE  /\ Changed(r, e) \in Nat
         /\ Changed(r, e) # 0 => /\ Changed(r, e) = Len(history[e])
                                 /\ history[e][Len(history[e])].schema # None
BY MonitorAssumption DEF TaskType, Changed, Prior

\* The conditions under which a step that commits nothing keeps the tables right.
LEMMA TablesKept ==
  ASSUME MonitorInv, PoolInv', TaskType', UNCHANGED history,
         \A s \in Runs : FoundCurrent(s)' /\ Compared(s)',
         \A s \in Runs : report'[s] = report[s] \/ report'[s].status = "failed",
         \A s \in Runs : pc'[s] \in {"idle", "load", "gather"}
                           => pc[s] \in {"idle", "load", "gather"}
  PROVE  MonitorInv'
<1>1. SamplesAreBounded' /\ DiffsAreConsecutive'
  BY DEF MonitorInv, SamplesAreBounded, DiffsAreConsecutive
<1>2. Unwritten'
  BY DEF MonitorInv, Unwritten
<1>3. SuccessIsComplete'
  <2>1. \A s \in Runs : report'[s] # None /\ report'[s].status = "success"
                        => report'[s] = report[s]
    OBVIOUS
  <2> QED
    BY <2>1 DEF MonitorInv, SuccessIsComplete
<1> QED
  BY <1>1, <1>2, <1>3 DEF MonitorInv

\* A run that is not gathering has found nothing, and may begin to fetch.
LEMMA OutsideGather ==
  ASSUME MonitorInv, UNCHANGED <<history, found, broken>>, NEW r \in Runs, pc[r] # "gather",
         \A e \in Endpoints : task'[r][e] \in {task[r][e], "fetch"}
  PROVE  FoundCurrent(r)' /\ Compared(r)'
<1>1. \A e \in Endpoints : found[r][e].from = 0
  BY DEF MonitorInv, FoundCurrent
<1>2. FoundCurrent(r)'
  BY <1>1 DEF FoundCurrent
<1>3. \A e \in Endpoints : ~broken[r] => task[r][e] \notin {"compare", "save", "done"}
  BY DEF MonitorInv, Compared
<1>4. Compared(r)'
  BY <1>3 DEF Compared
<1> QED
  BY <1>2, <1>4

\* What a run has found is still true when others take a step that commits nothing.
LEMMA OthersKeepFound ==
  ASSUME MonitorInv, UNCHANGED history, NEW s \in Runs, found'[s] = found[s],
         task'[s] = task[s], broken'[s] = broken[s], pc[s] = "gather" => pc'[s] = "gather"
  PROVE  FoundCurrent(s)' /\ Compared(s)'
<1>1. \A e \in Endpoints : Changed(s, e)' = Changed(s, e)
  BY DEF Changed, Prior
<1>2. FoundCurrent(s)'
  BY DEF MonitorInv, FoundCurrent
<1>3. Compared(s)'
  BY <1>1 DEF MonitorInv, Compared
<1> QED
  BY <1>2, <1>3

\* A run whose coroutines are all idle has found nothing.
LEMMA ForgottenIsFine ==
  ASSUME NEW r \in Runs,
         task'[r] = [e \in Endpoints |-> "idle"], found'[r] = [e \in Endpoints |-> NoSnapshot]
  PROVE  FoundCurrent(r)' /\ Compared(r)'
BY DEF FoundCurrent, Compared, NoSnapshot

-----------------------------------------------------------------------------
\* The coroutines keep what they have found in order.
LEMMA CoroutineKeeps ==
  ASSUME MonitorInv, NEW r \in Runs, NEW e \in Endpoints, Coroutine(r, e)
  PROVE  TaskType' /\ FoundCurrent(r)' /\ Compared(r)'
<1> TaskType /\ FoundCurrent(r) /\ Compared(r)
  BY DEF MonitorInv
<1> UNCHANGED <<pc, history, report, broken, faults>>
  BY DEF Coroutine, Fetch, Stored, Compare, Saved, Raise, tables
<1> pc[r] = "gather"
  BY DEF Coroutine, Fetch, Stored, Compare, Saved, Raise, Busy, At
<1>1. CASE Fetch(r, e)
  <2>1. PICK s \in Schemas \union {None} :
          found' = [found EXCEPT ![r][e] = [schema |-> s, from |-> 0]]
    BY <1>1 DEF Fetch
  <2>2. Flush(r, e, {<<e, "snapshot">>}, "store", "store") /\ ~broken[r]
    BY <1>1 DEF Fetch, Busy
  <2>3. "store" \in TaskStates /\ {<<e, "snapshot">>} \in SUBSET (Endpoints \X {"snapshot", "diffs"})
    BY DEF TaskStates
  <2>4. /\ task' \in [Runs -> [Endpoints -> TaskStates]]
        /\ task'[r][e] \in {"raised", "store", "store"}
        /\ \A q \in Runs, f \in Endpoints : q # r \/ f # e => task'[q][f] = task[q][f]
        /\ unsent' \in [Runs -> SUBSET (Endpoints \X {"snapshot", "diffs"})]
        /\ flushing' \in [Runs -> Endpoints \union {None}]
    BY <2>2, <2>3, FlushMoves, ZenonT(30)
  <2>5. /\ found' \in [Runs -> [Endpoints -> [schema : Schemas \union {None}, from : Nat]]]
        /\ found'[r][e].from = 0
        /\ \A f \in Endpoints \ {e} : found'[r][f] = found[r][f]
    BY <2>1 DEF TaskType
  <2>6. \A f \in Endpoints \ {e} : Changed(r, f)' = Changed(r, f)
    BY <2>5 DEF Changed, Prior
  <2>7. TaskType'
    BY <2>4, <2>5 DEF TaskType, TaskStates
  <2>8. FoundCurrent(r)'
    BY <2>5 DEF FoundCurrent
  <2>9. Compared(r)'
    BY <2>4, <2>5, <2>6 DEF Compared
  <2> QED
    BY <2>7, <2>8, <2>9
<1>2. CASE Stored(r, e)
  <2> DEFINE next == IF found[r][e].schema = None THEN "failed" ELSE "compare"
  <2>1. Turn(r, e, next) /\ found' = found /\ unsent' = unsent
    BY <1>2 DEF Stored
  <2>2. next \in TaskStates
    BY DEF TaskStates
  <2>3. /\ task' \in [Runs -> [Endpoints -> TaskStates]]
        /\ task'[r][e] = next
        /\ \A f \in Endpoints \ {e} : task'[r][f] = task[r][f]
    BY <2>1, <2>2, TurnMoves
  <2>4. flushing' \in [Runs -> Endpoints \union {None}]
    BY <1>2 DEF Stored, TaskType
  <2>5. \A f \in Endpoints : Changed(r, f)' = Changed(r, f)
    BY <2>1 DEF Changed, Prior
  <2>6. TaskType'
    BY <2>1, <2>3, <2>4 DEF TaskType, TaskStates
  <2>7. FoundCurrent(r)'
    BY <2>1 DEF FoundCurrent
  <2>8. Compared(r)'
    BY <2>1, <2>3, <2>5 DEF Compared
  <2> QED
    BY <2>6, <2>7, <2>8
<1>3. CASE Compare(r, e)
  <2> DEFINE objects == IF Changed(r, e) = 0 THEN {} ELSE {<<e, "diffs">>}
  <2>1. /\ found' = [found EXCEPT ![r][e].from = Changed(r, e)]
        /\ Flush(r, e, objects, "save", "done")
        /\ task[r][e] = "compare" /\ ~broken[r]
    BY <1>3 DEF Compare, Busy
  <2>2. objects \in SUBSET (Endpoints \X {"snapshot", "diffs"})
        /\ "save" \in TaskStates /\ "done" \in TaskStates
    BY DEF TaskStates
  <2> HIDE DEF objects
  <2>3. /\ task' \in [Runs -> [Endpoints -> TaskStates]]
        /\ task'[r][e] \in {"raised", "save", "done"}
        /\ \A q \in Runs, f \in Endpoints : q # r \/ f # e => task'[q][f] = task[q][f]
        /\ unsent' \in [Runs -> SUBSET (Endpoints \X {"snapshot", "diffs"})]
        /\ flushing' \in [Runs -> Endpoints \union {None}]
    BY <2>1, <2>2, FlushMoves, ZenonT(30)
  <2>4. /\ Changed(r, e) \in Nat
        /\ Changed(r, e) # 0 => /\ Changed(r, e) = Len(history[e])
                                /\ history[e][Len(history[e])].schema # None
    BY ChangedIsPrior
  <2>5. /\ found' \in [Runs -> [Endpoints -> [schema : Schemas \union {None}, from : Nat]]]
        /\ found'[r][e].from = Changed(r, e)
        /\ found'[r][e].schema = found[r][e].schema
        /\ \A f \in Endpoints \ {e} : found'[r][f] = found[r][f]
    <3> DEFINE new == [found[r][e] EXCEPT !.from = Changed(r, e)]
    <3>1. found[r][e] \in [schema : Schemas \union {None}, from : Nat]
      BY DEF TaskType
    <3>2. /\ new \in [schema : Schemas \union {None}, from : Nat]
          /\ new.from = Changed(r, e) /\ new.schema = found[r][e].schema
      BY <2>4, <3>1
    <3>3. found' = [found EXCEPT ![r][e] = new]
      BY <2>1
    <3> HIDE DEF new
    <3> QED
      BY <3>2, <3>3 DEF TaskType
  <2>6. \A f \in Endpoints : Changed(r, f)' = Changed(r, f)
    BY <2>5 DEF Changed, Prior
  <2>7. found[r][e].schema # None
    BY <2>1 DEF Compared
  <2>8. TaskType'
    BY <2>3, <2>5 DEF TaskType, TaskStates
  <2>9. FoundCurrent(r)'
    BY <2>1, <2>4, <2>5 DEF FoundCurrent
  <2>10. Compared(r)'
    BY <2>3, <2>5, <2>6, <2>7 DEF Compared
  <2> QED
    BY <2>8, <2>9, <2>10
<1>4. CASE Saved(r, e)
  <2>1. Turn(r, e, "done") /\ found' = found /\ unsent' = unsent /\ task[r][e] = "save"
    BY <1>4 DEF Saved, Busy
  <2>2. "done" \in TaskStates
    BY DEF TaskStates
  <2>3. /\ task' \in [Runs -> [Endpoints -> TaskStates]]
        /\ task'[r][e] = "done"
        /\ \A f \in Endpoints \ {e} : task'[r][f] = task[r][f]
    BY <2>1, <2>2, TurnMoves
  <2>4. flushing' \in [Runs -> Endpoints \union {None}]
    BY <1>4 DEF Saved, TaskType
  <2>5. \A f \in Endpoints : Changed(r, f)' = Changed(r, f)
    BY <2>1 DEF Changed, Prior
  <2>6. TaskType'
    BY <2>1, <2>3, <2>4 DEF TaskType, TaskStates
  <2>7. FoundCurrent(r)'
    BY <2>1 DEF FoundCurrent
  <2>8. Compared(r)'
    BY <2>1, <2>3, <2>5 DEF Compared
  <2> QED
    BY <2>6, <2>7, <2>8
<1>5. CASE Raise(r, e)
  <2>1. Turn(r, e, "raised") /\ UNCHANGED <<found, unsent, flushing>> /\ broken[r]
    BY <1>5 DEF Raise
  <2>2. task' \in [Runs -> [Endpoints -> TaskStates]]
    BY <2>1, TurnMoves DEF TaskStates
  <2>3. TaskType'
    BY <2>1, <2>2 DEF TaskType, TaskStates
  <2> QED
    BY <2>1, <2>3 DEF FoundCurrent, Compared
<1> QED
  BY <1>1, <1>2, <1>3, <1>4, <1>5 DEF Coroutine

\* The coroutines of one run touch no other run.
LEMMA CoroutineTouchesOne ==
  ASSUME TaskType, NEW r \in Runs, NEW e \in Endpoints, Coroutine(r, e)
  PROVE  \A s \in Runs \ {r} : task'[s] = task[s] /\ found'[s] = found[s]
<1>1. \E next : Turn(r, e, next)
  BY DEF Coroutine, Fetch, Stored, Compare, Saved, Raise, Flush
<1>2. \A s \in Runs \ {r} : task'[s] = task[s]
  BY <1>1 DEF Turn, TaskType
<1>3. \A s \in Runs \ {r} : found'[s] = found[s]
  BY DEF Coroutine, Fetch, Stored, Compare, Saved, Raise, TaskType
<1> QED
  BY <1>2, <1>3

\* A run whose statement failed has found nothing, and so has one rolled back.
LEMMA FailureKeeps ==
  ASSUME MonitorInv, NEW r \in Runs, Break(r) \/ Rollback(r)
  PROVE  /\ TaskType' /\ \A s \in Runs : FoundCurrent(s)' /\ Compared(s)'
<1> TaskType /\ PoolType
  BY DEF MonitorInv, PoolInv
<1>1. UNCHANGED <<history, report>> /\ \A s \in Runs : pc[s] = "gather" /\ s # r => pc'[s] = "gather"
  BY DEF Break, Rollback, tables, Goto, PoolType, Users
<1>2. /\ found' = [found EXCEPT ![r] = [e \in Endpoints |-> NoSnapshot]]
      /\ unsent' = [unsent EXCEPT ![r] = {}]
      /\ \A s \in Runs \ {r} : task'[s] = task[s] /\ broken'[s] = broken[s]
  BY DEF Break, Rollback, Forget, TaskType, PoolType
<1>3. NoSnapshot \in [schema : Schemas \union {None}, from : Nat] /\ NoSnapshot.from = 0
  BY DEF NoSnapshot
<1>4. /\ found' \in [Runs -> [Endpoints -> [schema : Schemas \union {None}, from : Nat]]]
      /\ \A e \in Endpoints : found'[r][e].from = 0
      /\ \A s \in Runs \ {r} : found'[s] = found[s]
  BY <1>2, <1>3 DEF TaskType
<1>5. unsent' \in [Runs -> SUBSET (Endpoints \X {"snapshot", "diffs"})]
  BY <1>2 DEF TaskType
<1>6. /\ task' \in [Runs -> [Endpoints -> TaskStates]]
      /\ flushing' \in [Runs -> Endpoints \union {None}]
      /\ faults' \in 0 .. MaxFaults
  <2>1. CASE Break(r)
    BY <2>1, MonitorAssumption DEF Break, Fault, TaskType, TaskStates
  <2>2. CASE Rollback(r)
    BY <2>2 DEF Rollback, Forget, TaskType, TaskStates
  <2> QED
    BY <2>1, <2>2
<1>7. TaskType'
  BY <1>1, <1>4, <1>5, <1>6 DEF TaskType, TaskStates
<1>8. FoundCurrent(r)'
  BY <1>4 DEF FoundCurrent
<1>9. Compared(r)'
  <2>1. CASE Break(r)
    BY <2>1 DEF Break, PoolType, Compared
  <2>2. CASE Rollback(r)
    BY <2>2 DEF Rollback, Forget, TaskType, Compared
  <2> QED
    BY <2>1, <2>2
<1>10. \A s \in Runs \ {r} : FoundCurrent(s)' /\ Compared(s)'
  BY <1>1, <1>2, <1>4, OthersKeepFound
<1> QED
  BY <1>7, <1>8, <1>9, <1>10

\* A commit appends to each endpoint what the run has found there.
LEMMA CommitKeepsTables ==
  ASSUME MonitorInv, PoolInv', NEW r \in Runs, CommitRun(r)
  PROVE  MonitorInv'
<1> TaskType /\ PoolType /\ PoolInv
  BY DEF MonitorInv, PoolInv
<1>1. /\ pc[r] = "gather" /\ ~broken[r] /\ Ended(r) /\ pc'[r] = "unlock"
      /\ broken' = broken /\ faults' = faults /\ flushing' = flushing
      /\ \A s \in Runs \ {r} : pc'[s] = pc[s]
  BY DEF CommitRun, At, Goto, Forget, PoolType, Users
<1>2. /\ task' = [task EXCEPT ![r] = [e \in Endpoints |-> "idle"]]
      /\ found' = [found EXCEPT ![r] = [e \in Endpoints |-> NoSnapshot]]
      /\ unsent' = [unsent EXCEPT ![r] = {}]
      /\ report' = [report EXCEPT ![r] = Report(r)]
      /\ history' = [e \in Endpoints |-> Added(r, e)]
  BY DEF CommitRun, Forget
<1>3. \A s \in Runs \ {r} : pc[s] # "gather" \/ broken[s]
  BY <1>1, OneRunning DEF OneRunAtATime, Running
<1>4. \A e \in Endpoints :
        LET h == history[e] IN
        /\ history'[e] \in Seq(Snapshots) /\ Len(h) \in Nat /\ Len(history'[e]) = Len(h) + 1
        /\ \A i \in 1 .. Len(h) :
             /\ history'[e][i].run = h[i].run /\ history'[e][i].schema = h[i].schema
             /\ history'[e][i].from = h[i].from
        /\ history'[e][Len(h) + 1].run = r
        /\ history'[e][Len(h) + 1].schema = found[r][e].schema
        /\ history'[e][Len(h) + 1].from = found[r][e].from
        /\ \A i \in 1 .. Len(h) + 1 : history'[e][i].raw => i + Keep >= Len(h) + 1
  <2> SUFFICES ASSUME NEW e \in Endpoints
               PROVE  LET h == history[e] IN
        /\ history'[e] \in Seq(Snapshots) /\ Len(h) \in Nat /\ Len(history'[e]) = Len(h) + 1
        /\ \A i \in 1 .. Len(h) :
             /\ history'[e][i].run = h[i].run /\ history'[e][i].schema = h[i].schema
             /\ history'[e][i].from = h[i].from
        /\ history'[e][Len(h) + 1].run = r
        /\ history'[e][Len(h) + 1].schema = found[r][e].schema
        /\ history'[e][Len(h) + 1].from = found[r][e].from
        /\ \A i \in 1 .. Len(h) + 1 : history'[e][i].raw => i + Keep >= Len(h) + 1
    OBVIOUS
  <2>1. history'[e] = Added(r, e) /\ Len(history[e]) \in Nat
    BY <1>2 DEF TaskType
  <2> QED
    BY <2>1, CommitAppendsSnapshot
<1>5. \A e \in Endpoints : /\ DOMAIN history[e] = 1 .. Len(history[e])
                           /\ DOMAIN history'[e] = 1 .. Len(history[e]) + 1
  BY <1>4 DEF TaskType
<1>6. TaskType'
  <2>1. NoSnapshot \in [schema : Schemas \union {None}, from : Nat]
    BY DEF NoSnapshot
  <2>2. Report(r) \in [status : {"success", "partial_failure", "failed"},
                       snapshots : SUBSET Endpoints, diffs : SUBSET Endpoints]
    BY DEF Report, Outcome, InTask
  <2>3. report' \in [Runs -> {None} \union
          [status : {"success", "partial_failure", "failed"},
           snapshots : SUBSET Endpoints, diffs : SUBSET Endpoints]]
    BY <1>2, <2>2 DEF TaskType
  <2>4. found' \in [Runs -> [Endpoints -> [schema : Schemas \union {None}, from : Nat]]]
    BY <1>2, <2>1 DEF TaskType
  <2>5. history' \in [Endpoints -> Seq(Snapshots)]
    BY <1>2, <1>4
  <2>6. task' \in [Runs -> [Endpoints -> TaskStates]]
    BY <1>2 DEF TaskType, TaskStates
  <2>7. unsent' \in [Runs -> SUBSET (Endpoints \X {"snapshot", "diffs"})]
    BY <1>2 DEF TaskType
  <2> QED
    BY <1>1, <2>3, <2>4, <2>5, <2>6, <2>7 DEF TaskType, TaskStates
<1>7. \A s \in Runs : FoundCurrent(s)' /\ Compared(s)'
  <2> SUFFICES ASSUME NEW s \in Runs PROVE FoundCurrent(s)' /\ Compared(s)'
    OBVIOUS
  <2>1. CASE s = r
    BY <1>2, <2>1, ForgottenIsFine DEF TaskType
  <2>2. CASE s # r
    <3>1. found'[s] = found[s] /\ task'[s] = task[s] /\ broken'[s] = broken[s]
      BY <1>1, <1>2, <2>2 DEF TaskType
    <3>2. \A e \in Endpoints : found[s][e].from = 0
      BY <1>3, <2>2 DEF MonitorInv, FoundCurrent
    <3>3. \A e \in Endpoints : ~broken[s] => task[s][e] \notin {"compare", "save", "done"}
      BY <1>3, <2>2 DEF MonitorInv, Compared
    <3>4. FoundCurrent(s)'
      BY <3>1, <3>2 DEF FoundCurrent
    <3>5. Compared(s)'
      BY <3>1, <3>3 DEF Compared
    <3> QED
      BY <3>4, <3>5
  <2> QED
    BY <2>1, <2>2
<1>8. Unwritten'
  <2> SUFFICES ASSUME NEW s \in Runs, NEW e \in Endpoints, NEW i \in DOMAIN history'[e],
                      history'[e][i].run = s
               PROVE  pc'[s] \notin {"idle", "load", "gather"}
    BY DEF Unwritten
  <2>1. CASE i = Len(history[e]) + 1
    BY <1>1, <1>4, <2>1
  <2>2. CASE i \in 1 .. Len(history[e])
    <3>1. history[e][i].run = s
      BY <1>4, <2>2
    <3>2. pc[s] \notin {"idle", "load", "gather"}
      BY <1>5, <2>2, <3>1 DEF MonitorInv, Unwritten
    <3> QED
      BY <1>1, <3>2
  <2> QED
    BY <1>4, <1>5, <2>1, <2>2
<1>9. SamplesAreBounded'
  BY <1>4, <1>5 DEF SamplesAreBounded
<1>10. DiffsAreConsecutive'
  <2> SUFFICES ASSUME NEW e \in Endpoints, NEW i \in DOMAIN history'[e],
                      history'[e][i].from # 0
               PROVE  history'[e][i].from = i - 1 /\ history'[e][i - 1].schema # None
    BY DEF DiffsAreConsecutive
  <2>1. CASE i = Len(history[e]) + 1
    <3>1. found[r][e].from # 0 /\ history'[e][i].from = found[r][e].from
      BY <1>4, <2>1
    <3>2. /\ found[r][e].from = Len(history[e])
          /\ history[e][Len(history[e])].schema # None
      BY <3>1 DEF MonitorInv, FoundCurrent
    <3>3. Len(history[e]) \in 1 .. Len(history[e])
      BY <1>4, <3>1, <3>2
    <3> QED
      BY <1>4, <2>1, <3>1, <3>2, <3>3
  <2>2. CASE i \in 1 .. Len(history[e])
    <3>1. history[e][i].from # 0 /\ history'[e][i].from = history[e][i].from
      BY <1>4, <2>2
    <3>2. history[e][i].from = i - 1 /\ history[e][i - 1].schema # None
      BY <1>5, <2>2, <3>1 DEF MonitorInv, DiffsAreConsecutive
    <3>3. i - 1 \in 1 .. Len(history[e])
      BY <1>4, <2>2, <3>1, <3>2
    <3> QED
      BY <1>4, <3>1, <3>2, <3>3
  <2> QED
    BY <1>4, <1>5, <2>1, <2>2
<1>11. SuccessIsComplete'
  <2> SUFFICES ASSUME NEW s \in Runs, NEW e \in Endpoints, report'[s] # None,
                      report'[s].status = "success"
               PROVE  \E i \in DOMAIN history'[e] : CompleteWith(s, e, i)'
    BY CompleteMeansNext DEF AllComplete
  <2>1. PICK n \in Nat : n = Len(history[e])
    BY <1>4
  <2>2. CASE s # r
    <3>1. report'[s] = report[s]
      BY <1>2, <2>2 DEF TaskType
    <3>2. PICK i \in DOMAIN history[e] : CompleteWith(s, e, i)
      BY <3>1, CompleteMeans DEF MonitorInv, AllComplete
    <3>3. i \in 1 .. n /\ i \in DOMAIN history'[e]
      BY <1>5, <2>1, <3>2
    <3>4. /\ history'[e][i].run = history[e][i].run
          /\ history'[e][i].schema = history[e][i].schema
          /\ history'[e][i].from = history[e][i].from
      BY <1>4, <3>3
    <3>5. i > 1 => history'[e][i - 1].schema = history[e][i - 1].schema
      <4>1. i > 1 => i - 1 \in 1 .. n
        BY <3>3
      <4> QED
        BY <1>4, <2>1, <4>1
    <3>6. ChangedAt(e, i)' <=> ChangedAt(e, i)
      BY <3>4, <3>5 DEF ChangedAt
    <3>7. \A j \in DOMAIN history'[e] : history'[e][j].run = s => j = i
      <4> SUFFICES ASSUME NEW j \in DOMAIN history'[e], history'[e][j].run = s  PROVE j = i
        OBVIOUS
      <4>1. j # n + 1
        BY <1>4, <2>1, <2>2
      <4>2. j \in 1 .. n
        BY <1>5, <2>1, <4>1
      <4>3. j \in DOMAIN history[e] /\ history[e][j].run = s
        BY <1>4, <1>5, <2>1, <4>2
      <4> QED
        BY <3>2, <4>3 DEF CompleteWith
    <3> QED
      BY <3>1, <3>2, <3>3, <3>4, <3>6, <3>7 DEF CompleteWith
  <2>3. CASE s = r
    <3> DEFINE i == n + 1
    <3>1. report'[r] = Report(r)
      BY <1>2 DEF TaskType
    <3>2. Outcome(r) = "success"
      BY <2>3, <3>1 DEF Report
    <3>3. \A f \in Endpoints : task[r][f] = "done"
      <4>1. InTask(r, {"failed", "raised"}) = {}
        BY <3>2 DEF Outcome
      <4> QED
        BY <1>1, <4>1 DEF Ended, InTask
    <3>4. found[r][e].schema # None /\ found[r][e].from = Changed(r, e)
      BY <1>1, <3>3 DEF MonitorInv, Compared
    <3>5. i \in DOMAIN history'[e]
      BY <1>5, <2>1
    <3>6. /\ history'[e][i].run = r /\ history'[e][i].schema = found[r][e].schema
          /\ history'[e][i].from = found[r][e].from
      BY <1>4, <2>1
    <3>7. n # 0 => history'[e][n].schema = history[e][n].schema
      BY <1>4, <2>1
    <3>8. ChangedAt(e, i)' <=> Changed(r, e) # 0
      <4>1. i - 1 = n /\ (i > 1 <=> n # 0)
        BY <2>1
      <4>2. ChangedAt(e, i)' <=>
              /\ n # 0 /\ history[e][n].schema # found[r][e].schema
              /\ <<history[e][n].schema, found[r][e].schema>> \in Visible
        BY <3>6, <3>7, <4>1 DEF ChangedAt
      <4> QED
        BY <2>1, <4>2 DEF Changed, Prior
    <3>9. Changed(r, e) \in {0, n}
      BY <2>1 DEF Changed, Prior
    <3>10. e \in Report(r).diffs <=> Changed(r, e) # 0
      BY <3>3, <3>4 DEF Report, InTask
    <3>11. \A j \in DOMAIN history'[e] : history'[e][j].run = r => j = i
      <4> SUFFICES ASSUME NEW j \in 1 .. n, history'[e][j].run = r  PROVE FALSE
        BY <1>5, <2>1
      <4>1. history[e][j].run = r /\ j \in DOMAIN history[e]
        BY <1>4, <1>5, <2>1
      <4> QED
        BY <1>1, <4>1 DEF MonitorInv, Unwritten
    <3> HIDE DEF i
    <3>12. /\ history'[e][i].from = IF ChangedAt(e, i)' THEN i - 1 ELSE 0
      BY <2>1, <3>4, <3>6, <3>8, <3>9 DEF i
    <3>13. CompleteWith(r, e, i)'
      BY <3>1, <3>4, <3>6, <3>8, <3>10, <3>11, <3>12 DEF CompleteWith
    <3> QED
      BY <2>3, <3>5, <3>13
  <2> QED
    BY <2>2, <2>3
<1> QED
  BY <1>6, <1>7, <1>8, <1>9, <1>10, <1>11 DEF MonitorInv

\* Before and after the coroutines a run finds nothing and the tables stay.
LEMMA OutsideKeeps ==
  ASSUME MonitorInv, PoolInv', NEW r \in Runs,
         \/ Start(r) \/ Load(r) \/ FailInsert(r) \/ FailLoad(r) \/ RecordFailure(r)
         \/ Unlock(r) \/ Leave(r)
  PROVE  MonitorInv'
<1> TaskType /\ PoolType /\ r \in Users
  BY DEF MonitorInv, PoolInv, Users
<1>1. \E next \in {"load", "gather", "record", "unlock", "leave", "end"} :
        pc' = [pc EXCEPT ![r] = next] /\ (next = "load" => pc[r] = "idle")
                                      /\ (next = "gather" => pc[r] = "load")
  BY DEF Start, Load, FailInsert, FailLoad, RecordFailure, Unlock, Leave, Goto, At
<1>2. pc[r] # "gather"
  BY DEF Start, Load, FailInsert, FailLoad, RecordFailure, Unlock, Leave, At
<1>3. UNCHANGED <<history, found, unsent, flushing, broken>>
  BY DEF Start, Load, FailInsert, FailLoad, RecordFailure, Unlock, Leave, taskVars, tables
<1>4. task' = task \/ task' = [task EXCEPT ![r] = [e \in Endpoints |-> "fetch"]]
  BY DEF Start, Load, FailInsert, FailLoad, RecordFailure, Unlock, Leave, taskVars
<1>5. faults' \in 0 .. MaxFaults
  BY MonitorAssumption
  DEF Start, Load, FailInsert, FailLoad, RecordFailure, Unlock, Leave, Fault, TaskType
<1>6. \/ report' = report
      \/ /\ report[r] # None
         /\ report' = [report EXCEPT ![r] = [report[r] EXCEPT !.status = "failed"]]
  BY DEF Start, Load, FailInsert, FailLoad, RecordFailure, Unlock, Leave, tables, TaskType
<1>7. /\ report' \in [Runs -> {None} \union
             [status : {"success", "partial_failure", "failed"},
              snapshots : SUBSET Endpoints, diffs : SUBSET Endpoints]]
      /\ \A s \in Runs : report'[s] = report[s] \/ report'[s].status = "failed"
  <2>1. CASE report' = report
    BY <2>1 DEF TaskType
  <2>2. CASE /\ report[r] # None
             /\ report' = [report EXCEPT ![r] = [report[r] EXCEPT !.status = "failed"]]
    <3> DEFINE new == [report[r] EXCEPT !.status = "failed"]
    <3>1. report[r] \in [status : {"success", "partial_failure", "failed"},
                         snapshots : SUBSET Endpoints, diffs : SUBSET Endpoints]
      BY <2>2 DEF TaskType
    <3>2. /\ new \in [status : {"success", "partial_failure", "failed"},
                      snapshots : SUBSET Endpoints, diffs : SUBSET Endpoints]
          /\ new.status = "failed"
      BY <3>1
    <3>3. report' = [report EXCEPT ![r] = new]
      BY <2>2
    <3> HIDE DEF new
    <3> QED
      BY <3>2, <3>3 DEF TaskType
  <2> QED
    BY <1>6, <2>1, <2>2
<1>8. TaskType'
  <2>1. task' \in [Runs -> [Endpoints -> TaskStates]]
    <3>1. [e \in Endpoints |-> "fetch"] \in [Endpoints -> TaskStates]
      BY DEF TaskStates
    <3>2. task \in [Runs -> [Endpoints -> TaskStates]]
      BY DEF TaskType, TaskStates
    <3> QED
      BY <1>4, <3>1, <3>2
  <2> QED
    BY <1>3, <1>5, <1>7, <2>1 DEF TaskType, TaskStates
<1>9. FoundCurrent(r)' /\ Compared(r)'
  <2>1. \A e \in Endpoints : task'[r][e] \in {task[r][e], "fetch"}
    BY <1>4 DEF TaskType
  <2> QED
    BY <1>2, <1>3, <2>1, OutsideGather
<1>10. \A s \in Runs \ {r} : FoundCurrent(s)' /\ Compared(s)'
  <2>1. \A s \in Runs \ {r} : /\ pc'[s] = pc[s] /\ task'[s] = task[s]
                              /\ found'[s] = found[s] /\ broken'[s] = broken[s]
    BY <1>1, <1>3, <1>4 DEF TaskType, PoolType, Users
  <2> QED
    BY <1>3, <2>1, OthersKeepFound
<1>11. \A s \in Runs : pc'[s] \in {"idle", "load", "gather"}
                         => pc[s] \in {"idle", "load", "gather"}
  BY <1>1 DEF PoolType, Users
<1> QED
  BY <1>3, <1>7, <1>8, <1>9, <1>10, <1>11, TablesKept

\* Within the coroutines it is their own steps, a failure, or the end.
LEMMA GatherKeeps ==
  ASSUME MonitorInv, PoolInv', NEW r \in Runs,
         \/ \E e \in Endpoints : Coroutine(r, e)
         \/ Break(r) \/ Rollback(r)
  PROVE  MonitorInv'
<1> TaskType /\ PoolType
  BY DEF MonitorInv, PoolInv
<1>1. CASE \E e \in Endpoints : Coroutine(r, e)
  <2>1. PICK e \in Endpoints : Coroutine(r, e)
    BY <1>1
  <2>2. UNCHANGED <<pc, history, report, broken>>
    BY <2>1 DEF Coroutine, Fetch, Stored, Compare, Saved, Raise, tables
  <2>3. TaskType' /\ FoundCurrent(r)' /\ Compared(r)'
    BY <2>1, CoroutineKeeps
  <2>4. \A s \in Runs \ {r} : FoundCurrent(s)' /\ Compared(s)'
    <3>1. \A s \in Runs \ {r} : task'[s] = task[s] /\ found'[s] = found[s]
      BY <2>1, CoroutineTouchesOne
    <3> QED
      BY <2>2, <3>1, OthersKeepFound
  <2> QED
    BY <2>2, <2>3, <2>4, TablesKept
<1>2. CASE Break(r) \/ Rollback(r)
  <2>1. TaskType' /\ \A s \in Runs : FoundCurrent(s)' /\ Compared(s)'
    BY <1>2, FailureKeeps
  <2>2. /\ UNCHANGED <<history, report>>
        /\ \A s \in Runs : pc'[s] \in {"idle", "load", "gather"}
                             => pc[s] \in {"idle", "load", "gather"}
    BY <1>2 DEF Break, Rollback, tables, Goto, PoolType, Users
  <2> QED
    BY <2>1, <2>2, TablesKept
<1> QED
  BY <1>1, <1>2

\* Other requests, and the end of the process.
LEMMA RestKeeps ==
  ASSUME MonitorInv, PoolInv',
         \/ \E q \in Readers : Browse(q) \/ Leave(q)
         \/ Crash \/ UNCHANGED vars
  PROVE  MonitorInv'
<1> TaskType /\ PoolType
  BY DEF MonitorInv, PoolInv
<1>1. CASE (\E q \in Readers : Browse(q) \/ Leave(q)) \/ UNCHANGED vars
  <2>1. UNCHANGED <<history, report, task, found, unsent, flushing, broken, faults>>
    BY <1>1 DEF Browse, Leave, vars, taskVars, tables
  <2>2. \A s \in Runs : pc'[s] = pc[s]
    BY <1>1, MonitorAssumption DEF Browse, Leave, Goto, vars, PoolType, Users
  <2>3. TaskType'
    BY <2>1 DEF TaskType
  <2>4. \A s \in Runs : FoundCurrent(s)' /\ Compared(s)'
    BY <2>1, <2>2, OthersKeepFound
  <2> QED
    BY <2>1, <2>2, <2>3, <2>4, TablesKept
<1>2. CASE Crash
  <2>1. /\ UNCHANGED <<history, report>>
        /\ task' = [r \in Runs |-> [e \in Endpoints |-> "idle"]]
        /\ found' = [r \in Runs |-> [e \in Endpoints |-> NoSnapshot]]
        /\ unsent' = [r \in Runs |-> {}] /\ flushing' = [r \in Runs |-> None]
        /\ faults' \in 0 .. MaxFaults
    BY <1>2, MonitorAssumption DEF Crash, Fault, tables, TaskType
  <2>2. TaskType'
    BY <2>1 DEF TaskType, NoSnapshot
  <2>3. \A s \in Runs : FoundCurrent(s)' /\ Compared(s)'
    BY <2>1, ForgottenIsFine
  <2>4. \A s \in Runs : pc'[s] \in {"idle", "load", "gather"}
                          => pc[s] \in {"idle", "load", "gather"}
    BY <1>2 DEF Crash, PoolType, Users
  <2> QED
    BY <2>1, <2>2, <2>3, <2>4, TablesKept
<1> QED
  BY <1>1, <1>2

\* What the runs before have left is in order.
LEMMA InitMonitor == Init => MonitorInv
<1> SUFFICES ASSUME Init  PROVE MonitorInv
  OBVIOUS
<1>1. /\ task = [r \in Runs |-> [e \in Endpoints |-> "idle"]]
      /\ found = [r \in Runs |-> [e \in Endpoints |-> NoSnapshot]]
      /\ unsent = [r \in Runs |-> {}] /\ flushing = [r \in Runs |-> None]
      /\ history = Earlier /\ report = [r \in Runs |-> None] /\ faults = 0
  BY DEF Init
<1>2. TaskType
  BY <1>1, MonitorAssumption DEF TaskType, NoSnapshot
<1>3. \A r \in Runs : FoundCurrent(r) /\ Compared(r)
  BY <1>1 DEF FoundCurrent, Compared, NoSnapshot
<1>4. Unwritten /\ SamplesAreBounded /\ DiffsAreConsecutive
  BY <1>1, EarlierAssumption DEF Unwritten, SamplesAreBounded, DiffsAreConsecutive
<1>5. SuccessIsComplete
  BY <1>1 DEF SuccessIsComplete
<1> QED
  BY <1>2, <1>3, <1>4, <1>5, InitPool DEF MonitorInv

\* The inductive invariant of the runs and their tables (monitor_runner.py).
THEOREM MonitorInvariance == Spec => []MonitorInv
<1>1. MonitorInv /\ PoolInv' /\ [Next]_vars => MonitorInv'
  <2> SUFFICES ASSUME MonitorInv, PoolInv', [Next]_vars  PROVE MonitorInv'
    OBVIOUS
  <2>1. ASSUME NEW r \in Runs,
               Start(r) \/ Handle(r) \/ FailInsert(r) \/ FailLoad(r) \/ Break(r)
        PROVE  MonitorInv'
    BY <2>1, OutsideKeeps, GatherKeeps, CommitKeepsTables DEF Handle
  <2> QED
    BY <2>1, RestKeeps DEF Next
<1> QED
  BY <1>1, InitMonitor, PoolInvariance, PTL DEF Spec

\* The monitor is well-typed.
THEOREM MonitorTypeCorrect == Spec => []TypeOK
<1>1. MonitorInv => TypeOK
  BY DEF MonitorInv, PoolInv, PoolType, TaskType, TypeOK
<1> QED
  BY <1>1, MonitorInvariance, PTL

\* Every recorded difference is to the snapshot before, and that one was parsed:
\* between reading it and the commit no other run can have committed.
THEOREM DiffsCorrect == Spec => []DiffsAreConsecutive
<1>1. MonitorInv => DiffsAreConsecutive
  BY DEF MonitorInv
<1> QED
  BY <1>1, MonitorInvariance, PTL

\* What is recorded as a success is complete: gather returns the exceptions of refused
\* flushes, and the outcome counts them.
THEOREM SuccessCorrect == Spec => []SuccessIsComplete
<1>1. MonitorInv => SuccessIsComplete
  BY DEF MonitorInv
<1> QED
  BY <1>1, MonitorInvariance, PTL

\* The retention sweep bounds the samples, also of snapshots flushed after it.
THEOREM SamplesCorrect == Spec => []SamplesAreBounded
<1>1. MonitorInv => SamplesAreBounded
  BY DEF MonitorInv
<1> QED
  BY <1>1, MonitorInvariance, PTL

-----------------------------------------------------------------------------
(* The tables as those of runs that happen one after another (RunHistory).  *)

\* A run is recorded by its commit and not before.
Unreported == \A r \in Runs : pc[r] \in {"idle", "load", "gather", "record"} => report[r] = None

\* What a coroutine has found to differ does so, also when its flush was refused, and
\* one has failed because there was no answer.
FoundTrue(r) ==
  \A e \in Endpoints :
    /\ found[r][e].from # 0 => found[r][e].from = Changed(r, e)
    /\ task[r][e] = "failed" => found[r][e].schema = None

SerialInv == Unreported /\ \A r \in Runs : FoundTrue(r)

\* Nothing is found or recorded at first.
LEMMA InitSerial == Init => SerialInv
BY DEF Init, SerialInv, Unreported, FoundTrue, NoSnapshot

\* What a run has found stays true while nothing is committed and its coroutines rest.
LEMMA RestKeepsTrue ==
  ASSUME MonitorInv, SerialInv, NEW s \in Runs, UNCHANGED history, found'[s] = found[s],
         \A e \in Endpoints : task'[s][e] = "failed" => task[s][e] = "failed"
  PROVE  FoundTrue(s)'
<1>1. \A e \in Endpoints : Changed(s, e)' = Changed(s, e)
  BY DEF Changed, Prior
<1> QED
  BY <1>1 DEF SerialInv, FoundTrue

\* Nothing that a run has forgotten is false.
LEMMA ForgottenIsTrue ==
  ASSUME NEW s \in Runs, found'[s] = [e \in Endpoints |-> NoSnapshot]
  PROVE  FoundTrue(s)'
BY DEF FoundTrue, NoSnapshot

\* The coroutine that compares records the difference it sees, and the one that got no
\* answer fails.
LEMMA CoroutineKeepsTrue ==
  ASSUME MonitorInv, SerialInv, NEW r \in Runs, NEW e \in Endpoints, Coroutine(r, e)
  PROVE  FoundTrue(r)'
<1> TaskType /\ FoundTrue(r)
  BY DEF MonitorInv, SerialInv
<1>1. UNCHANGED history
  BY DEF Coroutine, Fetch, Stored, Compare, Saved, Raise, tables
<1>2. PICK next \in TaskStates : Turn(r, e, next) /\ (next = "failed" => Stored(r, e))
  BY DEF Coroutine, Fetch, Stored, Compare, Saved, Raise, Flush, TaskStates
<1>3. /\ task'[r][e] = next
      /\ \A f \in Endpoints \ {e} : task'[r][f] = task[r][f]
  BY <1>2, TurnMoves
<1>4. \A f \in Endpoints \ {e} : found'[r][f] = found[r][f]
  BY DEF Coroutine, Fetch, Stored, Compare, Saved, Raise, TaskType
<1>5. \A f \in Endpoints : found'[r][f] = found[r][f] => Changed(r, f)' = Changed(r, f)
  BY <1>1 DEF Changed, Prior
<1>6. /\ found'[r][e].from # 0 => found'[r][e].from = Changed(r, e)'
      /\ task'[r][e] = "failed" => found'[r][e].schema = None
  <2>1. CASE Fetch(r, e)
    <3>1. PICK s \in Schemas \union {None} :
            found' = [found EXCEPT ![r][e] = [schema |-> s, from |-> 0]]
      BY <2>1 DEF Fetch
    <3>2. found'[r][e].from = 0
      BY <3>1 DEF TaskType
    <3>3. next # "failed"
      BY <1>2, <2>1 DEF Fetch, Stored, Busy
    <3> QED
      BY <1>3, <3>2, <3>3
  <2>2. CASE Compare(r, e)
    <3>1. found' = [found EXCEPT ![r][e].from = Changed(r, e)]
      BY <2>2 DEF Compare
    <3>2. found'[r][e].from = Changed(r, e) /\ found'[r][e].schema = found[r][e].schema
      BY <3>1 DEF TaskType
    <3>3. Changed(r, e)' = Changed(r, e)
      BY <1>1, <3>2 DEF Changed, Prior
    <3>4. next # "failed"
      BY <1>2, <2>2 DEF Compare, Stored, Busy
    <3> QED
      BY <1>3, <3>2, <3>3, <3>4
  <2>3. CASE Stored(r, e) \/ Saved(r, e) \/ Raise(r, e)
    <3>1. found' = found
      BY <2>3 DEF Stored, Saved, Raise
    <3>2. next = "failed" => found[r][e].schema = None
      <4>1. Stored(r, e) => task'[r][e] = IF found[r][e].schema = None THEN "failed" ELSE "compare"
        BY DEF Stored, Turn, TaskType
      <4> QED
        BY <1>2, <1>3, <4>1
    <3> QED
      BY <1>3, <1>5, <3>1, <3>2 DEF FoundTrue
  <2> QED
    BY <2>1, <2>2, <2>3 DEF Coroutine
<1> QED
  BY <1>3, <1>4, <1>5, <1>6 DEF FoundTrue

\* The update of a failed run finds no row: the rollback has taken it away.
LEMMA RecordLeaves ==
  ASSUME MonitorInv, SerialInv, NEW r \in Runs,
         \/ Start(r) \/ Load(r) \/ FailInsert(r) \/ FailLoad(r) \/ RecordFailure(r)
         \/ Unlock(r) \/ Leave(r)
  PROVE  report' = report
<1> TaskType
  BY DEF MonitorInv
<1>1. CASE RecordFailure(r)
  <2>1. report[r] = None
    BY <1>1 DEF RecordFailure, At, SerialInv, Unreported
  <2>2. report' = [report EXCEPT ![r] = report[r]]
    BY <1>1, <2>1 DEF RecordFailure
  <2> QED
    BY <2>2 DEF TaskType
<1>2. CASE ~RecordFailure(r)
  BY <1>2 DEF Start, Load, FailInsert, FailLoad, Unlock, Leave, tables
<1> QED
  BY <1>1, <1>2

\* Every step keeps the invariant.
LEMMA SerialKeeps == MonitorInv /\ SerialInv /\ [Next]_vars => SerialInv'
<1> SUFFICES ASSUME MonitorInv, SerialInv, [Next]_vars  PROVE SerialInv'
  OBVIOUS
<1> TaskType /\ PoolType /\ PoolInv
  BY DEF MonitorInv, PoolInv
<1>1. ASSUME NEW r \in Runs, CommitRun(r)
      PROVE  SerialInv'
  <2>1. /\ pc[r] = "gather" /\ ~broken[r] /\ pc'[r] = "unlock"
        /\ \A s \in Runs \ {r} : pc'[s] = pc[s]
    BY <1>1 DEF CommitRun, At, Goto, PoolType, Users
  <2>2. /\ task' = [task EXCEPT ![r] = [e \in Endpoints |-> "idle"]]
        /\ found' = [found EXCEPT ![r] = [e \in Endpoints |-> NoSnapshot]]
        /\ report' = [report EXCEPT ![r] = Report(r)]
    BY <1>1 DEF CommitRun, Forget
  <2>3. Unreported'
    BY <2>1, <2>2 DEF SerialInv, Unreported, TaskType
  <2>4. FoundTrue(r)'
    BY <2>2, ForgottenIsTrue DEF TaskType
  <2>5. ASSUME NEW s \in Runs \ {r}  PROVE FoundTrue(s)'
    <3>1. pc[s] # "gather" \/ broken[s]
      BY <2>1, OneRunning DEF OneRunAtATime, Running
    <3>2. \A e \in Endpoints : found[s][e].from = 0
      BY <3>1 DEF MonitorInv, FoundCurrent
    <3>3. found'[s] = found[s] /\ task'[s] = task[s]
      BY <2>2 DEF TaskType
    <3> QED
      BY <3>2, <3>3 DEF SerialInv, FoundTrue
  <2> QED
    BY <2>3, <2>4, <2>5 DEF SerialInv
<1>2. ASSUME NEW r \in Runs, NEW e \in Endpoints, Coroutine(r, e)
      PROVE  SerialInv'
  <2>1. UNCHANGED <<pc, history, report>>
    BY <1>2 DEF Coroutine, Fetch, Stored, Compare, Saved, Raise, tables
  <2>2. FoundTrue(r)'
    BY <1>2, CoroutineKeepsTrue
  <2>3. \A s \in Runs \ {r} : FoundTrue(s)'
    BY <1>2, <2>1, CoroutineTouchesOne, RestKeepsTrue
  <2> QED
    BY <2>1, <2>2, <2>3 DEF SerialInv, Unreported
<1>3. ASSUME NEW r \in Runs, Break(r) \/ Rollback(r)
      PROVE  SerialInv'
  <2>1. /\ UNCHANGED <<history, report>>
        /\ pc' = pc \/ (pc[r] = "gather" /\ pc' = [pc EXCEPT ![r] = "record"])
    BY <1>3 DEF Break, Rollback, tables, Goto, At
  <2>2. /\ found' = [found EXCEPT ![r] = [e \in Endpoints |-> NoSnapshot]]
        /\ task' = task \/ task' = [task EXCEPT ![r] = [e \in Endpoints |-> "idle"]]
    BY <1>3 DEF Break, Rollback, Forget
  <2>3. FoundTrue(r)'
    BY <2>2, ForgottenIsTrue DEF TaskType
  <2>4. ASSUME NEW s \in Runs \ {r}  PROVE FoundTrue(s)'
    <3>1. found'[s] = found[s] /\ task'[s] = task[s]
      BY <2>2 DEF TaskType
    <3> QED
      BY <2>1, <3>1, RestKeepsTrue
  <2>5. Unreported'
    BY <2>1 DEF SerialInv, Unreported, PoolType, Users
  <2> QED
    BY <2>3, <2>4, <2>5 DEF SerialInv
<1>4. ASSUME NEW r \in Runs,
             \/ Start(r) \/ Load(r) \/ FailInsert(r) \/ FailLoad(r) \/ RecordFailure(r)
             \/ Unlock(r) \/ Leave(r)
      PROVE  SerialInv'
  <2>1. UNCHANGED <<history, found>>
    BY <1>4 DEF Start, Load, FailInsert, FailLoad, RecordFailure, Unlock, Leave, taskVars, tables
  <2>2. task' = task \/ task' = [task EXCEPT ![r] = [e \in Endpoints |-> "fetch"]]
    BY <1>4 DEF Start, Load, FailInsert, FailLoad, RecordFailure, Unlock, Leave, taskVars
  <2>3. \A s \in Runs, e \in Endpoints : task'[s][e] = "failed" => task[s][e] = "failed"
    BY <2>2 DEF TaskType
  <2>4. \A s \in Runs : FoundTrue(s)'
    BY <2>1, <2>3, RestKeepsTrue
  <2>5. report' = report
    BY <1>4, RecordLeaves
  <2>6. \E next \in {"load", "gather", "record", "unlock", "leave", "end"} :
          /\ pc' = [pc EXCEPT ![r] = next]
          /\ next \in {"load", "gather", "record"} => pc[r] \in {"idle", "load"}
    BY <1>4 DEF Start, Load, FailInsert, FailLoad, RecordFailure, Unlock, Leave, Goto, At
  <2>7. Unreported'
    BY <2>5, <2>6 DEF SerialInv, Unreported, PoolType, Users
  <2> QED
    BY <2>4, <2>7 DEF SerialInv
<1>5. CASE \/ \E q \in Readers : Browse(q) \/ Leave(q)
           \/ Crash \/ UNCHANGED vars
  <2>1. UNCHANGED <<history, report>>
    BY <1>5 DEF Browse, Leave, Crash, vars, tables
  <2>2. \/ UNCHANGED <<found, task>>
        \/ found' = [r \in Runs |-> [e \in Endpoints |-> NoSnapshot]]
    BY <1>5 DEF Browse, Leave, Crash, vars, taskVars
  <2>3. \A s \in Runs : FoundTrue(s)'
    BY <2>1, <2>2, RestKeepsTrue, ForgottenIsTrue
  <2>4. \A s \in Runs : pc'[s] = pc[s] \/ pc'[s] = "end"
    BY <1>5, MonitorAssumption DEF Browse, Leave, Crash, Goto, vars, PoolType, Users
  <2> QED
    BY <2>1, <2>3, <2>4 DEF SerialInv, Unreported
<1> QED
  BY <1>1, <1>2, <1>3, <1>4, <1>5 DEF Next, Handle

SerialVars == <<[e \in Endpoints |-> Told(history[e])], report>>

\* The invariant holds in every behaviour.
LEMMA SerialInvariance == Spec => []SerialInv
  BY InitSerial, SerialKeeps, MonitorInvariance, PTL DEF Spec

\* One more snapshot, with the others as they were but for their samples, is one more
\* to be told of.
LEMMA ToldAppends ==
  ASSUME NEW s \in Seq(Snapshots), NEW t \in Seq(Snapshots), Len(t) = Len(s) + 1,
         \A i \in 1 .. Len(s) : /\ t[i].run = s[i].run /\ t[i].schema = s[i].schema
                                /\ t[i].from = s[i].from
  PROVE  LET n == Len(s) + 1 IN
         Told(t) = Append(Told(s), [run |-> t[n].run, schema |-> t[n].schema,
                                    from |-> t[n].from])
<1> DEFINE Brief(x) == [run |-> x.run, schema |-> x.schema, from |-> x.from]
           All == {Brief(x) : x \in Snapshots}
           n == Len(s) + 1
<1>1. /\ Len(s) \in Nat /\ DOMAIN s = 1 .. Len(s) /\ DOMAIN t = 1 .. n
      /\ \A i \in 1 .. Len(s) : s[i] \in Snapshots
  OBVIOUS
<1>2. Told(s) = [i \in 1 .. Len(s) |-> Brief(s[i])] /\ Told(t) = [i \in 1 .. n |-> Brief(t[i])]
  BY <1>1 DEF Told
<1>3. \A i \in 1 .. Len(s) : Brief(s[i]) \in All /\ Brief(t[i]) = Brief(s[i])
  BY <1>1
<1> HIDE DEF Brief, All
<1>4. Told(s) \in Seq(All) /\ Len(Told(s)) = Len(s)
  <2>1. Told(s) \in [1 .. Len(s) -> All]
    BY <1>2, <1>3
  <2> QED
    BY <1>1, <2>1, IsASeq, LenProperties
<1>5. Append(Told(s), Brief(t[n])) =
        [i \in 1 .. n |-> IF i <= Len(s) THEN Told(s)[i] ELSE Brief(t[n])]
  BY <1>1, <1>4 DEF n
<1>6. \A i \in 1 .. n : Brief(t[i]) = IF i <= Len(s) THEN Told(s)[i] ELSE Brief(t[n])
  BY <1>1, <1>2, <1>3
<1>7. Told(t) = Append(Told(s), Brief(t[n]))
  BY <1>2, <1>5, <1>6
<1> QED
  BY <1>7 DEF Brief, n

\* A run compares with what the reader is told was the last.
LEMMA DiffersIsChanged ==
  ASSUME TaskType, NEW r \in Runs, NEW e \in Endpoints,
         NEW answer, answer = found[r][e].schema
  PROVE  OneByOne!Differs(e, answer) = Changed(r, e)
<1>1. history[e] \in Seq(Snapshots) /\ Len(history[e]) \in Nat
  BY DEF TaskType
<1>2. /\ Len(Told(history[e])) = Len(history[e])
      /\ \A i \in 1 .. Len(history[e]) : Told(history[e])[i].schema = history[e][i].schema
  BY <1>1 DEF Told
<1> QED
  BY <1>1, <1>2 DEF OneByOne!Differs, Changed, Prior

\* A commit is a run that happens at once: nobody has committed since it compared.
LEMMA CommitHappens ==
  ASSUME MonitorInv, SerialInv, NEW r \in Runs, CommitRun(r)
  PROVE  OneByOne!Next
<1> TaskType
  BY DEF MonitorInv
<1>1. PICK answer \in [Endpoints -> Schemas \union {None}] :
        \A e \in Endpoints : answer[e] = found[r][e].schema
  <2>1. [e \in Endpoints |-> found[r][e].schema] \in [Endpoints -> Schemas \union {None}]
    BY DEF TaskType
  <2> QED
    BY <2>1
<1>2. PICK finished \in SUBSET Endpoints : finished = InTask(r, {"done", "failed"})
  BY DEF InTask
<1>3. PICK compared \in SUBSET Endpoints :
        compared = finished \union {e \in Endpoints : found[r][e].from # 0}
  OBVIOUS
<1>4. /\ pc[r] = "gather" /\ ~broken[r] /\ Ended(r)
      /\ history' = [e \in Endpoints |-> Added(r, e)]
      /\ report' = [report EXCEPT ![r] = Report(r)]
  BY DEF CommitRun, At
<1>5. report[r] = None
  BY <1>4 DEF SerialInv, Unreported
<1>6. \A e \in Endpoints :
        /\ task[r][e] = "done" => answer[e] # None /\ found[r][e].from = Changed(r, e)
        /\ task[r][e] = "failed" => answer[e] = None
        /\ found[r][e].from # 0 => found[r][e].from = Changed(r, e)
        /\ task[r][e] \in {"done", "failed", "raised"}
  BY <1>1, <1>4 DEF MonitorInv, Compared, SerialInv, FoundTrue, Ended
<1>7. \A e \in Endpoints :
        found[r][e].from = IF e \in compared THEN OneByOne!Differs(e, answer[e]) ELSE 0
  <2> SUFFICES ASSUME NEW e \in Endpoints
               PROVE  found[r][e].from = IF e \in compared
                                         THEN OneByOne!Differs(e, answer[e]) ELSE 0
    OBVIOUS
  <2>1. OneByOne!Differs(e, answer[e]) = Changed(r, e)
    BY <1>1, DiffersIsChanged
  <2>2. CASE found[r][e].from # 0
    BY <1>3, <1>6, <2>1, <2>2
  <2>3. CASE found[r][e].from = 0 /\ e \in compared
    <3>1. task[r][e] \in {"done", "failed"}
      BY <1>2, <1>3, <2>3 DEF InTask
    <3>2. task[r][e] = "failed" => Changed(r, e) = 0
      BY <1>1, <1>6, MonitorAssumption DEF Changed
    <3> QED
      BY <1>6, <2>1, <2>3, <3>1, <3>2
  <2>4. CASE e \notin compared
    BY <1>3, <2>4
  <2> QED
    BY <2>2, <2>3, <2>4
<1>8. [e \in Endpoints |-> Told(history'[e])] =
        [e \in Endpoints |-> Append([f \in Endpoints |-> Told(history[f])][e],
           [run |-> r, schema |-> answer[e],
            from |-> IF e \in compared THEN OneByOne!Differs(e, answer[e]) ELSE 0])]
  <2> SUFFICES ASSUME NEW e \in Endpoints
               PROVE  Told(history'[e]) = Append(Told(history[e]),
                        [run |-> r, schema |-> answer[e], from |-> found[r][e].from])
    BY <1>7
  <2> DEFINE s == history[e]  t == history'[e]
  <2>1. history'[e] = Added(r, e) /\ s \in Seq(Snapshots)
    BY <1>4 DEF TaskType
  <2>2. /\ t \in Seq(Snapshots) /\ Len(t) = Len(s) + 1
        /\ \A i \in 1 .. Len(s) : /\ t[i].run = s[i].run /\ t[i].schema = s[i].schema
                                 /\ t[i].from = s[i].from
        /\ t[Len(s) + 1].run = r /\ t[Len(s) + 1].schema = found[r][e].schema
        /\ t[Len(s) + 1].from = found[r][e].from
    BY <2>1, CommitAppendsSnapshot
  <2> HIDE DEF s, t
  <2>3. Told(t) = Append(Told(s), [run |-> t[Len(s) + 1].run, schema |-> t[Len(s) + 1].schema,
                                   from |-> t[Len(s) + 1].from])
    BY <2>1, <2>2, ToldAppends DEF s
  <2>4. Told(t) = Append(Told(s), [run |-> r, schema |-> answer[e], from |-> found[r][e].from])
    BY <1>1, <2>2, <2>3
  <2> QED
    BY <2>4 DEF s, t
<1>9. Report(r) =
        [status    |-> IF finished = Endpoints /\ \A e \in Endpoints : answer[e] # None
                       THEN "success" ELSE "partial_failure",
         snapshots |-> finished,
         diffs     |-> {e \in finished :
           (IF e \in compared THEN OneByOne!Differs(e, answer[e]) ELSE 0) # 0}]
  <2>1. Outcome(r) = IF finished = Endpoints /\ \A e \in Endpoints : answer[e] # None
                     THEN "success" ELSE "partial_failure"
    <3>1. InTask(r, {"failed", "raised"}) = {} <=>
            finished = Endpoints /\ \A e \in Endpoints : answer[e] # None
      BY <1>2, <1>6 DEF InTask
    <3> QED
      BY <3>1 DEF Outcome
  <2>2. {e \in InTask(r, {"done"}) : found[r][e].from # 0} =
          {e \in finished : (IF e \in compared THEN OneByOne!Differs(e, answer[e]) ELSE 0) # 0}
    <3>1. \A e \in Endpoints : task[r][e] = "failed" => Changed(r, e) = 0
      BY <1>1, <1>6, MonitorAssumption DEF Changed
    <3>2. \A e \in Endpoints : task[r][e] = "failed" => found[r][e].from = 0
      BY <1>6, <3>1
    <3> QED
      BY <1>2, <1>7, <3>2 DEF InTask
  <2> QED
    BY <1>2, <2>1, <2>2 DEF Report
<1>10. OneByOne!Happen(r, answer, finished, compared)
  BY <1>3, <1>4, <1>5, <1>8, <1>9 DEF OneByOne!Happen
<1> QED
  BY <1>10 DEF OneByOne!Next

\* Requests and coroutines overlap, fail and come again, and the reader of the tables
\* sees runs that happen at once, one after another, each compared with the last.
THEOREM RunsSerialize == Spec => RunsAreSerial
<1>1. Init => OneByOne!Init
  BY DEF Init, OneByOne!Init
<1>2. MonitorInv /\ SerialInv /\ [Next]_vars => [OneByOne!Next]_SerialVars
  <2> SUFFICES ASSUME MonitorInv, SerialInv, [Next]_vars
               PROVE  OneByOne!Next \/ UNCHANGED SerialVars
    OBVIOUS
  <2>1. ASSUME UNCHANGED <<history, report>>  PROVE UNCHANGED SerialVars
    BY <2>1 DEF SerialVars
  <2>2. ASSUME NEW r \in Runs, NEW e \in Endpoints, Coroutine(r, e)
        PROVE  UNCHANGED <<history, report>>
    BY <2>2 DEF Coroutine, Fetch, Stored, Compare, Saved, Raise, tables
  <2>3. ASSUME NEW r \in Runs, Break(r) \/ Rollback(r)
        PROVE  UNCHANGED <<history, report>>
    BY <2>3 DEF Break, Rollback, tables
  <2>4. ASSUME NEW r \in Runs,
               \/ Start(r) \/ Load(r) \/ FailInsert(r) \/ FailLoad(r) \/ RecordFailure(r)
               \/ Unlock(r) \/ Leave(r)
        PROVE  UNCHANGED <<history, report>>
    <3>1. history' = history
      BY <2>4
      DEF Start, Load, FailInsert, FailLoad, RecordFailure, Unlock, Leave, tables
    <3> QED
      BY <2>4, <3>1, RecordLeaves
  <2>5. CASE (\E q \in Readers : Browse(q) \/ Leave(q)) \/ Crash \/ UNCHANGED vars
    <3>1. UNCHANGED <<history, report>>
      BY <2>5 DEF Browse, Leave, Crash, vars, tables
    <3> QED
      BY <2>1, <3>1
  <2> QED
    BY <2>1, <2>2, <2>3, <2>4, <2>5, CommitHappens DEF Next, Handle
<1> QED
  BY <1>1, <1>2, MonitorInvariance, SerialInvariance, PTL
  DEF Spec, RunsAreSerial, OneByOne!Spec, OneByOne!vars, SerialVars
=============================================================================
