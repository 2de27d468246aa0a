------------------------ MODULE SchemaRegistryProofs ------------------------
(***************************************************************************)
(* The registry is correct for every set of requests, endpoints, schemas  *)
(* and every lock numbering.  The argument: a transaction that acts on    *)
(* what it read holds the endpoint's lock (Excludes), hence nobody else   *)
(* changes the endpoint's rows and the read stays true (Fresh); a commit  *)
(* therefore extends the chain of versions at its end.                    *)
(***************************************************************************)
EXTENDS SchemaRegistry, TLAPS, SequenceTheorems

-----------------------------------------------------------------------------
(* The inductive invariant.                                                *)

Unlocked == {"idle", "ensure", "lookup", "lock", "current"}
Deciding == {"recheck", "demote", "insert", "classify"}

Excludes(r) ==
  pc[r] \in Locked \/ draft[r] # None => lock[LockOf(r)] = r

Fresh(r) ==
  pc[r] \in Deciding \/ draft[r] # None =>
    /\ current[r] = None => VersionsOf(KeyOf(r)) = {}
    /\ current[r] # None => /\ current[r] \in VersionsOf(KeyOf(r))
                            /\ table[current[r]].current

Unknown(r) ==
  pc[r] \in {"demote", "insert"} \/ draft[r] # None => SameSchema(r) = {}

\* Where the transaction's own writes are, statement by statement.
Progress(r) ==
  /\ pc[r] \in Unlocked \union Finished => current[r] = None
  /\ pc[r] \in Unlocked \union Finished \union {"recheck", "demote"} => ~demotes[r]
  /\ pc[r] = "demote" => current[r] # None
  /\ pc[r] = "insert" => (demotes[r] <=> current[r] # None)
  /\ pc[r] = "classify" => draft[r] # None /\ current[r] # None
  /\ draft[r] # None => pc[r] \in {"classify", "commit"}
  /\ draft[r] = None /\ pc[r] = "commit" => ~demotes[r]
  /\ table[r] # None => pc[r] = "done"

Drafted(r) ==
  draft[r] # None =>
    /\ draft[r].key = KeyOf(r)
    /\ draft[r].fp = payload[r].fp
    /\ draft[r].prev = current[r]
    /\ draft[r].version = NextVersion(r)
    /\ draft[r].current
    /\ demotes[r] <=> current[r] # None
    /\ pc[r] = "commit" =>
         draft[r].class = IF current[r] = None THEN Safe
                          ELSE Verdict[table[current[r]].fp][payload[r].fp]

Answered(r) ==
  /\ draft[r] # None => answer[r] = r
  /\ pc[r] = "done" \/ (pc[r] = "commit" /\ draft[r] = None) =>
       /\ answer[r] \in VersionsOf(KeyOf(r))
       /\ table[answer[r]].fp = payload[r].fp

RequestInv(r) ==
  Excludes(r) /\ Fresh(r) /\ Unknown(r) /\ Progress(r) /\ Drafted(r) /\ Answered(r)

StoredUnique ==
  \A i, j \in Stored : i # j /\ table[i].key = table[j].key =>
    table[i].version # table[j].version /\ table[i].fp # table[j].fp

OneCurrent ==
  /\ \A i, j \in Stored :
       table[i].key = table[j].key /\ table[i].current /\ i # j =>
         ~table[j].current /\ table[j].version < table[i].version
  /\ \A i \in Stored :
       \E j \in Stored : table[j].key = table[i].key /\ table[j].current

TableInv ==
  StoredUnique /\ OneCurrent /\ VersionChain /\ ClassifiedAgainstPredecessor

RegistryInv == TypeOK /\ TableInv /\ \A r \in Requests : RequestInv(r)

-----------------------------------------------------------------------------
(* Type correctness.                                                       *)

\* Init establishes the types.
LEMMA TypeInit == Init => TypeOK
  BY DEF Init, TypeOK

\* get_current_schema answers with a row of the table, whose version is counted on.
LEMMA NextVersionType ==
  ASSUME RegistryInv, NEW r \in Requests, pc[r] \in Deciding
  PROVE  NextVersion(r) \in Nat \ {0}
<1>1. current[r] # None => table[current[r]] \in Row
  BY DEF RegistryInv, TypeOK, RequestInv, Fresh, VersionsOf, Stored
<1>2. QED
  BY <1>1 DEF NextVersion, Row

\* The inserted row is a row.
LEMMA InsertedRow ==
  ASSUME RegistryInv, NEW r \in Requests, InsertVersion(r)
  PROVE  draft'[r] \in Row /\ draft'[r] # None
<1>1. NextVersion(r) \in Nat \ {0}
  BY NextVersionType DEF InsertVersion, Deciding
<1>2. draft'[r] \in Row
  BY <1>1, VerdictAssumption DEF RegistryInv, TypeOK, InsertVersion, KeyOf, Row
<1>3. QED
  BY <1>2, NoneAssumption

\* The classified row is a row.
LEMMA ClassifiedRow ==
  ASSUME RegistryInv, NEW r \in Requests, ClassifyVersion(r)
  PROVE  draft'[r] \in Row /\ draft'[r] # None
<1>1. draft[r] \in Row /\ table[draft[r].prev] \in Row
  BY DEF RegistryInv, TypeOK, ClassifyVersion, RequestInv, Fresh, Drafted,
         Progress, VersionsOf, Stored
<1>2. Verdict[table[draft[r].prev].fp][payload[r].fp] \in Severities
  BY <1>1, VerdictAssumption DEF RegistryInv, TypeOK, Row
<1>3. draft'[r] \in Row
  BY <1>1, <1>2 DEF RegistryInv, TypeOK, ClassifyVersion, Classified, Row
<1>4. QED
  BY <1>3, NoneAssumption

\* Every step of every request preserves the types; a version number and a
\* verdict are computed from rows that exist.
LEMMA TypeStep == RegistryInv /\ [Next]_vars => TypeOK'
<1> SUFFICES ASSUME RegistryInv, [Next]_vars PROVE TypeOK'
  OBVIOUS
<1>0. TypeOK /\ \A r \in Requests : RequestInv(r)
  BY DEF RegistryInv
<1> USE <1>0 DEF TypeOK, Goto, Running, Locked, Finished, KeyOf
<1>1. ASSUME NEW r \in Requests, Start(r) PROVE TypeOK'
  BY <1>1 DEF Start
<1>2. ASSUME NEW r \in Requests, EnsureEndpoint(r) PROVE TypeOK'
  BY <1>2 DEF EnsureEndpoint
<1>3. ASSUME NEW r \in Requests, FastLookup(r) PROVE TypeOK'
  BY SMTT(30), <1>3 DEF FastLookup, SameSchema, VersionsOf, Stored
<1>4. ASSUME NEW r \in Requests, AcquireLock(r) PROVE TypeOK'
  BY <1>4 DEF AcquireLock
<1>5. ASSUME NEW r \in Requests, ReadCurrent(r) PROVE TypeOK'
  BY <1>5 DEF ReadCurrent, CurrentRows, VersionsOf, Stored
<1>6. ASSUME NEW r \in Requests, Recheck(r) PROVE TypeOK'
  BY SMTT(60), <1>6 DEF Recheck, SameSchema, VersionsOf, Stored
<1>7. ASSUME NEW r \in Requests, Demote(r) PROVE TypeOK'
  BY <1>7 DEF Demote
<1>8. ASSUME NEW r \in Requests, InsertVersion(r) PROVE TypeOK'
  BY <1>8, InsertedRow DEF InsertVersion
<1>9. ASSUME NEW r \in Requests, ClassifyVersion(r) PROVE TypeOK'
  BY <1>9, ClassifiedRow DEF ClassifyVersion
<1>10. ASSUME NEW r \in Requests, Commit(r) PROVE TypeOK'
  BY <1>10 DEF Commit, EndTransaction, Written, Demoted, Row, RequestInv,
     Fresh, Drafted, Progress, VersionsOf, Stored
<1>11. ASSUME NEW r \in Requests, Abort(r) PROVE TypeOK'
  BY <1>11 DEF Abort, EndTransaction
<1>12. CASE UNCHANGED vars
  BY <1>12 DEF vars
<1>13. QED
  BY <1>1, <1>2, <1>3, <1>4, <1>5, <1>6, <1>7, <1>8, <1>9, <1>10, <1>11, <1>12
     DEF Next, Step, Quiescent

-----------------------------------------------------------------------------
(* Steps that leave the committed table alone.                             *)

\* The invariant of the table depends on the table only.
LEMMA TableFrame == TableInv /\ table' = table => TableInv'
  BY DEF TableInv, StoredUnique, OneCurrent, VersionChain,
         ClassifiedAgainstPredecessor, VersionsOf, Stored

\* An endpoint without a current row has no versions at all.
LEMMA NoCurrentNoVersion ==
  ASSUME TypeOK, OneCurrent, NEW k \in Keys, CurrentRows(k) = {}
  PROVE  VersionsOf(k) = {}
<1> SUFFICES ASSUME NEW i \in VersionsOf(k) PROVE FALSE
  OBVIOUS
<1>1. PICK j \in Stored : table[j].key = k /\ table[j].current
  BY DEF OneCurrent, VersionsOf
<1>2. \A m \in VersionsOf(k) : table[m].current => table[m].version <= table[j].version
  <2> SUFFICES ASSUME NEW m \in VersionsOf(k), table[m].current
               PROVE table[m].version <= table[j].version
    OBVIOUS
  <2>1. m = j
    BY <1>1 DEF OneCurrent, VersionsOf
  <2>2. table[j].version \in Nat
    BY <1>1 DEF TypeOK, Stored, Row
  <2>3. QED
    BY <2>1, <2>2
<1>3. j \in CurrentRows(k)
  BY <1>1, <1>2 DEF CurrentRows, VersionsOf
<1>4. QED
  BY <1>3

\* A request is not affected by a step that leaves its transaction, the table
\* and the locks it holds alone.
LEMMA RequestFrame ==
  ASSUME NEW q \in Requests, RequestInv(q),
         table' = table, payload' = payload,
         pc'[q] = pc[q], current'[q] = current[q], demotes'[q] = demotes[q],
         draft'[q] = draft[q], answer'[q] = answer[q],
         lock[LockOf(q)] = q => lock'[LockOf(q)] = q
  PROVE  RequestInv(q)'
<1> USE DEF RequestInv, KeyOf, LockOf, VersionsOf, Stored
<1>1. Excludes(q)'
  BY DEF Excludes
<1>2. Fresh(q)'
  BY DEF Fresh
<1>3. Unknown(q)'
  BY DEF Unknown, SameSchema
<1>4. Progress(q)'
  BY DEF Progress
<1>5. Drafted(q)'
  BY DEF Drafted, NextVersion
<1>6. Answered(q)'
  BY DEF Answered
<1>7. QED
  BY <1>1, <1>2, <1>3, <1>4, <1>5, <1>6

\* Every statement before the commit, and a rollback, keep the invariant.
LEMMA QuietStep ==
  ASSUME RegistryInv, NEW r \in Requests,
         \/ Start(r) \/ EnsureEndpoint(r) \/ FastLookup(r) \/ AcquireLock(r)
         \/ ReadCurrent(r) \/ Recheck(r) \/ Demote(r) \/ InsertVersion(r)
         \/ ClassifyVersion(r) \/ Abort(r)
  PROVE  TableInv' /\ \A q \in Requests : RequestInv(q)'
<1>0. TypeOK /\ TableInv /\ \A q \in Requests : RequestInv(q)
  BY DEF RegistryInv
<1>1. table' = table /\ payload' = payload
  BY DEF Start, EnsureEndpoint, FastLookup, AcquireLock, ReadCurrent, Recheck,
         Demote, InsertVersion, ClassifyVersion, Abort
<1>2. TableInv'
  BY <1>0, <1>1, TableFrame
<1>3. ASSUME NEW q \in Requests, q # r PROVE RequestInv(q)'
  <2>1. /\ pc'[q] = pc[q] /\ current'[q] = current[q]
        /\ demotes'[q] = demotes[q] /\ draft'[q] = draft[q]
        /\ answer'[q] = answer[q]
    BY <1>0, <1>3 DEF TypeOK, Goto, EndTransaction, Start, EnsureEndpoint, FastLookup,
       AcquireLock, ReadCurrent, Recheck, Demote, InsertVersion, ClassifyVersion,
       Abort
  <2>2. lock[LockOf(q)] = q => lock'[LockOf(q)] = q
    <3>1. LockOf(q) \in LockIds /\ LockOf(r) \in LockIds /\ q # None
      BY <1>0, LockIdAssumption, NoneAssumption DEF TypeOK, LockOf, KeyOf
    <3>2. QED
      BY <1>0, <1>3, <3>1 DEF TypeOK, Start, EnsureEndpoint,
         FastLookup, AcquireLock, ReadCurrent, Recheck, Demote, InsertVersion,
         ClassifyVersion, Abort, EndTransaction
  <2>3. QED
    BY <1>0, <1>1, <2>1, <2>2, RequestFrame
<1>4. RequestInv(r)'
  <2> USE <1>0, <1>1, NoneAssumption
      DEF Locked, Running, Finished, Unlocked, Deciding, RequestInv
  <2> DEFINE Same(q) == /\ current'[q] = current[q] /\ demotes'[q] = demotes[q]
                        /\ draft'[q] = draft[q] /\ answer'[q] = answer[q]
  <2>1. CASE Start(r)
    <3>0. /\ pc[r] = "idle" /\ pc'[r] = "ensure" /\ Same(r)
          /\ lock' = lock
      BY <2>1 DEF Start, TypeOK, Goto
    <3>1. Excludes(r)'
      BY <3>0 DEF Excludes, LockOf, KeyOf
    <3>2. Fresh(r)'
      BY <3>0 DEF Fresh, VersionsOf, Stored, KeyOf
    <3>3. Unknown(r)'
      BY <3>0 DEF Unknown, SameSchema, VersionsOf, Stored, KeyOf
    <3>4. Progress(r)'
      BY <3>0 DEF Progress
    <3>5. Drafted(r)'
      BY <3>0 DEF Drafted, Progress
    <3>6. Answered(r)'
      BY <3>0 DEF Answered, VersionsOf, Stored, KeyOf
    <3>7. QED
      BY <3>1, <3>2, <3>3, <3>4, <3>5, <3>6
  <2>2. CASE EnsureEndpoint(r)
    <3>0. /\ pc[r] = "ensure" /\ pc'[r] = "lookup" /\ Same(r)
          /\ lock' = lock
      BY <2>2 DEF EnsureEndpoint, TypeOK, Goto
    <3>1. Excludes(r)'
      BY <3>0 DEF Excludes, LockOf, KeyOf
    <3>2. Fresh(r)'
      BY <3>0 DEF Fresh, VersionsOf, Stored, KeyOf
    <3>3. Unknown(r)'
      BY <3>0 DEF Unknown, SameSchema, VersionsOf, Stored, KeyOf
    <3>4. Progress(r)'
      BY <3>0 DEF Progress
    <3>5. Drafted(r)'
      BY <3>0 DEF Drafted, Progress
    <3>6. Answered(r)'
      BY <3>0 DEF Answered, VersionsOf, Stored, KeyOf
    <3>7. QED
      BY <3>1, <3>2, <3>3, <3>4, <3>5, <3>6
  <2>3. CASE FastLookup(r)
    <3>0. /\ pc[r] = "lookup" /\ lock' = lock
          /\ current'[r] = current[r] /\ demotes'[r] = demotes[r]
          /\ draft'[r] = draft[r]
          /\ \/ pc'[r] = "lock"
             \/ pc'[r] = "commit" /\ answer'[r] \in SameSchema(r)
      BY <2>3 DEF FastLookup, TypeOK, Goto
    <3>1. Excludes(r)'
      BY <3>0 DEF Excludes, LockOf, KeyOf
    <3>2. Fresh(r)'
      BY <3>0 DEF Fresh, VersionsOf, Stored, KeyOf
    <3>3. Unknown(r)'
      BY <3>0 DEF Unknown, SameSchema, VersionsOf, Stored, KeyOf
    <3>4. Progress(r)'
      BY <3>0 DEF Progress
    <3>5. Drafted(r)'
      BY <3>0 DEF Drafted, Progress
    <3>6. Answered(r)'
      BY <3>0 DEF Answered, VersionsOf, Stored, KeyOf, SameSchema, Progress
    <3>7. QED
      BY <3>1, <3>2, <3>3, <3>4, <3>5, <3>6
  <2>4. CASE AcquireLock(r)
    <3>0. /\ pc[r] = "lock" /\ pc'[r] = "current" /\ Same(r)
          /\ lock'[LockOf(r)] = r
      BY <2>4, LockIdAssumption DEF AcquireLock, TypeOK, Goto, LockOf, KeyOf
    <3>1. Excludes(r)'
      BY <3>0 DEF Excludes, LockOf, KeyOf
    <3>2. Fresh(r)'
      BY <3>0 DEF Fresh, VersionsOf, Stored, KeyOf
    <3>3. Unknown(r)'
      BY <3>0 DEF Unknown, SameSchema, VersionsOf, Stored, KeyOf
    <3>4. Progress(r)'
      BY <3>0 DEF Progress
    <3>5. Drafted(r)'
      BY <3>0 DEF Drafted, Progress
    <3>6. Answered(r)'
      BY <3>0 DEF Answered, VersionsOf, Stored, KeyOf
    <3>7. QED
      BY <3>1, <3>2, <3>3, <3>4, <3>5, <3>6
  <2>5. CASE ReadCurrent(r)
    <3>0. /\ pc[r] = "current" /\ pc'[r] = "recheck" /\ lock' = lock
          /\ demotes'[r] = demotes[r] /\ draft'[r] = draft[r]
          /\ answer'[r] = answer[r]
          /\ \/ CurrentRows(KeyOf(r)) = {} /\ current'[r] = current[r]
             \/ current'[r] \in CurrentRows(KeyOf(r))
      BY <2>5 DEF ReadCurrent, TypeOK, Goto
    <3>1. Excludes(r)'
      BY <3>0 DEF Excludes, LockOf, KeyOf
    <3>2. Fresh(r)'
      <4>1. KeyOf(r) \in Keys
        BY DEF TypeOK, KeyOf
      <4>2. CurrentRows(KeyOf(r)) = {} => VersionsOf(KeyOf(r)) = {}
        BY <4>1, NoCurrentNoVersion DEF TableInv
      <4>3. \A i \in CurrentRows(KeyOf(r)) :
              i \in VersionsOf(KeyOf(r)) /\ table[i].current /\ i # None
        BY DEF CurrentRows, VersionsOf, Stored
      <4>4. VersionsOf(KeyOf(r))' = VersionsOf(KeyOf(r))
        BY DEF VersionsOf, Stored, KeyOf
      <4>5. current[r] = None
        BY <3>0 DEF Progress
      <4>6. QED
        BY <3>0, <4>2, <4>3, <4>4, <4>5 DEF Fresh
    <3>3. Unknown(r)'
      BY <3>0 DEF Unknown, SameSchema, VersionsOf, Stored, KeyOf
    <3>4. Progress(r)'
      BY <3>0 DEF Progress
    <3>5. Drafted(r)'
      BY <3>0 DEF Drafted, Progress
    <3>6. Answered(r)'
      BY <3>0 DEF Answered, VersionsOf, Stored, KeyOf
    <3>7. QED
      BY <3>1, <3>2, <3>3, <3>4, <3>5, <3>6
  <2>6. CASE Recheck(r)
    <3>0. /\ pc[r] = "recheck" /\ lock' = lock
          /\ current'[r] = current[r] /\ demotes'[r] = demotes[r]
          /\ draft'[r] = draft[r]
          /\ \/ /\ SameSchema(r) = {}
                /\ pc'[r] = IF current[r] = None THEN "insert" ELSE "demote"
             \/ pc'[r] = "commit" /\ answer'[r] \in SameSchema(r)
      BY <2>6 DEF Recheck, TypeOK, Goto
    <3>1. Excludes(r)'
      BY <3>0 DEF Excludes, LockOf, KeyOf
    <3>2. Fresh(r)'
      BY <3>0 DEF Fresh, VersionsOf, Stored, KeyOf
    <3>3. Unknown(r)'
      BY <3>0 DEF Unknown, SameSchema, VersionsOf, Stored, KeyOf
    <3>4. Progress(r)'
      BY <3>0 DEF Progress
    <3>5. Drafted(r)'
      BY <3>0 DEF Drafted, Progress
    <3>6. Answered(r)'
      BY <3>0 DEF Answered, VersionsOf, Stored, KeyOf, SameSchema, Progress
    <3>7. QED
      BY <3>1, <3>2, <3>3, <3>4, <3>5, <3>6
  <2>7. CASE Demote(r)
    <3>0. /\ pc[r] = "demote" /\ pc'[r] = "insert" /\ lock' = lock
          /\ current'[r] = current[r] /\ demotes'[r]
          /\ draft'[r] = draft[r] /\ answer'[r] = answer[r]
      BY <2>7 DEF Demote, TypeOK, Goto
    <3>1. Excludes(r)'
      BY <3>0 DEF Excludes, LockOf, KeyOf
    <3>2. Fresh(r)'
      BY <3>0 DEF Fresh, VersionsOf, Stored, KeyOf
    <3>3. Unknown(r)'
      BY <3>0 DEF Unknown, SameSchema, VersionsOf, Stored, KeyOf
    <3>4. Progress(r)'
      BY <3>0 DEF Progress
    <3>5. Drafted(r)'
      BY <3>0 DEF Drafted, Progress
    <3>6. Answered(r)'
      BY <3>0 DEF Answered, VersionsOf, Stored, KeyOf
    <3>7. QED
      BY <3>1, <3>2, <3>3, <3>4, <3>5, <3>6
  <2>8. CASE InsertVersion(r)
    <3>0. /\ pc[r] = "insert" /\ lock' = lock
          /\ pc'[r] = IF current[r] = None THEN "commit" ELSE "classify"
          /\ current'[r] = current[r] /\ demotes'[r] = demotes[r]
          /\ draft'[r] = [key |-> KeyOf(r), version |-> NextVersion(r),
                          fp |-> payload[r].fp, prev |-> current[r],
                          current |-> TRUE, class |-> Safe]
          /\ draft'[r] # None /\ answer'[r] = r
      <4>1. draft'[r] # None
        BY <2>8, InsertedRow
      <4>2. QED
        BY <2>8, <4>1 DEF InsertVersion, TypeOK, Goto
    <3>1. Excludes(r)'
      BY <3>0 DEF Excludes, LockOf, KeyOf
    <3>2. Fresh(r)'
      BY <3>0 DEF Fresh, VersionsOf, Stored, KeyOf
    <3>3. Unknown(r)'
      BY <3>0 DEF Unknown, SameSchema, VersionsOf, Stored, KeyOf
    <3>4. Progress(r)'
      BY <3>0 DEF Progress
    <3>5. Drafted(r)'
      <4>1. demotes'[r] <=> current'[r] # None
        BY <3>0 DEF Progress
      <4>2. /\ draft'[r].key = KeyOf(r)' /\ draft'[r].fp = payload'[r].fp
            /\ draft'[r].prev = current'[r] /\ draft'[r].current
            /\ draft'[r].version = NextVersion(r)' /\ draft'[r].class = Safe
        BY <3>0 DEF NextVersion, KeyOf
      <4>3. pc'[r] = "commit" => current'[r] = None
        BY <3>0
      <4>4. QED
        BY <4>1, <4>2, <4>3 DEF Drafted
    <3>6. Answered(r)'
      BY <3>0 DEF Answered, VersionsOf, Stored, KeyOf
    <3>7. QED
      BY <3>1, <3>2, <3>3, <3>4, <3>5, <3>6
  <2>9. CASE ClassifyVersion(r)
    <3>0. /\ pc[r] = "classify" /\ pc'[r] = "commit" /\ lock' = lock
          /\ current'[r] = current[r] /\ demotes'[r] = demotes[r]
          /\ answer'[r] = answer[r] /\ draft[r] # None /\ draft'[r] # None
          /\ draft'[r] = Classified(draft[r],
               Verdict[table[draft[r].prev].fp][payload[r].fp])
      <4>1. draft'[r] # None
        BY <2>9, ClassifiedRow
      <4>2. QED
        BY <2>9, <4>1 DEF ClassifyVersion, TypeOK, Goto, Progress
    <3>1. Excludes(r)'
      BY <3>0 DEF Excludes, LockOf, KeyOf
    <3>2. Fresh(r)'
      BY <3>0 DEF Fresh, VersionsOf, Stored, KeyOf
    <3>3. Unknown(r)'
      BY <3>0 DEF Unknown, SameSchema, VersionsOf, Stored, KeyOf
    <3>4. Progress(r)'
      BY SMTT(30), <3>0 DEF Progress
    <3>5. Drafted(r)'
      <4>1. demotes'[r] <=> current'[r] # None
        BY <3>0 DEF Drafted
      <4>2. draft[r].prev = current[r] /\ current[r] # None
        BY <3>0 DEF Drafted, Progress
      <4>3. /\ draft'[r].key = KeyOf(r)' /\ draft'[r].fp = payload'[r].fp
            /\ draft'[r].prev = current'[r] /\ draft'[r].version = NextVersion(r)'
        BY <3>0 DEF Drafted, NextVersion, KeyOf, Classified
      <4>4. draft'[r].current
        BY <3>0 DEF Drafted, Classified
      <4>5. draft'[r].class = Verdict[table'[current'[r]].fp][payload'[r].fp]
        BY <3>0, <4>2 DEF Classified
      <4>6. QED
        BY <3>0, <4>1, <4>2, <4>3, <4>4, <4>5 DEF Drafted
    <3>6. Answered(r)'
      BY <3>0 DEF Answered, VersionsOf, Stored, KeyOf
    <3>7. QED
      BY <3>1, <3>2, <3>3, <3>4, <3>5, <3>6
  <2>10. CASE Abort(r)
    <3>0. /\ pc[r] \in Running /\ pc'[r] = "failed"
          /\ current'[r] = None /\ ~demotes'[r] /\ draft'[r] = None
      BY <2>10 DEF Abort, TypeOK, Goto, EndTransaction
    <3>1. Excludes(r)'
      BY <3>0 DEF Excludes, LockOf, KeyOf
    <3>2. Fresh(r)'
      BY <3>0 DEF Fresh, VersionsOf, Stored, KeyOf
    <3>3. Unknown(r)'
      BY <3>0 DEF Unknown, SameSchema, VersionsOf, Stored, KeyOf
    <3>4. Progress(r)'
      BY <3>0 DEF Progress
    <3>5. Drafted(r)'
      BY <3>0 DEF Drafted, NextVersion, KeyOf
    <3>6. Answered(r)'
      BY <3>0 DEF Answered, VersionsOf, Stored, KeyOf
    <3>7. QED
      BY <3>1, <3>2, <3>3, <3>4, <3>5, <3>6
  <2>11. QED
    BY <2>1, <2>2, <2>3, <2>4, <2>5, <2>6, <2>7, <2>8, <2>9, <2>10
<1>5. QED
  BY <1>2, <1>3, <1>4

-----------------------------------------------------------------------------
(* The commit, the only step that changes the committed table.             *)

\* A transaction without a version row of its own changes nothing.
LEMMA CommitNothing ==
  ASSUME RegistryInv, NEW r \in Requests, Commit(r), draft[r] = None
  PROVE  table' = table
<1>1. ~demotes[r]
  BY DEF RegistryInv, RequestInv, Progress, Commit
<1>2. Written(r) = [i \in Requests |-> table[i]]
  BY <1>1 DEF Written
<1>3. QED
  BY <1>2 DEF Commit, RegistryInv, TypeOK

\* What the commit of a version row does: it appears, the row it read as the
\* current one is demoted, every other row stays as it is.
Appended(r) ==
  /\ table[r] = None /\ table'[r] = draft[r] /\ draft[r] \in Row
  /\ current[r] # None =>
       /\ current[r] \in VersionsOf(KeyOf(r)) /\ table[current[r]].current
       /\ table'[current[r]] = Demoted(table[current[r]])
       /\ draft[r].version = table[current[r]].version + 1
       /\ draft[r].class = Verdict[table[current[r]].fp][draft[r].fp]
  /\ current[r] = None =>
       /\ VersionsOf(KeyOf(r)) = {} /\ draft[r].version = 1
       /\ draft[r].class = Safe
  /\ \A i \in Requests \ {r, current[r]} : table'[i] = table[i]
  /\ draft[r].key = KeyOf(r) /\ draft[r].fp = payload[r].fp
  /\ draft[r].prev = current[r] /\ draft[r].current
  /\ SameSchema(r) = {}

\* A request that commits a version row of its own appends it to its endpoint.
LEMMA CommitAppends ==
  ASSUME RegistryInv, NEW r \in Requests, Commit(r), draft[r] # None
  PROVE  Appended(r)
<1>0. TypeOK /\ RequestInv(r)
  BY DEF RegistryInv
<1>1. pc[r] = "commit" /\ table[r] = None
  BY <1>0 DEF RequestInv, Progress, Commit
<1>2. /\ draft[r].key = KeyOf(r) /\ draft[r].fp = payload[r].fp
      /\ draft[r].prev = current[r] /\ draft[r].current
      /\ draft[r].version = NextVersion(r)
      /\ demotes[r] <=> current[r] # None
      /\ draft[r].class = IF current[r] = None THEN Safe
                          ELSE Verdict[table[current[r]].fp][payload[r].fp]
  BY <1>0, <1>1 DEF RequestInv, Drafted
<1>3. draft[r] \in Row
  BY <1>0 DEF TypeOK
<1>4. /\ current[r] = None => VersionsOf(KeyOf(r)) = {}
      /\ current[r] # None => /\ current[r] \in VersionsOf(KeyOf(r))
                              /\ table[current[r]].current
  BY <1>0 DEF RequestInv, Fresh
<1>5. SameSchema(r) = {}
  BY <1>0 DEF RequestInv, Unknown
<1>6. current[r] # r
  BY <1>1, <1>4, NoneAssumption DEF VersionsOf, Stored
<1>7. table' = Written(r)
  BY DEF Commit
<1>8. table'[r] = draft[r]
  BY <1>7 DEF Written
<1>9. \A i \in Requests \ {r, current[r]} : table'[i] = table[i]
  BY <1>7 DEF Written
<1>10. current[r] # None => table'[current[r]] = Demoted(table[current[r]])
  <2>1. current[r] # None => demotes[r]
    BY <1>2
  <2>2. QED
    BY <1>0, <1>6, <1>7, <2>1 DEF Written, TypeOK
<1>11. /\ current[r] = None => draft[r].version = 1
       /\ current[r] # None => draft[r].version = table[current[r]].version + 1
  BY <1>2 DEF NextVersion
<1>12. QED
  BY <1>1, <1>2, <1>3, <1>4, <1>5, <1>8, <1>9, <1>10, <1>11 DEF Appended

\* The table after such a commit, column by column.
LEMMA AppendedRows ==
  ASSUME TypeOK, NEW r \in Requests, Appended(r)
  PROVE  /\ Stored' = Stored \union {r} /\ r \notin Stored
         /\ \A i \in Stored :
              /\ table[i] \in Row /\ table'[i] # None
              /\ table'[i].key = table[i].key
              /\ table'[i].version = table[i].version
              /\ table'[i].fp = table[i].fp
              /\ table'[i].prev = table[i].prev
              /\ table'[i].class = table[i].class
              /\ table'[i].current => table[i].current
              /\ table[i].key # KeyOf(r) => table'[i] = table[i]
              /\ table[i].key = KeyOf(r) /\ table'[i].current => i # current[r]
         /\ current[r] # None => table'[current[r]].current = FALSE
<1>0. \A i \in Stored : i \in Requests /\ table[i] \in Row
  BY DEF TypeOK, Stored
<1>1. current[r] # None => current[r] \in Stored /\ table[current[r]].key = KeyOf(r)
  BY DEF Appended, VersionsOf
<1>2. current[r] # None =>
        Demoted(table[current[r]]) \in Row /\ Demoted(table[current[r]]) # None
  <2>1. SUFFICES ASSUME current[r] # None PROVE Demoted(table[current[r]]) \in Row
    BY NoneAssumption
  <2>2. table[current[r]] \in Row
    BY <1>0, <1>1, <2>1
  <2>3. QED
    BY <2>2 DEF Demoted, Row
<1>3. Stored' = Stored \union {r} /\ r \notin Stored
  <2>1. draft[r] # None
    BY NoneAssumption DEF Appended
  <2>2. QED
    BY <1>1, <1>2, <2>1, NoneAssumption DEF Appended, Stored
<1>4. ASSUME NEW i \in Stored, i = current[r]
      PROVE  /\ table'[i] = Demoted(table[i]) /\ table'[i] # None
             /\ table[i].key = KeyOf(r) /\ table[i].current
  <2>1. current[r] # None
    BY <1>0, <1>4, NoneAssumption
  <2>2. QED
    BY <1>1, <1>2, <1>4, <2>1 DEF Appended
<1>5. ASSUME NEW i \in Stored, i # current[r] PROVE table'[i] = table[i]
  BY <1>0, <1>3, <1>5 DEF Appended
<1>6. \A i \in Stored :
              /\ table[i] \in Row /\ table'[i] # None
              /\ table'[i].key = table[i].key
              /\ table'[i].version = table[i].version
              /\ table'[i].fp = table[i].fp
              /\ table'[i].prev = table[i].prev
              /\ table'[i].class = table[i].class
  <2> TAKE i \in Stored
  <2>1. CASE i = current[r]
    <3>1. table'[i] = Demoted(table[i]) /\ table'[i] # None
      BY <1>4, <2>1
    <3>2. QED
      BY <1>0, <3>1 DEF Demoted
  <2>2. CASE i # current[r]
    BY <1>0, <1>5, <2>2 DEF Stored
  <2>3. QED
    BY <2>1, <2>2
<1>7. \A i \in Stored : i = current[r] => table'[i].current = FALSE
  <2> SUFFICES ASSUME NEW i \in Stored, i = current[r] PROVE table'[i].current = FALSE
    OBVIOUS
  <2>1. table'[i] = Demoted(table[i])
    BY <1>4
  <2>2. QED
    BY <2>1 DEF Demoted
<1>8. \A i \in Stored :
              /\ table'[i].current => table[i].current
              /\ table[i].key # KeyOf(r) => table'[i] = table[i]
              /\ table[i].key = KeyOf(r) /\ table'[i].current => i # current[r]
  <2> TAKE i \in Stored
  <2>1. CASE i = current[r]
    BY <1>4, <1>7, <2>1
  <2>2. CASE i # current[r]
    BY <1>5, <2>2
  <2>3. QED
    BY <2>1, <2>2
<1>9. QED
  BY <1>1, <1>3, <1>6, <1>7, <1>8

\* The table invariant survives: the new version is one above the highest one
\* of its endpoint, or the first, and its schema is new there.
LEMMA AppendedTable ==
  ASSUME TypeOK, TableInv, NEW r \in Requests, Appended(r)
  PROVE  TableInv'
<1> DEFINE K == KeyOf(r)
<1>1. /\ Stored' = Stored \union {r} /\ r \notin Stored
      /\ \A i \in Stored :
              /\ table[i] \in Row /\ table'[i] # None
              /\ table'[i].key = table[i].key
              /\ table'[i].version = table[i].version
              /\ table'[i].fp = table[i].fp
              /\ table'[i].prev = table[i].prev
              /\ table'[i].class = table[i].class
              /\ table'[i].current => table[i].current
              /\ table[i].key # KeyOf(r) => table'[i] = table[i]
              /\ table[i].key = KeyOf(r) /\ table'[i].current => i # current[r]
  BY AppendedRows
<1>2. /\ table'[r].key = K /\ table'[r].fp = payload[r].fp
      /\ table'[r].prev = current[r] /\ table'[r].current
      /\ table'[r].version \in Nat
  BY DEF Appended, Row
<1>3. current[r] # None => /\ current[r] \in Stored
                           /\ table[current[r]].key = K
                           /\ table[current[r]].current
                           /\ table'[r].version = table[current[r]].version + 1
                           /\ table'[r].class =
                                Verdict[table[current[r]].fp][table'[r].fp]
  BY DEF Appended, VersionsOf
<1>4. current[r] = None => /\ \A i \in Stored : table[i].key # K
                           /\ table'[r].version = 1 /\ table'[r].class = Safe
  BY DEF Appended, VersionsOf
<1>5. ASSUME NEW i \in Stored, table[i].key = K
      PROVE  /\ current[r] # None /\ ~table'[i].current
             /\ table'[i].version < table'[r].version
             /\ table'[i].fp # table'[r].fp
  <2>1. current[r] # None
    BY <1>4, <1>5
  <2>2. ~table'[i].current
    BY <1>1, <1>3, <1>5, <2>1 DEF TableInv, OneCurrent
  <2>3. table[i].version <= table[current[r]].version
    <3>1. CASE i = current[r]
      BY <1>1, <3>1 DEF Row
    <3>2. CASE i # current[r]
      BY <1>1, <1>3, <1>5, <2>1, <3>2 DEF TableInv, OneCurrent, Row
    <3>3. QED
      BY <3>1, <3>2
  <2>4. table'[i].version < table'[r].version
    <3>1. table[i].version \in Nat /\ table[current[r]].version \in Nat
      BY <1>1, <1>3, <2>1 DEF Row
    <3>2. QED
      BY <1>1, <1>3, <2>1, <2>3, <3>1
  <2>5. table'[i].fp # table'[r].fp
    BY <1>1, <1>2, <1>5 DEF Appended, SameSchema, VersionsOf
  <2>6. QED
    BY <2>1, <2>2, <2>4, <2>5
<1>6. StoredUnique'
  <2> SUFFICES ASSUME NEW i \in Stored', NEW j \in Stored', i # j,
                      table'[i].key = table'[j].key
               PROVE  table'[i].version # table'[j].version /\ table'[i].fp # table'[j].fp
    BY DEF StoredUnique
  <2>1. CASE i = r
    <3>1. j \in Stored /\ table[j].key = K
      BY <1>1, <1>2, <2>1
    <3>2. table[j].version \in Nat
      BY <1>1, <3>1 DEF Row
    <3>3. QED
      BY <1>1, <1>2, <1>5, <2>1, <3>1, <3>2
  <2>2. CASE j = r
    <3>1. i \in Stored /\ table[i].key = K
      BY <1>1, <1>2, <2>2
    <3>2. table[i].version \in Nat
      BY <1>1, <3>1 DEF Row
    <3>3. QED
      BY <1>1, <1>2, <1>5, <2>2, <3>1, <3>2
  <2>3. CASE i # r /\ j # r
    BY <1>1, <2>3 DEF TableInv, StoredUnique
  <2>4. QED
    BY <2>1, <2>2, <2>3
<1>7. OneCurrent'
  <2>1. ASSUME NEW i \in Stored', NEW j \in Stored', i # j,
               table'[i].key = table'[j].key, table'[i].current
        PROVE  ~table'[j].current /\ table'[j].version < table'[i].version
    <3>1. CASE i = r
      BY <1>1, <1>2, <1>5, <2>1, <3>1
    <3>2. CASE i # r
      <4>1. i \in Stored /\ table[i].key # K /\ table[i].current
        BY <1>1, <1>5, <2>1, <3>2
      <4>2. j \in Stored /\ table[j].key = table[i].key
        BY <1>1, <1>2, <2>1, <4>1
      <4>3. ~table[j].current /\ table[j].version < table[i].version
        BY <2>1, <4>1, <4>2 DEF TableInv, OneCurrent
      <4>4. QED
        BY <1>1, <4>1, <4>2, <4>3
    <3>3. QED
      BY <3>1, <3>2
  <2>2. ASSUME NEW i \in Stored'
        PROVE  \E j \in Stored' : table'[j].key = table'[i].key /\ table'[j].current
    <3>1. CASE table'[i].key = K
      BY <1>1, <1>2, <3>1
    <3>2. CASE table'[i].key # K
      <4>1. i \in Stored /\ table[i].key # K
        BY <1>1, <1>2, <3>2
      <4>2. PICK j \in Stored : table[j].key = table[i].key /\ table[j].current
        BY <4>1 DEF TableInv, OneCurrent
      <4>3. table'[j] = table[j] /\ j \in Stored'
        BY <1>1, <4>1, <4>2
      <4>4. QED
        BY <1>1, <4>1, <4>2, <4>3
    <3>3. QED
      BY <3>1, <3>2
  <2>3. QED
    BY <2>1, <2>2 DEF OneCurrent
<1>8. VersionChain'
  <2> SUFFICES ASSUME NEW i \in Stored'
               PROVE  \/ table'[i].prev = None /\ table'[i].version = 1
                      \/ /\ table'[i].prev \in Stored'
                         /\ table'[table'[i].prev].key = table'[i].key
                         /\ table'[i].version = table'[table'[i].prev].version + 1
    BY DEF VersionChain, VersionsOf
  <2>1. CASE i = r
    BY <1>1, <1>2, <1>3, <1>4, <2>1
  <2>2. CASE i # r
    <3>1. i \in Stored
      BY <1>1, <2>2
    <3>2. \/ table[i].prev = None /\ table[i].version = 1
          \/ /\ table[i].prev \in Stored
             /\ table[table[i].prev].key = table[i].key
             /\ table[i].version = table[table[i].prev].version + 1
      BY <3>1 DEF TableInv, VersionChain, VersionsOf
    <3>3. QED
      BY <1>1, <3>1, <3>2
  <2>3. QED
    BY <2>1, <2>2
<1>9. ClassifiedAgainstPredecessor'
  <2> SUFFICES ASSUME NEW i \in Stored'
               PROVE  table'[i].class = IF table'[i].prev = None THEN Safe
                        ELSE Verdict[table'[table'[i].prev].fp][table'[i].fp]
    BY DEF ClassifiedAgainstPredecessor
  <2>1. CASE i = r
    BY <1>1, <1>2, <1>3, <1>4, <2>1
  <2>2. CASE i # r
    <3>1. i \in Stored
      BY <1>1, <2>2
    <3>2. table[i].class = IF table[i].prev = None THEN Safe
                        ELSE Verdict[table[table[i].prev].fp][table[i].fp]
      BY <3>1 DEF TableInv, ClassifiedAgainstPredecessor
    <3>3. table[i].prev # None => table[i].prev \in Stored
      BY <3>1 DEF TableInv, VersionChain, VersionsOf
    <3>4. QED
      BY <1>1, <3>1, <3>2, <3>3
  <2>3. QED
    BY <2>1, <2>2
<1>10. QED
  BY <1>6, <1>7, <1>8, <1>9 DEF TableInv

\* The committing request is answered with a row of the table.
LEMMA CommitSelf ==
  ASSUME RegistryInv, NEW r \in Requests, Commit(r)
  PROVE  RequestInv(r)'
<1>0. TypeOK /\ RequestInv(r)
  BY DEF RegistryInv
<1>1. /\ pc[r] = "commit" /\ pc'[r] = "done" /\ payload' = payload
      /\ current'[r] = None /\ ~demotes'[r] /\ draft'[r] = None
      /\ answer' = answer
  BY <1>0 DEF Commit, Goto, EndTransaction, TypeOK
<1>2. answer'[r] \in VersionsOf(KeyOf(r))' /\ table'[answer'[r]].fp = payload'[r].fp
  <2>1. CASE draft[r] = None
    <3>1. table' = table
      BY <2>1, CommitNothing
    <3>2. QED
      BY <1>0, <1>1, <2>1, <3>1 DEF RequestInv, Answered, VersionsOf, Stored, KeyOf
  <2>2. CASE draft[r] # None
    <3>1. Appended(r) /\ answer[r] = r
      BY <1>0, <2>2, CommitAppends DEF RequestInv, Answered
    <3>2. r \in Stored'
      BY <3>1, NoneAssumption DEF Appended, Stored
    <3>3. QED
      BY <1>1, <3>1, <3>2 DEF Appended, VersionsOf, KeyOf
  <2>3. QED
    BY <2>1, <2>2
<1>3. QED
  BY <1>1, <1>2 DEF RequestInv, Excludes, Fresh, Unknown, Progress, Drafted,
     Answered, Locked, Unlocked, Deciding, Finished

\* A request that holds a lock or a draft is on another endpoint than the one
\* whose lock the committing request holds; the others only lose nothing.
LEMMA CommitOthers ==
  ASSUME RegistryInv, NEW r \in Requests, Commit(r),
         NEW q \in Requests, q # r
  PROVE  RequestInv(q)'
<1>0. TypeOK /\ RequestInv(q) /\ RequestInv(r)
  BY DEF RegistryInv
<1>1. /\ payload' = payload /\ pc'[q] = pc[q] /\ current'[q] = current[q]
      /\ demotes'[q] = demotes[q] /\ draft'[q] = draft[q]
      /\ answer'[q] = answer[q]
  BY <1>0 DEF Commit, Goto, EndTransaction, TypeOK
<1>2. lock[LockOf(q)] = q => lock'[LockOf(q)] = q
  <2>1. LockOf(q) \in LockIds
    BY <1>0, LockIdAssumption DEF TypeOK, LockOf, KeyOf
  <2>2. QED
    BY <2>1 DEF Commit, EndTransaction
<1>3. CASE draft[r] = None
  <2>1. table' = table
    BY <1>3, CommitNothing
  <2>2. QED
    BY <1>0, <1>1, <1>2, <2>1, RequestFrame
<1>4. CASE draft[r] # None
  <2>0. Appended(r)
    BY <1>4, CommitAppends
  <2>1. /\ Stored' = Stored \union {r} /\ r \notin Stored
        /\ \A i \in Stored :
              /\ table'[i] # None
              /\ table'[i].key = table[i].key
              /\ table'[i].fp = table[i].fp
              /\ table[i].key # KeyOf(r) => table'[i] = table[i]
    <3>1. Stored' = Stored \union {r} /\ r \notin Stored
      BY ZenonT(60), <1>0, <2>0, AppendedRows
    <3>2. \A i \in Stored : /\ table'[i] # None
                            /\ table'[i].key = table[i].key
                            /\ table'[i].fp = table[i].fp
      BY ZenonT(60), <1>0, <2>0, AppendedRows
    <3>3. \A i \in Stored : table[i].key # KeyOf(r) => table'[i] = table[i]
      BY ZenonT(60), <1>0, <2>0, AppendedRows
    <3>4. QED
      BY <3>1, <3>2, <3>3
  <2>2. lock[LockOf(r)] = r
    BY <1>0, <1>4 DEF RequestInv, Excludes
  <2>3. pc[q] \in Locked \/ draft[q] # None => KeyOf(q) # KeyOf(r)
    <3>1. pc[q] \in Locked \/ draft[q] # None => lock[LockOf(q)] = q
      BY <1>0 DEF RequestInv, Excludes
    <3>2. QED
      BY <2>2, <3>1 DEF LockOf
  <2>4. KeyOf(q) # KeyOf(r) =>
          /\ VersionsOf(KeyOf(q))' = VersionsOf(KeyOf(q))
          /\ \A i \in VersionsOf(KeyOf(q)) : table'[i] = table[i]
          /\ SameSchema(q)' = SameSchema(q)
    <3>1. SUFFICES ASSUME KeyOf(q) # KeyOf(r)
                   PROVE  /\ VersionsOf(KeyOf(q))' = VersionsOf(KeyOf(q))
                          /\ \A i \in VersionsOf(KeyOf(q)) : table'[i] = table[i]
                          /\ SameSchema(q)' = SameSchema(q)
      OBVIOUS
    <3>2. table'[r].key = KeyOf(r) /\ KeyOf(q)' = KeyOf(q)
      BY <1>1, <2>0 DEF Appended, KeyOf
    <3>3. VersionsOf(KeyOf(q))' = VersionsOf(KeyOf(q))
      BY <2>1, <3>1, <3>2 DEF VersionsOf
    <3>4. \A i \in VersionsOf(KeyOf(q)) : table'[i] = table[i]
      BY <2>1, <3>1 DEF VersionsOf
    <3>5. SameSchema(q)' = SameSchema(q)
      BY <1>1, <3>3, <3>4 DEF SameSchema
    <3>6. QED
      BY <3>3, <3>4, <3>5
  <2>5. Excludes(q)'
    BY <1>0, <1>1, <1>2 DEF RequestInv, Excludes, LockOf, KeyOf
  <2>6. Fresh(q)'
    <3>1. SUFFICES ASSUME pc[q] \in Deciding \/ draft[q] # None
                   PROVE  /\ current[q] = None => VersionsOf(KeyOf(q))' = {}
                          /\ current[q] # None =>
                               /\ current[q] \in VersionsOf(KeyOf(q))'
                               /\ table'[current[q]].current
      BY <1>1 DEF Fresh
    <3>2. KeyOf(q) # KeyOf(r)
      BY <2>3, <3>1 DEF Deciding, Locked
    <3>3. QED
      BY <1>0, <2>4, <3>1, <3>2 DEF RequestInv, Fresh
  <2>7. Unknown(q)'
    <3>1. pc[q] \in {"demote", "insert"} => pc[q] \in Locked
      BY DEF Locked
    <3>2. QED
      BY <1>0, <1>1, <2>3, <2>4, <3>1 DEF RequestInv, Unknown
  <2>8. Progress(q)'
    <3>1. table'[q] # None => table[q] # None
      BY <2>0, <2>1, NoneAssumption DEF Stored, Appended, VersionsOf
    <3>2. QED
      BY <1>0, <1>1, <3>1 DEF RequestInv, Progress
  <2>9. Drafted(q)'
    <3>1. SUFFICES ASSUME draft[q] # None PROVE Drafted(q)'
      BY <1>1 DEF Drafted
    <3>2. KeyOf(q) # KeyOf(r)
      BY <2>3, <3>1
    <3>3. current[q] # None => table'[current[q]] = table[current[q]]
      BY <1>0, <2>4, <3>1, <3>2 DEF RequestInv, Fresh
    <3>4. NextVersion(q)' = NextVersion(q)
      BY <1>1, <3>3 DEF NextVersion
    <3>5. KeyOf(q)' = KeyOf(q)
      BY <1>1 DEF KeyOf
    <3>6. QED
      BY <1>0, <1>1, <3>3, <3>4, <3>5 DEF RequestInv, Drafted
  <2>10. Answered(q)'
    BY <1>0, <1>1, <2>1 DEF RequestInv, Answered, VersionsOf, KeyOf
  <2>11. QED
    BY <2>5, <2>6, <2>7, <2>8, <2>9, <2>10 DEF RequestInv
<1>5. QED
  BY <1>3, <1>4

-----------------------------------------------------------------------------
(* The theorems.                                                           *)

\* With an empty table and idle requests the invariant holds.
LEMMA RegistryInit == Init => RegistryInv
<1> SUFFICES ASSUME Init PROVE RegistryInv
  OBVIOUS
<1>1. TypeOK
  BY TypeInit
<1>2. Stored = {}
  BY DEF Init, Stored
<1>3. TableInv
  BY <1>2 DEF TableInv, StoredUnique, OneCurrent, VersionChain,
     ClassifiedAgainstPredecessor
<1>4. ASSUME NEW r \in Requests PROVE RequestInv(r)
  BY DEF Init, RequestInv, Excludes, Fresh, Unknown, Progress, Drafted, Answered,
     Locked, Unlocked, Deciding, Finished
<1>5. QED
  BY <1>1, <1>3, <1>4 DEF RegistryInv

\* Every step of upsert_schema_version, its commit and its rollback keep the
\* invariant.
LEMMA RegistryStep == RegistryInv /\ [Next]_vars => RegistryInv'
<1> SUFFICES ASSUME RegistryInv, [Next]_vars PROVE RegistryInv'
  OBVIOUS
<1>1. TypeOK'
  BY TypeStep
<1>2. ASSUME NEW r \in Requests, Start(r) \/ Step(r) \/ Abort(r)
      PROVE  TableInv' /\ \A q \in Requests : RequestInv(q)'
  <2>1. CASE Commit(r)
    <3>1. TableInv'
      <4>1. CASE draft[r] = None
        BY <2>1, <4>1, CommitNothing, TableFrame DEF RegistryInv
      <4>2. CASE draft[r] # None
        <5>1. Appended(r)
          BY <2>1, <4>2, CommitAppends
        <5>2. QED
          BY <5>1, AppendedTable DEF RegistryInv
      <4>3. QED
        BY <4>1, <4>2
    <3>2. \A q \in Requests : RequestInv(q)'
      BY <2>1, CommitSelf, CommitOthers
    <3>3. QED
      BY <3>1, <3>2
  <2>2. CASE ~Commit(r)
    BY <1>2, <2>2, QuietStep DEF Step
  <2>3. QED
    BY <2>1, <2>2
<1>3. CASE UNCHANGED vars
  <2>1. TableInv'
    BY <1>3, TableFrame DEF RegistryInv, vars
  <2>2. ASSUME NEW q \in Requests PROVE RequestInv(q)'
    BY <1>3, RequestFrame DEF RegistryInv, vars
  <2>3. QED
    BY <1>1, <2>1, <2>2 DEF RegistryInv
<1>4. QED
  BY <1>1, <1>2, <1>3 DEF Next, Quiescent, RegistryInv

\* The inductive invariant holds in every reachable state.
THEOREM Invariance == Spec => []RegistryInv
<1>1. Init => RegistryInv
  BY RegistryInit
<1>2. RegistryInv /\ [Next]_vars => RegistryInv'
  BY RegistryStep
<1>3. QED
  BY <1>1, <1>2, PTL DEF Spec

\* The registry's variables keep their types, whatever the interleaving.
THEOREM TypeCorrect == Spec => []TypeOK
  BY Invariance, PTL DEF RegistryInv

\* previous_version_id and version form one gapless chain per endpoint.
THEOREM ChainCorrect == Spec => []VersionChain
<1>1. RegistryInv => VersionChain
  BY DEF RegistryInv, TableInv
<1>2. QED
  BY <1>1, Invariance, PTL

\* No committed classification is the provisional one of the insert.
THEOREM ClassificationCorrect == Spec => []ClassifiedAgainstPredecessor
<1>1. RegistryInv => ClassifiedAgainstPredecessor
  BY DEF RegistryInv, TableInv
<1>2. QED
  BY <1>1, Invariance, PTL

\* An endpoint with versions has one current row and it is the highest version.
THEOREM CurrentCorrect == Spec => []CurrentIsLatest
<1>1. RegistryInv => CurrentIsLatest
  <2> SUFFICES ASSUME RegistryInv, NEW k \in Keys, NEW m \in VersionsOf(k)
               PROVE  \E i \in VersionsOf(k) :
                        /\ table[i].current
                        /\ \A j \in VersionsOf(k) \ {i} :
                             ~table[j].current /\ table[j].version < table[i].version
    BY DEF CurrentIsLatest
  <2>1. OneCurrent
    BY DEF RegistryInv, TableInv
  <2>2. PICK i \in Stored : table[i].key = k /\ table[i].current
    BY <2>1 DEF OneCurrent, VersionsOf
  <2>3. \A j \in VersionsOf(k) \ {i} :
          ~table[j].current /\ table[j].version < table[i].version
    BY <2>1, <2>2 DEF OneCurrent, VersionsOf
  <2>4. QED
    BY <2>2, <2>3 DEF VersionsOf
<1>2. QED
  BY <1>1, Invariance, PTL

\* The read of the current version is still true when the request acts on it.
THEOREM FreshReadCorrect == Spec => []CurrentReadIsFresh
<1>1. RegistryInv => CurrentReadIsFresh
  <2> SUFFICES ASSUME RegistryInv, NEW r \in Requests, pc[r] \in Deciding
               PROVE  CurrentRows(KeyOf(r)) =
                        IF current[r] = None THEN {} ELSE {current[r]}
    BY DEF CurrentReadIsFresh, Deciding
  <2>1. /\ current[r] = None => VersionsOf(KeyOf(r)) = {}
        /\ current[r] # None => /\ current[r] \in VersionsOf(KeyOf(r))
                                /\ table[current[r]].current
    BY DEF RegistryInv, RequestInv, Fresh
  <2>2. CASE current[r] = None
    BY <2>1, <2>2 DEF CurrentRows
  <2>3. CASE current[r] # None
    <3>1. \A i \in VersionsOf(KeyOf(r)) : i # current[r] => ~table[i].current
      BY <2>1, <2>3 DEF RegistryInv, TableInv, OneCurrent, VersionsOf
    <3>2. table[current[r]].version \in Nat
      BY <2>1, <2>3 DEF RegistryInv, TypeOK, Row, VersionsOf, Stored
    <3>3. current[r] \in CurrentRows(KeyOf(r))
      BY <2>1, <2>3, <3>1, <3>2 DEF CurrentRows
    <3>4. QED
      BY <2>3, <3>1, <3>3 DEF CurrentRows
  <2>4. QED
    BY <2>2, <2>3
<1>2. QED
  BY <1>1, Invariance, PTL

\* The UNIQUE constraints hold of committed and uncommitted rows together, so
\* the database never refuses an insert.
THEOREM UniqueCorrect == Spec => []UniqueConstraints
<1>1. RegistryInv => UniqueConstraints
  <2> SUFFICES ASSUME RegistryInv, NEW i \in Requests, NEW j \in Requests,
                      i # j, Exists(i), Exists(j), RowOf(i).key = RowOf(j).key
               PROVE  /\ RowOf(i).version # RowOf(j).version
                      /\ RowOf(i).fp # RowOf(j).fp
    BY DEF UniqueConstraints
  <2>1. ASSUME NEW r \in Requests, draft[r] # None, table[r] = None,
               NEW m \in Stored, table[m].key = draft[r].key
        PROVE  table[m].version # draft[r].version /\ table[m].fp # draft[r].fp
    <3>1. /\ draft[r].key = KeyOf(r) /\ draft[r].fp = payload[r].fp
          /\ draft[r].version = NextVersion(r)
      BY <2>1 DEF RegistryInv, RequestInv, Drafted
    <3>2. m \in VersionsOf(KeyOf(r))
      BY <2>1, <3>1 DEF VersionsOf
    <3>3. table[m].fp # draft[r].fp
      BY <2>1, <3>1, <3>2 DEF RegistryInv, RequestInv, Unknown, SameSchema
    <3>4. /\ current[r] # None /\ current[r] \in VersionsOf(KeyOf(r))
          /\ table[current[r]].current
      BY <2>1, <3>2 DEF RegistryInv, RequestInv, Fresh
    <3>5. table[m].version \in Nat /\ table[current[r]].version \in Nat
      BY <2>1, <3>4 DEF RegistryInv, TypeOK, Row, Stored, VersionsOf
    <3>6. m = current[r] \/ table[m].version < table[current[r]].version
      BY <3>2, <3>4 DEF RegistryInv, TableInv, OneCurrent, VersionsOf
    <3>7. QED
      BY <3>1, <3>3, <3>4, <3>5, <3>6 DEF NextVersion
  <2>2. ASSUME NEW r \in Requests, draft[r] # None PROVE table[r] = None
    BY <2>2 DEF RegistryInv, RequestInv, Progress
  <2>3. CASE table[i] # None /\ table[j] # None
    BY <2>3 DEF RegistryInv, TableInv, StoredUnique, Stored, RowOf
  <2>4. CASE table[i] = None /\ table[j] # None
    BY <2>1, <2>4 DEF Exists, RowOf, Stored
  <2>5. CASE table[i] # None /\ table[j] = None
    BY <2>1, <2>5 DEF Exists, RowOf, Stored
  <2>6. CASE table[i] = None /\ table[j] = None
    <3>1. draft[i] # None /\ draft[j] # None /\ KeyOf(i) = KeyOf(j)
      BY <2>6 DEF Exists, RowOf, RegistryInv, RequestInv, Drafted
    <3>2. lock[LockOf(i)] = i /\ lock[LockOf(j)] = j
      BY <3>1 DEF RegistryInv, RequestInv, Excludes
    <3>3. QED
      BY <3>1, <3>2 DEF LockOf
  <2>7. QED
    BY <2>3, <2>4, <2>5, <2>6
<1>2. QED
  BY <1>1, Invariance, PTL

\* A response is about a committed version of the submitted schema.
THEOREM AnswerCorrect == Spec => []AnswerIsCommitted
<1>1. RegistryInv => AnswerIsCommitted
  BY DEF RegistryInv, RequestInv, Answered, AnswerIsCommitted
<1>2. QED
  BY <1>1, Invariance, PTL

\* No step changes a committed version, except to end its being current.
THEOREM ImmutableCorrect == Spec => VersionsAreImmutable
<1> DEFINE Keeps == \A i \in Stored : /\ table'[i] # None
                                      /\ table'[i].current => table[i].current
                                      /\ Demoted(table'[i]) = Demoted(table[i])
<1>1. RegistryInv /\ [Next]_vars => [Keeps]_vars
  <2> SUFFICES ASSUME RegistryInv, Next PROVE Keeps
    OBVIOUS
  <2>1. CASE table' = table
    BY <2>1 DEF Stored
  <2>2. ASSUME NEW r \in Requests, Appended(r) PROVE Keeps
    BY <2>2, AppendedRows DEF RegistryInv, Demoted
  <2>3. ASSUME NEW r \in Requests, Start(r) \/ Step(r) \/ Abort(r) PROVE Keeps
    <3>1. CASE Commit(r)
      BY <2>1, <2>2, <3>1, CommitNothing, CommitAppends
    <3>2. CASE ~Commit(r)
      BY <2>1, <2>3, <3>2 DEF Step, Start, EnsureEndpoint, FastLookup, AcquireLock,
         ReadCurrent, Recheck, Demote, InsertVersion, ClassifyVersion, Abort
    <3>3. QED
      BY <3>1, <3>2
  <2>4. QED
    BY <2>1, <2>3 DEF Next, Quiescent, vars
<1>2. QED
  BY <1>1, Invariance, PTL DEF Spec, VersionsAreImmutable

-----------------------------------------------------------------------------
(* Classifications against the predecessor bound those over any distance.  *)

\* A verdict over two changes is at most as bad as the worse of the two, in an
\* order of the severities; CompatibilityProofs shows it of the classifier.
Composes(rank) ==
  \A f, g, h \in Fingerprints :
    \/ rank[Verdict[f][h]] <= rank[Verdict[f][g]]
    \/ rank[Verdict[f][h]] <= rank[Verdict[g][h]]

\* Between any two versions of an endpoint a class is stored, of a version after
\* the older one, that is at least as bad as the verdict of the two.
ChainBounds(rank) ==
  \A i, j \in Stored :
    table[i].key = table[j].key /\ table[i].version < table[j].version =>
      \E m \in Stored :
        /\ table[m].key = table[j].key
        /\ table[i].version < table[m].version /\ table[m].version <= table[j].version
        /\ rank[Verdict[table[i].fp][table[j].fp]] <= rank[table[m].class]

\* A version is appended above all others of its endpoint, right above the
\* current one.
LEMMA AppendedIsHighest ==
  ASSUME TypeOK, TableInv, NEW r \in Requests, Appended(r),
         NEW i \in Stored, table[i].key = KeyOf(r)
  PROVE  /\ current[r] \in Stored /\ table[current[r]].key = KeyOf(r)
         /\ i = current[r] \/ table[i].version < table[current[r]].version
         /\ table'[r].version = table[current[r]].version + 1
         /\ table'[r].class = Verdict[table[current[r]].fp][table'[r].fp]
<1>1. current[r] # None
  BY DEF Appended, VersionsOf
<1>2. /\ current[r] \in Stored /\ table[current[r]].key = KeyOf(r)
      /\ table[current[r]].current
      /\ table'[r].version = table[current[r]].version + 1
      /\ table'[r].class = Verdict[table[current[r]].fp][table'[r].fp]
  BY <1>1 DEF Appended, VersionsOf
<1>3. i = current[r] \/ table[i].version < table[current[r]].version
  BY <1>2 DEF TableInv, OneCurrent
<1>4. QED
  BY <1>2, <1>3

\* What is appended is judged against its predecessor, and against an older
\* version by the verdict of the predecessor and its own.
LEMMA AppendedKeepsBounds ==
  ASSUME TypeOK, TableInv, NEW r \in Requests, Appended(r),
         NEW rank \in [Severities -> Nat], Composes(rank), ChainBounds(rank)
  PROVE  ChainBounds(rank)'
<1>1. /\ Stored' = Stored \union {r} /\ r \notin Stored
      /\ \A i \in Stored :
              /\ table[i] \in Row
              /\ table'[i].key = table[i].key
              /\ table'[i].version = table[i].version
              /\ table'[i].fp = table[i].fp
              /\ table'[i].class = table[i].class
  BY AppendedRows
<1>2. table'[r] \in Row /\ table'[r].key = KeyOf(r)
  BY DEF Appended
<1> SUFFICES ASSUME NEW i \in Stored', NEW j \in Stored', table'[i].key = table'[j].key,
                    table'[i].version < table'[j].version
             PROVE  \E m \in Stored' :
                      /\ table'[m].key = table'[j].key
                      /\ table'[i].version < table'[m].version
                      /\ table'[m].version <= table'[j].version
                      /\ rank[Verdict[table'[i].fp][table'[j].fp]] <= rank[table'[m].class]
  BY DEF ChainBounds
<1>3. CASE i \in Stored /\ j \in Stored
  <2>1. PICK m \in Stored :
          /\ table[m].key = table[j].key
          /\ table[i].version < table[m].version /\ table[m].version <= table[j].version
          /\ rank[Verdict[table[i].fp][table[j].fp]] <= rank[table[m].class]
    BY <1>1, <1>3 DEF ChainBounds
  <2>2. QED
    BY <1>1, <1>3, <2>1
<1>4. CASE i \in Stored /\ j = r
  <2>0. PICK p : p = current[r]
    OBVIOUS
  <2>1. table[i].key = KeyOf(r)
    BY <1>1, <1>2, <1>4
  <2>2. /\ p \in Stored /\ table[p].key = KeyOf(r)
        /\ i = p \/ table[i].version < table[p].version
        /\ table'[r].version = table[p].version + 1
        /\ table'[r].class = Verdict[table[p].fp][table'[r].fp]
    BY <1>4, <2>0, <2>1, AppendedIsHighest
  <2>3. /\ table[p].version \in Nat /\ table[i].version \in Nat
        /\ table[i].fp \in Fingerprints /\ table[p].fp \in Fingerprints
        /\ table'[r].fp \in Fingerprints
    BY <1>1, <1>2, <1>4, <2>2 DEF Row
  <2>4. /\ table[i].version < table'[r].version /\ table'[r].version <= table'[r].version
    <3>1. PICK x \in Nat, y \in Nat : x = table[i].version /\ y = table[p].version
      BY <2>3
    <3>2. (i = p \/ x < y) /\ table'[r].version = y + 1
      BY <2>2, <3>1
    <3>3. x <= y
      BY <3>1, <3>2
    <3>4. x < table'[r].version /\ table'[r].version <= table'[r].version
      BY <3>2, <3>3
    <3>5. QED
      BY <3>1, <3>4
  <2>5. CASE rank[Verdict[table[i].fp][table'[r].fp]] <= rank[table'[r].class]
    <3>1. i \in Stored /\ r \in Stored'
      BY <1>1, <1>4
    <3>2. table'[i].version = table[i].version /\ table'[i].fp = table[i].fp
      BY <1>1, <3>1
    <3>3. /\ table'[r].key = table'[r].key /\ table'[i].version < table'[r].version
          /\ table'[r].version <= table'[r].version
          /\ rank[Verdict[table'[i].fp][table'[r].fp]] <= rank[table'[r].class]
      BY <2>4, <2>5, <3>2
    <3>4. QED
      BY <1>4, <3>1, <3>3
  <2>6. CASE ~(rank[Verdict[table[i].fp][table'[r].fp]] <= rank[table'[r].class])
    <3>1. i # p
      <4>1. table'[r].class \in Severities
        BY <1>2 DEF Row
      <4>2. rank[table'[r].class] \in Nat
        BY <4>1
      <4>3. i = p => rank[Verdict[table[i].fp][table'[r].fp]] = rank[table'[r].class]
        BY <2>2
      <4>4. rank[table'[r].class] <= rank[table'[r].class]
        BY <4>2
      <4>5. QED
        BY <2>6, <4>3, <4>4
    <3>2. rank[Verdict[table[i].fp][table'[r].fp]] <= rank[Verdict[table[i].fp][table[p].fp]]
      BY <2>2, <2>3, <2>6 DEF Composes
    <3>3. PICK m \in Stored :
            /\ table[m].key = table[p].key
            /\ table[i].version < table[m].version /\ table[m].version <= table[p].version
            /\ rank[Verdict[table[i].fp][table[p].fp]] <= rank[table[m].class]
      <4>1. /\ i \in Stored /\ p \in Stored /\ table[i].key = table[p].key
            /\ table[i].version < table[p].version
        BY <1>4, <2>1, <2>2, <3>1
      <4>2. QED
        BY <4>1 DEF ChainBounds
    <3>4. /\ rank[Verdict[table[i].fp][table'[r].fp]] \in Nat
          /\ rank[Verdict[table[i].fp][table[p].fp]] \in Nat
          /\ rank[table[m].class] \in Nat /\ table[m].version \in Nat
      <4>1. /\ Verdict[table[i].fp][table'[r].fp] \in Severities
            /\ Verdict[table[i].fp][table[p].fp] \in Severities
        BY <2>3, VerdictAssumption
      <4>2. table[m] \in Row
        BY <1>1
      <4>3. table[m].class \in Severities /\ table[m].version \in Nat
        BY <4>2 DEF Row
      <4>4. QED
        BY <4>1, <4>3
    <3>5. /\ rank[Verdict[table[i].fp][table'[r].fp]] <= rank[table[m].class]
          /\ table[m].version <= table'[r].version
      BY <2>2, <2>3, <3>2, <3>3, <3>4
    <3>6. QED
      BY <1>1, <1>2, <1>4, <2>2, <3>3, <3>5
  <2>7. QED
    BY <2>5, <2>6
<1>5. CASE i = r
  <2>1. j \in Stored /\ table[j].key = KeyOf(r)
    <3>1. table'[r].version \in Nat
      BY <1>2 DEF Row
    <3>2. j # r
      BY <1>5, <3>1
    <3>3. QED
      BY <1>1, <1>2, <1>5, <3>2
  <2>2. /\ current[r] \in Stored
        /\ j = current[r] \/ table[j].version < table[current[r]].version
        /\ table'[r].version = table[current[r]].version + 1
    BY <2>1, AppendedIsHighest
  <2>3. table[current[r]].version \in Nat /\ table[j].version \in Nat
    BY <1>1, <2>1, <2>2 DEF Row
  <2>4. QED
    BY <1>1, <1>5, <2>1, <2>2, <2>3
<1>6. QED
  BY <1>1, <1>3, <1>4, <1>5

\* A step of the registry either leaves the table alone or appends to it.
LEMMA StepCases ==
  ASSUME RegistryInv, [Next]_vars
  PROVE  table' = table \/ \E r \in Requests : Appended(r)
<1>1. ASSUME NEW r \in Requests, Start(r) \/ Step(r) \/ Abort(r)
      PROVE  table' = table \/ Appended(r)
  <2>1. CASE Commit(r)
    BY <2>1, CommitNothing, CommitAppends
  <2>2. CASE ~Commit(r)
    BY <1>1, <2>2 DEF Step, Start, EnsureEndpoint, FastLookup, AcquireLock,
       ReadCurrent, Recheck, Demote, InsertVersion, ClassifyVersion, Abort
  <2>3. QED
    BY <2>1, <2>2
<1>2. QED
  BY <1>1 DEF Next, Quiescent, vars

\* A consumer that follows the classifications of service.track_contract one version
\* at a time is not surprised by their sum: whatever the interleaving, the verdict
\* between any two versions is at most as bad as the worst class stored on the way.
THEOREM ChainBoundsVerdicts ==
  ASSUME NEW rank \in [Severities -> Nat], Composes(rank)
  PROVE  Spec => []ChainBounds(rank)
<1>1. Init => ChainBounds(rank)
  BY DEF Init, ChainBounds, Stored
<1>2. RegistryInv /\ ChainBounds(rank) /\ [Next]_vars => ChainBounds(rank)'
  <2> SUFFICES ASSUME RegistryInv, ChainBounds(rank), [Next]_vars PROVE ChainBounds(rank)'
    OBVIOUS
  <2>1. CASE table' = table
    BY <2>1 DEF ChainBounds, Stored
  <2>2. ASSUME NEW r \in Requests, Appended(r) PROVE ChainBounds(rank)'
    BY <2>2, AppendedKeepsBounds DEF RegistryInv
  <2>3. QED
    BY <2>1, <2>2, StepCases
<1>3. QED
  BY <1>1, <1>2, Invariance, PTL DEF Spec

-----------------------------------------------------------------------------
(* Nobody waits for ever, as long as those that are waited for go on.      *)

\* r waits until the transaction of q ends: ON CONFLICT waits for an uncommitted
\* endpoint row, and pg_advisory_xact_lock for the holder of the lock.
WaitsFor(r, q) ==
  \/ pc[r] = "ensure" /\ creates[q] /\ KeyOf(q) = KeyOf(r)
  \/ pc[r] = "lock" /\ lock[LockOf(r)] = q

\* Whom others wait for: an uncommitted endpoint row or a lock is only held by a
\* request on its way, and a lock only by one that has nothing to wait for.
Held ==
  /\ \A q \in Requests : creates[q] => pc[q] \in Running \ {"ensure"}
  /\ \A q \in Requests, l \in LockIds : lock[l] = q => pc[q] \in Locked \union {"commit"}

\* Init and every step keep it: a transaction that ends lets go of everything.
LEMMA HeldInvariance == Spec => []Held
<1>1. Init => Held
  BY NoneAssumption DEF Init, Held
<1>2. TypeOK /\ Held /\ [Next]_vars => Held'
  <2> SUFFICES ASSUME TypeOK, Held, [Next]_vars PROVE Held'
    OBVIOUS
  <2>1. ASSUME NEW r \in Requests, Start(r) \/ Step(r) \/ Abort(r) PROVE Held'
    <3>1. ASSUME NEW q \in Requests, q # r PROVE pc'[q] = pc[q] /\ (creates'[q] <=> creates[q])
      BY <2>1, <3>1 DEF TypeOK, Goto, Step, Start, EnsureEndpoint, FastLookup, AcquireLock,
         ReadCurrent, Recheck, Demote, InsertVersion, ClassifyVersion, Commit, Abort,
         EndTransaction
    <3>2. ASSUME NEW q \in Requests, q # r, NEW l \in LockIds, lock'[l] = q
          PROVE  lock[l] = q
      BY <2>1, <3>2, NoneAssumption DEF TypeOK, Step, Start, EnsureEndpoint, FastLookup,
         AcquireLock, ReadCurrent, Recheck, Demote, InsertVersion, ClassifyVersion, Commit,
         Abort, EndTransaction
    <3>3. creates'[r] => pc'[r] \in Running \ {"ensure"}
      <4>1. CASE Start(r) \/ EnsureEndpoint(r) \/ FastLookup(r) \/ AcquireLock(r)
        BY <4>1 DEF TypeOK, Held, Goto, Running, Locked, Start, EnsureEndpoint, FastLookup,
           AcquireLock
      <4>2. CASE ReadCurrent(r) \/ Recheck(r) \/ Demote(r) \/ InsertVersion(r)
        BY <4>2 DEF TypeOK, Goto, Running, Locked, ReadCurrent, Recheck, Demote, InsertVersion
      <4>3. CASE ClassifyVersion(r) \/ Commit(r) \/ Abort(r)
        BY <4>3 DEF TypeOK, Goto, Running, ClassifyVersion, Commit, Abort, EndTransaction
      <4>4. QED
        BY <2>1, <4>1, <4>2, <4>3 DEF Step
    <3>4. ASSUME NEW l \in LockIds, lock'[l] = r PROVE pc'[r] \in Locked \union {"commit"}
      <4>1. CASE Start(r) \/ EnsureEndpoint(r) \/ FastLookup(r)
        BY <3>4, <4>1 DEF Held, Locked, Start, EnsureEndpoint, FastLookup
      <4>2. CASE AcquireLock(r) \/ ReadCurrent(r) \/ Recheck(r) \/ Demote(r)
        BY <4>2 DEF TypeOK, Goto, Locked, AcquireLock, ReadCurrent, Recheck, Demote
      <4>3. CASE InsertVersion(r) \/ ClassifyVersion(r)
        BY <4>3 DEF TypeOK, Goto, Locked, InsertVersion, ClassifyVersion
      <4>4. CASE Commit(r) \/ Abort(r)
        BY <3>4, <4>4, NoneAssumption DEF Commit, Abort, EndTransaction
      <4>5. QED
        BY <2>1, <4>1, <4>2, <4>3, <4>4 DEF Step
    <3>5. QED
      BY <3>1, <3>2, <3>3, <3>4 DEF Held
  <2>2. CASE UNCHANGED vars
    BY <2>2 DEF vars, Held
  <2>3. QED
    BY <2>1, <2>2 DEF Next, Quiescent
<1>3. QED
  BY <1>1, <1>2, TypeCorrect, PTL DEF Spec

\* A chain of waiting requests ends after two: the request that registers an
\* endpoint may wait for the lock, whose holder waits for nobody.  So requests
\* never wait in a circle, and while some are running one of them can go on.
NoDeadlock ==
  /\ \A r, q, s, t \in Requests : ~(WaitsFor(r, q) /\ WaitsFor(q, s) /\ WaitsFor(s, t))
  /\ (\E r \in Requests : pc[r] \in Running) =>
       \E r \in Requests : pc[r] \in Running /\ \A q \in Requests : ~WaitsFor(r, q)

\* POST /track never deadlocks on its two waits, the endpoint row of
\* get_or_create_endpoint and the advisory lock, though unrelated endpoints
\* may share a lock number.
THEOREM RegistryNeverDeadlocks == Spec => []NoDeadlock
<1>1. TypeOK /\ Held => NoDeadlock
  <2> SUFFICES ASSUME TypeOK, Held PROVE NoDeadlock
    OBVIOUS
  <2>0. \A r \in Requests : LockOf(r) \in LockIds
    BY LockIdAssumption DEF TypeOK, LockOf, KeyOf
  <2>1. ASSUME NEW r \in Requests, NEW q \in Requests, WaitsFor(r, q)
        PROVE  pc[q] \in Running \ {"ensure"}
    BY <2>0, <2>1 DEF Held, WaitsFor, Running, Locked
  <2>2. ASSUME NEW r \in Requests, NEW q \in Requests, NEW s \in Requests,
               WaitsFor(r, q), WaitsFor(q, s)
        PROVE  \A t \in Requests : ~WaitsFor(s, t)
    <3>1. pc[q] = "lock" /\ lock[LockOf(q)] = s
      BY <2>1, <2>2 DEF WaitsFor
    <3>2. pc[s] \in Locked \union {"commit"}
      BY <2>0, <3>1 DEF Held
    <3>3. QED
      BY <3>2 DEF WaitsFor, Locked
  <2>3. QED
    BY <2>1, <2>2 DEF NoDeadlock
<1>2. QED
  BY <1>1, HeldInvariance, TypeCorrect, PTL

-----------------------------------------------------------------------------
(* The registry implements VersionHistory: a commit appends one schema,    *)
(* never seen on the endpoint, to its history, and every other step        *)
(* leaves the histories alone.                                             *)


\* Every number up to a version is the number of a version.
Dense ==
  \A i \in Stored : \A v \in 1 .. table[i].version :
    \E j \in Stored : table[j].key = table[i].key /\ table[j].version = v

HistoryOf(k) == [v \in 1 .. Latest(k) |-> FingerprintAt(k, v)]

\* A commit keeps the numbering dense.
LEMMA AppendedDense ==
  ASSUME TypeOK, Dense, NEW r \in Requests, Appended(r)
  PROVE  Dense'
<1>1. /\ Stored' = Stored \union {r} /\ r \notin Stored
      /\ \A i \in Stored : /\ table[i] \in Row
                           /\ table'[i].key = table[i].key
                           /\ table'[i].version = table[i].version
  BY AppendedRows
<1>2. /\ table'[r].key = KeyOf(r) /\ table'[r].version \in Nat
      /\ current[r] = None => table'[r].version = 1
      /\ current[r] # None => /\ current[r] \in Stored
                              /\ table[current[r]].key = KeyOf(r)
                              /\ table'[r].version = table[current[r]].version + 1
  BY DEF Appended, Row, VersionsOf
<1> SUFFICES ASSUME NEW i \in Stored', NEW v \in 1 .. table'[i].version
             PROVE  \E j \in Stored' : table'[j].key = table'[i].key
                                       /\ table'[j].version = v
  BY DEF Dense
<1>3. CASE i \in Stored
  BY <1>1, <1>3 DEF Dense
<1>4. CASE i = r /\ v = table'[r].version
  BY <1>1, <1>4
<1>5. CASE i = r /\ v # table'[r].version
  <2>1. current[r] # None
    BY <1>2, <1>5
  <2>2. table[current[r]].version \in Nat
    BY <1>1, <1>2, <2>1 DEF Row
  <2>3. v \in 1 .. table[current[r]].version
    BY <1>2, <1>5, <2>1, <2>2
  <2>4. PICK j \in Stored : table[j].key = KeyOf(r) /\ table[j].version = v
    BY <1>2, <2>1, <2>3 DEF Dense
  <2>5. QED
    BY <1>1, <1>2, <1>5, <2>4
<1>6. QED
  BY <1>1, <1>3, <1>4, <1>5

\* Version numbers have no gaps below a stored version, in every reachable state.
LEMMA DenseInvariance == Spec => []Dense
<1>1. Init => Dense
  BY DEF Init, Dense, Stored
<1>2. RegistryInv /\ Dense /\ [Next]_vars => Dense'
  <2> SUFFICES ASSUME RegistryInv, Dense, [Next]_vars PROVE Dense'
    OBVIOUS
  <2>1. CASE table' = table
    BY <2>1 DEF Dense, Stored
  <2>2. ASSUME NEW r \in Requests, Appended(r) PROVE Dense'
    BY <2>2, AppendedDense DEF RegistryInv
  <2>3. QED
    BY <2>1, <2>2, StepCases
<1>3. QED
  BY <1>1, <1>2, Invariance, PTL DEF Spec

-----------------------------------------------------------------------------
(* Reading the abstract history off the table.                             *)

\* Latest is the version of the one current row.
LEMMA LatestOfCurrent ==
  ASSUME TypeOK, TableInv, NEW k \in Keys, NEW i \in VersionsOf(k), table[i].current
  PROVE  Latest(k) = table[i].version /\ Latest(k) \in Nat
<1>1. \A j \in VersionsOf(k) : table[j].current => j = i
  BY DEF TableInv, OneCurrent, VersionsOf
<1>2. (CHOOSE j \in VersionsOf(k) : table[j].current) = i
  BY <1>1
<1>3. table[i].version \in Nat
  BY DEF TypeOK, Row, VersionsOf, Stored
<1>4. QED
  BY <1>2, <1>3 DEF Latest

\* Latest is 0 on an endpoint without versions.
LEMMA LatestOfNone ==
  ASSUME NEW k \in Keys, VersionsOf(k) = {}
  PROVE  Latest(k) = 0
  BY DEF Latest

\* FingerprintAt reads the one row of that number.
LEMMA FingerprintOfVersion ==
  ASSUME TypeOK, TableInv, NEW k \in Keys, NEW i \in VersionsOf(k)
  PROVE  FingerprintAt(k, table[i].version) = table[i].fp
<1>1. \A j \in VersionsOf(k) : table[j].version = table[i].version => j = i
  BY DEF TableInv, StoredUnique, VersionsOf
<1>2. (CHOOSE j \in VersionsOf(k) : table[j].version = table[i].version) = i
  BY <1>1
<1>3. QED
  BY <1>2 DEF FingerprintAt

\* Below the latest version every number has a row.
LEMMA HistoryRow ==
  ASSUME TypeOK, TableInv, Dense, NEW k \in Keys
  PROVE  /\ Latest(k) \in Nat
         /\ \A v \in 1 .. Latest(k) : \E i \in VersionsOf(k) :
              table[i].version = v /\ FingerprintAt(k, v) = table[i].fp
<1>1. CASE VersionsOf(k) = {}
  BY <1>1, LatestOfNone
<1>2. CASE VersionsOf(k) # {}
  <2>1. PICK m \in VersionsOf(k) : TRUE
    BY <1>2
  <2>2. PICK i \in VersionsOf(k) : table[i].current
    BY <2>1 DEF TableInv, OneCurrent, VersionsOf
  <2>3. Latest(k) = table[i].version /\ Latest(k) \in Nat
    BY <2>2, LatestOfCurrent
  <2>4. ASSUME NEW v \in 1 .. Latest(k)
        PROVE  \E j \in VersionsOf(k) :
                 table[j].version = v /\ FingerprintAt(k, v) = table[j].fp
    <3>1. PICK j \in Stored : table[j].key = table[i].key /\ table[j].version = v
      BY <2>3 DEF Dense, VersionsOf
    <3>2. j \in VersionsOf(k)
      BY <3>1 DEF VersionsOf
    <3>3. QED
      BY <3>1, <3>2, FingerprintOfVersion
  <2>5. QED
    BY <2>3, <2>4
<1>3. QED
  BY <1>1, <1>2

\* The history read off the table is a sequence of fingerprints.
LEMMA HistoryType ==
  ASSUME TypeOK, TableInv, Dense, NEW k \in Keys
  PROVE  HistoryOf(k) \in Seq(Fingerprints) /\ Len(HistoryOf(k)) = Latest(k)
<1>1. Latest(k) \in Nat
  BY HistoryRow
<1>2. \A v \in 1 .. Latest(k) : FingerprintAt(k, v) \in Fingerprints
  BY HistoryRow DEF TypeOK, Row, VersionsOf, Stored
<1>3. HistoryOf(k) \in [1 .. Latest(k) -> Fingerprints]
  BY <1>2 DEF HistoryOf
<1>4. QED
  BY <1>1, <1>3

\* The same two readings of the table after a step.
LEMMA NextReading ==
  ASSUME TableInv', NEW k \in Keys, NEW i \in VersionsOf(k)',
         NEW v, table'[i].version = v
  PROVE  /\ FingerprintAt(k, v)' = table'[i].fp
         /\ table'[i].current => Latest(k)' = v
<1>1. \A j \in VersionsOf(k)' : table'[j].version = v => j = i
  BY DEF TableInv, StoredUnique, VersionsOf
<1>2. (CHOOSE j \in VersionsOf(k)' : table'[j].version = v) = i
  BY <1>1
<1>3. FingerprintAt(k, v)' = table'[i].fp
  BY <1>2 DEF FingerprintAt
<1>4. ASSUME table'[i].current PROVE Latest(k)' = v
  <2>1. \A j \in VersionsOf(k)' : table'[j].current => j = i
    BY <1>4 DEF TableInv, OneCurrent, VersionsOf
  <2>2. (CHOOSE j \in VersionsOf(k)' : table'[j].current) = i
    BY <1>4, <2>1
  <2>3. QED
    BY <1>4, <2>2 DEF Latest
<1>5. QED
  BY <1>3, <1>4

\* The other endpoints keep their histories.
LEMMA AppendedElsewhere ==
  ASSUME TypeOK, TableInv, Dense, NEW r \in Requests, Appended(r),
         NEW k \in Keys, k # KeyOf(r)
  PROVE  HistoryOf(k)' = HistoryOf(k)
<1>0. TableInv'
  BY AppendedTable
<1>1. /\ Stored' = Stored \union {r} /\ table'[r].key = KeyOf(r)
      /\ \A i \in Stored : /\ table'[i].key = table[i].key
                           /\ table[i].key # KeyOf(r) => table'[i] = table[i]
  <2>1. table'[r].key = KeyOf(r)
    BY DEF Appended
  <2>2. Stored' = Stored \union {r}
    BY ZenonT(60), AppendedRows
  <2>3. \A i \in Stored : table'[i].key = table[i].key
    BY ZenonT(60), AppendedRows
  <2>4. \A i \in Stored : table[i].key # KeyOf(r) => table'[i] = table[i]
    BY ZenonT(60), AppendedRows
  <2>5. QED
    BY <2>1, <2>2, <2>3, <2>4
<1>2. VersionsOf(k)' = VersionsOf(k)
  BY <1>1 DEF VersionsOf
<1>3. \A i \in VersionsOf(k) : table'[i] = table[i]
  BY <1>1 DEF VersionsOf
<1>4. Latest(k)' = Latest(k)
  <2>1. CASE VersionsOf(k) = {}
    BY <1>2, <2>1 DEF Latest
  <2>2. CASE VersionsOf(k) # {}
    <3>1. PICK m \in VersionsOf(k) : TRUE
      BY <2>2
    <3>2. PICK i \in VersionsOf(k) : table[i].current
      BY <3>1 DEF TableInv, OneCurrent, VersionsOf
    <3>3. Latest(k) = table[i].version
      BY <3>2, LatestOfCurrent
    <3>4. Latest(k)' = table[i].version
      BY <1>0, <1>2, <1>3, <3>2, NextReading
    <3>5. QED
      BY <3>3, <3>4
  <2>3. QED
    BY <2>1, <2>2
<1>5. ASSUME NEW v \in 1 .. Latest(k) PROVE FingerprintAt(k, v)' = FingerprintAt(k, v)
  <2>1. PICK i \in VersionsOf(k) : table[i].version = v /\ FingerprintAt(k, v) = table[i].fp
    BY HistoryRow
  <2>2. FingerprintAt(k, v)' = table'[i].fp
    BY <1>0, <1>2, <1>3, <2>1, NextReading
  <2>3. QED
    BY <1>3, <2>1, <2>2
<1>6. QED
  BY <1>4, <1>5 DEF HistoryOf

\* The endpoint's own history grows by the schema of the request, which it did
\* not contain.
LEMMA AppendedHere ==
  ASSUME TypeOK, TableInv, Dense, NEW r \in Requests, Appended(r),
         NEW k \in Keys, k = KeyOf(r), NEW f \in Fingerprints, f = payload[r].fp,
         NEW n \in Nat, Latest(k) = n
  PROVE  /\ \A v \in DOMAIN HistoryOf(k) : HistoryOf(k)[v] # f
         /\ HistoryOf(k)' = Append(HistoryOf(k), f)
<1>0. TableInv'
  BY AppendedTable
<1>1. /\ Stored' = Stored \union {r}
      /\ \A i \in Stored : /\ table'[i].key = table[i].key
                           /\ table'[i].version = table[i].version
                           /\ table'[i].fp = table[i].fp
  BY AppendedRows
<1>2. /\ table'[r].key = k /\ table'[r].fp = f /\ table'[r].current
      /\ table'[r].version \in Nat
  BY DEF Appended, Row
<1>3. table'[r].version = n + 1
  <2>1. CASE current[r] = None
    BY <1>0, <2>1, LatestOfNone DEF Appended
  <2>2. CASE current[r] # None
    BY <1>0, <2>2, LatestOfCurrent DEF Appended
  <2>3. QED
    BY <2>1, <2>2
<1>4. /\ HistoryOf(k) \in Seq(Fingerprints) /\ Len(HistoryOf(k)) = n
      /\ \A v \in 1 .. n : HistoryOf(k)[v] = FingerprintAt(k, v)
  BY HistoryType DEF HistoryOf
<1>5. ASSUME NEW v \in 1 .. n
      PROVE  FingerprintAt(k, v) # f /\ FingerprintAt(k, v)' = FingerprintAt(k, v)
  <2>1. PICK i \in VersionsOf(k) : table[i].version = v /\ FingerprintAt(k, v) = table[i].fp
    BY HistoryRow
  <2>2. table[i].fp # f
    BY <2>1 DEF Appended, SameSchema
  <2>3. i \in VersionsOf(k)' /\ table'[i].version = v /\ table'[i].fp = table[i].fp
    BY <1>1, <2>1 DEF VersionsOf
  <2>4. FingerprintAt(k, v)' = table'[i].fp
    BY <1>0, <2>3, NextReading
  <2>5. QED
    BY <2>1, <2>2, <2>3, <2>4
<1>6. r \in VersionsOf(k)'
  BY <1>1, <1>2 DEF VersionsOf
<1>7. Latest(k)' = n + 1 /\ FingerprintAt(k, n + 1)' = f
  BY <1>0, <1>2, <1>3, <1>6, NextReading
<1>8. HistoryOf(k)' = [v \in 1 .. n + 1 |-> FingerprintAt(k, v)']
  BY <1>7 DEF HistoryOf
<1>9. \A v \in 1 .. n + 1 :
        FingerprintAt(k, v)' = IF v = n + 1 THEN f ELSE HistoryOf(k)[v]
  BY <1>4, <1>5, <1>7
<1>10. HistoryOf(k)' = Append(HistoryOf(k), f)
  <2>1. HistoryOf(k)' \in Seq(Fingerprints) /\ Len(HistoryOf(k)') = n + 1
    <3>1. \A v \in 1 .. n : HistoryOf(k)[v] \in Fingerprints
      BY <1>4, ElementOfSeq
    <3>2. \A v \in 1 .. n + 1 : FingerprintAt(k, v)' \in Fingerprints
      BY <1>9, <3>1
    <3>3. HistoryOf(k)' \in [1 .. n + 1 -> Fingerprints]
      BY <1>8, <3>2
    <3>4. QED
      BY <3>3
  <2>2. /\ Append(HistoryOf(k), f) \in Seq(Fingerprints)
        /\ Len(Append(HistoryOf(k), f)) = n + 1
        /\ \A v \in 1 .. n + 1 : Append(HistoryOf(k), f)[v] =
             IF v = n + 1 THEN f ELSE HistoryOf(k)[v]
    BY <1>4, AppendProperties
  <2>3. \A v \in 1 .. n + 1 : HistoryOf(k)'[v] = Append(HistoryOf(k), f)[v]
    BY <1>8, <1>9, <2>2
  <2>4. QED
    BY <2>1, <2>2, <2>3, SeqEqual
<1>11. \A v \in DOMAIN HistoryOf(k) : HistoryOf(k)[v] # f
  BY <1>4, <1>5
<1>12. QED
  BY <1>10, <1>11

-----------------------------------------------------------------------------

\* An empty table maps to empty histories.
LEMMA InitRefines == Init => History!Init
<1> SUFFICES ASSUME Init, NEW k \in Keys
             PROVE  [v \in 1 .. Latest(k) |-> FingerprintAt(k, v)] = << >>
  BY DEF History!Init
<1>1. VersionsOf(k) = {}
  BY DEF Init, VersionsOf, Stored
<1>2. Latest(k) = 0
  BY <1>1, LatestOfNone
<1>3. HistoryOf(k) \in Seq(Fingerprints) /\ Len(HistoryOf(k)) = 0
  <2>1. TypeOK /\ TableInv
    BY RegistryInit DEF RegistryInv
  <2>2. Dense
    BY DEF Init, Dense, Stored
  <2>3. QED
    BY <1>2, <2>1, <2>2, HistoryType
<1>4. HistoryOf(k) = << >>
  BY <1>3, EmptySeq
<1>5. QED
  BY <1>4 DEF HistoryOf

\* A step maps to AddVersion on one endpoint, or to a stutter.
LEMMA StepRefines ==
  RegistryInv /\ Dense /\ [Next]_vars =>
    [History!Next]_([k \in Keys |-> [v \in 1 .. Latest(k) |-> FingerprintAt(k, v)]])
<1> DEFINE H == [k \in Keys |-> HistoryOf(k)]
<1> SUFFICES ASSUME RegistryInv, Dense, [Next]_vars
             PROVE  History!Next \/ H' = H
  BY DEF HistoryOf
<1>1. CASE table' = table
  <2>1. \A k \in Keys : VersionsOf(k)' = VersionsOf(k)
    BY <1>1 DEF VersionsOf, Stored
  <2>2. \A k \in Keys : HistoryOf(k)' = HistoryOf(k)
    <3> TAKE k \in Keys
    <3>1. Latest(k)' = Latest(k)
      BY <1>1, <2>1 DEF Latest
    <3>2. \A v : FingerprintAt(k, v)' = FingerprintAt(k, v)
      BY <1>1, <2>1 DEF FingerprintAt
    <3>3. QED
      BY <3>1, <3>2 DEF HistoryOf
  <2>3. QED
    BY <2>2
<1>2. ASSUME NEW r \in Requests, Appended(r) PROVE History!Next
  <2> DEFINE k == KeyOf(r)
             f == payload[r].fp
  <2>1. TypeOK /\ TableInv /\ k \in Keys /\ f \in Fingerprints
    BY DEF RegistryInv, TypeOK, KeyOf
  <2>2. Latest(k) \in Nat
    BY <2>1, HistoryRow
  <2>3. PICK kk \in Keys, ff \in Fingerprints, n \in Nat :
          kk = k /\ ff = f /\ n = Latest(kk)
    BY <2>1, <2>2
  <2>4. /\ \A v \in DOMAIN HistoryOf(kk) : HistoryOf(kk)[v] # ff
        /\ HistoryOf(kk)' = Append(HistoryOf(kk), ff)
    BY <1>2, <2>1, <2>3, AppendedHere
  <2>5. \A j \in Keys : j # kk => HistoryOf(j)' = HistoryOf(j)
    BY <1>2, <2>1, <2>3, AppendedElsewhere
  <2>6. H' = [H EXCEPT ![kk] = Append(@, ff)]
    BY <2>4, <2>5
  <2>7. \A v \in DOMAIN H[kk] : H[kk][v] # ff
    BY <2>4
  <2>8. History!AddVersion(kk, ff)
    BY <2>6, <2>7 DEF History!AddVersion, HistoryOf
  <2>9. QED
    BY <2>8 DEF History!Next
<1>3. QED
  BY <1>1, <1>2, StepCases

\* The detailed registry implements the abstract, append-only history.
THEOREM Refinement == Spec => ImplementsHistory
<1>1. Init => History!Init
  BY InitRefines
<1>2. RegistryInv /\ Dense /\ [Next]_vars =>
        [History!Next]_([k \in Keys |-> [v \in 1 .. Latest(k) |-> FingerprintAt(k, v)]])
  BY StepRefines
<1>3. QED
  BY <1>1, <1>2, Invariance, DenseInvariance, PTL
     DEF Spec, ImplementsHistory, History!Spec
=============================================================================
