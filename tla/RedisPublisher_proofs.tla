------------------------ MODULE RedisPublisher_proofs ------------------------
(***************************************************************************)
(* What holds of the publication to Redis for any number of publishers and *)
(* intents, any batch size and any number of crashes and failed calls: the *)
(* types, that the stream has no event twice, and that every intent marked *)
(* as published is in it.                                                  *)
(***************************************************************************)
EXTENDS RedisPublisher, FiniteSetTheorems, TLAPS

LEMMA InitType == Init => TypeOK
  BY SettingAssumption DEF Init, TypeOK, PCs

(* What DeduplicatedXAdd does to the types of stream and keys.             *)
LEMMA XAddType ==
    ASSUME TypeOK, NEW n \in rows, DeduplicatedXAdd(n)
    PROVE  stream' \in Seq(rows) /\ keys' \subseteq rows
  <1>1. stream \in Seq(rows) /\ Append(stream, n) \in Seq(rows) /\ keys \subseteq rows
    BY DEF TypeOK
  <1>2. CASE n \in keys
    BY <1>1, <1>2 DEF DeduplicatedXAdd, redis
  <1>3. CASE n \notin keys
    BY <1>1, <1>3 DEF DeduplicatedXAdd
  <1>. QED BY <1>2, <1>3

TaskTypes ==
    /\ pc \in [Replicas -> PCs]
    /\ batch \in [Replicas -> SUBSET rows]
    /\ marked \in [Replicas -> SUBSET rows]
    /\ failures \in [Replicas -> 0 .. (RetryMaxAttempts - 1)]
    /\ lost \subseteq Replicas

LEMMA HandleFailureType ==
    ASSUME TypeOK, NEW r \in Replicas, HandleFailure(r), rows' = rows
    PROVE  TaskTypes'
  <1>. USE SettingAssumption
  <1>1. /\ batch' \in [Replicas -> SUBSET rows] /\ marked' \in [Replicas -> SUBSET rows]
        /\ lost' \subseteq Replicas
    BY DEF HandleFailure, RollBack, TypeOK
  <1>2. failures[r] \in 0 .. (RetryMaxAttempts - 1)
    BY DEF TypeOK
  <1>3. CASE failures[r] + 1 >= RetryMaxAttempts
    <2>1. /\ failures' = [failures EXCEPT ![r] = 0]
          /\ pc' = [pc EXCEPT ![r] = "down"]
      BY <1>2, <1>3 DEF HandleFailure
    <2>. QED BY <1>1, <2>1 DEF TaskTypes, TypeOK, PCs
  <1>4. CASE failures[r] + 1 < RetryMaxAttempts
    <2>1. /\ failures' = [failures EXCEPT ![r] = @ + 1]
          /\ pc' = [pc EXCEPT ![r] = "select"]
      BY <1>2, <1>4 DEF HandleFailure
    <2>2. failures[r] + 1 \in 0 .. (RetryMaxAttempts - 1)
      BY <1>2, <1>4
    <2>. QED BY <1>1, <2>1, <2>2 DEF TaskTypes, TypeOK, PCs
  <1>. QED BY <1>2, <1>3, <1>4

LEMMA NextType == TypeOK /\ [Next]_vars => TypeOK'
<1>. SUFFICES ASSUME TypeOK, [Next]_vars
              PROVE  TypeOK'
  OBVIOUS
<1>. USE SettingAssumption
<1>1. ASSUME NEW n \in Rows, Intend(n)
      PROVE  TypeOK'
  <2>1. /\ rows' = rows \cup {n}
        /\ UNCHANGED <<published, stream, keys, pc, batch, marked, failures, lost>>
        /\ UNCHANGED <<crashes, redisFaults, dbFaults, overlapped>>
    BY <1>1 DEF Intend, redis, task, counters
  <2>2. rows \subseteq rows' /\ Seq(rows) \subseteq Seq(rows')
    BY <2>1
  <2>3. batch' \in [Replicas -> SUBSET rows'] /\ marked' \in [Replicas -> SUBSET rows']
    BY <2>1, <2>2 DEF TypeOK
  <2>4. stream' \in Seq(rows')
    BY <2>1, <2>2 DEF TypeOK
  <2>. QED BY <2>1, <2>3, <2>4 DEF TypeOK
<1>2. ASSUME NEW n \in Rows, ExpireKey(n)
      PROVE  TypeOK'
  BY <1>2 DEF ExpireKey, TypeOK, table, task, counters
<1>3. ASSUME NEW r \in Replicas, Start(r)
      PROVE  TypeOK'
  BY <1>3 DEF Start, TypeOK, PCs, table, redis, counters
<1>4. ASSUME NEW r \in Replicas, SelectBatch(r)
      PROVE  TypeOK'
  BY <1>4 DEF SelectBatch, FirstOf, TypeOK, PCs, table, redis, counters
<1>5. ASSUME NEW r \in Replicas, Publish(r)
      PROVE  TypeOK'
  <2>1. PICK n \in Rows : /\ n \in batch[r]
                          /\ DeduplicatedXAdd(n)
                          /\ marked' = [marked EXCEPT ![r] = @ \cup {n}]
    BY <1>5 DEF Publish, IsNext
  <2>2. n \in rows
    BY <2>1 DEF TypeOK
  <2>3. stream' \in Seq(rows) /\ keys' \subseteq rows
    BY <2>1, <2>2, XAddType
  <2>4. /\ UNCHANGED <<rows, published, batch, failures, lost>>
        /\ UNCHANGED <<crashes, redisFaults, dbFaults, overlapped>>
        /\ pc' \in [Replicas -> PCs]
    BY <1>5 DEF Publish, table, counters, TypeOK, PCs
  <2>. QED BY <2>1, <2>2, <2>3, <2>4 DEF TypeOK
<1>6. ASSUME NEW r \in Replicas, RedisFails(r)
      PROVE  TypeOK'
  <2>1. /\ HandleFailure(r)
        /\ UNCHANGED <<rows, published, crashes, dbFaults, overlapped>>
        /\ redisFaults' \in Nat
    BY <1>6 DEF RedisFails, table, TypeOK
  <2>2. PICK n \in Rows : n \in batch[r] /\ (UNCHANGED redis \/ DeduplicatedXAdd(n))
    BY <1>6 DEF RedisFails, IsNext
  <2>3. n \in rows
    BY <2>2 DEF TypeOK
  <2>4. stream' \in Seq(rows) /\ keys' \subseteq rows
    <3>1. CASE UNCHANGED redis
      BY <3>1 DEF redis, TypeOK
    <3>2. CASE DeduplicatedXAdd(n)
      BY <2>3, <3>2, XAddType
    <3>. QED BY <2>2, <3>1, <3>2
  <2>5. TaskTypes'
    BY <2>1, HandleFailureType
  <2>. QED BY <2>1, <2>4, <2>5 DEF TaskTypes, TypeOK
<1>7. ASSUME NEW r \in Replicas, CommitBatch(r)
      PROVE  TypeOK'
  BY <1>7 DEF CommitBatch, RollBack, TypeOK, PCs, redis, counters
<1>8. ASSUME NEW r \in Replicas, CountBacklog(r)
      PROVE  TypeOK'
  BY <1>8 DEF CountBacklog, TypeOK, PCs, table, redis, counters
<1>9. ASSUME NEW r \in Replicas, DatabaseFails(r)
      PROVE  TypeOK'
  <2>1. /\ HandleFailure(r)
        /\ UNCHANGED <<rows, stream, keys, crashes, redisFaults, overlapped>>
        /\ dbFaults' \in Nat
    BY <1>9 DEF DatabaseFails, redis, TypeOK
  <2>2. published' \subseteq rows
    BY <1>9 DEF DatabaseFails, TypeOK
  <2>3. TaskTypes'
    BY <2>1, HandleFailureType
  <2>. QED BY <2>1, <2>2, <2>3 DEF TaskTypes, TypeOK
<1>10. ASSUME NEW r \in Replicas, Crash(r)
       PROVE  TypeOK'
  <2>1. crashes' \in Nat
    BY <1>10 DEF Crash, TypeOK
  <2>. QED BY <1>10, <2>1 DEF Crash, RollBack, TypeOK, PCs, table, redis
<1>11. ASSUME NEW r \in Replicas, SessionLost(r)
       PROVE  TypeOK'
  <2>1. dbFaults' \in Nat /\ lost' \subseteq Replicas
    BY <1>11 DEF SessionLost, TypeOK
  <2>. QED BY <1>11, <2>1 DEF SessionLost, TypeOK, table, redis
<1>12. ASSUME NEW r \in Replicas, PublishUnlocked(r)
       PROVE  TypeOK'
  <2>1. /\ HandleFailure(r)
        /\ UNCHANGED <<rows, published, crashes, redisFaults, dbFaults, overlapped>>
    BY <1>12 DEF PublishUnlocked, table, counters
  <2>2. PICK n \in Rows : n \in batch[r] /\ DeduplicatedXAdd(n)
    BY <1>12 DEF PublishUnlocked, IsNext
  <2>3. stream' \in Seq(rows) /\ keys' \subseteq rows
    BY <2>2, XAddType DEF TypeOK
  <2>4. TaskTypes'
    BY <2>1, HandleFailureType
  <2>. QED BY <2>1, <2>3, <2>4 DEF TaskTypes, TypeOK
<1>13. CASE UNCHANGED vars
  BY <1>13 DEF vars, table, redis, task, counters, TypeOK
<1>. QED BY <1>1, <1>2, <1>3, <1>4, <1>5, <1>6, <1>7, <1>8, <1>9, <1>10, <1>11, <1>12, <1>13
     DEF Next, TaskStep, Fault

(* Every reachable state has the declared types: publishers lock and mark  *)
(* existing intents only, and stay within their retry budget.              *)
THEOREM TypeCorrect == Spec => []TypeOK
  BY InitType, NextType, PTL DEF Spec

-----------------------------------------------------------------------------
(* The events in the stream, and what relates them to the keys and marks.  *)
Added == {stream[i] : i \in Entries}

(* StreamOnce is not inductive: an event may only be added if it is not in *)
(* the stream, the script looks at its key instead.  So an event in the    *)
(* stream has its key or, once the key has expired, its mark; and what a   *)
(* publisher has in hand has no mark, because of the row locks, or, if its *)
(* session has ended and another one has marked it since, still its key.   *)
StreamInv ==
    /\ StreamOnce
    /\ keys \subseteq Added
    /\ Added \subseteq keys \cup published
    /\ published \subseteq Added
    /\ \A r \in Replicas : marked[r] \subseteq batch[r] /\ marked[r] \subseteq Added
    /\ \A r \in Replicas : pc[r] \notin {"publish", "commit"} => batch[r] = {}
    /\ \A r \in lost : pc[r] = "publish"
    /\ \A r \in Replicas : batch[r] \cap Added \subseteq keys
    /\ \A r \in Replicas \ lost : batch[r] \cap published = {}
    /\ \A p, q \in Replicas \ lost : p # q => batch[p] \cap batch[q] = {}

(* The script adds an event in hand once, and leaves it in the stream.     *)
LEMMA XAddOnce ==
    ASSUME TypeOK, StreamInv, NEW r \in Replicas, NEW n \in batch[r], DeduplicatedXAdd(n)
    PROVE  /\ StreamOnce'
           /\ Added' = Added \cup {n}
           /\ keys' = keys \cup {n}
  <1>1. CASE n \in keys
    BY <1>1 DEF DeduplicatedXAdd, redis, StreamInv, StreamOnce, Added, Entries
  <1>2. CASE n \notin keys
    <2>1. stream' = Append(stream, n) /\ keys' = keys \cup {n}
      BY <1>2 DEF DeduplicatedXAdd
    <2>2. n \notin Added
      BY <1>2 DEF StreamInv
    <2>3. /\ Len(stream') = Len(stream) + 1 /\ Len(stream) \in Nat
          /\ \A i \in 1 .. Len(stream) : stream'[i] = stream[i]
          /\ stream'[Len(stream) + 1] = n
      BY <2>1 DEF TypeOK
    <2>4. \A i \in Entries' : i \in Entries \/ i = Len(stream) + 1
      BY <2>3 DEF Entries
    <2>5. Entries \subseteq Entries' /\ Len(stream) + 1 \in Entries'
      BY <2>3 DEF Entries
    <2>6. \A i \in Entries : stream'[i] = stream[i] /\ stream[i] # n
      BY <2>2, <2>3 DEF Added, Entries
    <2>7. Added' \subseteq Added \cup {n}
      BY <2>3, <2>4, <2>6 DEF Added
    <2>8. Added \cup {n} \subseteq Added'
      BY <2>3, <2>5, <2>6 DEF Added
    <2>9. StreamOnce'
      <3>. SUFFICES ASSUME NEW i \in Entries', NEW j \in Entries', stream'[i] = stream'[j]
                    PROVE  i = j
        BY DEF StreamOnce
      <3>1. CASE i \in Entries /\ j \in Entries
        BY <2>6, <3>1 DEF StreamInv, StreamOnce
      <3>2. CASE i \notin Entries \/ j \notin Entries
        BY <2>3, <2>4, <2>6, <3>2
      <3>. QED BY <3>1, <3>2
    <2>. QED BY <2>1, <2>7, <2>8, <2>9
  <1>. QED BY <1>1, <1>2

(* Rolling r back, or committing what r has marked, keeps StreamInv,       *)
(* whether or not the script ran for one more of its intents.              *)
LEMMA LeaveKeepsStream ==
    ASSUME TypeOK, StreamInv, NEW r \in Replicas, RollBack(r), StreamOnce',
           keys' \subseteq Added', Added' \subseteq keys' \cup published,
           Added \subseteq Added',
           \A p \in Replicas : batch[p] \cap Added' \subseteq keys',
           \/ published' = published
           \/ r \notin lost /\ published' = published \cup marked[r],
           \A p \in Replicas : p # r => pc'[p] = pc[p]
    PROVE  StreamInv'
  <1>1. /\ batch'[r] = {} /\ marked'[r] = {}
        /\ \A p \in Replicas : p # r => batch'[p] = batch[p] /\ marked'[p] = marked[p]
        /\ lost' = lost \ {r} /\ lost \subseteq Replicas
    BY DEF RollBack, TypeOK
  <1>2. r \notin lost => \A p \in Replicas \ lost : p # r => batch[p] \cap marked[r] = {}
    BY DEF StreamInv
  <1>. QED BY <1>1, <1>2 DEF StreamInv

LEMMA InitStream == Init => StreamInv
  BY DEF Init, StreamInv, StreamOnce, Added, Entries

LEMMA NextStream == TypeOK /\ StreamInv /\ [Next]_vars => StreamInv'
<1>. SUFFICES ASSUME TypeOK, StreamInv, [Next]_vars
              PROVE  StreamInv'
  OBVIOUS
<1>0. ASSUME UNCHANGED stream
      PROVE  StreamOnce' /\ Added' = Added
  BY <1>0 DEF StreamInv, StreamOnce, Added, Entries
<1>1. ASSUME NEW n \in Rows, Intend(n)
      PROVE  StreamInv'
  BY <1>0, <1>1 DEF Intend, redis, task, StreamInv
<1>2. ASSUME NEW n \in Rows, ExpireKey(n)
      PROVE  StreamInv'
  <2>1. /\ UNCHANGED <<published, stream, pc, batch, marked, lost>>
        /\ keys' = keys \ {n} /\ n \in published
        /\ \A r \in Replicas : n \notin batch[r]
    BY <1>2 DEF ExpireKey, table, task
  <2>. QED BY <1>0, <2>1 DEF StreamInv
<1>3. ASSUME NEW r \in Replicas, Start(r) \/ CountBacklog(r)
      PROVE  StreamInv'
  <2>1. /\ UNCHANGED <<published, stream, keys, batch, marked, lost>>
        /\ pc[r] \notin {"publish", "commit"}
        /\ \A p \in Replicas : p # r => pc'[p] = pc[p]
    BY <1>3 DEF Start, CountBacklog, table, redis, TypeOK
  <2>2. lost \subseteq Replicas /\ r \notin lost
    BY <2>1 DEF StreamInv, TypeOK
  <2>. QED BY <1>0, <2>1, <2>2 DEF StreamInv
<1>4. ASSUME NEW r \in Replicas, SelectBatch(r)
      PROVE  StreamInv'
  <2>1. /\ UNCHANGED <<published, stream, keys, marked, lost>>
        /\ batch' = [batch EXCEPT ![r] = batch'[r]]
        /\ batch'[r] \subseteq (rows \ published) \ Locked(r)
        /\ pc' = [pc EXCEPT ![r] = pc'[r]] /\ pc'[r] \in {"publish", "commit"}
    BY <1>4 DEF SelectBatch, FirstOf, table, redis, TypeOK
  <2>2. batch[r] = {} /\ marked[r] = {} /\ r \notin lost /\ lost \subseteq Replicas
    BY <1>4 DEF SelectBatch, StreamInv, TypeOK
  <2>3. \A p \in Replicas : p # r =>
          /\ batch'[p] = batch[p] /\ pc'[p] = pc[p]
          /\ p \notin lost => batch'[r] \cap batch[p] = {}
    BY <2>1 DEF Locked, TypeOK
  <2>4. batch'[r] \cap published = {} /\ pc'[r] \in {"publish", "commit"}
    BY <2>1
  <2>5. StreamOnce' /\ Added' = Added
    BY <1>0, <2>1
  <2>6. \A p \in Replicas : marked'[p] \subseteq batch'[p] /\ marked'[p] \subseteq Added'
    BY <2>1, <2>2, <2>3, <2>5 DEF StreamInv
  <2>7. \A p, q \in Replicas \ lost : p # q => batch'[p] \cap batch'[q] = {}
    BY <2>3 DEF StreamInv
  <2>8. \A p \in Replicas : batch'[p] \cap Added' \subseteq keys'
    BY <2>1, <2>3, <2>4, <2>5 DEF StreamInv
  <2>9. \A p \in lost' : pc'[p] = "publish"
    BY <2>1, <2>2, <2>3 DEF StreamInv
  <2>. QED BY <2>1, <2>3, <2>4, <2>5, <2>6, <2>7, <2>8, <2>9 DEF StreamInv
<1>5. ASSUME NEW r \in Replicas, Publish(r)
      PROVE  StreamInv'
  <2>1. PICK n \in Rows : /\ n \in batch[r]
                          /\ DeduplicatedXAdd(n)
                          /\ marked' = [marked EXCEPT ![r] = @ \cup {n}]
    BY <1>5 DEF Publish, IsNext
  <2>2. r \notin lost
    BY <1>5 DEF Publish
  <2>3. StreamOnce' /\ Added' = Added \cup {n} /\ keys' = keys \cup {n}
    BY <2>1, XAddOnce
  <2>4. /\ UNCHANGED <<published, batch, lost>> /\ lost \subseteq Replicas
        /\ pc' = [pc EXCEPT ![r] = pc'[r]] /\ pc'[r] \in {"publish", "commit"}
    BY <1>5 DEF Publish, table, TypeOK
  <2>5. \A p \in Replicas : marked'[p] \subseteq batch'[p] /\ marked'[p] \subseteq Added'
    BY <2>1, <2>3, <2>4 DEF StreamInv, TypeOK
  <2>6. \A p \in Replicas : pc'[p] \notin {"publish", "commit"} => batch'[p] = {}
    BY <2>4 DEF StreamInv, TypeOK
  <2>7. \A p \in lost' : pc'[p] = "publish"
    BY <2>2, <2>4 DEF StreamInv, TypeOK
  <2>. QED BY <2>3, <2>4, <2>5, <2>6, <2>7 DEF StreamInv
<1>6. ASSUME NEW r \in Replicas, RedisFails(r)
      PROVE  StreamInv'
  <2>1. PICK n \in Rows : n \in batch[r] /\ (UNCHANGED redis \/ DeduplicatedXAdd(n))
    BY <1>6 DEF RedisFails, IsNext
  <2>3. /\ StreamOnce' /\ keys' \subseteq Added'
        /\ Added' \subseteq keys' \cup published /\ Added \subseteq Added'
        /\ \A p \in Replicas : batch[p] \cap Added' \subseteq keys'
    <3>1. CASE UNCHANGED redis
      BY <1>0, <3>1 DEF redis, StreamInv
    <3>2. CASE DeduplicatedXAdd(n)
      BY <2>1, <3>2, XAddOnce DEF StreamInv
    <3>. QED BY <2>1, <3>1, <3>2
  <2>4. RollBack(r) /\ published' = published
        /\ \A p \in Replicas : p # r => pc'[p] = pc[p]
    BY <1>6 DEF RedisFails, HandleFailure, table, TypeOK
  <2>. QED BY <2>3, <2>4, LeaveKeepsStream
<1>7. ASSUME NEW r \in Replicas, CommitBatch(r) \/ DatabaseFails(r) \/ Crash(r)
      PROVE  StreamInv'
  <2>1. /\ UNCHANGED <<stream, keys>>
        /\ RollBack(r)
        /\ \/ published' = published
           \/ r \notin lost /\ published' = published \cup marked[r]
        /\ \A p \in Replicas : p # r => pc'[p] = pc[p]
    <3>1. CASE CommitBatch(r)
      <4>1. r \notin lost
        BY <3>1 DEF CommitBatch, StreamInv
      <4>. QED BY <3>1, <4>1 DEF CommitBatch, redis, TypeOK
    <3>2. CASE DatabaseFails(r)
      BY <3>2 DEF DatabaseFails, HandleFailure, redis, TypeOK
    <3>3. CASE Crash(r)
      BY <3>3 DEF Crash, table, redis, TypeOK
    <3>. QED BY <1>7, <3>1, <3>2, <3>3
  <2>2. /\ StreamOnce' /\ keys' \subseteq Added'
        /\ Added' \subseteq keys' \cup published /\ Added \subseteq Added'
        /\ \A p \in Replicas : batch[p] \cap Added' \subseteq keys'
    BY <1>0, <2>1 DEF StreamInv
  <2>. QED BY <2>1, <2>2, LeaveKeepsStream
<1>8. ASSUME NEW r \in Replicas, SessionLost(r)
      PROVE  StreamInv'
  <2>1. /\ UNCHANGED <<published, stream, keys, pc, batch, marked>>
        /\ lost' = lost \cup {r} /\ pc[r] = "publish"
    BY <1>8 DEF SessionLost, table, redis
  <2>. QED BY <1>0, <2>1 DEF StreamInv
<1>9. ASSUME NEW r \in Replicas, PublishUnlocked(r)
      PROVE  StreamInv'
  <2>1. PICK n \in Rows : n \in batch[r] /\ DeduplicatedXAdd(n)
    BY <1>9 DEF PublishUnlocked, IsNext
  <2>2. /\ StreamOnce' /\ keys' \subseteq Added'
        /\ Added' \subseteq keys' \cup published /\ Added \subseteq Added'
        /\ \A p \in Replicas : batch[p] \cap Added' \subseteq keys'
    BY <2>1, XAddOnce DEF StreamInv
  <2>3. RollBack(r) /\ published' = published
        /\ \A p \in Replicas : p # r => pc'[p] = pc[p]
    BY <1>9 DEF PublishUnlocked, HandleFailure, table, TypeOK
  <2>. QED BY <2>2, <2>3, LeaveKeepsStream
<1>10. CASE UNCHANGED vars
  BY <1>0, <1>10 DEF vars, table, redis, task, StreamInv
<1>. QED BY <1>1, <1>2, <1>3, <1>4, <1>5, <1>6, <1>7, <1>8, <1>9, <1>10
     DEF Next, TaskStep, Fault

(* However many publishers there are and whatever fails between the script *)
(* and the commit, the stream has every event at most once, as long as no  *)
(* key expires before its intent is marked.                                *)
THEOREM EventsOnce == Spec => []StreamOnce
  <1>1. StreamInv => StreamOnce
    BY DEF StreamInv
  <1>. QED BY <1>1, InitType, NextType, InitStream, NextStream, PTL DEF Spec

(* An intent whose mark is committed has its event in the stream.          *)
THEOREM MarksInStream == Spec => []PublishedInStream
  <1>1. StreamInv => PublishedInStream
    BY DEF StreamInv, PublishedInStream, Added
  <1>. QED BY <1>1, InitType, NextType, InitStream, NextStream, PTL DEF Spec

-----------------------------------------------------------------------------
(* The order of the stream                                                 *)

SameTx(m, n) == TxOf[m] = TxOf[n]

(* The intents of a transaction are inserted in order.                     *)
RowsClosed == \A n \in rows, m \in Rows : m < n /\ SameTx(m, n) => m \in rows

(* An event is preceded in the stream by those of its transaction that     *)
(* were intended before it.                                                *)
StreamClosed ==
    \A j \in Entries, m \in rows : m < stream[j] /\ SameTx(m, stream[j]) =>
        \E i \in Entries : i < j /\ stream[i] = m

(* Only one publisher has a batch, and it has every unmarked intent that   *)
(* must be published before one of the batch.                              *)
BatchClosed ==
    /\ \A p, q \in Replicas : p # q => batch[p] = {} \/ batch[q] = {}
    /\ \A r \in Replicas : \A n \in batch[r], m \in rows :
          m < n /\ SameTx(m, n) => m \in batch[r] \cup published

OrderInv == RowsClosed /\ (overlapped = {} => StreamClosed /\ BatchClosed)

LEMMA OrderImplies == TypeOK /\ StreamInv /\ OrderInv => StreamInOrder
  <1>. SUFFICES ASSUME TypeOK, StreamInv, OrderInv, overlapped = {},
                       NEW i \in Entries, NEW j \in Entries, i < j,
                       TxOf[stream[i]] = TxOf[stream[j]], ~(stream[i] <= stream[j])
                PROVE  FALSE
    BY DEF StreamInOrder
  <1>1. /\ stream[i] \in rows /\ stream[j] \in rows /\ rows \subseteq Nat
        /\ i \in Nat /\ j \in Nat
    BY RowsAssumption DEF TypeOK, Entries
  <1>2. stream[j] < stream[i] /\ SameTx(stream[j], stream[i])
    <2>1. stream[i] \in Nat /\ stream[j] \in Nat
      BY <1>1
    <2>. QED BY <2>1 DEF SameTx
  <1>3. PICK k \in Entries : k < i /\ stream[k] = stream[j]
    BY <1>1, <1>2 DEF OrderInv, StreamClosed
  <1>4. k = j /\ k \in Nat
    BY <1>3 DEF StreamInv, StreamOnce, Entries
  <1>. QED BY <1>1, <1>3, <1>4

(* The select takes a prefix: what it takes after m it takes together      *)
(* with m.                                                                 *)
LEMMA FirstOfPrefix ==
    ASSUME NEW S \in SUBSET Nat, NEW k \in Nat,
           NEW n \in FirstOf(k, S), NEW m \in S, m < n
    PROVE  m \in FirstOf(k, S)
  <1> DEFINE A == {t \in S : t < m}
             B == {t \in S : t < n}
  <1>1. n \in Nat /\ m \in Nat /\ Cardinality(B) < k
    BY DEF FirstOf
  <1>2. IsFiniteSet(0 .. n)
    BY <1>1, FS_Interval
  <1>3. B \subseteq 0 .. n /\ A \subseteq B
    <2>1. \A t \in Nat : (t < n => t \in 0 .. n) /\ (t < m => t < n)
      BY <1>1
    <2>. QED BY <2>1
  <1>4. IsFiniteSet(B)
    BY <1>2, <1>3, FS_Subset
  <1>5. Cardinality(A) <= Cardinality(B) /\ IsFiniteSet(A)
    BY <1>3, <1>4, FS_Subset
  <1>6. Cardinality(A) \in Nat /\ Cardinality(B) \in Nat
    BY <1>4, <1>5, FS_CardinalityType
  <1>7. Cardinality(A) < k
    BY <1>1, <1>5, <1>6
  <1>. HIDE DEF B
  <1>. QED BY <1>7 DEF FirstOf

(* An event is added after those that must precede it.                     *)
LEMMA XAddClosed ==
    ASSUME TypeOK, StreamInv, StreamClosed, rows' = rows,
           NEW n \in rows, DeduplicatedXAdd(n),
           \A m \in rows : m < n /\ SameTx(m, n) => m \in Added
    PROVE  StreamClosed'
  <1>1. CASE n \in keys
    BY <1>1 DEF DeduplicatedXAdd, redis, StreamClosed, Entries, SameTx
  <1>2. CASE n \notin keys
    <2>1. stream' = Append(stream, n)
      BY <1>2 DEF DeduplicatedXAdd
    <2>2. /\ Len(stream') = Len(stream) + 1 /\ Len(stream) \in Nat
          /\ \A i \in 1 .. Len(stream) : stream'[i] = stream[i]
          /\ stream'[Len(stream) + 1] = n
      BY <2>1 DEF TypeOK
    <2>3. /\ \A j \in Entries' : j \in Entries \/ j = Len(stream) + 1
          /\ Entries \subseteq Entries'
          /\ \A i \in Entries : stream'[i] = stream[i] /\ i < Len(stream) + 1
      BY <2>2 DEF Entries
    <2>. SUFFICES ASSUME NEW j \in Entries', NEW m \in rows,
                         m < stream'[j], SameTx(m, stream'[j])
                  PROVE  \E i \in Entries' : i < j /\ stream'[i] = m
      BY DEF StreamClosed, SameTx
    <2>4. CASE j \in Entries
      <3>1. PICK i \in Entries : i < j /\ stream[i] = m
        BY <2>3, <2>4 DEF StreamClosed
      <3>. QED BY <2>3, <3>1
    <2>5. CASE j = Len(stream) + 1
      <3>1. m \in Added
        BY <2>2, <2>5
      <3>2. PICK i \in Entries : stream[i] = m
        BY <3>1 DEF Added
      <3>. QED BY <2>3, <2>5, <3>2
    <2>. QED BY <2>3, <2>4, <2>5
  <1>. QED BY <1>1, <1>2

(* What r publishes next is preceded by what must precede it.              *)
LEMMA NextIsClosed ==
    ASSUME TypeOK, StreamInv, BatchClosed, NEW r \in Replicas, NEW n \in Rows, IsNext(r, n)
    PROVE  /\ n \in rows
           /\ \A m \in rows : m < n /\ SameTx(m, n) => m \in Added
  <1>1. n \in batch[r] /\ n \in rows /\ rows \subseteq Nat
    BY RowsAssumption DEF IsNext, TypeOK, StreamInv
  <1>2. ASSUME NEW m \in rows, m < n, SameTx(m, n)
        PROVE  m \in Added
    <2>1. m \in batch[r] \cup published
      BY <1>1, <1>2 DEF BatchClosed
    <2>2. m \in batch[r] => m \in marked[r]
      BY <1>1, <1>2 DEF IsNext
    <2>. QED BY <2>1, <2>2 DEF StreamInv
  <1>. QED BY <1>1, <1>2

(* Giving a batch up, or committing its marks, keeps BatchClosed.          *)
LEMMA LeaveKeepsBatches ==
    ASSUME TypeOK, BatchClosed, NEW r \in Replicas, RollBack(r),
           rows' = rows, published \subseteq published'
    PROVE  BatchClosed'
  <1>1. /\ batch'[r] = {}
        /\ \A p \in Replicas : p # r => batch'[p] = batch[p]
    BY DEF RollBack, TypeOK
  <1>. QED BY <1>1 DEF BatchClosed, SameTx

LEMMA InitOrder == Init => OrderInv
  BY DEF Init, OrderInv, RowsClosed, StreamClosed, BatchClosed, Entries

LEMMA NextOrder == TypeOK /\ StreamInv /\ OrderInv /\ [Next]_vars => OrderInv'
<1>. SUFFICES ASSUME TypeOK, StreamInv, OrderInv, [Next]_vars
              PROVE  OrderInv'
  OBVIOUS
<1>0. ASSUME UNCHANGED <<rows, stream>>
      PROVE  RowsClosed' /\ (StreamClosed => StreamClosed')
  BY <1>0 DEF OrderInv, RowsClosed, StreamClosed, Entries, SameTx
<1>1. ASSUME NEW n \in Rows, Intend(n)
      PROVE  OrderInv'
  <2>1. /\ rows' = rows \cup {n} /\ n \notin rows
        /\ \A m \in Rows : m < n /\ SameTx(m, n) => m \in rows
        /\ UNCHANGED <<published, stream, batch, overlapped>>
    BY <1>1 DEF Intend, redis, task, counters, SameTx
  <2>2. RowsClosed'
    BY <2>1 DEF OrderInv, RowsClosed, SameTx
  <2>3. \A k \in rows : ~(n < k /\ SameTx(n, k))
    BY <2>1 DEF OrderInv, RowsClosed
  <2>4. \A j \in Entries : stream[j] \in rows
    BY DEF TypeOK, Entries
  <2>5. StreamClosed => StreamClosed'
    BY <2>1, <2>3, <2>4 DEF StreamClosed, Entries, SameTx
  <2>6. \A r \in Replicas : batch[r] \subseteq rows
    BY DEF TypeOK
  <2>7. BatchClosed => BatchClosed'
    BY <2>1, <2>3, <2>6 DEF BatchClosed, SameTx
  <2>. QED BY <2>1, <2>2, <2>5, <2>7 DEF OrderInv
<1>2. ASSUME NEW n \in Rows, ExpireKey(n)
      PROVE  OrderInv'
  <2>1. UNCHANGED <<rows, stream, published, batch, overlapped>>
    BY <1>2 DEF ExpireKey, table, task, counters
  <2>. QED BY <1>0, <2>1 DEF OrderInv, BatchClosed, SameTx
<1>3. ASSUME NEW r \in Replicas, Start(r) \/ CountBacklog(r)
      PROVE  OrderInv'
  <2>1. UNCHANGED <<rows, stream, published, batch, overlapped>>
    BY <1>3 DEF Start, CountBacklog, table, redis, counters
  <2>. QED BY <1>0, <2>1 DEF OrderInv, BatchClosed, SameTx
<1>4. ASSUME NEW r \in Replicas, SelectBatch(r)
      PROVE  OrderInv'
  <2>1. /\ UNCHANGED <<rows, published, stream>>
        /\ batch' = [batch EXCEPT ![r] = FirstOf(BatchSize, (rows \ published) \ Locked(r))]
        /\ overlapped' = IF batch'[r] # {} /\ InHand(r) # {}
                         THEN overlapped \cup {r} ELSE overlapped
    BY <1>4 DEF SelectBatch, table, redis
  <2>2. CASE overlapped' # {}
    BY <1>0, <2>1, <2>2 DEF OrderInv
  <2>3. CASE overlapped' = {}
    <3>1. StreamClosed /\ BatchClosed /\ (batch'[r] = {} \/ InHand(r) = {})
      BY <2>1, <2>3 DEF OrderInv
    <3>2. batch \in [Replicas -> SUBSET rows] /\ rows \subseteq Nat
      BY RowsAssumption DEF TypeOK
    <3>3. \A p \in Replicas : p # r => batch'[p] = batch[p]
      BY <2>1, <3>2
    <3>4. CASE batch'[r] = {}
      BY <1>0, <2>1, <3>1, <3>3, <3>4 DEF OrderInv, BatchClosed, SameTx
    <3>5. CASE InHand(r) = {}
      <4>1. \A p \in Replicas : p # r => batch'[p] = {}
        BY <3>3, <3>5 DEF InHand
      <4>2. batch'[r] = FirstOf(BatchSize, rows \ published)
        <5>1. Locked(r) = {}
          BY <3>5 DEF InHand, Locked
        <5>. QED BY <2>1, <3>2, <5>1
      <4>3. ASSUME NEW n \in batch'[r], NEW m \in rows, m < n
            PROVE  m \in batch'[r] \cup published
        BY <3>2, <4>2, <4>3, FirstOfPrefix, SettingAssumption
      <4>4. BatchClosed'
        BY <2>1, <4>1, <4>3 DEF BatchClosed, SameTx
      <4>. QED BY <1>0, <2>1, <3>1, <4>4 DEF OrderInv
    <3>. QED BY <3>1, <3>4, <3>5
  <2>. QED BY <2>2, <2>3
<1>5. ASSUME NEW r \in Replicas, Publish(r)
      PROVE  OrderInv'
  <2>1. UNCHANGED <<rows, published, batch, overlapped>>
    BY <1>5 DEF Publish, table, counters
  <2>2. RowsClosed' /\ (BatchClosed => BatchClosed')
    BY <2>1 DEF OrderInv, RowsClosed, BatchClosed, SameTx
  <2>3. PICK n \in Rows : IsNext(r, n) /\ DeduplicatedXAdd(n)
    BY <1>5 DEF Publish
  <2>4. StreamClosed /\ BatchClosed => StreamClosed'
    BY <2>1, <2>3, NextIsClosed, XAddClosed
  <2>. QED BY <2>1, <2>2, <2>4 DEF OrderInv
<1>6. ASSUME NEW r \in Replicas, RedisFails(r)
      PROVE  OrderInv'
  <2>1. UNCHANGED <<rows, published, overlapped>> /\ RollBack(r)
    BY <1>6 DEF RedisFails, HandleFailure, table
  <2>2. RowsClosed' /\ (BatchClosed => BatchClosed')
    BY <2>1, LeaveKeepsBatches DEF OrderInv, RowsClosed, SameTx
  <2>3. PICK n \in Rows : IsNext(r, n) /\ (UNCHANGED redis \/ DeduplicatedXAdd(n))
    BY <1>6 DEF RedisFails
  <2>4. StreamClosed /\ BatchClosed => StreamClosed'
    <3>1. CASE UNCHANGED redis
      BY <1>0, <2>1, <3>1 DEF redis
    <3>2. CASE DeduplicatedXAdd(n)
      BY <2>1, <2>3, <3>2, NextIsClosed, XAddClosed
    <3>. QED BY <2>3, <3>1, <3>2
  <2>. QED BY <2>1, <2>2, <2>4 DEF OrderInv
<1>7. ASSUME NEW r \in Replicas, CommitBatch(r) \/ DatabaseFails(r) \/ Crash(r)
      PROVE  OrderInv'
  <2>1. /\ UNCHANGED <<rows, stream, overlapped>>
        /\ RollBack(r)
        /\ published \subseteq published'
    BY <1>7 DEF CommitBatch, DatabaseFails, Crash, HandleFailure, table, redis, counters
  <2>2. BatchClosed => BatchClosed'
    BY <2>1, LeaveKeepsBatches
  <2>. QED BY <1>0, <2>1, <2>2 DEF OrderInv
<1>8. ASSUME NEW r \in Replicas, SessionLost(r)
      PROVE  OrderInv'
  <2>1. UNCHANGED <<rows, stream, published, batch, overlapped>>
    BY <1>8 DEF SessionLost, table, redis
  <2>. QED BY <1>0, <2>1 DEF OrderInv, BatchClosed, SameTx
<1>9. ASSUME NEW r \in Replicas, PublishUnlocked(r)
      PROVE  OrderInv'
  <2>1. UNCHANGED <<rows, published, overlapped>> /\ RollBack(r)
    BY <1>9 DEF PublishUnlocked, HandleFailure, table, counters
  <2>2. RowsClosed' /\ (BatchClosed => BatchClosed')
    BY <2>1, LeaveKeepsBatches DEF OrderInv, RowsClosed, SameTx
  <2>3. PICK n \in Rows : IsNext(r, n) /\ DeduplicatedXAdd(n)
    BY <1>9 DEF PublishUnlocked
  <2>4. StreamClosed /\ BatchClosed => StreamClosed'
    BY <2>1, <2>3, NextIsClosed, XAddClosed
  <2>. QED BY <2>1, <2>2, <2>4 DEF OrderInv
<1>10. CASE UNCHANGED vars
  <2>1. UNCHANGED <<rows, stream, published, batch, overlapped>>
    BY <1>10 DEF vars, table, redis, task, counters
  <2>. QED BY <1>0, <2>1 DEF OrderInv, BatchClosed, SameTx
<1>. QED BY <1>1, <1>2, <1>3, <1>4, <1>5, <1>6, <1>7, <1>8, <1>9, <1>10
     DEF Next, TaskStep, Fault

(* Until two publishers hold batches at one time, the events of a          *)
(* transaction are in the stream in the order of their intents: a batch    *)
(* that is rolled back halfway is taken up again from where it was left.   *)
THEOREM TransactionsInOrder == Spec => []StreamInOrder
  BY OrderImplies, InitType, NextType, InitStream, NextStream, InitOrder, NextOrder,
     PTL DEF Spec
=============================================================================
