---------------------- MODULE GraphMaterializer_proofs ----------------------
(* What TLAPS proves of GraphMaterializer, for every set of replicas,      *)
(* batches and bounds.                                                     *)
EXTENDS GraphMaterializer, TLAPS

(* A replica that is handling a message holds the index of one.            *)
Handling == {"apply", "commit", "dead_letter", "commit_dead"}

RecordOK == \A r \in Replicas : pc[r] \in Handling => record[r] \in Offsets

TypeInv == TypeOK /\ RecordOK

(* What both leave behind: well-typed replicas, the ones still handling a  *)
(* message as they were.                                                   *)
ReplicaTypeNext ==
    /\ owner' \in Replicas \cup {Nobody}
    /\ pc' \in [Replicas -> PCs]
    /\ record' \in [Replicas -> 0 .. Len(topic)]
    /\ failures' \in [Replicas -> 0 .. (RetryMaxAttempts - 1)]
    /\ \A p \in Replicas : pc'[p] \in Handling =>
                              pc'[p] = pc[p] /\ record'[p] = record[p]

(* Leaving the process and the generic handler keep the replica's types,   *)
(* and leave it handling nothing.                                          *)
LEMMA ExitType ==
    ASSUME TypeInv, NEW r \in Replicas, Exit(r)
    PROVE  ReplicaTypeNext
  BY RetryAssumption DEF TypeInv, TypeOK, Exit, Handling, PCs, ReplicaTypeNext

LEMMA HandleFailureType ==
    ASSUME TypeInv, NEW r \in Replicas, HandleFailure(r)
    PROVE  ReplicaTypeNext
  <1>1. CASE failures[r] + 1 >= RetryMaxAttempts
    <2>1. failures[r] \in 0 .. (RetryMaxAttempts - 1)
      BY DEF TypeInv, TypeOK
    <2>2. Exit(r)
      BY <1>1, <2>1, RetryAssumption DEF HandleFailure
    <2>. QED BY <2>2, ExitType
  <1>2. CASE failures[r] + 1 < RetryMaxAttempts
    <2>1. failures[r] \in 0 .. (RetryMaxAttempts - 1)
      BY DEF TypeInv, TypeOK
    <2>2. /\ failures' = [failures EXCEPT ![r] = @ + 1]
          /\ pc' = [pc EXCEPT ![r] = "poll"]
          /\ record' = [record EXCEPT ![r] = 0]
          /\ owner' = owner
      BY <1>2, <2>1, RetryAssumption DEF HandleFailure
    <2>. QED BY <1>2, <2>1, <2>2, RetryAssumption
         DEF TypeInv, TypeOK, Handling, PCs, ReplicaTypeNext
  <1>. QED BY <1>1, <1>2, RetryAssumption DEF TypeInv, TypeOK

(* A transaction writes well-typed rows.                                   *)
LEMMA TransactionType ==
    ASSUME TypeInv, NEW b \in Batches, Transaction(b)
    PROVE  /\ inbox' \subseteq STRING
           /\ watermark' \in [Txs -> Nat]
           /\ edges' \subseteq Txs \X Txs
           /\ checkpoint' \in [Streams -> Nat]
           /\ outbox' \subseteq Request
  <1>1. b \in Batch
    BY BatchesAssumption
  <1>2. RequestsOf(b) \subseteq Request
    BY <1>1 DEF RequestsOf, Request, Batch
  <1>3. UpsertNodes(b) \in [Txs -> Nat] /\ UpsertCheckpoint(b) \in [Streams -> Nat]
    BY <1>1 DEF UpsertNodes, UpsertCheckpoint, Batch, TypeInv, TypeOK
  <1>4. CASE UNCHANGED database
    BY <1>4 DEF database, TypeInv, TypeOK
  <1>5. CASE WriteBatch(b)
    BY <1>1, <1>2, <1>3, <1>5 DEF WriteBatch, TypeInv, TypeOK, Batch
  <1>. QED BY <1>4, <1>5 DEF Transaction

LEMMA InitType == Init => TypeInv
  BY RetryAssumption DEF Init, TypeInv, TypeOK, RecordOK, Offsets, PCs, Handling

LEMMA NextType == TypeInv /\ [Next]_vars => TypeInv'
<1>. SUFFICES ASSUME TypeInv, [Next]_vars
              PROVE  TypeInv'
  OBVIOUS
<1>. USE RetryAssumption
<1>1. ASSUME NEW b \in Batches, Produce(b)
      PROVE  TypeInv'
  <2>1. topic' \in Seq(Batches) /\ Len(topic') = Len(topic) + 1 /\ Len(topic) \in Nat
    BY <1>1 DEF Produce, TypeInv, TypeOK
  <2>2. /\ 0 .. Len(topic) \subseteq 0 .. Len(topic')
        /\ 1 .. Len(topic) \subseteq 1 .. Len(topic')
    BY <2>1
  <2>3. UNCHANGED <<committed, owner, deadLetters, database, replica, counters>>
    BY <1>1 DEF Produce
  <2>. QED BY <2>1, <2>2, <2>3
       DEF TypeInv, TypeOK, RecordOK, Offsets, database, replica, counters
<1>2. ASSUME NEW r \in Replicas, Start(r)
      PROVE  TypeInv'
  BY <1>2 DEF Start, TypeInv, TypeOK, RecordOK, Offsets, Handling,
              kafka, database, counters, PCs
<1>3. ASSUME NEW r \in Replicas, Assign(r)
      PROVE  TypeInv'
  BY <1>3 DEF Assign, TypeInv, TypeOK, RecordOK, Offsets, Handling,
              TakePartition, database
<1>4. ASSUME NEW r \in Replicas, Rebalance(r)
      PROVE  TypeInv'
  BY <1>4 DEF Rebalance, TypeInv, TypeOK, RecordOK, Offsets, Handling,
              TakePartition, database
<1>5. ASSUME NEW r \in Replicas, Poll(r)
      PROVE  TypeInv'
  BY <1>5 DEF Poll, TypeInv, TypeOK, RecordOK, Offsets, Handling,
              kafka, database, counters, PCs
<1>6. ASSUME NEW r \in Replicas, Materialize(r)
      PROVE  TypeInv'
  <2>1. record[r] \in Offsets /\ Current(r) \in Batches
    BY <1>6 DEF Materialize, TypeInv, TypeOK, RecordOK, Offsets, Handling, Current
  <2>2. Transaction(Current(r))
    BY <1>6 DEF Materialize
  <2>. QED BY <1>6, <2>1, <2>2, TransactionType
       DEF Materialize, TypeInv, TypeOK, RecordOK, Offsets, Handling, PCs,
           kafka, counters
<1>7. ASSUME NEW r \in Replicas, RejectBatch(r)
      PROVE  TypeInv'
  BY <1>7 DEF RejectBatch, TypeInv, TypeOK, RecordOK, Offsets, Handling,
              kafka, database, counters, PCs
<1>8. ASSUME NEW r \in Replicas, RepeatedRow(r)
      PROVE  TypeInv'
  <2>1. HandleFailure(r)
    BY <1>8 DEF RepeatedRow
  <2>2. ReplicaTypeNext
    BY <2>1, HandleFailureType
  <2>3. /\ UNCHANGED <<topic, committed, deadLetters, database, position>>
        /\ crashes' \in Nat /\ dbFaults' \in Nat
        /\ ackFaults' \in Nat /\ rebalances' \in Nat
        /\ refused' \subseteq Offsets
    BY <1>8 DEF RepeatedRow, TypeInv, TypeOK, RecordOK, Handling
  <2>. QED BY <2>2, <2>3
       DEF ReplicaTypeNext, TypeInv, TypeOK, RecordOK, Offsets, database
<1>9. ASSUME NEW r \in Replicas, CommitOffset(r)
      PROVE  TypeInv'
  BY <1>9 DEF CommitOffset, TypeInv, TypeOK, RecordOK, Offsets, Handling,
              database, counters, PCs
<1>10. ASSUME NEW r \in Replicas, CommitRefused(r)
      PROVE  TypeInv'
  <2>1. HandleFailure(r)
    BY <1>10 DEF CommitRefused
  <2>2. ReplicaTypeNext
    BY <2>1, HandleFailureType
  <2>3. /\ UNCHANGED <<topic, committed, deadLetters, database, position>>
        /\ crashes' \in Nat /\ dbFaults' \in Nat
        /\ ackFaults' \in Nat /\ rebalances' \in Nat
        /\ refused' \subseteq Offsets
    BY <1>10 DEF CommitRefused, counters, TypeInv, TypeOK
  <2>. QED BY <2>2, <2>3
       DEF ReplicaTypeNext, TypeInv, TypeOK, RecordOK, Offsets, database
<1>11. ASSUME NEW r \in Replicas, PublishDeadLetter(r)
      PROVE  TypeInv'
  BY <1>11 DEF PublishDeadLetter, TypeInv, TypeOK, RecordOK, Offsets, Handling,
              database, counters, PCs
<1>12. ASSUME NEW r \in Replicas, CommitDeadLetter(r)
      PROVE  TypeInv'
  BY <1>12 DEF CommitDeadLetter, TypeInv, TypeOK, RecordOK, Offsets, Handling,
              database, counters, PCs
<1>13. ASSUME NEW r \in Replicas, CommitDeadLetterRefused(r)
      PROVE  TypeInv'
  <2>1. Exit(r)
    BY <1>13 DEF CommitDeadLetterRefused
  <2>2. ReplicaTypeNext
    BY <2>1, ExitType
  <2>3. /\ UNCHANGED <<topic, committed, deadLetters, database, position>>
        /\ crashes' \in Nat /\ dbFaults' \in Nat
        /\ ackFaults' \in Nat /\ rebalances' \in Nat
        /\ refused' \subseteq Offsets
    BY <1>13 DEF CommitDeadLetterRefused, counters, TypeInv, TypeOK
  <2>. QED BY <2>2, <2>3
       DEF ReplicaTypeNext, TypeInv, TypeOK, RecordOK, Offsets, database
<1>14. ASSUME NEW r \in Replicas, DatabaseUnavailable(r)
      PROVE  TypeInv'
  <2>1. HandleFailure(r)
    BY <1>14 DEF DatabaseUnavailable
  <2>2. ReplicaTypeNext
    BY <2>1, HandleFailureType
  <2>3. /\ UNCHANGED <<topic, committed, deadLetters, database, position>>
        /\ crashes' \in Nat /\ dbFaults' \in Nat
        /\ ackFaults' \in Nat /\ rebalances' \in Nat
        /\ refused' \subseteq Offsets
    BY <1>14 DEF DatabaseUnavailable, TypeInv, TypeOK, RecordOK, Handling
  <2>. QED BY <2>2, <2>3
       DEF ReplicaTypeNext, TypeInv, TypeOK, RecordOK, Offsets, database
<1>15. ASSUME NEW r \in Replicas, MaterializeUnacknowledged(r)
      PROVE  TypeInv'
  <2>1. record[r] \in Offsets /\ Current(r) \in Batches
    BY <1>15 DEF MaterializeUnacknowledged, TypeInv, TypeOK, RecordOK, Offsets,
                Handling, Current
  <2>2. Transaction(Current(r)) /\ HandleFailure(r)
    BY <1>15 DEF MaterializeUnacknowledged
  <2>3. ReplicaTypeNext
    BY <2>2, HandleFailureType
  <2>4. /\ UNCHANGED <<topic, committed, deadLetters, position>>
        /\ crashes' \in Nat /\ dbFaults' \in Nat
        /\ ackFaults' \in Nat /\ rebalances' \in Nat
        /\ refused' \subseteq Offsets
    BY <1>15 DEF MaterializeUnacknowledged, TypeInv, TypeOK
  <2>5. /\ inbox' \subseteq STRING
        /\ watermark' \in [Txs -> Nat]
        /\ edges' \subseteq Txs \X Txs
        /\ checkpoint' \in [Streams -> Nat]
        /\ outbox' \subseteq Request
    BY <2>1, <2>2, TransactionType
  <2>. QED BY <2>3, <2>4, <2>5
       DEF ReplicaTypeNext, TypeInv, TypeOK, RecordOK, Offsets
<1>16. ASSUME NEW r \in Replicas, CommitUnavailable(r)
      PROVE  TypeInv'
  <2>1. HandleFailure(r)
    BY <1>16 DEF CommitUnavailable
  <2>2. ReplicaTypeNext
    BY <2>1, HandleFailureType
  <2>3. /\ UNCHANGED <<topic, deadLetters, database, position>>
        /\ crashes' \in Nat /\ dbFaults' \in Nat
        /\ ackFaults' \in Nat /\ rebalances' \in Nat
        /\ refused' \subseteq Offsets
    BY <1>16 DEF CommitUnavailable, counters, TypeInv, TypeOK
  <2>4. committed' \in 0 .. Len(topic)
    BY <1>16 DEF CommitUnavailable, TypeInv, TypeOK
  <2>. QED BY <2>2, <2>3, <2>4
       DEF ReplicaTypeNext, TypeInv, TypeOK, RecordOK, Offsets, database
<1>17. ASSUME NEW r \in Replicas, Crash(r)
      PROVE  TypeInv'
  <2>1. Exit(r)
    BY <1>17 DEF Crash
  <2>2. ReplicaTypeNext
    BY <2>1, ExitType
  <2>3. /\ UNCHANGED <<topic, committed, deadLetters, database, position>>
        /\ crashes' \in Nat /\ dbFaults' \in Nat
        /\ ackFaults' \in Nat /\ rebalances' \in Nat
        /\ refused' \subseteq Offsets
    BY <1>17 DEF Crash, counters, TypeInv, TypeOK
  <2>. QED BY <2>2, <2>3
       DEF ReplicaTypeNext, TypeInv, TypeOK, RecordOK, Offsets, database
<1>18. CASE UNCHANGED vars
  BY <1>18 DEF vars, kafka, database, replica, counters, TypeInv, TypeOK, RecordOK,
              Offsets, Handling
<1>. QED BY <1>1, <1>2, <1>3, <1>4, <1>5, <1>6, <1>7, <1>8, <1>9, <1>10, <1>11, <1>12, <1>13, <1>14, <1>15, <1>16, <1>17, <1>18
     DEF Next, ReplicaStep, Fault

(* Every reachable state has the declared types: the committed offset, the *)
(* positions and the records in hand stay inside the topic, and no replica *)
(* survives its retry budget.                                              *)
THEOREM TypeCorrect == Spec => []TypeOK
  <1>1. TypeInv => TypeOK
    BY DEF TypeInv
  <1>. QED BY <1>1, InitType, NextType, PTL DEF Spec

-----------------------------------------------------------------------------
(* The database: what every transaction keeps true of the tables.          *)

(* A step leaves the tables alone or is the transaction of one batch.      *)
LEMMA DatabaseSteps ==
    ASSUME TypeInv, [Next]_vars
    PROVE  UNCHANGED database \/ \E b \in Batches : Transaction(b)
<1>1. ASSUME NEW r \in Replicas, Materialize(r) \/ MaterializeUnacknowledged(r)
      PROVE  \E b \in Batches : Transaction(b)
  <2>1. Current(r) \in Batches
    BY <1>1 DEF Materialize, MaterializeUnacknowledged, TypeInv, TypeOK, RecordOK,
                Offsets, Handling, Current
  <2>. QED BY <1>1, <2>1 DEF Materialize, MaterializeUnacknowledged
<1>2. ASSUME NEW r \in Replicas, ReplicaStep(r) \/ Fault(r),
             ~Materialize(r), ~MaterializeUnacknowledged(r)
      PROVE  UNCHANGED database
  BY <1>2 DEF ReplicaStep, Fault, Start, Assign, Rebalance, TakePartition, Poll,
     RejectBatch, RepeatedRow, CommitOffset, CommitRefused, PublishDeadLetter,
     CommitDeadLetter, CommitDeadLetterRefused, DatabaseUnavailable,
     CommitUnavailable, Crash
<1>3. ASSUME NEW b \in Batches, Produce(b)
      PROVE  UNCHANGED database
  BY <1>3 DEF Produce
<1>4. CASE UNCHANGED vars
  BY <1>4 DEF vars
<1>. QED BY <1>1, <1>2, <1>3, <1>4 DEF Next

(* The conditional upserts only raise watermarks, and raise those of the   *)
(* batch to its step at least.                                             *)
LEMMA UpsertsRaise ==
    ASSUME TypeInv, NEW b \in Batches, Transaction(b)
    PROVE  /\ \A t \in Txs : watermark'[t] >= watermark[t]
           /\ \A s \in Streams : checkpoint'[s] >= checkpoint[s]
           /\ \/ UNCHANGED database
              \/ /\ \A t \in b.nodes : watermark'[t] >= b.step
                 /\ checkpoint'[b.stream] >= b.step
  <1>1. b \in Batch
    BY BatchesAssumption
  <1>2. watermark \in [Txs -> Nat] /\ checkpoint \in [Streams -> Nat]
    BY DEF TypeInv, TypeOK
  <1>3. CASE UNCHANGED database
    BY <1>2, <1>3 DEF database
  <1>4. CASE WriteBatch(b)
    BY <1>1, <1>2, <1>4 DEF WriteBatch, UpsertNodes, UpsertCheckpoint, Batch
  <1>. QED BY <1>3, <1>4 DEF Transaction

LEMMA NextRaises ==
    ASSUME TypeInv, [Next]_vars
    PROVE  /\ \A t \in Txs : watermark'[t] >= watermark[t]
           /\ \A s \in Streams : checkpoint'[s] >= checkpoint[s]
  <1>1. CASE UNCHANGED database
    BY <1>1 DEF database, TypeInv, TypeOK
  <1>2. ASSUME NEW b \in Batches, Transaction(b)
        PROVE  /\ \A t \in Txs : watermark'[t] >= watermark[t]
               /\ \A s \in Streams : checkpoint'[s] >= checkpoint[s]
    BY <1>2, UpsertsRaise
  <1>. QED BY <1>1, <1>2, DatabaseSteps

(* No step, whatever its order among late, duplicated or replayed batches, *)
(* takes a transaction or a checkpoint back to an earlier watermark.       *)
THEOREM WatermarksMonotone == Spec => WatermarksNeverRegress
  <1>1. TypeInv /\ [Next]_vars =>
          [/\ \A t \in Txs : watermark'[t] >= watermark[t]
           /\ \A s \in Streams : checkpoint'[s] >= checkpoint[s]]_vars
    BY NextRaises
  <1>. QED BY <1>1, InitType, NextType, PTL DEF Spec, WatermarksNeverRegress

(* Every scoring request's transaction has a row at the request's          *)
(* watermark or a later one, so a worker never finds the graph behind.     *)
THEOREM RequestsFollowGraph == Spec => []RequestsReadGraph
  <1>1. Init => RequestsReadGraph
    BY DEF Init, RequestsReadGraph
  <1>2. TypeInv /\ RequestsReadGraph /\ [Next]_vars => RequestsReadGraph'
    <2>. SUFFICES ASSUME TypeInv, RequestsReadGraph, [Next]_vars,
                         NEW q \in outbox'
                  PROVE  watermark'[q.tx] >= q.watermark
      BY DEF RequestsReadGraph
    <2>. /\ watermark \in [Txs -> Nat] /\ watermark' \in [Txs -> Nat]
         /\ outbox' \subseteq Request
      BY NextType DEF TypeInv, TypeOK
    <2>1. CASE q \in outbox
      <3>1. /\ watermark[q.tx] >= q.watermark
            /\ watermark'[q.tx] >= watermark[q.tx]
            /\ q.tx \in Txs /\ q.watermark \in Nat
        BY <2>1, NextRaises DEF RequestsReadGraph, Request
      <3>. QED BY <3>1
    <2>2. CASE q \notin outbox
      <3>1. PICK b \in Batches : Transaction(b) /\ ~UNCHANGED database
        BY <2>2, DatabaseSteps DEF database
      <3>2. q \in RequestsOf(b)
        BY <2>2, <3>1 DEF Transaction, WriteBatch
      <3>3. q.tx \in b.nodes /\ q.watermark = b.step
        BY <3>2 DEF RequestsOf
      <3>. QED BY <3>1, <3>3, UpsertsRaise
    <2>. QED BY <2>1, <2>2
  <1>. QED BY <1>1, <1>2, InitType, NextType, PTL DEF Spec

(* A claimed event was applied whole, and stays so: its requests, its      *)
(* edges, both ends of each edge and its checkpoint are in the database.   *)
THEOREM ClaimsComplete == Spec => []ClaimComplete
  <1>1. Init => ClaimComplete
    BY DEF Init, ClaimComplete
  <1>2. TypeInv /\ ClaimComplete /\ [Next]_vars => ClaimComplete'
    <2>. SUFFICES ASSUME TypeInv, ClaimComplete, [Next]_vars,
                         NEW b \in Batches, b.event \in inbox'
                  PROVE  /\ RequestsOf(b) \subseteq outbox'
                         /\ b.edges \subseteq edges'
                         /\ checkpoint'[b.stream] >= b.step
                         /\ \A e \in b.edges : watermark'[e[1]] > 0 /\ watermark'[e[2]] > 0
      BY DEF ClaimComplete, RequestsOf
    <2>0. /\ watermark \in [Txs -> Nat] /\ watermark' \in [Txs -> Nat]
          /\ checkpoint \in [Streams -> Nat] /\ checkpoint' \in [Streams -> Nat]
      BY NextType DEF TypeInv, TypeOK
    <2>1. /\ b.stream \in Streams /\ b.step \in Nat
          /\ \A e \in b.edges : e[1] \in Txs /\ e[2] \in Txs
      BY BatchesAssumption DEF Batch
    <2>2. outbox \subseteq outbox' /\ edges \subseteq edges'
      BY DatabaseSteps DEF Transaction, WriteBatch, database
    <2>3. CASE b.event \in inbox
      <3>1. /\ RequestsOf(b) \subseteq outbox
            /\ b.edges \subseteq edges
            /\ checkpoint[b.stream] >= b.step
            /\ \A e \in b.edges : watermark[e[1]] > 0 /\ watermark[e[2]] > 0
        BY <2>3 DEF ClaimComplete
      <3>2. checkpoint'[b.stream] >= b.step
        BY <2>0, <2>1, <3>1, NextRaises
      <3>3. \A e \in b.edges : watermark'[e[1]] > 0 /\ watermark'[e[2]] > 0
        BY <2>0, <2>1, <3>1, NextRaises
      <3>. QED BY <2>2, <3>1, <3>2, <3>3
    <2>4. CASE b.event \notin inbox
      <3>1. PICK c \in Batches : Transaction(c) /\ ~UNCHANGED database
        BY <2>4, DatabaseSteps DEF database
      <3>2. WriteBatch(c) /\ ~ConstraintViolated(c)
        BY <3>1 DEF Transaction
      <3>3. c = b
        BY <2>4, <3>2, BatchesAssumption DEF WriteBatch
      <3>4. checkpoint'[b.stream] >= b.step
        BY <3>1, <3>3, UpsertsRaise
      <3>5. RequestsOf(b) \subseteq outbox' /\ b.edges \subseteq edges'
        BY <3>2, <3>3 DEF WriteBatch
      <3>6. \A e \in b.edges : watermark'[e[1]] # 0 /\ watermark'[e[2]] # 0
        BY <3>2, <3>3 DEF ConstraintViolated, WriteBatch
      <3>7. \A e \in b.edges : watermark'[e[1]] > 0 /\ watermark'[e[2]] > 0
        BY <2>0, <2>1, <3>6
      <3>. QED BY <3>4, <3>5, <3>7
    <2>. QED BY <2>3, <2>4
  <1>. QED BY <1>1, <1>2, InitType, NextType, PTL DEF Spec

(* The checkpoint of a stream is the newest of its steps in the database,  *)
(* neither ahead nor behind, also when an older step is applied later.     *)
THEOREM CheckpointIsExact == Spec => []CheckpointExact
  <1>1. Init => CheckpointExact
    BY DEF Init, CheckpointExact, AppliedSteps
  <1>2. TypeInv /\ CheckpointExact /\ [Next]_vars => CheckpointExact'
    <2>. SUFFICES ASSUME TypeInv, CheckpointExact, [Next]_vars, NEW s \in Streams
                  PROVE  /\ checkpoint'[s] \in AppliedSteps(s)' \cup {0}
                         /\ \A n \in AppliedSteps(s)' : n <= checkpoint'[s]
      BY DEF CheckpointExact
    <2>0. /\ checkpoint \in [Streams -> Nat]
          /\ checkpoint[s] \in AppliedSteps(s) \cup {0}
          /\ \A n \in AppliedSteps(s) : n <= checkpoint[s]
      BY DEF TypeInv, TypeOK, CheckpointExact
    <2>1. CASE UNCHANGED database
      BY <2>0, <2>1 DEF database, AppliedSteps
    <2>2. CASE ~UNCHANGED database
      <3>1. PICK b \in Batches : Transaction(b)
        BY <2>2, DatabaseSteps
      <3>2. WriteBatch(b)
        BY <2>2, <3>1 DEF Transaction
      <3>3. b.step \in Nat /\ b.stream \in Streams
        BY BatchesAssumption DEF Batch
      <3>4. AppliedSteps(s)' = IF b.stream = s THEN AppliedSteps(s) \cup {b.step}
                               ELSE AppliedSteps(s)
        BY <3>2, BatchesAssumption DEF WriteBatch, AppliedSteps
      <3>5. checkpoint'[s] = IF s = b.stream /\ b.step >= checkpoint[s]
                             THEN b.step ELSE checkpoint[s]
        BY <3>2 DEF WriteBatch, UpsertCheckpoint
      <3>6. AppliedSteps(s) \subseteq Nat
        BY BatchesAssumption DEF AppliedSteps, Batch
      <3>. QED BY <2>0, <3>3, <3>4, <3>5, <3>6
    <2>. QED BY <2>1, <2>2
  <1>. QED BY <1>1, <1>2, InitType, NextType, PTL DEF Spec

-----------------------------------------------------------------------------
(* Offsets: nothing is passed over but what PostgreSQL refused.            *)

(* The messages before the one in hand are accounted for, the one in hand  *)
(* is before its offset is committed, and only the one in hand may be open *)
(* among those that getone() has returned to the owner since the partition *)
(* was assigned to it.                                                     *)
Unsettled == {"apply", "dead_letter"}

DurableInv ==
    /\ CommittedAccounted
    /\ \A r \in Replicas : pc[r] \in Handling =>
         \A i \in Offsets : i < record[r] => Accounted(i)
    /\ \A r \in Replicas : pc[r] \in {"commit", "commit_dead"} => Accounted(record[r])
    /\ \A r \in Replicas : owner = r =>
         \A i \in Offsets : i <= position[r] =>
           Accounted(i) \/ (i = record[r] /\ pc[r] \in Unsettled)

(* The inbox, the dead letters and the refusals only grow, so a message    *)
(* accounted for stays so.                                                 *)
LEMMA AccountedStable ==
    ASSUME TypeInv, [Next]_vars, NEW i \in Offsets
    PROVE  i \in Offsets' /\ topic'[i] = topic[i] /\ (Accounted(i) => Accounted(i)')
<1>1. inbox \subseteq inbox'
  BY DatabaseSteps DEF Transaction, WriteBatch, database
<1>2. ASSUME NEW b \in Batches, Produce(b)
      PROVE  i \in Offsets' /\ topic'[i] = topic[i] /\ deadLetters' = deadLetters /\ refused' = refused
  BY <1>2 DEF Produce, TypeInv, TypeOK, Offsets, counters
<1>3. ASSUME NEW r \in Replicas, ReplicaStep(r) \/ Fault(r)
      PROVE  topic' = topic /\ deadLetters \subseteq deadLetters' /\ refused \subseteq refused'
  BY <1>3 DEF ReplicaStep, Fault, Start, Assign, Rebalance, TakePartition, Poll,
     Materialize, RejectBatch, RepeatedRow, CommitOffset, CommitRefused,
     PublishDeadLetter, CommitDeadLetter, CommitDeadLetterRefused,
     DatabaseUnavailable, MaterializeUnacknowledged, CommitUnavailable, Crash, kafka, counters
<1>4. CASE UNCHANGED vars
  BY <1>4 DEF vars, kafka, counters, Offsets, Accounted, Settled, database
<1>. QED BY <1>1, <1>2, <1>3, <1>4 DEF Next, Offsets, Accounted, Settled

(* A step of replica r that moves neither the topic nor a position keeps   *)
(* DurableInv if what r stops handling, and what it commits, is settled.   *)
LEMMA KeepsDurable ==
    ASSUME TypeInv, DurableInv, [Next]_vars, topic' = topic, position' = position,
           NEW r \in Replicas,
           \A p \in Replicas : p # r => pc'[p] = pc[p] /\ record'[p] = record[p],
           \A p \in Replicas : owner' = p => owner = p,
           pc'[r] \in Handling => pc[r] \in Handling /\ record'[r] = record[r],
           pc'[r] \in {"commit", "commit_dead"} =>
             \A i \in Offsets : i = record[r] => Accounted(i)',
           owner' = r /\ pc[r] \in Unsettled =>
             \/ pc'[r] \in Unsettled /\ record'[r] = record[r]
             \/ \A i \in Offsets : i = record[r] => Accounted(i)',
           committed' = committed \/ \A i \in Offsets : i <= committed' => Accounted(i)
    PROVE  DurableInv'
<1>1. Offsets' = Offsets
  BY DEF Offsets
<1>2. \A i \in Offsets : Accounted(i) => Accounted(i)'
  BY AccountedStable
<1>3. CommittedAccounted'
  BY <1>1, <1>2 DEF DurableInv, CommittedAccounted
<1>4. \A p \in Replicas : pc'[p] \in Handling => pc[p] \in Handling /\ record'[p] = record[p]
  OBVIOUS
<1>5. \A p \in Replicas : pc'[p] \in Handling =>
         \A i \in Offsets' : i < record'[p] => Accounted(i)'
  BY <1>1, <1>2, <1>4 DEF DurableInv
<1>6. ASSUME NEW p \in Replicas, pc'[p] \in {"commit", "commit_dead"}
      PROVE  Accounted(record[p])'
  <2>1. pc[p] \in Handling /\ record'[p] = record[p] /\ record[p] \in Offsets
    BY <1>4, <1>6 DEF Handling, TypeInv, RecordOK
  <2>2. ASSUME NEW i \in Offsets, i = record[p]
        PROVE  Accounted(i)'
    <3>1. CASE p = r
      BY <1>6, <2>2, <3>1
    <3>2. CASE p # r
      <4>1. Accounted(i)
        BY <1>6, <2>2, <3>2 DEF DurableInv
      <4>. QED BY <1>2, <4>1
    <3>. QED BY <3>1, <3>2
  <2>3. \A i \in Offsets : i = record'[p] => Accounted(i)'
    BY <2>1, <2>2
  <2>. QED BY <2>1, <2>3 DEF Accounted, Settled
<1>7. ASSUME NEW p \in Replicas, owner' = p, NEW i \in Offsets, i <= position'[p]
      PROVE  Accounted(i)' \/ (i = record'[p] /\ pc'[p] \in Unsettled)
  <2>1. Accounted(i) \/ (i = record[p] /\ pc[p] \in Unsettled)
    BY <1>7 DEF DurableInv
  <2>2. CASE p = r
    BY <1>2, <1>7, <2>1, <2>2
  <2>3. CASE p # r
    BY <1>2, <1>7, <2>1, <2>3
  <2>. QED BY <2>2, <2>3
<1>. QED BY <1>1, <1>3, <1>5, <1>6, <1>7 DEF DurableInv

LEMMA NextDurable == TypeInv /\ DurableInv /\ [Next]_vars => DurableInv'
<1>. SUFFICES ASSUME TypeInv, DurableInv, [Next]_vars
              PROVE  DurableInv'
  OBVIOUS
<1>0. /\ pc \in [Replicas -> PCs] /\ record \in [Replicas -> 0 .. Len(topic)]
      /\ position \in [Replicas -> 0 .. Len(topic)] /\ committed \in 0 .. Len(topic)
      /\ failures \in [Replicas -> 0 .. (RetryMaxAttempts - 1)]
      /\ Len(topic) \in Nat /\ dbFaults \in Nat
  BY DEF TypeInv, TypeOK
<1>00. Nobody \notin Replicas
  BY NobodyAssumption
<1>1. ASSUME NEW b \in Batches, Produce(b)
      PROVE  DurableInv'
  <2>1. /\ UNCHANGED <<committed, owner, deadLetters, database, replica, refused>>
        /\ topic' = Append(topic, b)
    BY <1>1 DEF Produce, counters
  <2>2. \A i \in Offsets', n \in 0 .. Len(topic) :
          (i <= n => i \in Offsets) /\ (i < n => i \in Offsets)
    BY <1>0 DEF Offsets
  <2>3. \A i \in Offsets : Accounted(i) => Accounted(i)'
    BY AccountedStable
  <2>4. \A r \in Replicas : pc[r] \in Handling => record[r] \in Offsets
    BY DEF TypeInv, RecordOK
  <2>5. \A i \in Offsets : topic'[i] = topic[i]
    BY AccountedStable
  <2>6. CommittedAccounted'
    BY <1>0, <2>1, <2>2, <2>3 DEF DurableInv, CommittedAccounted
  <2>7. \A r \in Replicas : pc'[r] \in Handling =>
          \A i \in Offsets' : i < record'[r] => Accounted(i)'
    BY <1>0, <2>1, <2>2, <2>3 DEF DurableInv, replica
  <2>8. \A r \in Replicas : pc'[r] \in {"commit", "commit_dead"} => Accounted(record[r])'
    BY <2>1, <2>4, <2>5 DEF DurableInv, replica, database, Accounted, Settled, Handling
  <2>9. \A r \in Replicas : owner' = r =>
          \A i \in Offsets' : i <= position'[r] =>
            Accounted(i)' \/ (i = record'[r] /\ pc'[r] \in Unsettled)
    BY <1>0, <2>1, <2>2, <2>3 DEF DurableInv, replica
  <2>. QED BY <2>6, <2>7, <2>8, <2>9 DEF DurableInv
<1>2. ASSUME NEW r \in Replicas, Start(r)
      PROVE  DurableInv'
  BY <1>0, <1>00, <1>2, KeepsDurable
     DEF Start, Handling, Unsettled, kafka
<1>3. ASSUME NEW r \in Replicas, Assign(r)
      PROVE  DurableInv'
  <2>1. \A i \in Offsets : Accounted(i) => Accounted(i)'
    BY AccountedStable
  <2>2. /\ UNCHANGED <<topic, committed, deadLetters, inbox, pc, record, refused>>
        /\ owner' = r
        /\ position' = [position EXCEPT ![r] = committed]
    BY <1>3 DEF Assign, TakePartition, database
  <2>. QED BY <1>0, <2>1, <2>2
       DEF DurableInv, CommittedAccounted, Accounted, Settled, Offsets
<1>4. ASSUME NEW r \in Replicas, Rebalance(r)
      PROVE  DurableInv'
  <2>1. \A i \in Offsets : Accounted(i) => Accounted(i)'
    BY AccountedStable
  <2>2. /\ UNCHANGED <<topic, committed, deadLetters, inbox, pc, record, refused>>
        /\ owner' = r
        /\ position' = [position EXCEPT ![r] = committed]
    BY <1>4 DEF Rebalance, TakePartition, database
  <2>. QED BY <1>0, <2>1, <2>2
       DEF DurableInv, CommittedAccounted, Accounted, Settled, Offsets
<1>5. ASSUME NEW r \in Replicas, Poll(r)
      PROVE  DurableInv'
  <2>1. /\ UNCHANGED <<topic, committed, owner, deadLetters, inbox, refused>>
        /\ pc[r] = "poll" /\ owner = r
        /\ position' = [position EXCEPT ![r] = @ + 1]
        /\ record' = [record EXCEPT ![r] = position[r] + 1]
        /\ pc' = [pc EXCEPT ![r] = pc'[r]]
        /\ pc'[r] \in Unsettled
    BY <1>0, <1>5 DEF Poll, kafka, database, counters, Unsettled
  <2>2. \A i \in Offsets : i <= position[r] => Accounted(i)
    BY <2>1 DEF DurableInv, Unsettled
  <2>3. Offsets' = Offsets /\ \A i : Accounted(i)' <=> Accounted(i)
    BY <2>1 DEF Offsets, Accounted, Settled
  <2>4. CommittedAccounted'
    BY <2>1, <2>3 DEF DurableInv, CommittedAccounted
  <2>5. \A p \in Replicas : pc'[p] \in Handling =>
          \A i \in Offsets' : i < record'[p] => Accounted(i)'
    BY <1>0, <2>1, <2>2, <2>3 DEF DurableInv, Offsets
  <2>6. \A p \in Replicas : pc'[p] \in {"commit", "commit_dead"} => Accounted(record[p])'
    BY <1>0, <2>1 DEF DurableInv, Accounted, Settled, Unsettled
  <2>7. \A p \in Replicas : owner' = p =>
          \A i \in Offsets' : i <= position'[p] =>
            Accounted(i)' \/ (i = record'[p] /\ pc'[p] \in Unsettled)
    BY <1>0, <2>1, <2>2, <2>3 DEF Offsets
  <2>. QED BY <2>4, <2>5, <2>6, <2>7 DEF DurableInv
<1>6. ASSUME NEW r \in Replicas, Materialize(r)
      PROVE  DurableInv'
  <2>1. Transaction(Current(r)) /\ UNCHANGED <<topic, committed, position>>
    BY <1>6 DEF Materialize, kafka
  <2>2. \A i \in Offsets : i = record[r] => Accounted(i)'
    BY <2>1 DEF Transaction, WriteBatch, database, Current, Accounted, Settled
  <2>. QED BY <1>0, <1>6, <2>1, <2>2, KeepsDurable
       DEF Materialize, Handling, Unsettled, kafka
<1>7. ASSUME NEW r \in Replicas, RejectBatch(r)
      PROVE  DurableInv'
  BY <1>0, <1>00, <1>7, KeepsDurable
     DEF RejectBatch, Handling, Unsettled, kafka
<1>8. ASSUME NEW r \in Replicas, RepeatedRow(r)
      PROVE  DurableInv'
  <2>1. /\ UNCHANGED <<topic, committed, position>>
        /\ refused' = refused \cup {record[r]}
    BY <1>8 DEF RepeatedRow
  <2>2. \A i \in Offsets : i = record[r] => Accounted(i)'
    BY <2>1 DEF Accounted
  <2>3. /\ \A p \in Replicas : p # r => pc'[p] = pc[p] /\ record'[p] = record[p]
        /\ \A p \in Replicas : owner' = p => owner = p
        /\ pc'[r] \in {"poll", "down"}
    BY <1>0, <1>00, <1>8 DEF RepeatedRow, HandleFailure, Exit
  <2>. QED BY <2>1, <2>2, <2>3, KeepsDurable DEF Handling, Unsettled
<1>9. ASSUME NEW r \in Replicas, CommitOffset(r)
      PROVE  DurableInv'
  <2>1. \A i \in Offsets : i <= record[r] => Accounted(i)
    BY <1>0, <1>9 DEF CommitOffset, DurableInv, Handling, Offsets
  <2>2. /\ pc[r] = "commit" /\ owner' = owner
        /\ UNCHANGED <<topic, position>>
        /\ committed' = record[r]
        /\ pc' = [pc EXCEPT ![r] = "poll"]
        /\ record' = [record EXCEPT ![r] = 0]
    BY <1>9 DEF CommitOffset
  <2>. QED BY <1>0, <2>1, <2>2, KeepsDurable DEF Handling, Unsettled
<1>10. ASSUME NEW r \in Replicas, CommitRefused(r)
      PROVE  DurableInv'
  <2>1. /\ UNCHANGED <<topic, committed, position>>
        /\ pc[r] = "commit"
    BY <1>10 DEF CommitRefused
  <2>2. /\ \A p \in Replicas : p # r => pc'[p] = pc[p] /\ record'[p] = record[p]
        /\ \A p \in Replicas : owner' = p => owner = p
        /\ pc'[r] \in {"poll", "down"}
    BY <1>0, <1>00, <1>10 DEF CommitRefused, HandleFailure, Exit
  <2>. QED BY <2>1, <2>2, KeepsDurable DEF Handling, Unsettled
<1>11. ASSUME NEW r \in Replicas, PublishDeadLetter(r)
      PROVE  DurableInv'
  <2>1. \A i \in Offsets : i = record[r] => Accounted(i)'
    BY <1>11 DEF PublishDeadLetter, Accounted, Settled
  <2>. QED BY <1>0, <1>11, <2>1, KeepsDurable
       DEF PublishDeadLetter, Handling, Unsettled
<1>12. ASSUME NEW r \in Replicas, CommitDeadLetter(r)
      PROVE  DurableInv'
  <2>1. \A i \in Offsets : i <= record[r] => Accounted(i)
    BY <1>0, <1>12 DEF CommitDeadLetter, DurableInv, Handling, Offsets
  <2>2. /\ pc[r] = "commit_dead" /\ owner' = owner
        /\ UNCHANGED <<topic, position>>
        /\ committed' = record[r]
        /\ pc' = [pc EXCEPT ![r] = "poll"]
        /\ record' = [record EXCEPT ![r] = 0]
    BY <1>12 DEF CommitDeadLetter
  <2>. QED BY <1>0, <2>1, <2>2, KeepsDurable DEF Handling, Unsettled
<1>13. ASSUME NEW r \in Replicas, CommitDeadLetterRefused(r)
      PROVE  DurableInv'
  <2>1. /\ UNCHANGED <<topic, committed, position>>
        /\ pc[r] = "commit_dead"
    BY <1>13 DEF CommitDeadLetterRefused
  <2>2. /\ \A p \in Replicas : p # r => pc'[p] = pc[p] /\ record'[p] = record[p]
        /\ \A p \in Replicas : owner' = p => owner = p
        /\ pc'[r] \in {"poll", "down"}
    BY <1>0, <1>00, <1>13 DEF CommitDeadLetterRefused, HandleFailure, Exit
  <2>. QED BY <2>1, <2>2, KeepsDurable DEF Handling, Unsettled
<1>14. ASSUME NEW r \in Replicas, DatabaseUnavailable(r)
      PROVE  DurableInv'
  <2>1. /\ UNCHANGED <<topic, committed, position>>
        /\ refused' = refused \cup {record[r]}
    BY <1>14 DEF DatabaseUnavailable
  <2>2. \A i \in Offsets : i = record[r] => Accounted(i)'
    BY <2>1 DEF Accounted
  <2>3. /\ \A p \in Replicas : p # r => pc'[p] = pc[p] /\ record'[p] = record[p]
        /\ \A p \in Replicas : owner' = p => owner = p
        /\ pc'[r] \in {"poll", "down"}
    BY <1>0, <1>00, <1>14 DEF DatabaseUnavailable, HandleFailure, Exit
  <2>. QED BY <2>1, <2>2, <2>3, KeepsDurable DEF Handling, Unsettled
<1>15. ASSUME NEW r \in Replicas, MaterializeUnacknowledged(r)
      PROVE  DurableInv'
  <2>1. Transaction(Current(r)) /\ UNCHANGED <<topic, committed, position>>
    BY <1>15 DEF MaterializeUnacknowledged, kafka
  <2>2. \A i \in Offsets : i = record[r] => Accounted(i)'
    BY <2>1 DEF Transaction, WriteBatch, database, Current, Accounted, Settled
  <2>3. /\ \A p \in Replicas : p # r => pc'[p] = pc[p] /\ record'[p] = record[p]
        /\ \A p \in Replicas : owner' = p => owner = p
        /\ pc'[r] \in {"poll", "down"}
    BY <1>0, <1>00, <1>15 DEF MaterializeUnacknowledged, HandleFailure, Exit
  <2>. QED BY <2>1, <2>2, <2>3, KeepsDurable DEF Handling, Unsettled
<1>16. ASSUME NEW r \in Replicas, CommitUnavailable(r)
      PROVE  DurableInv'
  <2>1. /\ UNCHANGED <<topic, position>>
        /\ pc[r] = "commit"
        /\ committed' \in {committed, record[r]}
    BY <1>16 DEF CommitUnavailable
  <2>2. /\ \A p \in Replicas : p # r => pc'[p] = pc[p] /\ record'[p] = record[p]
        /\ \A p \in Replicas : owner' = p => owner = p
        /\ pc'[r] \in {"poll", "down"}
    BY <1>0, <1>00, <1>16 DEF CommitUnavailable, HandleFailure, Exit
  <2>3. \A i \in Offsets : i <= record[r] => Accounted(i)
    BY <1>0, <2>1 DEF DurableInv, Handling, Offsets
  <2>. QED BY <2>1, <2>2, <2>3, KeepsDurable DEF Handling, Unsettled
<1>17. ASSUME NEW r \in Replicas, Crash(r)
      PROVE  DurableInv'
  <2>1. /\ UNCHANGED <<topic, committed, position>>
        /\ \A p \in Replicas : p # r => pc'[p] = pc[p] /\ record'[p] = record[p]
        /\ \A p \in Replicas : owner' = p => owner = p
        /\ pc'[r] = "down" /\ owner' # r
    BY <1>0, <1>00, <1>17 DEF Crash, Exit
  <2>. QED BY <2>1, KeepsDurable DEF Handling, Unsettled
<1>18. CASE UNCHANGED vars
  BY <1>18 DEF vars, kafka, database, replica, counters, DurableInv,
              CommittedAccounted, Accounted, Settled, Offsets
<1>. QED BY <1>1, <1>2, <1>3, <1>4, <1>5, <1>6, <1>7, <1>8, <1>9, <1>10, <1>11, <1>12, <1>13, <1>14, <1>15, <1>16, <1>17, <1>18
     DEF Next, ReplicaStep, Fault

(* The group never resumes past a message that is neither applied nor      *)
(* dead-lettered unless PostgreSQL refused that very message, whatever the *)
(* number of replicas, crashes, rebalances and refused offset commits.     *)
THEOREM CommittedIsAccounted == Spec => []CommittedAccounted
  <1>1. Init => DurableInv
    BY DEF Init, DurableInv, CommittedAccounted, Offsets, Handling
  <1>2. DurableInv => CommittedAccounted
    BY DEF DurableInv
  <1>. QED BY <1>1, <1>2, InitType, NextType, NextDurable, PTL DEF Spec

(* The batches are applied in the order of the topic, but for those that   *)
(* were refused, although replicas that lost the partition go on with the  *)
(* record they hold.                                                       *)
THEOREM MaterializesInOrder == Spec => []MaterializedInOrder
  <1>1. Init => DurableInv /\ MaterializedInOrder
    BY DEF Init, DurableInv, CommittedAccounted, Offsets, Handling, MaterializedInOrder
  <1>2. TypeInv /\ DurableInv /\ MaterializedInOrder /\ [Next]_vars => MaterializedInOrder'
    <2>. SUFFICES ASSUME TypeInv, DurableInv, MaterializedInOrder, [Next]_vars,
                         NEW e \in inbox'
                  PROVE  \E i \in Offsets' : /\ topic'[i].event = e
                                             /\ \A j \in Offsets' : j < i => Accounted(j)'
      BY DEF MaterializedInOrder
    <2>1. \A i \in Offsets :
             /\ i \in Offsets' /\ topic'[i] = topic[i]
             /\ Accounted(i) => Accounted(i)'
      BY AccountedStable
    <2>2. \A i \in Offsets, j \in Offsets' : j < i => j \in Offsets
      <3>1. Len(topic) \in Nat
        BY DEF TypeInv, TypeOK
      <3>. QED BY <3>1 DEF Offsets
    <2>3. PICK i \in Offsets : /\ topic[i].event = e
                               /\ \A j \in Offsets : j < i => Accounted(j)
      <3>1. CASE e \in inbox
        BY <3>1 DEF MaterializedInOrder
      <3>2. CASE e \notin inbox
        <4>1. PICK r \in Replicas : Materialize(r) \/ MaterializeUnacknowledged(r)
          BY <3>2 DEF Next, ReplicaStep, Fault, Produce, Start, Assign, Rebalance,
             TakePartition, Poll, RejectBatch, RepeatedRow, CommitOffset,
             CommitRefused, PublishDeadLetter, CommitDeadLetter,
             CommitDeadLetterRefused, DatabaseUnavailable, CommitUnavailable,
             Crash, vars, database
        <4>2. pc[r] = "apply" /\ Transaction(Current(r))
          BY <4>1 DEF Materialize, MaterializeUnacknowledged
        <4>3. Current(r).event = e
          BY <3>2, <4>2 DEF Transaction, WriteBatch, database
        <4>4. record[r] \in Offsets /\ topic[record[r]].event = e
          BY <4>2, <4>3 DEF Current, Handling, TypeInv, RecordOK
        <4>5. \A j \in Offsets : j < record[r] => Accounted(j)
          BY <4>2 DEF DurableInv, Handling
        <4>. QED BY <4>4, <4>5
      <3>. QED BY <3>1, <3>2
    <2>4. i \in Offsets' /\ topic'[i].event = e
      BY <2>1, <2>3
    <2>5. ASSUME NEW j \in Offsets', j < i
          PROVE  Accounted(j)'
      BY <2>1, <2>2, <2>3, <2>5
    <2>. QED BY <2>4, <2>5
  <1>. QED BY <1>1, <1>2, InitType, NextType, NextDurable, PTL DEF Spec
=============================================================================
