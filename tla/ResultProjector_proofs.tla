------------------------ MODULE ResultProjector_proofs ------------------------
(***************************************************************************)
(* What holds of the result projector for any number of replicas, results  *)
(* and transactions and any number of faults of every kind: the types,     *)
(* that the stored score is unbeaten and intended for publication, and     *)
(* that the consumer implements the abstract store.                        *)
(***************************************************************************)
EXTENDS ResultProjector, TLAPS

Handling == {"project", "commit", "dead_letter", "commit_dead"}

(* TypeOK does not say that a replica handling a message has one, nor that *)
(* only a message that validates is projected.                             *)
RecordOK ==
    \A r \in Replicas :
        /\ pc[r] \in Handling => record[r] \in Offsets
        /\ pc[r] = "project" => Current(r).form = "valid"

TypeInv == TypeOK /\ RecordOK

-----------------------------------------------------------------------------
(* Types                                                                   *)

(* The variables that leaving or failing changes are well typed after it.  *)
ReplicaTypeNext ==
    /\ owner' \in Replicas \cup {Nobody}
    /\ pc' \in [Replicas -> PCs]
    /\ record' \in [Replicas -> 0 .. Len(topic)]
    /\ failures' \in [Replicas -> 0 .. (RetryMaxAttempts - 1)]
    /\ \A p \in Replicas :
         pc'[p] \in Handling => pc'[p] = pc[p] /\ record'[p] = record[p]

LEMMA ExitType ==
    ASSUME TypeInv, NEW r \in Replicas, Exit(r)
    PROVE  ReplicaTypeNext
  BY BoundsAssumption DEF Exit, TypeInv, TypeOK, PCs, Handling, ReplicaTypeNext

LEMMA HandleFailureType ==
    ASSUME TypeInv, NEW r \in Replicas, HandleFailure(r)
    PROVE  ReplicaTypeNext
  <1>. USE BoundsAssumption
  <1>1. failures[r] \in 0 .. (RetryMaxAttempts - 1)
    BY DEF TypeInv, TypeOK
  <1>2. CASE failures[r] + 1 >= RetryMaxAttempts
    <2>1. Exit(r)
      BY <1>1, <1>2 DEF HandleFailure
    <2>. QED BY <2>1, ExitType
  <1>3. CASE failures[r] + 1 < RetryMaxAttempts
    <2>1. /\ failures' = [failures EXCEPT ![r] = @ + 1]
          /\ pc' = [pc EXCEPT ![r] = "poll"]
          /\ record' = [record EXCEPT ![r] = 0]
          /\ owner' = owner
      BY <1>1, <1>3 DEF HandleFailure
    <2>. QED BY <1>1, <1>3, <2>1 DEF TypeInv, TypeOK, Handling, PCs, ReplicaTypeNext
  <1>. QED BY <1>1, <1>2, <1>3

(* A transaction writes well-typed rows.                                   *)
DatabaseTypes ==
    /\ inbox \subseteq Events
    /\ scores \in [Txs -> ScoreRow]
    /\ intents \subseteq inbox
    /\ claimed \subseteq Messages

LEMMA TransactionType ==
    ASSUME TypeInv, NEW m \in Messages, Transaction(m)
    PROVE  DatabaseTypes'
  <1>1. m \in Message
    BY MessagesAssumption
  <1>2. DatabaseTypes
    BY DEF TypeInv, TypeOK, DatabaseTypes
  <1>3. m.event \in Events /\ m.tx \in Txs /\ Row(m) \in ScoreRow
    BY <1>1 DEF Message, Events, Row, ScoreRow
  <1>4. CASE UNCHANGED database
    BY <1>2, <1>4 DEF database, DatabaseTypes
  <1>5. CASE ~UNCHANGED database
    <2>1. inbox' = inbox \cup {m.event} /\ claimed' = claimed \cup {m}
      BY <1>5 DEF Transaction
    <2>2. \/ scores' = [scores EXCEPT ![m.tx] = Row(m)] /\ intents' = intents \cup {m.event}
          \/ UNCHANGED <<scores, intents>>
      BY <1>5 DEF Transaction
    <2>. QED BY <1>2, <1>3, <2>1, <2>2 DEF DatabaseTypes
  <1>. QED BY <1>4, <1>5

LEMMA InitType == Init => TypeInv
  <1>1. NoScore \in ScoreRow
    BY DEF NoScore, ScoreRow
  <1>. QED BY <1>1, BoundsAssumption
       DEF Init, TypeInv, TypeOK, RecordOK, Offsets, PCs, Handling

(* A step of a replica that leaves the topic alone keeps TypeInv if the    *)
(* replica's variables and the tables are well typed after it.             *)
LEMMA FailureKeepsType ==
    ASSUME TypeInv, ReplicaTypeNext, DatabaseTypes',
           topic' = topic, UNCHANGED <<deadLetters, position>>,
           committed' \in 0 .. Len(topic),
           crashes' \in Nat, dbFaults' \in Nat, ackFaults' \in Nat, rebalances' \in Nat,
           refused' \subseteq Offsets
    PROVE  TypeInv'
  <1>1. TypeOK'
    BY DEF ReplicaTypeNext, DatabaseTypes, TypeInv, TypeOK, Offsets
  <1>2. RecordOK'
    BY DEF ReplicaTypeNext, TypeInv, RecordOK, Offsets, Handling, Current
  <1>. QED BY <1>1, <1>2 DEF TypeInv

LEMMA NextType == TypeInv /\ [Next]_vars => TypeInv'
<1>. SUFFICES ASSUME TypeInv, [Next]_vars
              PROVE  TypeInv'
  OBVIOUS
<1>. USE BoundsAssumption
<1>0. DatabaseTypes /\ (UNCHANGED database => DatabaseTypes')
  BY DEF TypeInv, TypeOK, DatabaseTypes, database
<1>1. ASSUME NEW m \in Messages, Produce(m)
      PROVE  TypeInv'
  <2>1. /\ topic' \in Seq(Messages) /\ Len(topic') = Len(topic) + 1 /\ Len(topic) \in Nat
        /\ \A i \in Offsets : topic'[i] = topic[i]
    BY <1>1 DEF Produce, TypeInv, TypeOK, Offsets
  <2>2. /\ 0 .. Len(topic) \subseteq 0 .. Len(topic')
        /\ 1 .. Len(topic) \subseteq 1 .. Len(topic')
    BY <2>1
  <2>3. UNCHANGED <<committed, owner, deadLetters, database, replica, counters>>
    BY <1>1 DEF Produce
  <2>4. TypeOK'
    BY <2>1, <2>2, <2>3 DEF TypeInv, TypeOK, Offsets, database, replica, counters
  <2>5. RecordOK'
    BY <2>1, <2>2, <2>3 DEF TypeInv, RecordOK, Offsets, replica, Current, Handling
  <2>. QED BY <2>4, <2>5 DEF TypeInv
<1>2. ASSUME NEW r \in Replicas, Start(r)
      PROVE  TypeInv'
  BY <1>2 DEF Start, TypeInv, TypeOK, RecordOK, Offsets, Handling, Current,
              kafka, database, counters, PCs
<1>3. ASSUME NEW r \in Replicas, Assign(r)
      PROVE  TypeInv'
  BY <1>3 DEF Assign, TypeInv, TypeOK, RecordOK, Offsets, Handling, Current,
              TakePartition, database
<1>4. ASSUME NEW r \in Replicas, Rebalance(r)
      PROVE  TypeInv'
  BY <1>4 DEF Rebalance, TypeInv, TypeOK, RecordOK, Offsets, Handling, Current,
              TakePartition, database
<1>5. ASSUME NEW r \in Replicas, Poll(r)
      PROVE  TypeInv'
  <2>1. position[r] + 1 \in Offsets /\ topic[position[r] + 1] \in Message
    BY <1>5, MessagesAssumption DEF Poll, TypeInv, TypeOK, Offsets
  <2>2. topic[position[r] + 1].form \in {"valid", "malformed"}
    BY <2>1 DEF Message
  <2>. QED BY <1>5, <2>1, <2>2
       DEF Poll, TypeInv, TypeOK, RecordOK, Offsets, Handling, Current,
           kafka, database, counters, PCs
<1>6. ASSUME NEW r \in Replicas, Project(r)
      PROVE  TypeInv'
  <2>1. record[r] \in Offsets /\ Current(r) \in Messages
    BY <1>6 DEF Project, TypeInv, TypeOK, RecordOK, Offsets, Handling, Current
  <2>2. DatabaseTypes'
    BY <1>6, <2>1, TransactionType DEF Project
  <2>. QED BY <1>6, <2>1, <2>2
       DEF Project, DatabaseTypes, TypeInv, TypeOK, RecordOK, Offsets, Handling,
           PCs, Current, kafka, counters
<1>7. ASSUME NEW r \in Replicas, RejectResult(r)
      PROVE  TypeInv'
  BY <1>7 DEF RejectResult, TypeInv, TypeOK, RecordOK, Offsets, Handling, Current,
              kafka, database, counters, PCs
<1>8. ASSUME NEW r \in Replicas, DatabaseUnavailable(r)
      PROVE  TypeInv'
  <2>1. ReplicaTypeNext
    BY <1>8, HandleFailureType DEF DatabaseUnavailable
  <2>2. /\ UNCHANGED <<topic, deadLetters, position>> /\ UNCHANGED database
        /\ committed' \in 0 .. Len(topic)
        /\ crashes' \in Nat /\ dbFaults' \in Nat
        /\ ackFaults' \in Nat /\ rebalances' \in Nat
        /\ refused' \subseteq Offsets
    BY <1>8 DEF DatabaseUnavailable, TypeInv, TypeOK, RecordOK, Handling
  <2>. QED BY <1>0, <2>1, <2>2, FailureKeepsType
<1>9. ASSUME NEW r \in Replicas, ProjectUnacknowledged(r)
      PROVE  TypeInv'
  <2>1. ReplicaTypeNext
    BY <1>9, HandleFailureType DEF ProjectUnacknowledged
  <2>2. Current(r) \in Messages
    BY <1>9 DEF ProjectUnacknowledged, TypeInv, TypeOK, RecordOK, Offsets, Handling,
               Current
  <2>3. DatabaseTypes'
    BY <1>9, <2>2, TransactionType DEF ProjectUnacknowledged
  <2>4. /\ UNCHANGED <<topic, deadLetters, position>>
        /\ committed' \in 0 .. Len(topic)
        /\ crashes' \in Nat /\ dbFaults' \in Nat
        /\ ackFaults' \in Nat /\ rebalances' \in Nat
        /\ refused' \subseteq Offsets
    BY <1>9 DEF ProjectUnacknowledged, TypeInv, TypeOK
  <2>. QED BY <2>1, <2>3, <2>4, FailureKeepsType
<1>10. ASSUME NEW r \in Replicas, CommitOffset(r) \/ CommitDeadLetter(r)
       PROVE  TypeInv'
  <2>1. CommitRecord(r)
    BY <1>10 DEF CommitOffset, CommitDeadLetter
  <2>. QED BY <2>1 DEF CommitRecord, TypeInv, TypeOK, RecordOK, Offsets, Handling,
           Current, database, counters, PCs
<1>11. ASSUME NEW r \in Replicas, CommitRefused(r)
       PROVE  TypeInv'
  <2>1. ReplicaTypeNext
    BY <1>11, HandleFailureType DEF CommitRefused
  <2>2. /\ UNCHANGED <<topic, deadLetters, position>> /\ UNCHANGED database
        /\ committed' \in 0 .. Len(topic)
        /\ crashes' \in Nat /\ dbFaults' \in Nat
        /\ ackFaults' \in Nat /\ rebalances' \in Nat
        /\ refused' \subseteq Offsets
    BY <1>11 DEF CommitRefused, counters, TypeInv, TypeOK
  <2>. QED BY <1>0, <2>1, <2>2, FailureKeepsType
<1>12. ASSUME NEW r \in Replicas, CommitUnavailable(r)
       PROVE  TypeInv'
  <2>1. ReplicaTypeNext
    BY <1>12, HandleFailureType DEF CommitUnavailable
  <2>2. /\ UNCHANGED <<topic, deadLetters, position>> /\ UNCHANGED database
        /\ committed' \in 0 .. Len(topic)
        /\ crashes' \in Nat /\ dbFaults' \in Nat
        /\ ackFaults' \in Nat /\ rebalances' \in Nat
        /\ refused' \subseteq Offsets
    BY <1>12 DEF CommitUnavailable, TypeInv, TypeOK
  <2>. QED BY <1>0, <2>1, <2>2, FailureKeepsType
<1>13. ASSUME NEW r \in Replicas, PublishDeadLetter(r)
       PROVE  TypeInv'
  BY <1>13 DEF PublishDeadLetter, TypeInv, TypeOK, RecordOK, Offsets, Handling, Current,
               database, counters, PCs
<1>14. ASSUME NEW r \in Replicas, CommitDeadLetterRefused(r)
       PROVE  TypeInv'
  <2>1. ReplicaTypeNext
    BY <1>14, ExitType DEF CommitDeadLetterRefused
  <2>2. /\ UNCHANGED <<topic, deadLetters, position>> /\ UNCHANGED database
        /\ committed' \in 0 .. Len(topic)
        /\ crashes' \in Nat /\ dbFaults' \in Nat
        /\ ackFaults' \in Nat /\ rebalances' \in Nat
        /\ refused' \subseteq Offsets
    BY <1>14 DEF CommitDeadLetterRefused, counters, TypeInv, TypeOK
  <2>. QED BY <1>0, <2>1, <2>2, FailureKeepsType
<1>15. ASSUME NEW r \in Replicas, Crash(r)
       PROVE  TypeInv'
  <2>1. ReplicaTypeNext
    BY <1>15, ExitType DEF Crash
  <2>2. /\ UNCHANGED <<topic, deadLetters, position>> /\ UNCHANGED database
        /\ committed' \in 0 .. Len(topic)
        /\ crashes' \in Nat /\ dbFaults' \in Nat
        /\ ackFaults' \in Nat /\ rebalances' \in Nat
        /\ refused' \subseteq Offsets
    BY <1>15 DEF Crash, TypeInv, TypeOK
  <2>. QED BY <1>0, <2>1, <2>2, FailureKeepsType
<1>16. CASE UNCHANGED vars
  BY <1>16 DEF vars, kafka, database, replica, counters, TypeInv, TypeOK, RecordOK,
               Offsets, Handling, Current
<1>. QED BY <1>1, <1>2, <1>3, <1>4, <1>5, <1>6, <1>7, <1>8, <1>9, <1>10, <1>11,
            <1>12, <1>13, <1>14, <1>15, <1>16
     DEF Next, ReplicaStep, Fault

(* Every reachable state has the declared types: the committed offset, the *)
(* positions and the records in hand stay inside the topic, and only       *)
(* claimed events have intents.                                            *)
THEOREM TypeCorrect == Spec => []TypeOK
  <1>1. TypeInv => TypeOK
    BY DEF TypeInv
  <1>. QED BY <1>1, InitType, NextType, PTL DEF Spec

-----------------------------------------------------------------------------
(* The tables                                                              *)

(* A step leaves the tables alone or stores one valid result.              *)
LEMMA DatabaseSteps ==
    ASSUME TypeInv, [Next]_vars
    PROVE  UNCHANGED database \/ \E m \in Messages : m.form = "valid" /\ Transaction(m)
<1>1. ASSUME NEW r \in Replicas, Project(r) \/ ProjectUnacknowledged(r)
      PROVE  \E m \in Messages : m.form = "valid" /\ Transaction(m)
  <2>1. Current(r) \in Messages /\ Current(r).form = "valid" /\ Transaction(Current(r))
    BY <1>1 DEF Project, ProjectUnacknowledged, TypeInv, TypeOK, RecordOK, Offsets,
                Handling, Current
  <2>. QED BY <2>1
<1>2. ASSUME NEW r \in Replicas, ReplicaStep(r) \/ Fault(r),
             ~Project(r), ~ProjectUnacknowledged(r)
      PROVE  UNCHANGED database
  BY <1>2 DEF ReplicaStep, Fault, Start, Assign, Rebalance, TakePartition, Poll,
     RejectResult, CommitOffset, CommitDeadLetter, CommitRecord, CommitRefused,
     PublishDeadLetter, CommitDeadLetterRefused, DatabaseUnavailable,
     CommitUnavailable, Crash
<1>3. ASSUME NEW m \in Messages, Produce(m)
      PROVE  UNCHANGED database
  BY <1>3 DEF Produce
<1>4. CASE UNCHANGED vars
  BY <1>4 DEF vars
<1>. QED BY <1>1, <1>2, <1>3, <1>4 DEF Next

(* Whatever is stored is intended for the dashboard: no crash or lost      *)
(* reply separates a score from the intent to publish it.                  *)
THEOREM StoredIsIntended == Spec => []ScoreIntended
  <1>1. Init => ScoreIntended
    BY DEF Init, ScoreIntended
  <1>2. TypeInv /\ ScoreIntended /\ [Next]_vars => ScoreIntended'
    <2>. SUFFICES ASSUME TypeInv, ScoreIntended, [Next]_vars
                  PROVE  ScoreIntended'
      OBVIOUS
    <2>1. CASE UNCHANGED database
      BY <2>1 DEF database, ScoreIntended
    <2>2. ASSUME NEW m \in Messages, Transaction(m)
          PROVE  ScoreIntended'
      <3>1. scores \in [Txs -> ScoreRow]
        BY DEF TypeInv, TypeOK
      <3>2. m.tx \in Txs
        BY MessagesAssumption DEF Message
      <3>. QED BY <2>2, <3>1, <3>2 DEF Transaction, ScoreIntended, Row, database
    <2>. QED BY <2>1, <2>2, DatabaseSteps
  <1>. QED BY <1>1, <1>2, InitType, NextType, PTL DEF Spec

(* Nothing that was claimed for a transaction beats the score stored for   *)
(* it, whatever the order in which results arrived and however often.      *)
THEOREM CanonicalIsUnbeaten == Spec => []CanonicalUnbeaten
  <1>1. Init => CanonicalUnbeaten
    BY DEF Init, CanonicalUnbeaten
  <1>2. TypeInv /\ CanonicalUnbeaten /\ [Next]_vars => CanonicalUnbeaten'
    <2>. SUFFICES ASSUME TypeInv, CanonicalUnbeaten, [Next]_vars
                  PROVE  CanonicalUnbeaten'
      OBVIOUS
    <2>1. CASE UNCHANGED database
      BY <2>1 DEF database, CanonicalUnbeaten
    <2>2. ASSUME NEW m \in Messages, Transaction(m), ~UNCHANGED database
          PROVE  CanonicalUnbeaten'
      <3>0. /\ scores \in [Txs -> ScoreRow] /\ claimed \subseteq Messages
            /\ \A n \in Messages : /\ n.tx \in Txs
                                   /\ n.watermark \in Nat /\ n.watermark # 0
                                   /\ n.scoredAt \in Nat
        BY MessagesAssumption DEF Message, TypeInv, TypeOK
      <3>1. \A t \in Txs : scores[t].watermark \in Nat /\ scores[t].scoredAt \in Nat
        BY <3>0 DEF ScoreRow
      <3>2. claimed' = claimed \cup {m}
        BY <2>2 DEF Transaction
      <3>3. CASE Accepts(m)
        <4>1. scores' = [scores EXCEPT ![m.tx] = Row(m)]
          BY <2>2, <3>3 DEF Transaction
        <4>2. /\ Row(m).watermark = m.watermark /\ Row(m).scoredAt = m.scoredAt
              /\ Row(m) # NoScore
              /\ m.watermark >= scores[m.tx].watermark
              /\ m.scoredAt >= scores[m.tx].scoredAt
          BY <3>0, <3>3 DEF Row, NoScore, Accepts
        <4>3. ASSUME NEW n \in claimed'
              PROVE  /\ scores'[n.tx] # NoScore
                     /\ n.watermark >= scores'[n.tx].watermark
                           /\ n.scoredAt >= scores'[n.tx].scoredAt
                        => n.watermark = scores'[n.tx].watermark
                           /\ n.scoredAt = scores'[n.tx].scoredAt
          <5>1. CASE n.tx = m.tx
            <6>1. scores'[n.tx] = Row(m)
              BY <3>0, <4>1, <5>1
            <6>2. CASE n = m
              BY <4>2, <6>1, <6>2
            <6>3. CASE n \in claimed
              <7>1. n.watermark >= scores[m.tx].watermark
                       /\ n.scoredAt >= scores[m.tx].scoredAt
                    => n.watermark = scores[m.tx].watermark
                       /\ n.scoredAt = scores[m.tx].scoredAt
                BY <5>1, <6>3 DEF CanonicalUnbeaten
              <7>2. n \in Messages
                BY <3>0, <6>3
              <7>. QED BY <3>0, <3>1, <4>2, <6>1, <7>1, <7>2
            <6>. QED BY <3>2, <6>2, <6>3
          <5>2. CASE n.tx # m.tx
            <6>1. n \in claimed /\ n.tx \in Txs /\ scores'[n.tx] = scores[n.tx]
              BY <3>0, <3>2, <4>1, <5>2
            <6>. QED BY <6>1 DEF CanonicalUnbeaten
          <5>. QED BY <5>1, <5>2
        <4>. QED BY <4>3 DEF CanonicalUnbeaten
      <3>4. CASE ~Accepts(m)
        <4>1. scores' = scores
          BY <2>2, <3>4 DEF Transaction
        <4>2. ~(m.watermark >= scores[m.tx].watermark /\ m.scoredAt >= scores[m.tx].scoredAt)
          BY <3>4 DEF Accepts
        <4>3. scores[m.tx] # NoScore
          BY <3>0, <4>2 DEF NoScore
        <4>. QED BY <3>2, <4>1, <4>2, <4>3 DEF CanonicalUnbeaten
      <3>. QED BY <3>3, <3>4
    <2>. QED BY <2>1, <2>2, DatabaseSteps
  <1>. QED BY <1>1, <1>2, InitType, NextType, PTL DEF Spec

(* The consumer loop implements the abstract store: under redeliveries,    *)
(* zombies and lost replies each result takes effect at most once, and a   *)
(* score is never replaced by an older one.                                *)
THEOREM StoreImplemented == Spec => ImplementsStore
  <1>1. Init => Store!Init
    BY DEF Init, Store!Init, NoScore, Store!NoScore
  <1>2. TypeInv /\ [Next]_vars => [Store!Next]_(Store!storeVars)
    <2>. SUFFICES ASSUME TypeInv, [Next]_vars
                  PROVE  Store!Next \/ UNCHANGED <<inbox, scores>>
      BY DEF Store!storeVars
    <2>1. CASE UNCHANGED database
      BY <2>1 DEF database
    <2>2. ASSUME NEW m \in Messages, m.form = "valid", Transaction(m), ~UNCHANGED database
          PROVE  Store!Next
      <3> DEFINE v == [event |-> m.event, tx |-> m.tx, watermark |-> m.watermark,
                       scoredAt |-> m.scoredAt]
      <3>1. v \in ValidResults
        BY <2>2 DEF ValidResults
      <3>2. Row(m) = Store!Row(v)
        BY DEF Row, Store!Row
      <3>3. Accepts(m) <=> Store!Supersedes(v, scores[v.tx])
        BY DEF Accepts, Store!Supersedes
      <3>4. Store!Take(v)
        BY <2>2, <3>2, <3>3 DEF Transaction, Store!Take
      <3>. QED BY <3>1, <3>4 DEF Store!Next
    <2>. QED BY <2>1, <2>2, DatabaseSteps
  <1>. QED BY <1>1, <1>2, InitType, NextType, PTL DEF Spec, ImplementsStore, Store!Spec

-----------------------------------------------------------------------------
(* Offsets: nothing is passed over but what PostgreSQL refused.            *)

(* The messages before the one in hand are accounted for, the one in hand  *)
(* is before its offset is committed, and only the one in hand may be open *)
(* among those that getone() has returned to the owner since the partition *)
(* was assigned to it.                                                     *)
Unsettled == {"project", "dead_letter"}

DurableInv ==
    /\ CommittedAccounted
    /\ \A r \in Replicas : pc[r] \in Handling =>
         \A i \in Offsets : i < record[r] => Accounted(i)
    /\ \A r \in Replicas : pc[r] \in {"commit", "commit_dead"} => Accounted(record[r])
    /\ \A r \in Replicas : owner = r =>
         \A i \in Offsets : i <= position[r] =>
           Accounted(i) \/ (i = record[r] /\ pc[r] \in Unsettled)

(* The inbox, the dead letters and the refusals only grow, so a message    *)
(* accounted for stays so.                                                 *)
LEMMA AccountedStable ==
    ASSUME TypeInv, [Next]_vars, NEW i \in Offsets
    PROVE  i \in Offsets' /\ topic'[i] = topic[i] /\ (Accounted(i) => Accounted(i)')
<1>1. inbox \subseteq inbox'
  BY DatabaseSteps DEF Transaction, database
<1>2. ASSUME NEW m \in Messages, Produce(m)
      PROVE  i \in Offsets' /\ topic'[i] = topic[i] /\ deadLetters' = deadLetters /\ refused' = refused
  BY <1>2 DEF Produce, TypeInv, TypeOK, Offsets, counters
<1>3. ASSUME NEW r \in Replicas, ReplicaStep(r) \/ Fault(r)
      PROVE  topic' = topic /\ deadLetters \subseteq deadLetters' /\ refused \subseteq refused'
  BY <1>3 DEF ReplicaStep, Fault, Start, Assign, Rebalance, TakePartition, Poll,
     Project, RejectResult, CommitOffset, CommitDeadLetter, CommitRecord, CommitRefused,
     PublishDeadLetter, CommitDeadLetterRefused, DatabaseUnavailable,
     ProjectUnacknowledged, CommitUnavailable, Crash, kafka, counters
<1>4. CASE UNCHANGED vars
  BY <1>4 DEF vars, kafka, counters, Offsets, Accounted, Settled, database
<1>. QED BY <1>1, <1>2, <1>3, <1>4 DEF Next, Offsets, Accounted, Settled

(* A step of replica r that moves neither the topic nor a position keeps   *)
(* DurableInv if what r stops handling, and what it commits, is settled.   *)
LEMMA KeepsDurable ==
    ASSUME TypeInv, DurableInv, [Next]_vars, topic' = topic, position' = position,
           NEW r \in Replicas,
           \A p \in Replicas : p # r => pc'[p] = pc[p] /\ record'[p] = record[p],
           \A p \in Replicas : owner' = p => owner = p,
           pc'[r] \in Handling => pc[r] \in Handling /\ record'[r] = record[r],
           pc'[r] \in {"commit", "commit_dead"} =>
             \A i \in Offsets : i = record[r] => Accounted(i)',
           owner' = r /\ pc[r] \in Unsettled =>
             \/ pc'[r] \in Unsettled /\ record'[r] = record[r]
             \/ \A i \in Offsets : i = record[r] => Accounted(i)',
           committed' = committed \/ \A i \in Offsets : i <= committed' => Accounted(i)
    PROVE  DurableInv'
<1>1. Offsets' = Offsets
  BY DEF Offsets
<1>2. \A i \in Offsets : Accounted(i) => Accounted(i)'
  BY AccountedStable
<1>3. CommittedAccounted'
  BY <1>1, <1>2 DEF DurableInv, CommittedAccounted
<1>4. \A p \in Replicas : pc'[p] \in Handling => pc[p] \in Handling /\ record'[p] = record[p]
  OBVIOUS
<1>5. \A p \in Replicas : pc'[p] \in Handling =>
         \A i \in Offsets' : i < record'[p] => Accounted(i)'
  BY <1>1, <1>2, <1>4 DEF DurableInv
<1>6. ASSUME NEW p \in Replicas, pc'[p] \in {"commit", "commit_dead"}
      PROVE  Accounted(record[p])'
  <2>1. pc[p] \in Handling /\ record'[p] = record[p] /\ record[p] \in Offsets
    BY <1>4, <1>6 DEF Handling, TypeInv, RecordOK
  <2>2. ASSUME NEW i \in Offsets, i = record[p]
        PROVE  Accounted(i)'
    <3>1. CASE p = r
      BY <1>6, <2>2, <3>1
    <3>2. CASE p # r
      <4>1. Accounted(i)
        BY <1>6, <2>2, <3>2 DEF DurableInv
      <4>. QED BY <1>2, <4>1
    <3>. QED BY <3>1, <3>2
  <2>3. \A i \in Offsets : i = record'[p] => Accounted(i)'
    BY <2>1, <2>2
  <2>. QED BY <2>1, <2>3 DEF Accounted, Settled
<1>7. ASSUME NEW p \in Replicas, owner' = p, NEW i \in Offsets, i <= position'[p]
      PROVE  Accounted(i)' \/ (i = record'[p] /\ pc'[p] \in Unsettled)
  <2>1. Accounted(i) \/ (i = record[p] /\ pc[p] \in Unsettled)
    BY <1>7 DEF DurableInv
  <2>2. CASE p = r
    BY <1>2, <1>7, <2>1, <2>2
  <2>3. CASE p # r
    BY <1>2, <1>7, <2>1, <2>3
  <2>. QED BY <2>2, <2>3
<1>. QED BY <1>1, <1>3, <1>5, <1>6, <1>7 DEF DurableInv

LEMMA NextDurable == TypeInv /\ DurableInv /\ [Next]_vars => DurableInv'
<1>. SUFFICES ASSUME TypeInv, DurableInv, [Next]_vars
              PROVE  DurableInv'
  OBVIOUS
<1>0. /\ pc \in [Replicas -> PCs] /\ record \in [Replicas -> 0 .. Len(topic)]
      /\ position \in [Replicas -> 0 .. Len(topic)] /\ committed \in 0 .. Len(topic)
      /\ failures \in [Replicas -> 0 .. (RetryMaxAttempts - 1)]
      /\ Len(topic) \in Nat /\ dbFaults \in Nat
  BY DEF TypeInv, TypeOK
<1>00. Nobody \notin Replicas
  BY NobodyAssumption
<1>1. ASSUME NEW m \in Messages, Produce(m)
      PROVE  DurableInv'
  <2>1. /\ UNCHANGED <<committed, owner, deadLetters, database, replica, refused>>
        /\ topic' = Append(topic, m)
    BY <1>1 DEF Produce, counters
  <2>2. \A i \in Offsets', n \in 0 .. Len(topic) :
          (i <= n => i \in Offsets) /\ (i < n => i \in Offsets)
    BY <1>0 DEF Offsets
  <2>3. \A i \in Offsets : Accounted(i) => Accounted(i)'
    BY AccountedStable
  <2>4. \A r \in Replicas : pc[r] \in Handling => record[r] \in Offsets
    BY DEF TypeInv, RecordOK
  <2>5. \A i \in Offsets : topic'[i] = topic[i]
    BY AccountedStable
  <2>6. CommittedAccounted'
    BY <1>0, <2>1, <2>2, <2>3 DEF DurableInv, CommittedAccounted
  <2>7. \A r \in Replicas : pc'[r] \in Handling =>
          \A i \in Offsets' : i < record'[r] => Accounted(i)'
    BY <1>0, <2>1, <2>2, <2>3 DEF DurableInv, replica
  <2>8. \A r \in Replicas : pc'[r] \in {"commit", "commit_dead"} => Accounted(record[r])'
    BY <2>1, <2>4, <2>5 DEF DurableInv, replica, database, Accounted, Settled, Handling
  <2>9. \A r \in Replicas : owner' = r =>
          \A i \in Offsets' : i <= position'[r] =>
            Accounted(i)' \/ (i = record'[r] /\ pc'[r] \in Unsettled)
    BY <1>0, <2>1, <2>2, <2>3 DEF DurableInv, replica
  <2>. QED BY <2>6, <2>7, <2>8, <2>9 DEF DurableInv
<1>2. ASSUME NEW r \in Replicas, Start(r)
      PROVE  DurableInv'
  BY <1>0, <1>00, <1>2, KeepsDurable
     DEF Start, Handling, Unsettled, kafka
<1>3. ASSUME NEW r \in Replicas, Assign(r)
      PROVE  DurableInv'
  <2>1. \A i \in Offsets : Accounted(i) => Accounted(i)'
    BY AccountedStable
  <2>2. /\ UNCHANGED <<topic, committed, deadLetters, inbox, pc, record, refused>>
        /\ owner' = r
        /\ position' = [position EXCEPT ![r] = committed]
    BY <1>3 DEF Assign, TakePartition, database
  <2>. QED BY <1>0, <2>1, <2>2
       DEF DurableInv, CommittedAccounted, Accounted, Settled, Offsets
<1>4. ASSUME NEW r \in Replicas, Rebalance(r)
      PROVE  DurableInv'
  <2>1. \A i \in Offsets : Accounted(i) => Accounted(i)'
    BY AccountedStable
  <2>2. /\ UNCHANGED <<topic, committed, deadLetters, inbox, pc, record, refused>>
        /\ owner' = r
        /\ position' = [position EXCEPT ![r] = committed]
    BY <1>4 DEF Rebalance, TakePartition, database
  <2>. QED BY <1>0, <2>1, <2>2
       DEF DurableInv, CommittedAccounted, Accounted, Settled, Offsets
<1>5. ASSUME NEW r \in Replicas, Poll(r)
      PROVE  DurableInv'
  <2>1. /\ UNCHANGED <<topic, committed, owner, deadLetters, inbox, refused>>
        /\ pc[r] = "poll" /\ owner = r
        /\ position' = [position EXCEPT ![r] = @ + 1]
        /\ record' = [record EXCEPT ![r] = position[r] + 1]
        /\ pc' = [pc EXCEPT ![r] = pc'[r]]
        /\ pc'[r] \in Unsettled
    BY <1>0, <1>5 DEF Poll, kafka, database, counters, Unsettled
  <2>2. \A i \in Offsets : i <= position[r] => Accounted(i)
    BY <2>1 DEF DurableInv, Unsettled
  <2>3. Offsets' = Offsets /\ \A i : Accounted(i)' <=> Accounted(i)
    BY <2>1 DEF Offsets, Accounted, Settled
  <2>4. CommittedAccounted'
    BY <2>1, <2>3 DEF DurableInv, CommittedAccounted
  <2>5. \A p \in Replicas : pc'[p] \in Handling =>
          \A i \in Offsets' : i < record'[p] => Accounted(i)'
    BY <1>0, <2>1, <2>2, <2>3 DEF DurableInv, Offsets
  <2>6. \A p \in Replicas : pc'[p] \in {"commit", "commit_dead"} => Accounted(record[p])'
    BY <1>0, <2>1 DEF DurableInv, Accounted, Settled, Unsettled
  <2>7. \A p \in Replicas : owner' = p =>
          \A i \in Offsets' : i <= position'[p] =>
            Accounted(i)' \/ (i = record'[p] /\ pc'[p] \in Unsettled)
    BY <1>0, <2>1, <2>2, <2>3 DEF Offsets
  <2>. QED BY <2>4, <2>5, <2>6, <2>7 DEF DurableInv
<1>6. ASSUME NEW r \in Replicas, Project(r)
      PROVE  DurableInv'
  <2>1. Transaction(Current(r)) /\ UNCHANGED <<topic, committed, position>>
    BY <1>6 DEF Project, kafka
  <2>2. \A i \in Offsets : i = record[r] => Accounted(i)'
    BY <2>1 DEF Transaction, database, Current, Accounted, Settled
  <2>. QED BY <1>0, <1>6, <2>1, <2>2, KeepsDurable
       DEF Project, Handling, Unsettled, kafka
<1>7. ASSUME NEW r \in Replicas, RejectResult(r)
      PROVE  DurableInv'
  BY <1>0, <1>00, <1>7, KeepsDurable
     DEF RejectResult, Handling, Unsettled, kafka
<1>8. ASSUME NEW r \in Replicas, CommitOffset(r)
      PROVE  DurableInv'
  <2>1. \A i \in Offsets : i <= record[r] => Accounted(i)
    BY <1>0, <1>8 DEF CommitOffset, CommitRecord, DurableInv, Handling, Offsets
  <2>2. /\ pc[r] = "commit" /\ owner' = owner
        /\ UNCHANGED <<topic, position>>
        /\ committed' = record[r]
        /\ pc' = [pc EXCEPT ![r] = "poll"]
        /\ record' = [record EXCEPT ![r] = 0]
    BY <1>8 DEF CommitOffset, CommitRecord
  <2>. QED BY <1>0, <2>1, <2>2, KeepsDurable DEF Handling, Unsettled
<1>9. ASSUME NEW r \in Replicas, CommitRefused(r)
      PROVE  DurableInv'
  <2>1. /\ UNCHANGED <<topic, committed, position>>
        /\ pc[r] = "commit"
    BY <1>9 DEF CommitRefused
  <2>2. /\ \A p \in Replicas : p # r => pc'[p] = pc[p] /\ record'[p] = record[p]
        /\ \A p \in Replicas : owner' = p => owner = p
        /\ pc'[r] \in {"poll", "down"}
    BY <1>0, <1>00, <1>9 DEF CommitRefused, HandleFailure, Exit
  <2>. QED BY <2>1, <2>2, KeepsDurable DEF Handling, Unsettled
<1>10. ASSUME NEW r \in Replicas, PublishDeadLetter(r)
      PROVE  DurableInv'
  <2>1. \A i \in Offsets : i = record[r] => Accounted(i)'
    BY <1>10 DEF PublishDeadLetter, Accounted, Settled
  <2>. QED BY <1>0, <1>10, <2>1, KeepsDurable
       DEF PublishDeadLetter, Handling, Unsettled
<1>11. ASSUME NEW r \in Replicas, CommitDeadLetter(r)
      PROVE  DurableInv'
  <2>1. \A i \in Offsets : i <= record[r] => Accounted(i)
    BY <1>0, <1>11 DEF CommitDeadLetter, CommitRecord, DurableInv, Handling, Offsets
  <2>2. /\ pc[r] = "commit_dead" /\ owner' = owner
        /\ UNCHANGED <<topic, position>>
        /\ committed' = record[r]
        /\ pc' = [pc EXCEPT ![r] = "poll"]
        /\ record' = [record EXCEPT ![r] = 0]
    BY <1>11 DEF CommitDeadLetter, CommitRecord
  <2>. QED BY <1>0, <2>1, <2>2, KeepsDurable DEF Handling, Unsettled
<1>12. ASSUME NEW r \in Replicas, CommitDeadLetterRefused(r)
      PROVE  DurableInv'
  <2>1. /\ UNCHANGED <<topic, committed, position>>
        /\ pc[r] = "commit_dead"
    BY <1>12 DEF CommitDeadLetterRefused
  <2>2. /\ \A p \in Replicas : p # r => pc'[p] = pc[p] /\ record'[p] = record[p]
        /\ \A p \in Replicas : owner' = p => owner = p
        /\ pc'[r] \in {"poll", "down"}
    BY <1>0, <1>00, <1>12 DEF CommitDeadLetterRefused, HandleFailure, Exit
  <2>. QED BY <2>1, <2>2, KeepsDurable DEF Handling, Unsettled
<1>13. ASSUME NEW r \in Replicas, DatabaseUnavailable(r)
      PROVE  DurableInv'
  <2>1. /\ UNCHANGED <<topic, committed, position>>
        /\ refused' = refused \cup {record[r]}
    BY <1>13 DEF DatabaseUnavailable
  <2>2. \A i \in Offsets : i = record[r] => Accounted(i)'
    BY <2>1 DEF Accounted
  <2>3. /\ \A p \in Replicas : p # r => pc'[p] = pc[p] /\ record'[p] = record[p]
        /\ \A p \in Replicas : owner' = p => owner = p
        /\ pc'[r] \in {"poll", "down"}
    BY <1>0, <1>00, <1>13 DEF DatabaseUnavailable, HandleFailure, Exit
  <2>. QED BY <2>1, <2>2, <2>3, KeepsDurable DEF Handling, Unsettled
<1>14. ASSUME NEW r \in Replicas, ProjectUnacknowledged(r)
      PROVE  DurableInv'
  <2>1. Transaction(Current(r)) /\ UNCHANGED <<topic, committed, position>>
    BY <1>14 DEF ProjectUnacknowledged, kafka
  <2>2. \A i \in Offsets : i = record[r] => Accounted(i)'
    BY <2>1 DEF Transaction, database, Current, Accounted, Settled
  <2>3. /\ \A p \in Replicas : p # r => pc'[p] = pc[p] /\ record'[p] = record[p]
        /\ \A p \in Replicas : owner' = p => owner = p
        /\ pc'[r] \in {"poll", "down"}
    BY <1>0, <1>00, <1>14 DEF ProjectUnacknowledged, HandleFailure, Exit
  <2>. QED BY <2>1, <2>2, <2>3, KeepsDurable DEF Handling, Unsettled
<1>15. ASSUME NEW r \in Replicas, CommitUnavailable(r)
      PROVE  DurableInv'
  <2>1. /\ UNCHANGED <<topic, position>>
        /\ pc[r] = "commit"
        /\ committed' \in {committed, record[r]}
    BY <1>15 DEF CommitUnavailable
  <2>2. /\ \A p \in Replicas : p # r => pc'[p] = pc[p] /\ record'[p] = record[p]
        /\ \A p \in Replicas : owner' = p => owner = p
        /\ pc'[r] \in {"poll", "down"}
    BY <1>0, <1>00, <1>15 DEF CommitUnavailable, HandleFailure, Exit
  <2>3. \A i \in Offsets : i <= record[r] => Accounted(i)
    BY <1>0, <2>1 DEF DurableInv, Handling, Offsets
  <2>. QED BY <2>1, <2>2, <2>3, KeepsDurable DEF Handling, Unsettled
<1>16. ASSUME NEW r \in Replicas, Crash(r)
      PROVE  DurableInv'
  <2>1. /\ UNCHANGED <<topic, committed, position>>
        /\ \A p \in Replicas : p # r => pc'[p] = pc[p] /\ record'[p] = record[p]
        /\ \A p \in Replicas : owner' = p => owner = p
        /\ pc'[r] = "down" /\ owner' # r
    BY <1>0, <1>00, <1>16 DEF Crash, Exit
  <2>. QED BY <2>1, KeepsDurable DEF Handling, Unsettled
<1>17. CASE UNCHANGED vars
  BY <1>17 DEF vars, kafka, database, replica, counters, DurableInv,
              CommittedAccounted, Accounted, Settled, Offsets
<1>. QED BY <1>1, <1>2, <1>3, <1>4, <1>5, <1>6, <1>7, <1>8, <1>9, <1>10, <1>11, <1>12, <1>13, <1>14, <1>15, <1>16, <1>17
     DEF Next, ReplicaStep, Fault

(* The group never resumes past a message that is neither stored nor       *)
(* dead-lettered unless PostgreSQL refused that very message, whatever the *)
(* number of replicas, crashes, rebalances and refused offset commits.     *)
THEOREM CommittedIsAccounted == Spec => []CommittedAccounted
  <1>1. Init => DurableInv
    BY DEF Init, DurableInv, CommittedAccounted, Offsets, Handling
  <1>2. DurableInv => CommittedAccounted
    BY DEF DurableInv
  <1>. QED BY <1>1, <1>2, InitType, NextType, NextDurable, PTL DEF Spec
=============================================================================
