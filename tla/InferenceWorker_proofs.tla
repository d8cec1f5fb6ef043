----------------------- MODULE InferenceWorker_proofs -----------------------
(***************************************************************************)
(* Proofs about the inference workers, for any number of workers and       *)
(* requests and any queue: their types, the poller's knowledge of the      *)
(* pause, that the group never commits past an unsettled request, and that *)
(* it does not give up on a good one for fewer faults than attempts.       *)
(***************************************************************************)
EXTENDS InferenceWorker, SequenceTheorems, TLAPS

(* The variables whose types the argument about offsets needs.             *)
KafkaOK ==
    /\ committed \in 0 .. Len(Requests)
    /\ owner \in Workers \cup {Nobody}
    /\ scored \subseteq Offsets
    /\ deadLetters \subseteq Offsets

WorkersOK ==
    /\ pc \in [Workers -> PCs]
    /\ record \in [Workers -> 0 .. Len(Requests)]
    /\ attempt \in [Workers -> 0 .. RetryMaxAttempts]
    /\ queue \in [Workers -> Seq(Offsets)]
    /\ \A w \in Workers : Len(queue[w]) <= MaxInFlight
    /\ position \in [Workers -> 0 .. Len(Requests)]

FlagsOK ==
    /\ paused \in [Workers -> BOOLEAN]
    /\ quiet \in [Workers -> BOOLEAN]
    /\ stopping \in [Workers -> BOOLEAN]

CountersOK == crashes \in Nat /\ stops \in Nat /\ faults \in Nat /\ rebalances \in Nat

(* A drainer has a record except between two; a worker that is down has    *)
(* nothing, and does not own the partition.                                *)
RecordOK ==
    \A w \in Workers :
        /\ pc[w] \in {"down", "idle"} <=> record[w] = 0
        /\ pc[w] = "down" => queue[w] = <<>> /\ owner # w

TypeInv == KafkaOK /\ WorkersOK /\ RecordOK

(* What may be committed is settled.                                       *)
CommitOK ==
    \A w \in Workers :
        /\ pc[w] = "commit" => record[w] \in scored
        /\ pc[w] = "commit_dead" => record[w] \in deadLetters

(* A request before the record of a drainer is settled; one before a       *)
(* queued record is settled, is the drainer's, or is queued before it,     *)
(* also when the queue still holds records of an earlier assignment.       *)
RecordOrder == \A w \in Workers : \A i \in Offsets : i < record[w] => Settled(i)

QueueOrder ==
    \A w \in Workers : \A k \in 1 .. Len(queue[w]) : \A i \in Offsets :
        i < queue[w][k] => \/ Settled(i)
                           \/ i = record[w]
                           \/ \E m \in 1 .. (k - 1) : queue[w][m] = i

(* What the owner has fetched is settled or with it.                       *)
PositionHeld ==
    \A w \in Workers : owner = w => \A i \in Offsets :
        i <= position[w] => \/ Settled(i)
                            \/ i = record[w]
                            \/ \E m \in 1 .. Len(queue[w]) : queue[w][m] = i

DurableInv == CommittedSettled /\ CommitOK /\ RecordOrder /\ QueueOrder /\ PositionHeld

SafetyInv == TypeInv /\ DurableInv

-----------------------------------------------------------------------------
(* Types                                                                   *)

LEMMA InitType == Init => TypeInv /\ FlagsOK /\ CountersOK
  <1>. SUFFICES ASSUME Init PROVE TypeInv /\ FlagsOK /\ CountersOK
    OBVIOUS
  <1>1. Len(Requests) \in Nat
    BY RequestAssumption, LenProperties
  <1>2. KafkaOK /\ CountersOK
    BY <1>1 DEF Init, KafkaOK, CountersOK
  <1>3. WorkersOK
    BY <1>1, SettingAssumption DEF Init, WorkersOK, PCs
  <1>4. FlagsOK
    BY Zenon DEF Init, FlagsOK
  <1>5. RecordOK
    BY NobodyAssumption DEF Init, RecordOK
  <1>. QED BY <1>2, <1>3, <1>4, <1>5 DEF TypeInv

(* The four shapes of a step of a worker.  A step within an attempt:       *)
LEMMA AttemptType ==
    ASSUME TypeInv, NEW w \in Workers, NEW to \in PCs,
           pc[w] \notin {"down", "idle"}, to \notin {"down", "idle"},
           pc' = [pc EXCEPT ![w] = to],
           attempt' \in [Workers -> 0 .. RetryMaxAttempts],
           committed' \in {committed, record[w]}, UNCHANGED owner,
           scored' \in {scored, scored \cup {record[w]}},
           deadLetters' \in {deadLetters, deadLetters \cup {record[w]}},
           UNCHANGED <<record, queue, position>>
    PROVE  TypeInv'
  <1>1. record[w] \in Offsets
    BY RequestAssumption, LenProperties DEF TypeInv, RecordOK, WorkersOK, Offsets
  <1>2. KafkaOK'
    BY <1>1 DEF TypeInv, KafkaOK, Offsets
  <1>3. WorkersOK'
    BY DEF TypeInv, WorkersOK
  <1>4. RecordOK'
    BY DEF TypeInv, WorkersOK, RecordOK
  <1>. QED BY <1>2, <1>3, <1>4 DEF TypeInv

LEMMA NextAttemptType ==
    ASSUME TypeInv, NEW w \in Workers, NEW after, NextAttempt(w, after)
    PROVE  /\ attempt' \in [Workers -> 0 .. RetryMaxAttempts]
           /\ \/ pc' = [pc EXCEPT ![w] = after]
              \/ pc' = [pc EXCEPT ![w] = "score"]
  BY SettingAssumption DEF TypeInv, WorkersOK, NextAttempt

LEMMA TakeType ==
    ASSUME TypeInv, NEW w \in Workers, Take(w)
    PROVE  TypeInv'
  <1>1. queue[w] \in Seq(Offsets) /\ queue[w] # <<>>
    BY DEF TypeInv, WorkersOK, Take
  <1>2. /\ Head(queue[w]) \in Offsets
        /\ Tail(queue[w]) \in Seq(Offsets)
        /\ Len(Tail(queue[w])) = Len(queue[w]) - 1
    BY <1>1, HeadTailProperties
  <1>3. Head(queue[w]) \in 1 .. Len(Requests)
    BY <1>2 DEF Offsets
  <1>4. KafkaOK'
    BY DEF TypeInv, KafkaOK, Take, kafka
  <1>5. Len(queue[w]) \in Nat
    BY <1>1, LenProperties
  <1>6. WorkersOK'
    BY <1>2, <1>3, <1>5, SettingAssumption
       DEF TypeInv, WorkersOK, Take, poller, PCs
  <1>7. RecordOK'
    BY <1>3 DEF TypeInv, WorkersOK, RecordOK, Take, kafka, poller
  <1>. QED BY <1>4, <1>6, <1>7 DEF TypeInv

(* What getmany returns follows the position in the queue.                 *)
LEMMA FetchedQueue ==
    ASSUME TypeInv, NEW w \in Workers, NEW n \in Nat \ {0},
           position[w] + n <= Len(Requests)
    PROVE  LET new == [i \in 1 .. n |-> position[w] + i]
               all == queue[w] \o new
           IN  /\ all \in Seq(Offsets)
               /\ Len(all) = Len(queue[w]) + n
               /\ \A k \in 1 .. Len(queue[w]) : all[k] = queue[w][k]
               /\ \A k \in 1 .. n : all[Len(queue[w]) + k] = position[w] + k
  <1>. DEFINE new == [i \in 1 .. n |-> position[w] + i]
  <1>1. Len(Requests) \in Nat /\ position[w] \in Nat /\ queue[w] \in Seq(Offsets)
    BY RequestAssumption, LenProperties DEF TypeInv, WorkersOK
  <1>2. \A i \in 1 .. n : position[w] + i \in Offsets
    BY <1>1 DEF Offsets
  <1>3. new \in Seq(Offsets) /\ Len(new) = n
    BY <1>1, <1>2
  <1>4. Len(queue[w]) \in Nat
    BY <1>1, LenProperties
  <1>5. /\ queue[w] \o new \in Seq(Offsets)
        /\ Len(queue[w] \o new) = Len(queue[w]) + n
        /\ \A k \in 1 .. (Len(queue[w]) + n) :
              (queue[w] \o new)[k] = IF k <= Len(queue[w]) THEN queue[w][k]
                                     ELSE new[k - Len(queue[w])]
    BY <1>1, <1>3, ConcatProperties
  <1>6. \A k \in 1 .. Len(queue[w]) : (queue[w] \o new)[k] = queue[w][k]
    BY <1>4, <1>5
  <1>7. ASSUME NEW k \in 1 .. n
        PROVE  (queue[w] \o new)[Len(queue[w]) + k] = position[w] + k
    <2>1. /\ Len(queue[w]) + k \in 1 .. (Len(queue[w]) + n)
          /\ ~(Len(queue[w]) + k <= Len(queue[w]))
          /\ Len(queue[w]) + k - Len(queue[w]) = k
      BY <1>4
    <2>2. (queue[w] \o new)[Len(queue[w]) + k] = new[k]
      BY <1>5, <2>1
    <2>. QED BY <2>2
  <1>. QED BY <1>5, <1>6, <1>7

LEMMA FetchType ==
    ASSUME TypeInv, NEW w \in Workers, Fetch(w)
    PROVE  TypeInv'
  <1>1. PICK n \in 1 .. Least(MaxPollRecords, MaxInFlight - Len(queue[w])) :
            /\ position[w] + n <= Len(Requests)
            /\ queue' = [queue EXCEPT ![w] =
                             @ \o [i \in 1 .. n |-> position[w] + i]]
            /\ position' = [position EXCEPT ![w] = @ + n]
    BY DEF Fetch
  <1>2. /\ Len(queue[w]) \in Nat /\ position[w] \in 0 .. Len(Requests)
        /\ Len(Requests) \in Nat
    BY RequestAssumption, LenProperties DEF TypeInv, WorkersOK
  <1>3. n \in Nat \ {0} /\ n <= MaxInFlight - Len(queue[w])
    BY <1>1, <1>2, SettingAssumption DEF Least
  <1>4. /\ queue'[w] \in Seq(Offsets)
        /\ Len(queue'[w]) <= MaxInFlight
    <2>1. queue'[w] = queue[w] \o [i \in 1 .. n |-> position[w] + i]
      BY <1>1 DEF TypeInv, WorkersOK
    <2>2. /\ queue'[w] \in Seq(Offsets)
          /\ Len(queue'[w]) = Len(queue[w]) + n
      BY <1>1, <1>3, <2>1, FetchedQueue
    <2>. QED BY <1>2, <1>3, <2>2, SettingAssumption
  <1>5. UNCHANGED <<kafka, drainer>>
    BY DEF Fetch
  <1>6. WorkersOK'
    <2>1. position[w] + n \in 0 .. Len(Requests)
      BY <1>1, <1>2, <1>3
    <2>. QED BY <1>1, <1>4, <1>5, <2>1 DEF TypeInv, WorkersOK, drainer
  <1>7. KafkaOK'
    BY <1>5 DEF TypeInv, KafkaOK, kafka
  <1>8. RecordOK'
    <2>1. pc[w] # "down"
      BY DEF Fetch, Polling
    <2>. QED BY <1>1, <1>5, <2>1 DEF TypeInv, WorkersOK, RecordOK, drainer, kafka
  <1>. QED BY <1>6, <1>7, <1>8 DEF TypeInv

LEMMA FinishType ==
    ASSUME TypeInv, NEW w \in Workers, pc[w] \notin {"down", "idle"}, FinishRecord(w)
    PROVE  TypeInv'
  <1>1. KafkaOK'
    BY DEF TypeInv, KafkaOK, WorkersOK, FinishRecord
  <1>2. WorkersOK'
    BY RequestAssumption, LenProperties, SettingAssumption
       DEF TypeInv, WorkersOK, FinishRecord, poller, PCs
  <1>3. RecordOK'
    BY DEF TypeInv, WorkersOK, RecordOK, FinishRecord
  <1>. QED BY <1>1, <1>2, <1>3 DEF TypeInv

LEMMA ExitType ==
    ASSUME TypeInv, NEW w \in Workers, Exit(w)
    PROVE  TypeInv'
  <1>1. KafkaOK'
    BY DEF TypeInv, KafkaOK, Exit
  <1>2. Len(<<>>) = 0 /\ <<>> \in Seq(Offsets)
    BY EmptySeq
  <1>3. WorkersOK'
    BY <1>2, RequestAssumption, LenProperties, SettingAssumption
       DEF TypeInv, WorkersOK, Exit, PCs
  <1>4. RecordOK'
    BY NobodyAssumption DEF TypeInv, WorkersOK, RecordOK, Exit
  <1>. QED BY <1>1, <1>3, <1>4 DEF TypeInv

LEMMA TakePartitionType ==
    ASSUME TypeInv, NEW w \in Workers, TakePartition(w)
    PROVE  TypeInv'
  <1>1. KafkaOK'
    BY DEF TypeInv, KafkaOK, TakePartition
  <1>2. WorkersOK'
    BY DEF TypeInv, KafkaOK, WorkersOK, TakePartition, drainer
  <1>3. RecordOK'
    BY DEF TypeInv, WorkersOK, RecordOK, TakePartition, drainer
  <1>. QED BY <1>1, <1>2, <1>3 DEF TypeInv

LEMMA StartType ==
    ASSUME TypeInv, NEW w \in Workers, Start(w)
    PROVE  TypeInv'
  <1>1. KafkaOK'
    BY DEF TypeInv, KafkaOK, Start, kafka
  <1>2. WorkersOK'
    BY DEF TypeInv, WorkersOK, Start, poller, PCs
  <1>3. RecordOK'
    BY DEF TypeInv, WorkersOK, RecordOK, Start, kafka
  <1>. QED BY <1>1, <1>2, <1>3 DEF TypeInv

(* What a step of the attempt loop does to the variables of TypeInv.       *)
AttemptStep(w) ==
    \/ Score(w)
    \/ ScoreFails(w)
    \/ InferenceTimesOut(w)
    \/ Publish(w)
    \/ CommitRefused(w)
    \/ CallFails(w)
    \/ PublishDeadLetter(w)

LEMMA AttemptShape ==
    ASSUME TypeInv, NEW w \in Workers, AttemptStep(w)
    PROVE  \E to \in PCs :
             /\ pc[w] \notin {"down", "idle"} /\ to \notin {"down", "idle"}
             /\ pc' = [pc EXCEPT ![w] = to]
             /\ attempt' \in [Workers -> 0 .. RetryMaxAttempts]
             /\ UNCHANGED <<owner, record, queue, position>>
             /\ scored' \in {scored, scored \cup {record[w]}}
             /\ deadLetters' \in {deadLetters, deadLetters \cup {record[w]}}
             /\ \/ committed' = committed
                \/ pc[w] = "commit" /\ committed' = record[w]
             /\ to = "commit" => record[w] \in scored'
             /\ to = "commit_dead" => record[w] \in deadLetters'
  <1>0. attempt \in [Workers -> 0 .. RetryMaxAttempts]
    BY DEF TypeInv, WorkersOK
  <1>1. CASE Score(w)
    BY <1>0, <1>1 DEF Score, kafka, poller, PCs
  <1>2. CASE ScoreFails(w)
    BY <1>0, <1>2 DEF ScoreFails, kafka, poller, PCs
  <1>3. CASE InferenceTimesOut(w)
    <2>1. NextAttempt(w, "timed_out")
      BY <1>3 DEF InferenceTimesOut
    <2>. QED BY <1>3, <2>1, NextAttemptType DEF InferenceTimesOut, kafka, poller, PCs
  <1>4. CASE Publish(w)
    BY <1>0, <1>4 DEF Publish, poller, PCs
  <1>5. CASE CommitRefused(w)
    <2>1. NextAttempt(w, "dead_letter")
      BY <1>5 DEF CommitRefused
    <2>. QED BY <1>5, <2>1, NextAttemptType DEF CommitRefused, kafka, poller, PCs
  <1>6. CASE CallFails(w)
    <2>1. PICK after \in {"dead_letter", "timed_out"} : NextAttempt(w, after)
      BY <1>6 DEF CallFails
    <2>2. /\ pc[w] \notin {"down", "idle"}
          /\ UNCHANGED <<owner, record, queue, position, deadLetters>>
      BY <1>6 DEF CallFails, poller
    <2>3. scored' \in {scored, scored \cup {record[w]}}
      BY <1>6 DEF CallFails
    <2>4. committed' = committed \/ (pc[w] = "commit" /\ committed' = record[w])
      BY <1>6 DEF CallFails
    <2>. QED BY <2>1, <2>2, <2>3, <2>4, NextAttemptType DEF PCs
  <1>7. CASE PublishDeadLetter(w)
    BY <1>0, <1>7 DEF PublishDeadLetter, poller, PCs
  <1>. QED BY <1>1, <1>2, <1>3, <1>4, <1>5, <1>6, <1>7 DEF AttemptStep

(* The variables of TypeInv, which the pause and the stop event leave.     *)
held == <<kafka, drainer, queue, position>>

LEMMA HeldType ==
    ASSUME TypeInv, UNCHANGED held
    PROVE  TypeInv'
  BY DEF held, kafka, drainer, TypeInv, KafkaOK, WorkersOK, RecordOK

LEMMA LeavesHeld ==
    ASSUME NEW w \in Workers, PauseWhenFull(w) \/ Resume(w) \/ Stop(w)
    PROVE  UNCHANGED held
  BY DEF PauseWhenFull, Resume, Stop, poller, held

(* Every step is one of these.                                             *)
LEMMA StepKinds ==
    ASSUME [Next]_vars
    PROVE  \/ UNCHANGED vars
           \/ \E w \in Workers :
                 \/ Start(w) \/ TakePartition(w) \/ Exit(w)
                 \/ PauseWhenFull(w) \/ Resume(w) \/ Stop(w)
                 \/ Fetch(w) \/ Take(w) \/ AttemptStep(w)
                 \/ CommitOffset(w) \/ CommitDeadLetter(w)
  BY Zenon DEF Next, PollerStep, DrainerStep, ProcessStep, Fault, Assign, Rebalance,
     CommitDeadLetterRefused, DeadLetterInvalid, Crash, StopDrained, StopTimesOut,
     AttemptStep

LEMMA NextType ==
    ASSUME TypeInv, [Next]_vars
    PROVE  TypeInv'
  <1>1. CASE UNCHANGED vars
    <2>. UNCHANGED held
      BY <1>1 DEF vars, poller, held
    <2>. QED BY HeldType
  <1>2. ASSUME NEW w \in Workers, AttemptStep(w) PROVE TypeInv'
    BY <1>2, AttemptShape, AttemptType
  <1>3. ASSUME NEW w \in Workers, CommitOffset(w) \/ CommitDeadLetter(w) PROVE TypeInv'
    BY <1>3, FinishType DEF CommitOffset, CommitDeadLetter
  <1>4. ASSUME NEW w \in Workers, PauseWhenFull(w) \/ Resume(w) \/ Stop(w)
        PROVE  TypeInv'
    BY <1>4, LeavesHeld, HeldType
  <1>. QED
    BY <1>1, <1>2, <1>3, <1>4, StepKinds, StartType, TakePartitionType, ExitType,
       FetchType, TakeType

-----------------------------------------------------------------------------
(* Nothing is committed past an unsettled request                          *)

LEMMA InitDurable == Init => DurableInv
  BY EmptySeq DEF Init, DurableInv, CommittedSettled, CommitOK, RecordOrder, QueueOrder,
     PositionHeld, Offsets

(* What is settled stays settled.                                          *)
Grows == scored \subseteq scored' /\ deadLetters \subseteq deadLetters'

LEMMA SettledStays ==
    ASSUME Grows, NEW i, Settled(i)
    PROVE  (Settled(i))'
  BY DEF Grows, Settled

(* Where workers keep what they hold, only the committed offset matters.   *)
LEMMA HeldOrder ==
    ASSUME DurableInv, Grows, UNCHANGED <<owner, record, queue, position>>
    PROVE  RecordOrder' /\ QueueOrder' /\ PositionHeld'
  <1>1. \A i : Settled(i) => (Settled(i))'
    BY SettledStays
  <1>2. RecordOrder'
    BY <1>1 DEF DurableInv, RecordOrder
  <1>3. QueueOrder'
    BY <1>1 DEF DurableInv, QueueOrder
  <1>4. PositionHeld'
    BY <1>1 DEF DurableInv, PositionHeld
  <1>. QED BY <1>2, <1>3, <1>4

(* Everything up to a record that may be committed is settled.             *)
LEMMA CommitSettles ==
    ASSUME SafetyInv, NEW w \in Workers, pc[w] \in {"commit", "commit_dead"}
    PROVE  \A i \in Offsets : i <= record[w] => Settled(i)
  <1>1. record[w] \in Nat /\ \A i \in Offsets : i \in Nat
    BY RequestAssumption, LenProperties DEF SafetyInv, TypeInv, WorkersOK, Offsets
  <1>2. Settled(record[w])
    BY DEF SafetyInv, DurableInv, CommitOK, Settled
  <1>3. \A i \in Offsets : i < record[w] => Settled(i)
    BY DEF SafetyInv, DurableInv, RecordOrder
  <1>. QED BY <1>1, <1>2, <1>3

LEMMA AttemptDurable ==
    ASSUME SafetyInv, NEW w \in Workers, AttemptStep(w)
    PROVE  DurableInv'
  <1>0. TypeInv /\ DurableInv
    BY DEF SafetyInv
  <1>1. PICK to \in PCs :
             /\ pc' = [pc EXCEPT ![w] = to]
             /\ UNCHANGED <<owner, record, queue, position>>
             /\ scored' \in {scored, scored \cup {record[w]}}
             /\ deadLetters' \in {deadLetters, deadLetters \cup {record[w]}}
             /\ \/ committed' = committed
                \/ pc[w] = "commit" /\ committed' = record[w]
             /\ to = "commit" => record[w] \in scored'
             /\ to = "commit_dead" => record[w] \in deadLetters'
    BY <1>0, AttemptShape
  <1>2. Grows
    BY <1>1 DEF Grows
  <1>3. CommittedSettled'
    <2>1. \A i \in Offsets : i <= committed' => Settled(i)
      <3>1. CASE committed' = committed
        BY <1>0, <3>1 DEF DurableInv, CommittedSettled
      <3>2. CASE pc[w] = "commit" /\ committed' = record[w]
        BY <3>2, CommitSettles
      <3>. QED BY <1>1, <3>1, <3>2
    <2>. QED BY <1>2, <2>1, SettledStays DEF CommittedSettled
  <1>4. CommitOK'
    <2>. SUFFICES ASSUME NEW v \in Workers
                  PROVE  /\ pc'[v] = "commit" => record'[v] \in scored'
                         /\ pc'[v] = "commit_dead" => record'[v] \in deadLetters'
      BY DEF CommitOK
    <2>1. CASE v = w
      BY <1>0, <1>1, <2>1 DEF TypeInv, WorkersOK
    <2>2. CASE v # w
      BY <1>0, <1>1, <1>2, <2>2 DEF TypeInv, WorkersOK, DurableInv, CommitOK, Grows
    <2>. QED BY <2>1, <2>2
  <1>. QED BY <1>0, <1>1, <1>2, <1>3, <1>4, HeldOrder DEF DurableInv

LEMMA FinishDurable ==
    ASSUME SafetyInv, NEW w \in Workers, pc[w] \in {"commit", "commit_dead"},
           FinishRecord(w)
    PROVE  DurableInv'
  <1>0. TypeInv /\ DurableInv
    BY DEF SafetyInv
  <1>1. /\ committed' = record[w]
        /\ record' = [record EXCEPT ![w] = 0]
        /\ pc' = [pc EXCEPT ![w] = "idle"]
        /\ UNCHANGED <<owner, scored, deadLetters, queue, position>>
    BY DEF FinishRecord, poller
  <1>2. \A i : (Settled(i))' <=> Settled(i)
    BY <1>1 DEF Settled
  <1>3. \A i \in Offsets : i <= record[w] => Settled(i)
    BY CommitSettles
  <1>4. CommittedSettled'
    BY <1>1, <1>2, <1>3 DEF CommittedSettled
  <1>5. CommitOK'
    BY <1>0, <1>1 DEF TypeInv, WorkersOK, DurableInv, CommitOK
  <1>6. \A i \in Offsets : i \in Nat /\ i > 0
    BY RequestAssumption, LenProperties DEF Offsets
  <1>7. RecordOrder'
    BY <1>0, <1>1, <1>2, <1>6 DEF TypeInv, WorkersOK, DurableInv, RecordOrder
  <1>8. \A i \in Offsets : \A v \in Workers :
            i = record[v] => Settled(i) \/ i = record'[v]
    <2>1. record[w] \in Nat
      BY <1>0, RequestAssumption, LenProperties DEF TypeInv, WorkersOK
    <2>. QED BY <1>0, <1>1, <1>3, <1>6, <2>1 DEF TypeInv, WorkersOK
  <1>9. QueueOrder'
    BY <1>0, <1>1, <1>2, <1>8 DEF DurableInv, QueueOrder
  <1>10. PositionHeld'
    BY <1>0, <1>1, <1>2, <1>8 DEF DurableInv, PositionHeld
  <1>. QED BY <1>4, <1>5, <1>7, <1>9, <1>10 DEF DurableInv

LEMMA ExitDurable ==
    ASSUME SafetyInv, NEW w \in Workers, Exit(w)
    PROVE  DurableInv'
  <1>0. TypeInv /\ DurableInv
    BY DEF SafetyInv
  <1>1. /\ pc' = [pc EXCEPT ![w] = "down"]
        /\ record' = [record EXCEPT ![w] = 0]
        /\ queue' = [queue EXCEPT ![w] = <<>>]
        /\ owner' = IF owner = w THEN Nobody ELSE owner
        /\ UNCHANGED <<committed, scored, deadLetters, position>>
    BY DEF Exit
  <1>2. \A i : (Settled(i))' <=> Settled(i)
    BY <1>1 DEF Settled
  <1>3. CommittedSettled' /\ CommitOK'
    BY <1>0, <1>1, <1>2 DEF TypeInv, WorkersOK, DurableInv, CommittedSettled, CommitOK
  <1>4. \A i \in Offsets : i \in Nat /\ i > 0
    BY RequestAssumption, LenProperties DEF Offsets
  <1>5. RecordOrder'
    BY <1>0, <1>1, <1>2, <1>4 DEF TypeInv, WorkersOK, DurableInv, RecordOrder
  <1>6. QueueOrder'
    <2>. SUFFICES ASSUME NEW v \in Workers, NEW k \in 1 .. Len(queue'[v]),
                         NEW i \in Offsets, i < queue'[v][k]
                  PROVE  \/ (Settled(i))'
                         \/ i = record'[v]
                         \/ \E m \in 1 .. (k - 1) : queue'[v][m] = i
      BY DEF QueueOrder
    <2>1. v # w
      BY <1>0, <1>1, EmptySeq DEF TypeInv, WorkersOK
    <2>2. queue'[v] = queue[v] /\ record'[v] = record[v]
      BY <1>0, <1>1, <2>1 DEF TypeInv, WorkersOK
    <2>. QED BY <1>0, <1>2, <2>2 DEF DurableInv, QueueOrder
  <1>7. PositionHeld'
    BY <1>0, <1>1, <1>2, NobodyAssumption DEF TypeInv, WorkersOK, DurableInv, PositionHeld
  <1>. QED BY <1>3, <1>5, <1>6, <1>7 DEF DurableInv

LEMMA TakePartitionDurable ==
    ASSUME SafetyInv, NEW w \in Workers, TakePartition(w)
    PROVE  DurableInv'
  <1>0. TypeInv /\ DurableInv
    BY DEF SafetyInv
  <1>1. /\ owner' = w
        /\ position' = [position EXCEPT ![w] = committed]
        /\ UNCHANGED <<committed, scored, deadLetters, pc, record, queue>>
    BY DEF TakePartition, drainer
  <1>2. \A i : (Settled(i))' <=> Settled(i)
    BY <1>1 DEF Settled
  <1>3. CommittedSettled' /\ CommitOK' /\ RecordOrder' /\ QueueOrder'
    BY <1>0, <1>1, <1>2 DEF DurableInv, CommittedSettled, CommitOK, RecordOrder, QueueOrder
  <1>4. PositionHeld'
    BY <1>0, <1>1, <1>2 DEF TypeInv, WorkersOK, DurableInv, CommittedSettled, PositionHeld
  <1>. QED BY <1>3, <1>4 DEF DurableInv

(* The drainer takes the head: what is before it is settled, and it is     *)
(* what the rest of the queue may still wait for.                          *)
LEMMA TakeDurable ==
    ASSUME SafetyInv, NEW w \in Workers, Take(w)
    PROVE  DurableInv'
  <1>0. TypeInv /\ DurableInv
    BY DEF SafetyInv
  <1>1. /\ pc[w] = "idle" /\ queue[w] # <<>>
        /\ queue' = [queue EXCEPT ![w] = Tail(@)]
        /\ record' = [record EXCEPT ![w] = Head(queue[w])]
        /\ \E to \in {"dead_letter", "score"} : pc' = [pc EXCEPT ![w] = to]
        /\ UNCHANGED <<committed, owner, scored, deadLetters, position>>
    BY DEF Take, kafka, poller
  <1>2. \A i : (Settled(i))' <=> Settled(i)
    BY <1>1 DEF Settled
  <1>3. /\ queue[w] \in Seq(Offsets) /\ Len(queue[w]) \in Nat \ {0}
        /\ record[w] = 0
    BY <1>0, <1>1, EmptySeq DEF TypeInv, WorkersOK, RecordOK
  <1>4. /\ queue'[w] = Tail(queue[w])
        /\ record'[w] = queue[w][1]
        /\ Len(queue'[w]) = Len(queue[w]) - 1
        /\ \A k \in 1 .. Len(queue'[w]) : queue'[w][k] = queue[w][k + 1]
    <2>1. queue'[w] = Tail(queue[w]) /\ record'[w] = Head(queue[w])
      BY <1>0, <1>1 DEF TypeInv, WorkersOK
    <2>2. /\ Len(Tail(queue[w])) = Len(queue[w]) - 1
          /\ \A k \in 1 .. Len(Tail(queue[w])) : Tail(queue[w])[k] = queue[w][k + 1]
      BY <1>1, <1>3, HeadTailProperties
    <2>. QED BY <2>1, <2>2
  <1>5. \A i \in Offsets : i \in Nat /\ i > 0
    BY RequestAssumption, LenProperties DEF Offsets
  <1>6. CommittedSettled'
    BY <1>0, <1>1, <1>2 DEF DurableInv, CommittedSettled
  <1>7. CommitOK'
    BY <1>0, <1>1 DEF TypeInv, WorkersOK, DurableInv, CommitOK
  <1>8. RecordOrder'
    <2>1. ASSUME NEW i \in Offsets, i < queue[w][1] PROVE Settled(i)
      BY <1>0, <1>3, <1>5, <2>1 DEF DurableInv, QueueOrder
    <2>. QED BY <1>0, <1>1, <1>2, <1>4, <2>1 DEF TypeInv, WorkersOK, DurableInv, RecordOrder
  <1>9. QueueOrder'
    <2>. SUFFICES ASSUME NEW v \in Workers, NEW k \in 1 .. Len(queue'[v]),
                         NEW i \in Offsets, i < queue'[v][k]
                  PROVE  \/ (Settled(i))'
                         \/ i = record'[v]
                         \/ \E m \in 1 .. (k - 1) : queue'[v][m] = i
      BY DEF QueueOrder
    <2>1. CASE v # w
      <3>1. queue'[v] = queue[v] /\ record'[v] = record[v]
        BY <1>0, <1>1, <2>1 DEF TypeInv, WorkersOK
      <3>. QED BY <1>0, <1>2, <3>1 DEF DurableInv, QueueOrder
    <2>2. CASE v = w
      <3>0. k \in 1 .. Len(queue'[w]) /\ i < queue'[w][k]
        BY <2>2
      <3>1. k \in Nat /\ k + 1 \in 1 .. Len(queue[w]) /\ i < queue[w][k + 1]
        BY <1>3, <1>4, <3>0
      <3>2. Settled(i) \/ \E m \in 1 .. k : queue[w][m] = i
        <4>1. \/ Settled(i)
              \/ i = record[w]
              \/ \E m \in 1 .. ((k + 1) - 1) : queue[w][m] = i
          BY <1>0, <3>1 DEF DurableInv, QueueOrder
        <4>2. (k + 1) - 1 = k
          BY <3>1
        <4>3. i # record[w]
          BY <1>3, <1>5
        <4>. QED BY <4>1, <4>2, <4>3
      <3>3. ASSUME NEW m \in 1 .. k, queue[w][m] = i
            PROVE  i = record'[w] \/ \E l \in 1 .. (k - 1) : queue'[w][l] = i
        <4>1. CASE m = 1
          BY <1>4, <3>3, <4>1
        <4>2. CASE m # 1
          <5>1. m - 1 \in 1 .. (k - 1) /\ m - 1 \in 1 .. Len(queue'[w])
            BY <1>3, <1>4, <3>1, <4>2
          <5>2. queue'[w][m - 1] = i
            BY <1>4, <3>1, <3>3, <5>1
          <5>. QED BY <5>1, <5>2
        <4>. QED BY <4>1, <4>2
      <3>. QED BY <1>2, <2>2, <3>2, <3>3
    <2>. QED BY <2>1, <2>2
  <1>10. PositionHeld'
    <2>. SUFFICES ASSUME NEW v \in Workers, owner' = v,
                         NEW i \in Offsets, i <= position'[v]
                  PROVE  \/ (Settled(i))'
                         \/ i = record'[v]
                         \/ \E m \in 1 .. Len(queue'[v]) : queue'[v][m] = i
      BY DEF PositionHeld
    <2>1. CASE v # w
      <3>1. queue'[v] = queue[v] /\ record'[v] = record[v]
        BY <1>0, <1>1, <2>1 DEF TypeInv, WorkersOK
      <3>2. owner = v /\ i <= position[v]
        BY <1>1
      <3>3. \/ Settled(i)
            \/ i = record[v]
            \/ \E m \in 1 .. Len(queue[v]) : queue[v][m] = i
        BY <1>0, <3>2 DEF DurableInv, PositionHeld
      <3>. QED BY <1>2, <3>1, <3>3
    <2>2. CASE v = w
      <3>1. Settled(i) \/ \E m \in 1 .. Len(queue[w]) : queue[w][m] = i
        <4>1. owner = w /\ i <= position[w]
          BY <1>1, <2>2
        <4>2. \/ Settled(i)
              \/ i = record[w]
              \/ \E m \in 1 .. Len(queue[w]) : queue[w][m] = i
          BY <1>0, <4>1 DEF DurableInv, PositionHeld
        <4>3. i # record[w]
          BY <1>3, <1>5
        <4>. QED BY <4>2, <4>3
      <3>2. ASSUME NEW m \in 1 .. Len(queue[w]), queue[w][m] = i
            PROVE  i = record'[w] \/ \E l \in 1 .. Len(queue'[w]) : queue'[w][l] = i
        <4>1. CASE m = 1
          BY <1>4, <3>2, <4>1
        <4>2. CASE m # 1
          <5>1. m - 1 \in 1 .. Len(queue'[w])
            BY <1>3, <1>4, <4>2
          <5>2. queue'[w][m - 1] = i
            BY <1>4, <3>2, <5>1
          <5>. QED BY <5>1, <5>2
        <4>. QED BY <4>1, <4>2
      <3>. QED BY <1>2, <2>2, <3>1, <3>2
    <2>. QED BY <2>1, <2>2
  <1>. QED BY <1>6, <1>7, <1>8, <1>9, <1>10 DEF DurableInv

(* A fetched record follows the position, and all up to that is settled or *)
(* held before it.                                                         *)
LEMMA FetchDurable ==
    ASSUME SafetyInv, NEW w \in Workers, Fetch(w)
    PROVE  DurableInv'
  <1>0. TypeInv /\ DurableInv
    BY DEF SafetyInv
  <1>1. PICK n \in 1 .. Least(MaxPollRecords, MaxInFlight - Len(queue[w])) :
            /\ position[w] + n <= Len(Requests)
            /\ queue' = [queue EXCEPT ![w] =
                             @ \o [i \in 1 .. n |-> position[w] + i]]
            /\ position' = [position EXCEPT ![w] = @ + n]
    BY DEF Fetch
  <1>2. /\ owner = w
        /\ UNCHANGED <<committed, owner, scored, deadLetters, pc, record>>
    BY DEF Fetch, kafka, drainer
  <1>3. \A i : (Settled(i))' <=> Settled(i)
    BY <1>2 DEF Settled
  <1>4. /\ Len(queue[w]) \in Nat /\ position[w] \in Nat
        /\ \A i \in Offsets : i \in Nat
    BY RequestAssumption, LenProperties DEF TypeInv, WorkersOK, Offsets, SafetyInv
  <1>5. n \in Nat \ {0}
    BY <1>1, <1>4, SettingAssumption DEF Least
  <1>6. /\ queue'[w] = queue[w] \o [i \in 1 .. n |-> position[w] + i]
        /\ position'[w] = position[w] + n
    BY <1>0, <1>1 DEF TypeInv, WorkersOK
  <1>7. /\ Len(queue'[w]) = Len(queue[w]) + n
        /\ \A k \in 1 .. Len(queue[w]) : queue'[w][k] = queue[w][k]
        /\ \A k \in 1 .. n : queue'[w][Len(queue[w]) + k] = position[w] + k
    BY <1>0, <1>1, <1>5, <1>6, FetchedQueue
  <1>8. CommittedSettled' /\ CommitOK' /\ RecordOrder'
    BY <1>0, <1>2, <1>3 DEF DurableInv, CommittedSettled, CommitOK, RecordOrder
  <1>9. ASSUME NEW l \in 0 .. n, NEW i \in Offsets, i <= position[w] + l
        PROVE  \/ Settled(i)
               \/ i = record[w]
               \/ \E m \in 1 .. (Len(queue[w]) + l) : queue'[w][m] = i
    <2>1. CASE i <= position[w]
      <3>1. \/ Settled(i)
            \/ i = record[w]
            \/ \E m \in 1 .. Len(queue[w]) : queue[w][m] = i
        BY <1>0, <1>2, <2>1 DEF DurableInv, PositionHeld
      <3>2. ASSUME NEW m \in 1 .. Len(queue[w]), queue[w][m] = i
            PROVE  m \in 1 .. (Len(queue[w]) + l) /\ queue'[w][m] = i
        BY <1>4, <1>7, <3>2
      <3>. QED BY <3>1, <3>2
    <2>2. CASE ~(i <= position[w])
      <3>0. /\ i \in Nat /\ l \in Nat /\ l <= n /\ n \in Nat
            /\ Len(queue[w]) \in Nat /\ position[w] \in Nat
            /\ position[w] < i /\ i <= position[w] + l
        BY <1>4, <1>5, <1>9, <2>2
      <3>1. /\ i - position[w] \in 1 .. n
            /\ Len(queue[w]) + (i - position[w]) \in 1 .. (Len(queue[w]) + l)
            /\ position[w] + (i - position[w]) = i
        <4>. DEFINE d == i - position[w]
        <4>1. d \in Int /\ 0 < d /\ d <= l /\ position[w] + d = i
          BY <3>0
        <4>. HIDE DEF d
        <4>2. d \in 1 .. n /\ Len(queue[w]) + d \in 1 .. (Len(queue[w]) + l)
          BY <3>0, <4>1
        <4>. QED BY <4>1, <4>2 DEF d
      <3>2. queue'[w][Len(queue[w]) + (i - position[w])] = i
        BY <1>7, <3>1
      <3>. QED BY <3>1, <3>2
    <2>. QED BY <2>1, <2>2
  <1>10. QueueOrder'
    <2>. SUFFICES ASSUME NEW v \in Workers, NEW k \in 1 .. Len(queue'[v]),
                         NEW i \in Offsets, i < queue'[v][k]
                  PROVE  \/ (Settled(i))'
                         \/ i = record'[v]
                         \/ \E m \in 1 .. (k - 1) : queue'[v][m] = i
      BY DEF QueueOrder
    <2>1. CASE v # w
      <3>1. queue'[v] = queue[v]
        BY <1>0, <1>1, <2>1 DEF TypeInv, WorkersOK
      <3>. QED BY <1>0, <1>2, <1>3, <3>1 DEF DurableInv, QueueOrder
    <2>2. CASE v = w /\ k <= Len(queue[w])
      <3>1. k \in 1 .. Len(queue[w]) /\ i < queue[w][k]
        BY <1>4, <1>7, <2>2
      <3>2. \/ Settled(i)
            \/ i = record[w]
            \/ \E m \in 1 .. (k - 1) : queue[w][m] = i
        BY <1>0, <3>1 DEF DurableInv, QueueOrder
      <3>3. \A m \in 1 .. (k - 1) : queue'[w][m] = queue[w][m]
        BY <1>4, <1>7, <3>1
      <3>. QED BY <1>2, <1>3, <2>2, <3>2, <3>3
    <2>3. CASE v = w /\ ~(k <= Len(queue[w]))
      <3>0. k \in 1 .. (Len(queue[w]) + n) /\ i < queue'[w][k]
        BY <1>7, <2>3
      <3>1. PICK l \in 1 .. n : k = Len(queue[w]) + l
        <4>1. k - Len(queue[w]) \in 1 .. n /\ k = Len(queue[w]) + (k - Len(queue[w]))
          BY <1>4, <1>5, <2>3, <3>0
        <4>. QED BY <4>1
      <3>2. queue'[w][k] = position[w] + l
        BY <1>7, <3>1
      <3>3. /\ l - 1 \in 0 .. n /\ i <= position[w] + (l - 1)
            /\ Len(queue[w]) + (l - 1) = k - 1
        BY <1>4, <1>5, <3>0, <3>1, <3>2
      <3>4. \/ Settled(i)
            \/ i = record[w]
            \/ \E m \in 1 .. (Len(queue[w]) + (l - 1)) : queue'[w][m] = i
        BY <1>9, <3>3
      <3>. QED BY <1>2, <1>3, <2>3, <3>3, <3>4
    <2>. QED BY <2>1, <2>2, <2>3
  <1>11. PositionHeld'
    <2>. SUFFICES ASSUME NEW v \in Workers, owner' = v,
                         NEW i \in Offsets, i <= position'[v]
                  PROVE  \/ (Settled(i))'
                         \/ i = record'[v]
                         \/ \E m \in 1 .. Len(queue'[v]) : queue'[v][m] = i
      BY DEF PositionHeld
    <2>1. v = w /\ n \in 0 .. n /\ i <= position[w] + n
      BY <1>2, <1>5, <1>6
    <2>. QED BY <1>2, <1>3, <1>7, <1>9, <2>1
  <1>. QED BY <1>8, <1>10, <1>11 DEF DurableInv

LEMMA StartDurable ==
    ASSUME SafetyInv, NEW w \in Workers, Start(w)
    PROVE  DurableInv'
  <1>0. TypeInv /\ DurableInv
    BY DEF SafetyInv
  <1>1. /\ pc' = [pc EXCEPT ![w] = "idle"]
        /\ UNCHANGED <<committed, owner, scored, deadLetters, record, queue, position>>
    BY DEF Start, kafka, poller
  <1>2. Grows
    BY <1>1 DEF Grows
  <1>3. CommittedSettled'
    BY <1>0, <1>1 DEF DurableInv, CommittedSettled, Settled
  <1>4. CommitOK'
    BY <1>0, <1>1 DEF TypeInv, WorkersOK, DurableInv, CommitOK
  <1>. QED BY <1>0, <1>1, <1>2, <1>3, <1>4, HeldOrder DEF DurableInv

LEMMA HeldDurable ==
    ASSUME DurableInv, UNCHANGED held
    PROVE  DurableInv'
  <1>1. UNCHANGED <<committed, owner, scored, deadLetters, pc, record, queue, position>>
    BY DEF held, kafka, drainer
  <1>2. Grows
    BY <1>1 DEF Grows
  <1>3. CommittedSettled' /\ CommitOK'
    BY <1>1 DEF DurableInv, CommittedSettled, CommitOK, Settled
  <1>. QED BY <1>1, <1>2, <1>3, HeldOrder DEF DurableInv

LEMMA NextSafety ==
    ASSUME SafetyInv, [Next]_vars
    PROVE  SafetyInv'
  <1>0. TypeInv /\ DurableInv
    BY DEF SafetyInv
  <1>1. CASE UNCHANGED vars
    <2>. UNCHANGED held
      BY <1>1 DEF vars, poller, held
    <2>. QED BY <1>0, HeldType, HeldDurable DEF SafetyInv
  <1>2. ASSUME NEW w \in Workers, CommitOffset(w) \/ CommitDeadLetter(w)
        PROVE  DurableInv'
    BY <1>2, FinishDurable DEF CommitOffset, CommitDeadLetter
  <1>3. ASSUME NEW w \in Workers, PauseWhenFull(w) \/ Resume(w) \/ Stop(w)
        PROVE  DurableInv'
    BY <1>0, <1>3, LeavesHeld, HeldDurable
  <1>4. TypeInv'
    BY <1>0, NextType
  <1>5. DurableInv'
    BY <1>1, <1>2, <1>3, StepKinds, StartDurable, TakePartitionDurable, ExitDurable,
       FetchDurable, TakeDurable, AttemptDurable DEF SafetyInv
  <1>. QED BY <1>4, <1>5 DEF SafetyInv

(* The committed offset never passes a request that has neither a result   *)
(* nor a dead letter, however workers crash, stop and swap the partition   *)
(* with records in their queues.                                           *)
THEOREM CommittedIsSettled == Spec => []CommittedSettled
  <1>1. Init => SafetyInv
    BY InitType, InitDurable DEF SafetyInv
  <1>2. SafetyInv /\ [Next]_vars => SafetyInv'
    BY NextSafety
  <1>3. SafetyInv => CommittedSettled
    BY DEF SafetyInv, DurableInv
  <1>. QED BY <1>1, <1>2, <1>3, PTL DEF Spec

-----------------------------------------------------------------------------
(* The flags of the poller and the environment's counters                  *)

FlagsInv == FlagsOK /\ PauseKnown

LEMMA FlagsKept ==
    ASSUME FlagsInv, NEW w \in Workers,
           \/ /\ quiet' = [quiet EXCEPT ![w] = FALSE]
              /\ paused' \in {paused, [paused EXCEPT ![w] = FALSE]}
              /\ stopping' \in {stopping, [stopping EXCEPT ![w] = FALSE]}
           \/ /\ quiet' = [quiet EXCEPT ![w] = TRUE]
              /\ paused' = [paused EXCEPT ![w] = TRUE]
              /\ UNCHANGED stopping
           \/ /\ stopping' = [stopping EXCEPT ![w] = TRUE]
              /\ UNCHANGED <<quiet, paused>>
           \/ UNCHANGED <<quiet, paused, stopping>>
    PROVE  FlagsInv'
  <1>1. FlagsOK'
    BY Zenon DEF FlagsInv, FlagsOK
  <1>2. PauseKnown'
    <2>. SUFFICES ASSUME NEW v \in Workers, quiet'[v] PROVE paused'[v]
      BY DEF PauseKnown
    <2>1. CASE v = w
      BY <2>1, Zenon DEF FlagsInv, FlagsOK, PauseKnown
    <2>2. CASE v # w
      BY <2>2, Zenon DEF FlagsInv, FlagsOK, PauseKnown
    <2>. QED BY <2>1, <2>2
  <1>. QED BY <1>1, <1>2 DEF FlagsInv

LEMMA NextFlags ==
    ASSUME FlagsInv, [Next]_vars
    PROVE  FlagsInv'
  <1>1. CASE UNCHANGED vars
    BY <1>1 DEF vars, poller, FlagsInv, FlagsOK, PauseKnown
  <1>2. ASSUME NEW w \in Workers, PollerStep(w) PROVE FlagsInv'
    <2>1. CASE PauseWhenFull(w)
      BY <2>1, FlagsKept DEF PauseWhenFull
    <2>2. CASE Resume(w)
      BY <2>2, FlagsKept DEF Resume
    <2>3. CASE Fetch(w)
      BY <2>3, FlagsKept DEF Fetch
    <2>. QED BY <1>2, <2>1, <2>2, <2>3 DEF PollerStep
  <1>3. ASSUME NEW w \in Workers, Exit(w) PROVE FlagsInv'
    BY <1>3, FlagsKept DEF Exit
  <1>4. ASSUME NEW w \in Workers, TakePartition(w) PROVE FlagsInv'
    BY <1>4, FlagsKept DEF TakePartition
  <1>5. ASSUME NEW w \in Workers, DrainerStep(w) PROVE FlagsInv'
    <2>1. CASE CommitDeadLetterRefused(w) \/ DeadLetterInvalid(w)
      BY <1>3, <2>1 DEF CommitDeadLetterRefused, DeadLetterInvalid
    <2>2. CASE Take(w) \/ Score(w) \/ ScoreFails(w) \/ InferenceTimesOut(w) \/ Publish(w)
      <3>. UNCHANGED poller /\ UNCHANGED stopping
        BY <2>2 DEF Take, Score, ScoreFails, InferenceTimesOut, Publish
      <3>. QED BY FlagsKept DEF poller
    <2>3. CASE CommitOffset(w) \/ CommitRefused(w) \/ PublishDeadLetter(w) \/ CommitDeadLetter(w)
      <3>. UNCHANGED poller /\ UNCHANGED stopping
        BY <2>3 DEF CommitOffset, CommitRefused, PublishDeadLetter, CommitDeadLetter, FinishRecord
      <3>. QED BY FlagsKept DEF poller
    <2>. QED BY <1>5, <2>1, <2>2, <2>3 DEF DrainerStep
  <1>6. ASSUME NEW w \in Workers, ProcessStep(w) PROVE FlagsInv'
    <2>1. CASE Start(w)
      BY <2>1, FlagsKept DEF Start, poller
    <2>. QED BY <1>3, <1>4, <1>6, <2>1 DEF ProcessStep, Assign, StopDrained
  <1>7. ASSUME NEW w \in Workers, Fault(w) PROVE FlagsInv'
    <2>1. CASE CallFails(w)
      BY <2>1, FlagsKept DEF CallFails, poller
    <2>2. CASE Stop(w)
      BY <2>2, FlagsKept DEF Stop, poller
    <2>. QED BY <1>3, <1>4, <1>7, <2>1, <2>2 DEF Fault, Rebalance, Crash, StopTimesOut
  <1>. QED BY <1>1, <1>2, <1>5, <1>6, <1>7 DEF Next

(* A partition the consumer has paused is one its poller knows as paused,  *)
(* so Resume can reach it: across rebalances, exits and restarts.          *)
THEOREM PauseIsKnown == Spec => []PauseKnown
  <1>1. Init => FlagsInv
    <2>. SUFFICES ASSUME Init PROVE FlagsInv
      OBVIOUS
    <2>1. PauseKnown
      BY Zenon DEF Init, PauseKnown
    <2>. QED BY <2>1, InitType DEF FlagsInv
  <1>2. FlagsInv /\ [Next]_vars => FlagsInv'
    BY NextFlags
  <1>3. FlagsInv => PauseKnown
    BY DEF FlagsInv
  <1>. QED BY <1>1, <1>2, <1>3, PTL DEF Spec

LEMMA NextCounters ==
    ASSUME CountersOK, [Next]_vars
    PROVE  CountersOK'
  <1>0. CASE UNCHANGED vars
    BY <1>0 DEF vars, counters, CountersOK
  <1>1. ASSUME NEW w \in Workers, PollerStep(w) \/ DrainerStep(w) \/ ProcessStep(w)
        PROVE  UNCHANGED counters
    BY <1>1 DEF PollerStep, PauseWhenFull, Resume, Fetch, DrainerStep, Take, Score,
       ScoreFails, InferenceTimesOut, Publish, CommitOffset, CommitRefused,
       PublishDeadLetter, CommitDeadLetter, FinishRecord, CommitDeadLetterRefused,
       DeadLetterInvalid, ProcessStep, Start, Assign, TakePartition, StopDrained, counters
  <1>2. ASSUME NEW w \in Workers, Fault(w) PROVE CountersOK'
    BY <1>2 DEF CountersOK, Fault, Rebalance, TakePartition, CallFails, Crash, Stop, StopTimesOut, counters
  <1>. QED BY <1>0, <1>1, <1>2 DEF Next, counters, CountersOK

(* Every variable keeps its type; of these the bound on the queue is the   *)
(* one a wrong poller would break, by fetching more than there is room for.*)
THEOREM TypeCorrect == Spec => []TypeOK
  <1>1. Init => TypeInv /\ FlagsInv /\ CountersOK
    <2>. SUFFICES ASSUME Init PROVE PauseKnown
      BY InitType DEF FlagsInv
    <2>. QED BY Zenon DEF Init, PauseKnown
  <1>2. TypeInv /\ FlagsInv /\ CountersOK /\ [Next]_vars => TypeInv' /\ FlagsInv' /\ CountersOK'
    BY NextType, NextFlags, NextCounters
  <1>3. TypeInv /\ FlagsInv /\ CountersOK => TypeOK
    BY DEF TypeInv, KafkaOK, WorkersOK, FlagsInv, FlagsOK, CountersOK, TypeOK
  <1>. QED BY <1>1, <1>2, <1>3, PTL DEF Spec
-----------------------------------------------------------------------------
(* What is given up                                                        *)

Busy(w) == pc[w] \notin {"down", "idle"}

(* While the partition has moved only by exits, who holds records owns it, *)
(* and each attempt at a good request but the first has cost a fault.      *)
Earned(w) ==
    rebalances = 0 =>
        /\ queue[w] # <<>> \/ Busy(w) => owner = w
        /\ Busy(w) /\ Requests[record[w]] = "good" =>
              /\ attempt[w] <= faults + 1
              /\ pc[w] \in {"dead_letter", "timed_out", "commit_dead"} =>
                    faults >= RetryMaxAttempts

EarnedInv == GivenUpAfterAttempts /\ \A w \in Workers : Earned(w)

(* A step of one worker: the others keep what they have earned.            *)
LEMMA OthersEarned ==
    ASSUME TypeInv, CountersOK, CountersOK', EarnedInv, NEW w \in Workers,
           faults <= faults', rebalances <= rebalances',
           \A v \in Workers \ {w} :
               /\ UNCHANGED <<pc[v], record[v], attempt[v], queue[v]>>
               /\ rebalances' = 0 /\ owner = v => owner' = v,
           \A i \in deadLetters' \ deadLetters : Requests[i] = "good" =>
               faults' >= RetryMaxAttempts \/ rebalances' > 0,
           Earned(w)'
    PROVE  EarnedInv'
  <1>1. RetryMaxAttempts \in Nat /\ faults \in Nat /\ faults' \in Nat
        /\ rebalances \in Nat /\ rebalances' \in Nat
    BY SettingAssumption DEF CountersOK
  <1>2. GivenUpAfterAttempts'
    BY <1>1 DEF EarnedInv, GivenUpAfterAttempts
  <1>3. ASSUME NEW v \in Workers \ {w} PROVE Earned(v)'
    <2>1. Earned(v) /\ attempt[v] \in Nat
      BY DEF EarnedInv, TypeInv, WorkersOK
    <2>. QED BY <1>1, <2>1 DEF Earned, Busy
  <1>. QED BY <1>2, <1>3 DEF EarnedInv

(* A failed attempt at a good request: the fault pays for the next one, or *)
(* all of them are paid for.                                               *)
LEMMA FailureEarned ==
    ASSUME TypeInv, CountersOK, EarnedInv, NEW w \in Workers, CallFails(w)
    PROVE  Earned(w)'
  <1>1. PICK after \in {"dead_letter", "timed_out"} : NextAttempt(w, after)
    BY DEF CallFails
  <1>2. /\ faults' = faults + 1 /\ UNCHANGED <<owner, record, queue, rebalances>>
        /\ Busy(w)
    BY DEF CallFails, Busy
  <1>3. /\ attempt[w] \in 0 .. RetryMaxAttempts /\ RetryMaxAttempts \in Nat /\ faults \in Nat
        /\ pc \in [Workers -> PCs] /\ attempt \in [Workers -> 0 .. RetryMaxAttempts]
    BY SettingAssumption DEF TypeInv, WorkersOK, CountersOK
  <1>4. Earned(w)
    BY DEF EarnedInv
  <1>5. CASE attempt[w] = RetryMaxAttempts
    <2>1. pc'[w] = after /\ attempt'[w] = attempt[w]
      BY <1>1, <1>3, <1>5 DEF NextAttempt
    <2>. QED BY <1>2, <1>3, <1>4, <1>5, <2>1 DEF Earned, Busy
  <1>6. CASE attempt[w] # RetryMaxAttempts
    <2>1. pc'[w] = "score" /\ attempt'[w] = attempt[w] + 1
      BY <1>1, <1>3, <1>6 DEF NextAttempt
    <2>. QED BY <1>2, <1>3, <1>4, <2>1 DEF Earned, Busy
  <1>. QED BY <1>5, <1>6

LEMMA AttemptEarned ==
    ASSUME TypeInv, CountersOK, EarnedInv, NEW w \in Workers, AttemptStep(w)
    PROVE  Earned(w)'
  <1>1. /\ pc \in [Workers -> PCs]
        /\ attempt[w] \in 0 .. RetryMaxAttempts
        /\ rebalances \in Nat
    BY DEF TypeInv, WorkersOK, CountersOK
  <1>2. Earned(w)
    BY DEF EarnedInv
  <1>3. CASE Score(w)
    BY <1>1, <1>2, <1>3 DEF Score, Earned, Busy, kafka, counters
  <1>4. CASE ScoreFails(w)
    BY <1>1, <1>2, <1>4 DEF ScoreFails, Earned, Busy, kafka, counters
  <1>5. CASE Publish(w)
    BY <1>1, <1>2, <1>5 DEF Publish, Earned, Busy, counters
  <1>6. CASE PublishDeadLetter(w)
    BY <1>1, <1>2, <1>6 DEF PublishDeadLetter, Earned, Busy, counters
  <1>7. CASE InferenceTimesOut(w)
    BY <1>2, <1>7 DEF InferenceTimesOut, Earned, Busy, kafka, counters
  <1>8. CASE CommitRefused(w)
    BY <1>2, <1>8 DEF CommitRefused, Earned, Busy, kafka, counters
  <1>. QED BY <1>3, <1>4, <1>5, <1>6, <1>7, <1>8, FailureEarned DEF AttemptStep

(* Who takes the partition from nobody finds every drainer without work.   *)
LEMMA TakePartitionEarned ==
    ASSUME TypeInv, CountersOK, EarnedInv, NEW w \in Workers, Assign(w) \/ Rebalance(w)
    PROVE  EarnedInv'
  <1>1. /\ owner' = w
        /\ UNCHANGED <<deadLetters, pc, record, attempt, queue, faults>>
    BY DEF Assign, Rebalance, TakePartition, drainer
  <1>2. CASE Rebalance(w)
    <2>1. rebalances' = rebalances + 1 /\ rebalances \in Nat
      BY <1>2 DEF Rebalance, CountersOK
    <2>. QED BY <1>1, <2>1 DEF EarnedInv, Earned, GivenUpAfterAttempts
  <1>3. CASE Assign(w)
    <2>1. owner \notin Workers /\ UNCHANGED rebalances
      BY <1>3, NobodyAssumption DEF Assign
    <2>2. \A v \in Workers : rebalances = 0 => queue[v] = <<>> /\ ~Busy(v)
      BY <2>1 DEF EarnedInv, Earned
    <2>3. \A v \in Workers : Earned(v)'
      BY <1>1, <2>1, <2>2 DEF Earned, Busy
    <2>. QED BY <1>1, <2>1, <2>3 DEF EarnedInv, GivenUpAfterAttempts
  <1>. QED BY <1>2, <1>3

(* What a worker that stops holding work has earned.                       *)
LEMMA IdleEarned ==
    ASSUME NEW w \in Workers, pc'[w] \in {"down", "idle"},
           queue'[w] # <<>> /\ rebalances' = 0 => owner' = w
    PROVE  Earned(w)'
  BY DEF Earned, Busy

LEMMA NextEarned ==
    ASSUME TypeInv, CountersOK, EarnedInv, [Next]_vars
    PROVE  EarnedInv'
  <1>0. /\ pc \in [Workers -> PCs] /\ record \in [Workers -> 0 .. Len(Requests)]
        /\ attempt \in [Workers -> 0 .. RetryMaxAttempts]
        /\ queue \in [Workers -> Seq(Offsets)]
        /\ CountersOK' /\ faults \in Nat /\ rebalances \in Nat
    BY NextCounters DEF TypeInv, WorkersOK, CountersOK
  <1>1. ASSUME UNCHANGED <<kafka, drainer, queue, counters>> PROVE EarnedInv'
    BY <1>1 DEF kafka, drainer, counters, EarnedInv, Earned, Busy, GivenUpAfterAttempts
  <1>2. ASSUME NEW w \in Workers, PauseWhenFull(w) \/ Resume(w) PROVE EarnedInv'
    BY <1>1, <1>2 DEF PauseWhenFull, Resume
  <1>3. ASSUME NEW w \in Workers, Stop(w) PROVE EarnedInv'
    BY <1>3 DEF Stop, kafka, drainer, EarnedInv, Earned, Busy, GivenUpAfterAttempts
  <1>4. ASSUME NEW w \in Workers, Fetch(w) PROVE EarnedInv'
    <2>1. /\ owner = w /\ UNCHANGED <<owner, deadLetters, pc, record, attempt, faults, rebalances>>
          /\ \A v \in Workers \ {w} : queue'[v] = queue[v]
      BY <1>0, <1>4 DEF Fetch, kafka, drainer, counters
    <2>2. Earned(w)'
      BY <2>1 DEF EarnedInv, Earned, Busy
    <2>. QED BY <1>0, <2>1, <2>2, OthersEarned
  <1>5. ASSUME NEW w \in Workers, Start(w) PROVE EarnedInv'
    <2>1. /\ pc' = [pc EXCEPT ![w] = "idle"] /\ queue[w] = <<>>
          /\ UNCHANGED <<owner, deadLetters, record, attempt, queue, faults, rebalances>>
      BY <1>5 DEF Start, kafka, counters, TypeInv, RecordOK
    <2>2. Earned(w)'
      BY <1>0, <2>1, IdleEarned
    <2>. QED BY <1>0, <2>1, <2>2, OthersEarned
  <1>6. ASSUME NEW w \in Workers, Take(w) PROVE EarnedInv'
    <2>1. /\ UNCHANGED <<owner, deadLetters, faults, rebalances>>
          /\ queue[w] # <<>>
          /\ record'[w] = Head(queue[w]) /\ attempt'[w] = 1
          /\ pc'[w] = IF Requests[Head(queue[w])] = "malformed" THEN "dead_letter" ELSE "score"
      BY <1>0, <1>6 DEF Take, kafka, counters
    <2>2. \A v \in Workers \ {w} : UNCHANGED <<pc[v], record[v], attempt[v], queue[v]>>
      BY <1>0, <1>6 DEF Take
    <2>3. Earned(w)'
      BY <1>0, <2>1 DEF EarnedInv, Earned, Busy
    <2>. QED BY <1>0, <2>1, <2>2, <2>3, OthersEarned
  <1>7. ASSUME NEW w \in Workers, CommitOffset(w) \/ CommitDeadLetter(w) PROVE EarnedInv'
    <2>1. /\ owner = w /\ pc'[w] = "idle"
          /\ UNCHANGED <<owner, deadLetters, queue, faults, rebalances>>
      BY <1>0, <1>7 DEF CommitOffset, CommitDeadLetter, FinishRecord, counters
    <2>2. \A v \in Workers \ {w} : UNCHANGED <<pc[v], record[v], attempt[v], queue[v]>>
      BY <1>0, <1>7 DEF CommitOffset, CommitDeadLetter, FinishRecord
    <2>3. Earned(w)'
      BY <2>1, IdleEarned
    <2>4. faults <= faults' /\ rebalances <= rebalances'
      BY <1>0, <2>1
    <2>5. /\ \A v \in Workers \ {w} : rebalances' = 0 /\ owner = v => owner' = v
          /\ deadLetters' \ deadLetters = {}
      BY <2>1
    <2>. QED BY <1>0, <2>2, <2>3, <2>4, <2>5, OthersEarned
  <1>8. ASSUME NEW w \in Workers, Exit(w), UNCHANGED <<faults, rebalances>> PROVE EarnedInv'
    <2>0. faults <= faults' /\ rebalances <= rebalances'
      BY <1>0, <1>8
    <2>1. /\ pc'[w] = "down" /\ queue'[w] = <<>> /\ UNCHANGED deadLetters
          /\ \A v \in Workers \ {w} : owner = v => owner' = v
      BY <1>0, <1>8 DEF Exit
    <2>2. \A v \in Workers \ {w} : UNCHANGED <<pc[v], record[v], attempt[v], queue[v]>>
      BY <1>0, <1>8 DEF Exit
    <2>3. Earned(w)'
      BY <2>1, IdleEarned
    <2>. QED BY <1>0, <2>0, <2>1, <2>2, <2>3, OthersEarned
  <1>9. ASSUME NEW w \in Workers, AttemptStep(w) PROVE EarnedInv'
    <2>1. /\ UNCHANGED <<owner, record, queue>>
          /\ \A v \in Workers \ {w} : pc'[v] = pc[v]
      BY <1>0, <1>9, AttemptShape
    <2>2. (\A v \in Workers \ {w} : attempt'[v] = attempt[v]) /\ rebalances' = rebalances
      BY <1>0, <1>9 DEF AttemptStep, Score, ScoreFails, InferenceTimesOut, Publish,
         CommitRefused, CallFails, PublishDeadLetter, NextAttempt, counters
    <2>3. faults' \in {faults, faults + 1}
      BY <1>9 DEF AttemptStep, Score, ScoreFails, InferenceTimesOut, Publish,
         CommitRefused, CallFails, PublishDeadLetter, counters
    <2>4. ASSUME NEW i \in deadLetters' \ deadLetters, Requests[i] = "good"
          PROVE  faults' >= RetryMaxAttempts \/ rebalances' > 0
      <3>1. PublishDeadLetter(w)
        BY <1>9, <2>4 DEF AttemptStep, Score, ScoreFails, InferenceTimesOut, Publish,
           CommitRefused, CallFails, kafka
      <3>2. i = record[w] /\ pc[w] = "dead_letter" /\ UNCHANGED <<faults, rebalances>>
        BY <2>4, <3>1 DEF PublishDeadLetter, counters
      <3>3. Earned(w) /\ Busy(w)
        BY <3>2 DEF EarnedInv, Busy
      <3>4. rebalances = 0 => faults >= RetryMaxAttempts
        BY <2>4, <3>2, <3>3 DEF Earned
      <3>. QED BY <1>0, <3>2, <3>4
    <2>5. Earned(w)'
      BY <1>9, AttemptEarned
    <2>6. faults <= faults' /\ rebalances <= rebalances'
      BY <1>0, <2>2, <2>3
    <2>. QED BY <1>0, <2>1, <2>2, <2>4, <2>5, <2>6, OthersEarned
  <1>10. CASE UNCHANGED vars
    BY <1>1, <1>10 DEF vars
  <1>11. ASSUME NEW w \in Workers, Crash(w) \/ CommitDeadLetterRefused(w) \/ DeadLetterInvalid(w)
                                   \/ StopDrained(w) \/ StopTimesOut(w)
         PROVE  EarnedInv'
    BY <1>8, <1>11 DEF Crash, CommitDeadLetterRefused, DeadLetterInvalid, StopDrained,
       StopTimesOut, counters
  <1>. QED
    BY <1>2, <1>3, <1>4, <1>5, <1>6, <1>7, <1>9, <1>10, <1>11, TakePartitionEarned
       DEF Next, PollerStep, DrainerStep, ProcessStep, Fault, AttemptStep

(* A request that can be scored is dead-lettered only when as many calls   *)
(* failed as there are attempts (inference_worker/main.py:212), or the     *)
(* partition was taken from a worker that lives, whose commits are refused.*)
THEOREM GivenUpIsEarned == Spec => []GivenUpAfterAttempts
  <1>1. Init => TypeInv /\ CountersOK /\ EarnedInv
    <2>1. Init => EarnedInv
      BY Zenon DEF Init, EarnedInv, Earned, Busy, GivenUpAfterAttempts
    <2>. QED BY <2>1, InitType
  <1>2. TypeInv /\ CountersOK /\ EarnedInv /\ [Next]_vars => TypeInv' /\ CountersOK' /\ EarnedInv'
    BY NextType, NextCounters, NextEarned
  <1>3. EarnedInv => GivenUpAfterAttempts
    BY DEF EarnedInv
  <1>. QED BY <1>1, <1>2, <1>3, PTL DEF Spec
=============================================================================
