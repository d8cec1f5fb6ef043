-------------------------- MODULE InferenceWorker --------------------------
(***************************************************************************)
(* The inference workers: processes of one consumer group that score the   *)
(* requests of a partition and publish the results.  In each process two   *)
(* coroutines share a bounded queue: the poller fetches records while      *)
(* there is room and pauses the partition when there is none, the drainer  *)
(* scores them one at a time with a bounded number of attempts, commits    *)
(* each offset, and dead-letters what it gives up on.                      *)
(*                                                                         *)
(*   services/inference_worker/main.py                                     *)
(*                                                                         *)
(* One partition of scoring-requests is modelled; the six are independent  *)
(* except that they share the queue.  Kafka moves the partition to another *)
(* worker at any time; the code has no rebalance listener, so what a       *)
(* worker has queued stays queued.                                         *)
(***************************************************************************)
EXTENDS Integers, Sequences, FiniteSets

CONSTANTS
    Workers,           \* inference worker processes
    Nobody,            \* no worker owns the partition
    Requests,          \* the records of the partition, a sequence of kinds
    MaxInFlight,       \* settings.max_in_flight_inference, the queue's size
    MaxPollRecords,    \* settings.kafka_max_poll_records
    RetryMaxAttempts,  \* settings.retry_max_attempts
    MaxCrashes,        \* bound: workers killed
    MaxStops,          \* bound: workers told to stop (SIGTERM)
    MaxFaults,         \* bound: database, model or Kafka calls that raise
    MaxRebalances      \* bound: the partition moves between live workers

(* What happens to a record when nothing fails: it is scored, its bytes do *)
(* not validate, or scoring it raises a PermanentEventError (its feature   *)
(* schema is not the worker's, its transaction is not in the graph or is   *)
(* behind the request's watermark, the model rejects it), or the model is  *)
(* slower than inference_timeout_seconds every time.                       *)
Kinds == {"good", "malformed", "permanent", "slow"}

ASSUME NobodyAssumption  == Nobody \notin Workers
ASSUME RequestAssumption == Requests \in Seq(Kinds)
ASSUME SettingAssumption == /\ MaxInFlight \in Nat \ {0}
                            /\ MaxPollRecords \in Nat \ {0}
                            /\ RetryMaxAttempts \in Nat \ {0}
ASSUME BoundsAssumption  == /\ MaxCrashes \in Nat
                            /\ MaxStops \in Nat
                            /\ MaxFaults \in Nat
                            /\ MaxRebalances \in Nat

Offsets == 1 .. Len(Requests)

VARIABLES
    committed,    \* offset the group has committed
    owner,        \* worker the partition is assigned to, or Nobody
    scored,       \* records whose result Kafka has accepted
    deadLetters,  \* records whose dead letter Kafka has accepted
    pc,           \* where each worker's drainer is in process_record
    record,       \* record it is processing, 0 if none
    attempt,      \* attempt of the loop in process_record, 0 outside it
    queue,        \* the asyncio queue: a sequence of records
    position,     \* last record getmany() returned to the worker
    paused,       \* the poller's own flag
    quiet,        \* the consumer's state: the partition is paused
    stopping,     \* the stop event is set and the poller cancelled
    crashes, stops, faults, rebalances    \* environment counters

kafka    == <<committed, owner, scored, deadLetters>>
drainer  == <<pc, record, attempt>>
poller   == <<position, paused, quiet>>
counters == <<crashes, stops, faults, rebalances>>
vars     == <<kafka, drainer, queue, poller, stopping, counters>>

(* At "timed_out" the attempts are used up and last_error is a TimeoutError. *)
PCs == {"down", "idle", "score", "publish", "commit",
        "dead_letter", "timed_out", "commit_dead"}

Full(w) == Len(queue[w]) >= MaxInFlight

Least(a, b) == IF a <= b THEN a ELSE b
Most(a, b)  == IF a >= b THEN a ELSE b

-----------------------------------------------------------------------------
Init ==
    /\ committed = 0
    /\ owner = Nobody
    /\ scored = {}
    /\ deadLetters = {}
    /\ pc = [w \in Workers |-> "down"]
    /\ record = [w \in Workers |-> 0]
    /\ attempt = [w \in Workers |-> 0]
    /\ queue = [w \in Workers |-> <<>>]
    /\ position = [w \in Workers |-> 0]
    /\ paused = [w \in Workers |-> FALSE]
    /\ quiet = [w \in Workers |-> FALSE]
    /\ stopping = [w \in Workers |-> FALSE]
    /\ crashes = 0 /\ stops = 0 /\ faults = 0 /\ rebalances = 0

Start(w) ==
    /\ pc[w] = "down"
    /\ pc' = [pc EXCEPT ![w] = "idle"]
    /\ UNCHANGED <<kafka, record, attempt, queue, poller, stopping, counters>>

(* Mutation: the worker goes on where it was, not at the committed offset. *)
TakePartitionKeeping(w) ==
    /\ pc[w] # "down"
    /\ owner' = w
    /\ quiet' = [quiet EXCEPT ![w] = FALSE]
    /\ UNCHANGED <<committed, scored, deadLetters, drainer, queue, position,
                   paused, stopping, crashes, stops, faults>>

(* The coordinator assigns the partition: the worker resumes at the        *)
(* committed offset with the partition not paused, but its own paused flag *)
(* and its queue are as they were.                                         *)
TakePartition(w) ==
    /\ pc[w] # "down"
    /\ owner' = w
    /\ position' = [position EXCEPT ![w] = committed]
    /\ quiet' = [quiet EXCEPT ![w] = FALSE]
    /\ UNCHANGED <<committed, scored, deadLetters, drainer, queue, paused,
                   stopping, crashes, stops, faults>>

Assign(w) ==
    /\ owner = Nobody
    /\ TakePartition(w)
    /\ UNCHANGED rebalances

Rebalance(w) ==
    /\ owner \notin {Nobody, w}
    /\ rebalances < MaxRebalances
    /\ rebalances' = rebalances + 1
    /\ TakePartition(w)

-----------------------------------------------------------------------------
(* The poller                                                              *)

Polling(w) == pc[w] # "down" /\ ~stopping[w]

PauseWhenFull(w) ==
    /\ Polling(w)
    /\ Full(w)
    /\ owner = w
    /\ ~paused[w]
    /\ paused' = [paused EXCEPT ![w] = TRUE]
    /\ quiet' = [quiet EXCEPT ![w] = TRUE]
    /\ UNCHANGED <<kafka, drainer, queue, position, stopping, counters>>

(* Half of the queue must be free before the partition is resumed.         *)
Resume(w) ==
    /\ Polling(w)
    /\ ~Full(w)
    /\ paused[w]
    /\ Len(queue[w]) <= Most(MaxInFlight \div 2, 1)
    /\ paused' = [paused EXCEPT ![w] = FALSE]
    /\ quiet' = [quiet EXCEPT ![w] = FALSE]
    /\ UNCHANGED <<kafka, drainer, queue, position, stopping, counters>>

(* getmany(max_records) and the puts that follow.  A paused partition      *)
(* returns nothing.                                                        *)
Fetch(w) ==
    /\ Polling(w)
    /\ ~Full(w)
    /\ owner = w
    /\ ~quiet[w]
    /\ position[w] < Len(Requests)
    /\ \E n \in 1 .. Least(MaxPollRecords, MaxInFlight - Len(queue[w])) :
          /\ position[w] + n <= Len(Requests)
          /\ queue' = [queue EXCEPT ![w] = @ \o [i \in 1 .. n |-> position[w] + i]]
          /\ position' = [position EXCEPT ![w] = @ + n]
    /\ UNCHANGED <<kafka, drainer, paused, quiet, stopping, counters>>

-----------------------------------------------------------------------------
(* The drainer                                                             *)

(* queue.get(), and the contract check of process_record.                  *)
Take(w) ==
    /\ pc[w] = "idle"
    /\ queue[w] # <<>>
    /\ queue' = [queue EXCEPT ![w] = Tail(@)]
    /\ record' = [record EXCEPT ![w] = Head(queue[w])]
    /\ attempt' = [attempt EXCEPT ![w] = 1]
    /\ pc' = [pc EXCEPT ![w] = IF Requests[Head(queue[w])] = "malformed"
                               THEN "dead_letter" ELSE "score"]
    /\ UNCHANGED <<kafka, poller, stopping, counters>>

(* The schema check, the graph read and model.predict succeed.             *)
Score(w) ==
    /\ pc[w] = "score"
    /\ Requests[record[w]] = "good"
    /\ pc' = [pc EXCEPT ![w] = "publish"]
    /\ UNCHANGED <<kafka, record, attempt, queue, poller, stopping, counters>>

(* A PermanentEventError leaves the loop at once.                          *)
ScoreFails(w) ==
    /\ pc[w] = "score"
    /\ Requests[record[w]] = "permanent"
    /\ pc' = [pc EXCEPT ![w] = "dead_letter"]
    /\ UNCHANGED <<kafka, record, attempt, queue, poller, stopping, counters>>

Publish(w) ==
    /\ pc[w] = "publish"
    /\ scored' = scored \cup {record[w]}
    /\ pc' = [pc EXCEPT ![w] = "commit"]
    /\ UNCHANGED <<committed, owner, deadLetters, record, attempt, queue,
                   poller, stopping, counters>>

(* Mutation: consumer.commit() without offsets commits the position, which *)
(* counts the queued records as done.                                      *)
FinishPosition(w) ==
    /\ owner = w
    /\ committed' = position[w]
    /\ record' = [record EXCEPT ![w] = 0]
    /\ attempt' = [attempt EXCEPT ![w] = 0]
    /\ pc' = [pc EXCEPT ![w] = "idle"]
    /\ UNCHANGED <<owner, scored, deadLetters, queue, poller, stopping, counters>>

(* commit_record and queue.task_done().                                    *)
FinishRecord(w) ==
    /\ owner = w
    /\ committed' = record[w]
    /\ record' = [record EXCEPT ![w] = 0]
    /\ attempt' = [attempt EXCEPT ![w] = 0]
    /\ pc' = [pc EXCEPT ![w] = "idle"]
    /\ UNCHANGED <<owner, scored, deadLetters, queue, poller, stopping, counters>>

CommitOffset(w) == pc[w] = "commit" /\ FinishRecord(w)

(* Mutation: one attempt fewer than retry_max_attempts.                    *)
OneAttemptFewer(w, after) ==
    IF attempt[w] + 1 >= RetryMaxAttempts
    THEN /\ pc' = [pc EXCEPT ![w] = after]
         /\ UNCHANGED attempt
    ELSE /\ pc' = [pc EXCEPT ![w] = "score"]
         /\ attempt' = [attempt EXCEPT ![w] = @ + 1]

(* Any other exception of score_and_publish or of commit_record: the next  *)
(* attempt scores again, what comes after the last depends on its error.   *)
NextAttempt(w, after) ==
    IF attempt[w] = RetryMaxAttempts
    THEN /\ pc' = [pc EXCEPT ![w] = after]
         /\ UNCHANGED attempt
    ELSE /\ pc' = [pc EXCEPT ![w] = "score"]
         /\ attempt' = [attempt EXCEPT ![w] = @ + 1]

(* asyncio.wait_for gives the model up.                                    *)
InferenceTimesOut(w) ==
    /\ pc[w] = "score"
    /\ Requests[record[w]] = "slow"
    /\ NextAttempt(w, "timed_out")
    /\ UNCHANGED <<kafka, record, queue, poller, stopping, counters>>

(* The consumer refuses to commit for a partition it has lost.             *)
CommitRefused(w) ==
    /\ pc[w] = "commit"
    /\ owner # w
    /\ NextAttempt(w, "dead_letter")
    /\ UNCHANGED <<kafka, record, queue, poller, stopping, counters>>

(* The database, the inference timeout or Kafka fails.  A publication or a *)
(* commit may have taken effect before its acknowledgement was lost, and   *)
(* the lag gauge read after the commit can raise as well.                  *)
CallFails(w) ==
    /\ pc[w] \in {"score", "publish", "commit"}
    /\ faults < MaxFaults
    /\ faults' = faults + 1
    /\ scored' \in IF pc[w] = "publish" THEN {scored, scored \cup {record[w]}}
                                        ELSE {scored}
    /\ committed' \in IF pc[w] = "commit" /\ owner = w THEN {committed, record[w]}
                                                       ELSE {committed}
    /\ \/ NextAttempt(w, "dead_letter")
       \/ pc[w] = "score" /\ NextAttempt(w, "timed_out")
    /\ UNCHANGED <<owner, deadLetters, record, queue, poller, stopping,
                   crashes, stops, rebalances>>

PublishDeadLetter(w) ==
    /\ pc[w] = "dead_letter"
    /\ deadLetters' = deadLetters \cup {record[w]}
    /\ pc' = [pc EXCEPT ![w] = "commit_dead"]
    /\ UNCHANGED <<committed, owner, scored, record, attempt, queue, poller,
                   stopping, counters>>

CommitDeadLetter(w) == pc[w] = "commit_dead" /\ FinishRecord(w)

-----------------------------------------------------------------------------
(* Leaving the process                                                     *)

(* The queue dies with the process; the group reassigns the partition.     *)
Exit(w) ==
    /\ pc' = [pc EXCEPT ![w] = "down"]
    /\ record' = [record EXCEPT ![w] = 0]
    /\ attempt' = [attempt EXCEPT ![w] = 0]
    /\ queue' = [queue EXCEPT ![w] = <<>>]
    /\ paused' = [paused EXCEPT ![w] = FALSE]
    /\ quiet' = [quiet EXCEPT ![w] = FALSE]
    /\ stopping' = [stopping EXCEPT ![w] = FALSE]
    /\ owner' = IF owner = w THEN Nobody ELSE owner
    /\ UNCHANGED <<committed, scored, deadLetters, position>>

(* The commit after a dead letter is outside the loop: its exception ends  *)
(* the drainer, and run() ends with it.                                    *)
CommitDeadLetterRefused(w) ==
    /\ pc[w] = "commit_dead"
    /\ owner # w
    /\ Exit(w)
    /\ UNCHANGED counters

(* A TimeoutError of wait_for has no message, and a dead letter must have  *)
(* one: publish_dead_letter raises a ValidationError, which ends run().    *)
DeadLetterInvalid(w) ==
    /\ pc[w] = "timed_out"
    /\ Exit(w)
    /\ UNCHANGED counters

(* A kill, an exception of the poller, or one outside the attempt loop.    *)
Crash(w) ==
    /\ pc[w] # "down"
    /\ crashes < MaxCrashes
    /\ crashes' = crashes + 1
    /\ Exit(w)
    /\ UNCHANGED <<stops, faults, rebalances>>

(* The stop event: the poller is cancelled, queue.join() is awaited.       *)
Stop(w) ==
    /\ Polling(w)
    /\ stops < MaxStops
    /\ stops' = stops + 1
    /\ stopping' = [stopping EXCEPT ![w] = TRUE]
    /\ UNCHANGED <<kafka, drainer, queue, poller, crashes, faults, rebalances>>

(* Every queued record is done, and the None sentinel ends the drainer.    *)
StopDrained(w) ==
    /\ stopping[w]
    /\ pc[w] = "idle"
    /\ queue[w] = <<>>
    /\ Exit(w)
    /\ UNCHANGED counters

(* shutdown_timeout_seconds passes first: the drainer is cancelled.        *)
StopTimesOut(w) ==
    /\ stopping[w]
    /\ ~(pc[w] = "idle" /\ queue[w] = <<>>)
    /\ Exit(w)
    /\ UNCHANGED counters

-----------------------------------------------------------------------------
PollerStep(w) == PauseWhenFull(w) \/ Resume(w) \/ Fetch(w)

DrainerStep(w) ==
    \/ Take(w)
    \/ Score(w)
    \/ ScoreFails(w)
    \/ InferenceTimesOut(w)
    \/ Publish(w)
    \/ CommitOffset(w)
    \/ CommitRefused(w)
    \/ PublishDeadLetter(w)
    \/ CommitDeadLetter(w)
    \/ CommitDeadLetterRefused(w)
    \/ DeadLetterInvalid(w)

ProcessStep(w) == Start(w) \/ Assign(w) \/ StopDrained(w)

Fault(w) ==
    \/ Rebalance(w)
    \/ CallFails(w)
    \/ Crash(w)
    \/ Stop(w)
    \/ StopTimesOut(w)

Next ==
    \E w \in Workers :
        PollerStep(w) \/ DrainerStep(w) \/ ProcessStep(w) \/ Fault(w)

(* The event loop of a process runs both coroutines, and its container is  *)
(* restarted.                                                              *)
Fairness ==
    \A w \in Workers : /\ WF_vars(PollerStep(w))
                       /\ WF_vars(DrainerStep(w))
                       /\ WF_vars(ProcessStep(w))

Spec == Init /\ [][Next]_vars /\ Fairness

-----------------------------------------------------------------------------
(* Properties                                                              *)

TypeOK ==
    /\ committed \in 0 .. Len(Requests)
    /\ owner \in Workers \cup {Nobody}
    /\ scored \subseteq Offsets
    /\ deadLetters \subseteq Offsets
    /\ pc \in [Workers -> PCs]
    /\ record \in [Workers -> 0 .. Len(Requests)]
    /\ attempt \in [Workers -> 0 .. RetryMaxAttempts]
    /\ queue \in [Workers -> Seq(Offsets)]
    /\ \A w \in Workers : Len(queue[w]) <= MaxInFlight
    /\ position \in [Workers -> 0 .. Len(Requests)]
    /\ paused \in [Workers -> BOOLEAN]
    /\ quiet \in [Workers -> BOOLEAN]
    /\ stopping \in [Workers -> BOOLEAN]
    /\ crashes \in Nat /\ stops \in Nat /\ faults \in Nat /\ rebalances \in Nat

Settled(i) == i \in scored \/ i \in deadLetters

(* "Kafka keeps uncommitted requests" when a worker dies                   *)
(* (docs/architecture.md:214): the committed offset never passes a request *)
(* that has neither a result nor a dead letter, although up to MaxInFlight *)
(* later ones are queued and survive a rebalance.                          *)
CommittedSettled == \A i \in Offsets : i <= committed => Settled(i)

(* A request that can be scored is given up only after as many failed      *)
(* calls as there are attempts; where the partition is never taken away,   *)
(* fewer faults than that dead-letter nothing but bad requests.            *)
GivenUpAfterAttempts ==
    \A i \in deadLetters : Requests[i] = "good" =>
        faults >= RetryMaxAttempts \/ rebalances > 0

(* A paused partition is one of a full queue or one that Resume is yet to  *)
(* free: it never stays paused under a poller that takes it for running.   *)
PauseKnown == \A w \in Workers : quiet[w] => paused[w]

(* Every request is eventually scored or dead-lettered ("workers catch up",*)
(* docs/architecture.md:207), unless one that always times out is before   *)
(* it: that one ends every worker that takes it.                           *)
EveryRequestSettled ==
    \A i \in Offsets :
        (\A j \in 1 .. i : Requests[j] # "slow") => <>Settled(i)

(* process_record has a failure_stage "model_inference_timeout"            *)
(* (inference_worker/main.py:263) for the dead letter of a request whose   *)
(* inference timed out in the last attempt: every request, such ones       *)
(* included, is eventually scored or dead-lettered.                        *)
TimeoutsDeadLettered == \A i \in Offsets : <>Settled(i)
=============================================================================
