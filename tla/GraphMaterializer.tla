------------------------- MODULE GraphMaterializer -------------------------
(***************************************************************************)
(* The graph materializer: replicas of one consumer group read the graph   *)
(* batch topic (one partition), apply each batch to PostgreSQL in a single *)
(* transaction together with the scoring requests it causes, and only then *)
(* commit the Kafka offset.                                                *)
(*                                                                         *)
(*   services/graph_materializer/main.py   the consume loop                *)
(*   shared/database/queries.py            the transaction of one batch    *)
(*                                                                         *)
(* The partition is an immutable sequence of batches; offset i of the code *)
(* is index i + 1 here, and "committed = n" says that the group resumes at *)
(* index n + 1.  A database transaction is one step: PostgreSQL makes it   *)
(* atomic, and the inbox insert serialises two transactions of one event.  *)
(***************************************************************************)
EXTENDS Integers, Sequences, FiniteSets

CONSTANTS
    Replicas,          \* processes of the consumer group
    Nobody,            \* no replica owns the partition
    Txs,               \* transaction ids, the nodes of the graph
    Streams,           \* stream names, one checkpoint each
    Batches,           \* messages that may be in the topic
    RetryMaxAttempts,  \* settings.retry_max_attempts
    MaxTopic,          \* bound: messages in the topic
    MaxCrashes,        \* bound: processes killed
    MaxDbFaults,       \* bound: transactions that raise and roll back
    MaxAckFaults,      \* bound: calls that took effect or not, but raise after
                       \* the transaction (lost reply, refused offset commit)
    MaxRebalances      \* bound: the partition moves between live replicas

ASSUME NobodyAssumption  == Nobody \notin Replicas
ASSUME RetryAssumption   == RetryMaxAttempts \in Nat \ {0}
ASSUME BoundsAssumption  == /\ MaxTopic \in Nat
                            /\ MaxCrashes \in Nat
                            /\ MaxDbFaults \in Nat
                            /\ MaxAckFaults \in Nat
                            /\ MaxRebalances \in Nat

(***************************************************************************)
(* What a message can be: a valid batch, bytes that do not validate, or a  *)
(* valid batch with two rows for one tx_id, for which PostgreSQL refuses   *)
(* the upsert with an error that is not an IntegrityError.                 *)
(***************************************************************************)
Forms == {"valid", "malformed", "repeated_row"}

Batch == [event  : STRING,
          form   : Forms,
          stream : Streams,
          step   : Nat \ {0},
          nodes  : SUBSET Txs,
          edges  : SUBSET (Txs \X Txs)]

(* The event id is a function of the content: a producer that resends a    *)
(* batch after a restart derives the same id from (stream, time step).     *)
ASSUME BatchesAssumption ==
    /\ Batches \subseteq Batch
    /\ \A b, c \in Batches : b.event = c.event => b = c

VARIABLES
    topic,        \* the graph batch partition, an append-only sequence
    committed,    \* offset the group has committed
    owner,        \* the replica the partition is assigned to, or Nobody
    deadLetters,  \* indices for which a dead letter was published
    inbox,        \* consumer_inbox: events claimed by this consumer
    watermark,    \* transactions.graph_watermark, 0 where there is no row
    edges,        \* transaction_edges
    checkpoint,   \* stream_checkpoints.last_completed_time_step, 0 for no row
    outbox,       \* outbox_events: the scoring requests ever inserted
    pc,           \* where each replica is in its loop
    position,     \* index of the last message getone() returned to it
    record,       \* index of the message it is handling, 0 if none
    failures,     \* consecutive_failures
    crashes, dbFaults, ackFaults, rebalances,  \* environment counters
    refused       \* history: indices whose transaction PostgreSQL refused

kafka    == <<topic, committed, owner, deadLetters>>
database == <<inbox, watermark, edges, checkpoint, outbox>>
replica  == <<pc, position, record, failures>>
counters == <<crashes, dbFaults, ackFaults, rebalances, refused>>
vars     == <<kafka, database, replica, counters>>

PCs == {"down", "poll", "apply", "commit", "dead_letter", "commit_dead"}

(* A row of the outbox: the request to score tx at the batch's watermark.  *)
Request == [event : STRING, tx : Txs, watermark : Nat \ {0}]

RequestsOf(b) ==
    {[event |-> b.event, tx |-> t, watermark |-> b.step] : t \in b.nodes}

-----------------------------------------------------------------------------
(* The transaction of one batch                                            *)

(* Mutation: the upsert without its WHERE, the last batch wins.            *)
UpsertNodesAlways(b) ==
    [t \in Txs |-> IF t \in b.nodes THEN b.step ELSE watermark[t]]

(* ON CONFLICT DO UPDATE ... WHERE excluded.graph_watermark >= current.    *)
UpsertNodes(b) ==
    [t \in Txs |-> IF t \in b.nodes /\ b.step >= watermark[t]
                   THEN b.step ELSE watermark[t]]

UpsertCheckpoint(b) ==
    [s \in Streams |-> IF s = b.stream /\ b.step >= checkpoint[s]
                       THEN b.step ELSE checkpoint[s]]

(* Foreign keys of an edge, and the rule that refuses a self edge.         *)
ConstraintViolated(b) ==
    \E e \in b.edges :
        \/ e[1] = e[2]
        \/ UpsertNodes(b)[e[1]] = 0
        \/ UpsertNodes(b)[e[2]] = 0

WriteBatch(b) ==
    /\ inbox'      = inbox \cup {b.event}
    /\ watermark'  = UpsertNodes(b)
    /\ edges'      = edges \cup b.edges
    /\ checkpoint' = UpsertCheckpoint(b)
    /\ outbox'     = outbox \cup RequestsOf(b)

(* claim_inbox_event inserts nothing for an event seen before, and then    *)
(* the rest of the transaction is skipped.                                 *)
Transaction(b) ==
    \/ b.event \in inbox /\ UNCHANGED database
    \/ /\ b.event \notin inbox
       /\ b.form = "valid"
       /\ ~ConstraintViolated(b)
       /\ WriteBatch(b)

Current(r) == topic[record[r]]

-----------------------------------------------------------------------------
(* The loop of a replica                                                   *)

Init ==
    /\ topic = <<>>
    /\ committed = 0
    /\ owner = Nobody
    /\ deadLetters = {}
    /\ inbox = {}
    /\ watermark = [t \in Txs |-> 0]
    /\ edges = {}
    /\ checkpoint = [s \in Streams |-> 0]
    /\ outbox = {}
    /\ pc = [r \in Replicas |-> "down"]
    /\ position = [r \in Replicas |-> 0]
    /\ record = [r \in Replicas |-> 0]
    /\ failures = [r \in Replicas |-> 0]
    /\ crashes = 0 /\ dbFaults = 0 /\ ackFaults = 0 /\ rebalances = 0
    /\ refused = {}

(* A producer appends a batch; a resend appends the same one again.        *)
Produce(b) ==
    /\ Len(topic) < MaxTopic
    /\ topic' = Append(topic, b)
    /\ UNCHANGED <<committed, owner, deadLetters, database, replica, counters>>

(* The container starts (or restarts) the process.                         *)
Start(r) ==
    /\ pc[r] = "down"
    /\ pc' = [pc EXCEPT ![r] = "poll"]
    /\ UNCHANGED <<kafka, database, position, record, failures, counters>>

(* Mutation: auto_offset_reset="latest" instead of the committed offset.   *)
TakePartitionAtEnd(r) ==
    /\ pc[r] # "down"
    /\ owner' = r
    /\ position' = [position EXCEPT ![r] = Len(topic)]
    /\ UNCHANGED <<topic, committed, deadLetters, database, pc, record,
                   failures, crashes, dbFaults, ackFaults, refused>>

(* The group coordinator gives r the partition, which then resumes at the  *)
(* committed offset, whatever r had fetched before.                        *)
TakePartition(r) ==
    /\ pc[r] # "down"
    /\ owner' = r
    /\ position' = [position EXCEPT ![r] = committed]
    /\ UNCHANGED <<topic, committed, deadLetters, database, pc, record,
                   failures, crashes, dbFaults, ackFaults, refused>>

Assign(r) ==
    /\ owner = Nobody
    /\ TakePartition(r)
    /\ UNCHANGED rebalances

Rebalance(r) ==
    /\ owner \notin {Nobody, r}
    /\ rebalances < MaxRebalances
    /\ rebalances' = rebalances + 1
    /\ TakePartition(r)

(* Mutation: enable_auto_commit=True, the offset is committed on delivery. *)
PollAutoCommit(r) ==
    /\ pc[r] = "poll"
    /\ owner = r
    /\ position[r] < Len(topic)
    /\ position' = [position EXCEPT ![r] = @ + 1]
    /\ record' = [record EXCEPT ![r] = position[r] + 1]
    /\ committed' = position[r] + 1
    /\ pc' = [pc EXCEPT ![r] =
                 IF topic[position[r] + 1].form = "malformed"
                 THEN "dead_letter" ELSE "apply"]
    /\ UNCHANGED <<topic, owner, deadLetters, database, failures, counters>>

(* getone() returns the next message and the contract is validated.        *)
Poll(r) ==
    /\ pc[r] = "poll"
    /\ owner = r
    /\ position[r] < Len(topic)
    /\ position' = [position EXCEPT ![r] = @ + 1]
    /\ record' = [record EXCEPT ![r] = position[r] + 1]
    /\ pc' = [pc EXCEPT ![r] =
                 IF topic[position[r] + 1].form = "malformed"
                 THEN "dead_letter" ELSE "apply"]
    /\ UNCHANGED <<kafka, database, failures, counters>>

(* What leaving the process behind does: exit, crash.                      *)
Exit(r) ==
    /\ pc' = [pc EXCEPT ![r] = "down"]
    /\ record' = [record EXCEPT ![r] = 0]
    /\ failures' = [failures EXCEPT ![r] = 0]
    /\ owner' = IF owner = r THEN Nobody ELSE owner

(* The generic "except Exception": count the failure, then either raise    *)
(* once the retry budget is spent or go round the loop.                    *)
HandleFailure(r) ==
    \/ /\ failures[r] + 1 >= RetryMaxAttempts
       /\ Exit(r)
    \/ /\ failures[r] + 1 < RetryMaxAttempts
       /\ failures' = [failures EXCEPT ![r] = @ + 1]
       /\ pc' = [pc EXCEPT ![r] = "poll"]
       /\ record' = [record EXCEPT ![r] = 0]
       /\ UNCHANGED owner

(* materialize_graph_batch commits.                                        *)
Materialize(r) ==
    /\ pc[r] = "apply"
    /\ Transaction(Current(r))
    /\ pc' = [pc EXCEPT ![r] = "commit"]
    /\ UNCHANGED <<kafka, position, record, failures, counters>>

(* Mutation: the inbox claim is committed on its own, before the rest.     *)
RejectBatchClaimed(r) ==
    /\ pc[r] = "apply"
    /\ Current(r).event \notin inbox
    /\ Current(r).form = "valid"
    /\ ConstraintViolated(Current(r))
    /\ inbox' = inbox \cup {Current(r).event}
    /\ pc' = [pc EXCEPT ![r] = "dead_letter"]
    /\ UNCHANGED <<kafka, watermark, edges, checkpoint, outbox, position,
                   record, failures, counters>>

(* IntegrityError or ValueError: rolled back, to be dead-lettered.         *)
RejectBatch(r) ==
    /\ pc[r] = "apply"
    /\ Current(r).event \notin inbox
    /\ Current(r).form = "valid"
    /\ ConstraintViolated(Current(r))
    /\ pc' = [pc EXCEPT ![r] = "dead_letter"]
    /\ UNCHANGED <<kafka, database, position, record, failures, counters>>

(* Any other database error rolls back and reaches the generic handler:    *)
(* always for a repeated row, and while PostgreSQL is unavailable.         *)
RepeatedRow(r) ==
    /\ pc[r] = "apply"
    /\ Current(r).event \notin inbox
    /\ Current(r).form = "repeated_row"
    /\ refused' = refused \cup {record[r]}
    /\ HandleFailure(r)
    /\ UNCHANGED <<topic, committed, deadLetters, database, position,
                   crashes, dbFaults, ackFaults, rebalances>>

DatabaseUnavailable(r) ==
    /\ pc[r] = "apply"
    /\ dbFaults < MaxDbFaults
    /\ dbFaults' = dbFaults + 1
    /\ refused' = refused \cup {record[r]}
    /\ HandleFailure(r)
    /\ UNCHANGED <<topic, committed, deadLetters, database, position,
                   crashes, ackFaults, rebalances>>

(* The transaction commits but the reply to COMMIT is lost.                *)
MaterializeUnacknowledged(r) ==
    /\ pc[r] = "apply"
    /\ ackFaults < MaxAckFaults
    /\ ackFaults' = ackFaults + 1
    /\ Transaction(Current(r))
    /\ HandleFailure(r)
    /\ UNCHANGED <<topic, committed, deadLetters, position,
                   crashes, dbFaults, rebalances, refused>>

(* commit_record: the coordinator accepts it from the current owner only.  *)
CommitOffset(r) ==
    /\ pc[r] = "commit"
    /\ owner = r
    /\ committed' = record[r]
    /\ failures' = [failures EXCEPT ![r] = 0]
    /\ record' = [record EXCEPT ![r] = 0]
    /\ pc' = [pc EXCEPT ![r] = "poll"]
    /\ UNCHANGED <<topic, owner, deadLetters, database, position, counters>>

CommitRefused(r) ==
    /\ pc[r] = "commit"
    /\ owner # r
    /\ HandleFailure(r)
    /\ UNCHANGED <<topic, committed, deadLetters, database, position, counters>>

(* The commit raises, its reply is lost, or the lag gauge that follows it  *)
(* raises because the assignment is changing.                              *)
CommitUnavailable(r) ==
    /\ pc[r] = "commit"
    /\ owner = r
    /\ ackFaults < MaxAckFaults
    /\ ackFaults' = ackFaults + 1
    /\ committed' \in {committed, record[r]}
    /\ HandleFailure(r)
    /\ UNCHANGED <<topic, deadLetters, database, position,
                   crashes, dbFaults, rebalances, refused>>

(* Mutation: a rejected message is logged and committed, nothing else.     *)
DeadLetterDropped(r) ==
    /\ pc[r] = "dead_letter"
    /\ pc' = [pc EXCEPT ![r] = "commit_dead"]
    /\ UNCHANGED <<kafka, database, position, record, failures, counters>>

(* publish_dead_letter, acknowledged by every in-sync Kafka replica.       *)
PublishDeadLetter(r) ==
    /\ pc[r] = "dead_letter"
    /\ deadLetters' = deadLetters \cup {record[r]}
    /\ pc' = [pc EXCEPT ![r] = "commit_dead"]
    /\ UNCHANGED <<topic, committed, owner, database, position, record,
                   failures, counters>>

CommitDeadLetter(r) ==
    /\ pc[r] = "commit_dead"
    /\ owner = r
    /\ committed' = record[r]
    /\ failures' = [failures EXCEPT ![r] = 0]
    /\ record' = [record EXCEPT ![r] = 0]
    /\ pc' = [pc EXCEPT ![r] = "poll"]
    /\ UNCHANGED <<topic, owner, deadLetters, database, position, counters>>

(* Nothing catches an error raised inside an except clause: the process    *)
(* ends.  Its crash covers the publication that fails the same way.        *)
CommitDeadLetterRefused(r) ==
    /\ pc[r] = "commit_dead"
    /\ owner # r
    /\ Exit(r)
    /\ UNCHANGED <<topic, committed, deadLetters, database, position, counters>>

Crash(r) ==
    /\ pc[r] # "down"
    /\ crashes < MaxCrashes
    /\ crashes' = crashes + 1
    /\ Exit(r)
    /\ UNCHANGED <<topic, committed, deadLetters, database, position,
                   dbFaults, ackFaults, rebalances, refused>>

ReplicaStep(r) ==
    \/ Start(r)
    \/ Assign(r)
    \/ Poll(r)
    \/ Materialize(r)
    \/ RejectBatch(r)
    \/ RepeatedRow(r)
    \/ CommitOffset(r)
    \/ CommitRefused(r)
    \/ PublishDeadLetter(r)
    \/ CommitDeadLetter(r)
    \/ CommitDeadLetterRefused(r)

Fault(r) ==
    \/ Rebalance(r)
    \/ DatabaseUnavailable(r)
    \/ MaterializeUnacknowledged(r)
    \/ CommitUnavailable(r)
    \/ Crash(r)

Next ==
    \/ \E b \in Batches : Produce(b)
    \/ \E r \in Replicas : ReplicaStep(r) \/ Fault(r)

(* A live process keeps polling and its container is restarted; faults and *)
(* new batches are never promised.                                         *)
Fairness == \A r \in Replicas : WF_vars(ReplicaStep(r))

Spec == Init /\ [][Next]_vars /\ Fairness

-----------------------------------------------------------------------------
(* Properties                                                              *)

Offsets == 1 .. Len(topic)

TypeOK ==
    /\ topic \in Seq(Batches)
    /\ committed \in 0 .. Len(topic)
    /\ owner \in Replicas \cup {Nobody}
    /\ deadLetters \subseteq Offsets
    /\ inbox \subseteq STRING
    /\ watermark \in [Txs -> Nat]
    /\ edges \subseteq Txs \X Txs
    /\ checkpoint \in [Streams -> Nat]
    /\ outbox \subseteq Request
    /\ pc \in [Replicas -> PCs]
    /\ position \in [Replicas -> 0 .. Len(topic)]
    /\ record \in [Replicas -> 0 .. Len(topic)]
    /\ failures \in [Replicas -> 0 .. (RetryMaxAttempts - 1)]
    /\ crashes \in Nat /\ dbFaults \in Nat
    /\ ackFaults \in Nat /\ rebalances \in Nat
    /\ refused \subseteq Offsets

(* A message is settled once its batch is in the database or its dead      *)
(* letter is in the DLQ topic: it needs no further delivery.               *)
Settled(i) == topic[i].event \in inbox \/ i \in deadLetters

(* "Consumers commit Kafka offsets only after their durable work succeeds" *)
(* (docs/architecture.md:183), and the group resumes at the offset it has  *)
(* committed: it never resumes past a message that nobody settled.         *)
CommittedSettled == \A i \in Offsets : i <= committed => Settled(i)

(* Somebody can tell what became of the message: it is settled, or         *)
(* PostgreSQL refused its transaction and the loop logged that.            *)
Accounted(i) == Settled(i) \/ i \in refused

(* What the code keeps of CommittedSettled, whatever the order of crashes, *)
(* rebalances, lost replies and refused offset commits: the only messages  *)
(* passed over are those whose own transaction was refused.  commit_record *)
(* names the record just handled, so all before it must be accounted for.  *)
CommittedAccounted == \A i \in Offsets : i <= committed => Accounted(i)

(* "Graph timesteps must be materialized in order"                         *)
(* (docs/architecture.md:141): when a batch is applied, whatever precedes  *)
(* it in the topic is accounted for, although a replica that has lost the  *)
(* partition goes on with the record it holds.                             *)
MaterializedInOrder ==
    \A e \in inbox :
        \E i \in Offsets : /\ topic[i].event = e
                           /\ \A j \in Offsets : j < i => Accounted(j)

(* "Scoring requests must not precede their committed graph watermark"     *)
(* (ADR 0004): in every state each request's transaction has a row at the  *)
(* request's watermark or a later one, also when an older batch is applied *)
(* after a newer one.  This is the check score_and_publish repeats.        *)
RequestsReadGraph == \A q \in outbox : watermark[q.tx] >= q.watermark

(* A claimed event was applied whole: the redelivery that finds it in the  *)
(* inbox may skip all of the work, so none of it may be missing.  It stays *)
(* whole when a batch of an earlier step comes later: such a batch must    *)
(* not take the checkpoint back below what is claimed (queries.py:98).     *)
ClaimComplete ==
    \A b \in Batches : b.event \in inbox =>
        /\ RequestsOf(b) \subseteq outbox
        /\ b.edges \subseteq edges
        /\ checkpoint[b.stream] >= b.step
        /\ \A e \in b.edges : watermark[e[1]] > 0 /\ watermark[e[2]] > 0

(* The checkpoint the API and the subgraph cache read is the newest step   *)
(* of its stream that is in the database, neither ahead nor behind it.     *)
AppliedSteps(s) ==
    {b.step : b \in {c \in Batches : c.event \in inbox /\ c.stream = s}}

CheckpointExact ==
    \A s \in Streams :
        /\ checkpoint[s] \in AppliedSteps(s) \cup {0}
        /\ \A n \in AppliedSteps(s) : n <= checkpoint[s]

(* A late, duplicated or replayed batch never takes a transaction or a     *)
(* checkpoint back to an earlier watermark.                                *)
WatermarksNeverRegress ==
    [][/\ \A t \in Txs : watermark'[t] >= watermark[t]
       /\ \A s \in Streams : checkpoint'[s] >= checkpoint[s]]_vars

(* Every message accepted by the topic is eventually applied or            *)
(* dead-lettered, although replicas crash and the partition moves, unless  *)
(* PostgreSQL refused its transaction.  Batches that PostgreSQL refuses    *)
(* whenever they come are passed over, never dead-lettered; as many of     *)
(* them in a row as a replica survives failures restart it for ever.       *)
PoisonSurvived ==
    Cardinality({i \in Offsets : topic[i].form = "repeated_row"}) < RetryMaxAttempts

EveryBatchAccounted ==
    \A i \in 1 .. MaxTopic :
        (i \in Offsets) ~> ((i \in Offsets /\ Accounted(i)) \/ ~PoisonSurvived)
=============================================================================
