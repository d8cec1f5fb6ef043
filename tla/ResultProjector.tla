-------------------------- MODULE ResultProjector --------------------------
(***************************************************************************)
(* The result projector's consumer: replicas of one group read a partition *)
(* of the scoring results, store each result in PostgreSQL together with   *)
(* the intent to publish it to Redis, and commit the Kafka offset after.   *)
(*                                                                         *)
(*   services/result_projector/main.py, consume_results                    *)
(*   shared/database/queries.py, project_scoring_result                    *)
(*                                                                         *)
(* Results are keyed by transaction, so all of one transaction's are in    *)
(* one partition; partitions do not interact, and one is modelled.  The    *)
(* publication of the intents is module RedisPublisher.                    *)
(***************************************************************************)
EXTENDS Integers, Sequences, FiniteSets

CONSTANTS
    Replicas,          \* processes of the consumer group
    Nobody,            \* no replica owns the partition
    Txs,               \* keys of risk_scores: transaction and model version
    Stored,            \* those of them whose transaction is in the graph
    Messages,          \* results that workers may have published
    RetryMaxAttempts,  \* settings.retry_max_attempts
    MaxTopic,          \* bound: messages in the partition
    MaxCrashes,        \* bound: processes killed
    MaxDbFaults,       \* bound: transactions that raise and roll back
    MaxAckFaults,      \* bound: lost COMMIT replies and refused commits
    MaxRebalances      \* bound: the partition moves between live replicas

(* A result published twice has one event id: a worker that scores a       *)
(* request again derives the same id, but a new scoring time.              *)
Message == [event : STRING, form : {"valid", "malformed"}, tx : Txs,
            watermark : Nat \ {0}, scoredAt : Nat]

ASSUME NobodyAssumption   == Nobody \notin Replicas
ASSUME MessagesAssumption == /\ Messages \subseteq Message
                             /\ Stored \subseteq Txs
                             /\ \A m, n \in Messages : m.event = n.event => m.tx = n.tx
ASSUME BoundsAssumption   == /\ RetryMaxAttempts \in Nat \ {0}
                             /\ MaxTopic \in Nat
                             /\ MaxCrashes \in Nat
                             /\ MaxDbFaults \in Nat
                             /\ MaxAckFaults \in Nat
                             /\ MaxRebalances \in Nat

VARIABLES
    topic,        \* the partition, an append-only sequence
    committed,    \* offset the group has committed
    owner,        \* the replica the partition is assigned to, or Nobody
    deadLetters,  \* indices for which a dead letter was published
    inbox,        \* consumer_inbox: events claimed by this consumer
    scores,       \* risk_scores
    intents,      \* outbox_events: the Redis publications ever intended
    pc, position, record, failures,            \* each replica, as in the loop
    crashes, dbFaults, ackFaults, rebalances,  \* environment counters
    claimed,      \* history: the messages whose claim succeeded
    refused       \* history: indices whose transaction PostgreSQL refused

kafka    == <<topic, committed, owner, deadLetters>>
database == <<inbox, scores, intents, claimed>>
replica  == <<pc, position, record, failures>>
counters == <<crashes, dbFaults, ackFaults, rebalances, refused>>
vars     == <<kafka, database, replica, counters>>

PCs == {"down", "poll", "project", "commit", "dead_letter", "commit_dead"}

NoScore == [event |-> "none", watermark |-> 0, scoredAt |-> 0]

Row(m) == [event |-> m.event, watermark |-> m.watermark, scoredAt |-> m.scoredAt]

(* Mutation: the upsert without its WHERE.                                 *)
AcceptsAny(m) == TRUE

(* The WHERE of the upsert; a transaction without a score accepts any.     *)
Accepts(m) ==
    /\ m.watermark >= scores[m.tx].watermark
    /\ m.scoredAt >= scores[m.tx].scoredAt

Current(r) == topic[record[r]]

-----------------------------------------------------------------------------
Init ==
    /\ topic = <<>>
    /\ committed = 0
    /\ owner = Nobody
    /\ deadLetters = {}
    /\ inbox = {}
    /\ scores = [t \in Txs |-> NoScore]
    /\ intents = {}
    /\ claimed = {}
    /\ pc = [r \in Replicas |-> "down"]
    /\ position = [r \in Replicas |-> 0]
    /\ record = [r \in Replicas |-> 0]
    /\ failures = [r \in Replicas |-> 0]
    /\ crashes = 0 /\ dbFaults = 0 /\ ackFaults = 0 /\ rebalances = 0
    /\ refused = {}

Produce(m) ==
    /\ Len(topic) < MaxTopic
    /\ topic' = Append(topic, m)
    /\ UNCHANGED <<committed, owner, deadLetters, database, replica, counters>>

(* Mutation: the result is stored whether or not its event was claimed.    *)
TransactionUnclaimed(m) ==
    /\ m.tx \in Stored
    /\ inbox' = inbox \cup {m.event}
    /\ claimed' = claimed \cup {m}
    /\ IF Accepts(m)
       THEN /\ scores' = [scores EXCEPT ![m.tx] = Row(m)]
            /\ intents' = intents \cup {m.event}
       ELSE UNCHANGED <<scores, intents>>

(* Mutation: a publication is intended for a new row only, not for an      *)
(* update.                                                                 *)
TransactionIntendsOnce(m) ==
    \/ m.event \in inbox /\ UNCHANGED database
    \/ /\ m.event \notin inbox
       /\ m.tx \in Stored
       /\ inbox' = inbox \cup {m.event}
       /\ claimed' = claimed \cup {m}
       /\ scores' = IF Accepts(m) THEN [scores EXCEPT ![m.tx] = Row(m)] ELSE scores
       /\ intents' = IF scores[m.tx] = NoScore THEN intents \cup {m.event} ELSE intents

(* project_scoring_result: claim the event, replace the score unless the   *)
(* stored one is newer, and only then intend its publication.  A result    *)
(* that loses stays claimed.                                               *)
Transaction(m) ==
    \/ m.event \in inbox /\ UNCHANGED database
    \/ /\ m.event \notin inbox
       /\ m.tx \in Stored
       /\ inbox' = inbox \cup {m.event}
       /\ claimed' = claimed \cup {m}
       /\ IF Accepts(m)
          THEN /\ scores' = [scores EXCEPT ![m.tx] = Row(m)]
               /\ intents' = intents \cup {m.event}
          ELSE UNCHANGED <<scores, intents>>

(* The container starts (or restarts) the process.                         *)
Start(r) ==
    /\ pc[r] = "down"
    /\ pc' = [pc EXCEPT ![r] = "poll"]
    /\ UNCHANGED <<kafka, database, position, record, failures, counters>>

TakePartition(r) ==
    /\ pc[r] # "down"
    /\ owner' = r
    /\ position' = [position EXCEPT ![r] = committed]
    /\ UNCHANGED <<topic, committed, deadLetters, database, pc, record,
                   failures, crashes, dbFaults, ackFaults, refused>>

Assign(r) ==
    /\ owner = Nobody
    /\ TakePartition(r)
    /\ UNCHANGED rebalances

Rebalance(r) ==
    /\ owner \notin {Nobody, r}
    /\ rebalances < MaxRebalances
    /\ rebalances' = rebalances + 1
    /\ TakePartition(r)

(* Mutation: enable_auto_commit=True, the offset is committed on delivery. *)
PollAutoCommit(r) ==
    /\ pc[r] = "poll"
    /\ owner = r
    /\ position[r] < Len(topic)
    /\ position' = [position EXCEPT ![r] = @ + 1]
    /\ record' = [record EXCEPT ![r] = position[r] + 1]
    /\ committed' = position[r] + 1
    /\ pc' = [pc EXCEPT ![r] =
                 IF topic[position[r] + 1].form = "malformed"
                 THEN "dead_letter" ELSE "project"]
    /\ UNCHANGED <<topic, owner, deadLetters, database, failures, counters>>

Poll(r) ==
    /\ pc[r] = "poll"
    /\ owner = r
    /\ position[r] < Len(topic)
    /\ position' = [position EXCEPT ![r] = @ + 1]
    /\ record' = [record EXCEPT ![r] = position[r] + 1]
    /\ pc' = [pc EXCEPT ![r] =
                 IF topic[position[r] + 1].form = "malformed"
                 THEN "dead_letter" ELSE "project"]
    /\ UNCHANGED <<kafka, database, failures, counters>>

Exit(r) ==
    /\ pc' = [pc EXCEPT ![r] = "down"]
    /\ record' = [record EXCEPT ![r] = 0]
    /\ failures' = [failures EXCEPT ![r] = 0]
    /\ owner' = IF owner = r THEN Nobody ELSE owner

(* The generic "except Exception" of the loop.                             *)
HandleFailure(r) ==
    \/ /\ failures[r] + 1 >= RetryMaxAttempts
       /\ Exit(r)
    \/ /\ failures[r] + 1 < RetryMaxAttempts
       /\ failures' = [failures EXCEPT ![r] = @ + 1]
       /\ pc' = [pc EXCEPT ![r] = "poll"]
       /\ record' = [record EXCEPT ![r] = 0]
       /\ UNCHANGED owner

Project(r) ==
    /\ pc[r] = "project"
    /\ Transaction(Current(r))
    /\ pc' = [pc EXCEPT ![r] = "commit"]
    /\ UNCHANGED <<kafka, position, record, failures, counters>>

(* IntegrityError: the score's transaction is not in the graph.            *)
RejectResult(r) ==
    /\ pc[r] = "project"
    /\ Current(r).event \notin inbox
    /\ Current(r).tx \notin Stored
    /\ pc' = [pc EXCEPT ![r] = "dead_letter"]
    /\ UNCHANGED <<kafka, database, position, record, failures, counters>>

DatabaseUnavailable(r) ==
    /\ pc[r] = "project"
    /\ dbFaults < MaxDbFaults
    /\ dbFaults' = dbFaults + 1
    /\ refused' = refused \cup {record[r]}
    /\ HandleFailure(r)
    /\ UNCHANGED <<topic, committed, deadLetters, database, position,
                   crashes, ackFaults, rebalances>>

ProjectUnacknowledged(r) ==
    /\ pc[r] = "project"
    /\ ackFaults < MaxAckFaults
    /\ ackFaults' = ackFaults + 1
    /\ Transaction(Current(r))
    /\ HandleFailure(r)
    /\ UNCHANGED <<topic, committed, deadLetters, position,
                   crashes, dbFaults, rebalances, refused>>

(* commit_record, from the loop body or from an except clause.             *)
CommitRecord(r) ==
    /\ owner = r
    /\ committed' = record[r]
    /\ failures' = [failures EXCEPT ![r] = 0]
    /\ record' = [record EXCEPT ![r] = 0]
    /\ pc' = [pc EXCEPT ![r] = "poll"]
    /\ UNCHANGED <<topic, owner, deadLetters, database, position, counters>>

CommitOffset(r)     == pc[r] = "commit" /\ CommitRecord(r)
CommitDeadLetter(r) == pc[r] = "commit_dead" /\ CommitRecord(r)

CommitRefused(r) ==
    /\ pc[r] = "commit"
    /\ owner # r
    /\ HandleFailure(r)
    /\ UNCHANGED <<topic, committed, deadLetters, database, position, counters>>

(* The commit raises, its reply is lost, or the lag gauge that follows it  *)
(* raises because the assignment is changing.                              *)
CommitUnavailable(r) ==
    /\ pc[r] = "commit"
    /\ owner = r
    /\ ackFaults < MaxAckFaults
    /\ ackFaults' = ackFaults + 1
    /\ committed' \in {committed, record[r]}
    /\ HandleFailure(r)
    /\ UNCHANGED <<topic, deadLetters, database, position,
                   crashes, dbFaults, rebalances, refused>>

(* Mutation: a rejected result is logged and committed, nothing else.      *)
DeadLetterDropped(r) ==
    /\ pc[r] = "dead_letter"
    /\ pc' = [pc EXCEPT ![r] = "commit_dead"]
    /\ UNCHANGED <<kafka, database, position, record, failures, counters>>

PublishDeadLetter(r) ==
    /\ pc[r] = "dead_letter"
    /\ deadLetters' = deadLetters \cup {record[r]}
    /\ pc' = [pc EXCEPT ![r] = "commit_dead"]
    /\ UNCHANGED <<topic, committed, owner, database, position, record,
                   failures, counters>>

(* An error inside an except clause ends the consumer, and the process.    *)
CommitDeadLetterRefused(r) ==
    /\ pc[r] = "commit_dead"
    /\ owner # r
    /\ Exit(r)
    /\ UNCHANGED <<topic, committed, deadLetters, database, position, counters>>

(* A kill, or the Redis task of the process giving up.                     *)
Crash(r) ==
    /\ pc[r] # "down"
    /\ crashes < MaxCrashes
    /\ crashes' = crashes + 1
    /\ Exit(r)
    /\ UNCHANGED <<topic, committed, deadLetters, database, position,
                   dbFaults, ackFaults, rebalances, refused>>

ReplicaStep(r) ==
    \/ Start(r)
    \/ Assign(r)
    \/ Poll(r)
    \/ Project(r)
    \/ RejectResult(r)
    \/ CommitOffset(r)
    \/ CommitRefused(r)
    \/ PublishDeadLetter(r)
    \/ CommitDeadLetter(r)
    \/ CommitDeadLetterRefused(r)

Fault(r) ==
    \/ Rebalance(r)
    \/ DatabaseUnavailable(r)
    \/ ProjectUnacknowledged(r)
    \/ CommitUnavailable(r)
    \/ Crash(r)

Next ==
    \/ \E m \in Messages : Produce(m)
    \/ \E r \in Replicas : ReplicaStep(r) \/ Fault(r)

Fairness == \A r \in Replicas : WF_vars(ReplicaStep(r))

Spec == Init /\ [][Next]_vars /\ Fairness

-----------------------------------------------------------------------------
(* Properties                                                              *)

Offsets == 1 .. Len(topic)

Events == {m.event : m \in Messages}

ScoreRow == [event : Events \cup {"none"}, watermark : Nat, scoredAt : Nat]

TypeOK ==
    /\ topic \in Seq(Messages)
    /\ committed \in 0 .. Len(topic)
    /\ owner \in Replicas \cup {Nobody}
    /\ deadLetters \subseteq Offsets
    /\ inbox \subseteq Events
    /\ scores \in [Txs -> ScoreRow]
    /\ intents \subseteq inbox
    /\ claimed \subseteq Messages
    /\ pc \in [Replicas -> PCs]
    /\ position \in [Replicas -> 0 .. Len(topic)]
    /\ record \in [Replicas -> 0 .. Len(topic)]
    /\ failures \in [Replicas -> 0 .. (RetryMaxAttempts - 1)]
    /\ crashes \in Nat /\ dbFaults \in Nat
    /\ ackFaults \in Nat /\ rebalances \in Nat
    /\ refused \subseteq Offsets

Settled(i) == topic[i].event \in inbox \/ i \in deadLetters

Accounted(i) == Settled(i) \/ i \in refused

(* "Consumers commit Kafka offsets only after their durable work succeeds" *)
(* (docs/architecture.md:183).  What the code keeps of that: the only      *)
(* results passed over that are neither stored nor dead-lettered are those *)
(* whose own transaction PostgreSQL refused.                               *)
CommittedAccounted == \A i \in Offsets : i <= committed => Accounted(i)

(* "Downstream deterministic IDs and uniqueness constraints preserve one   *)
(* canonical result" (docs/architecture.md:188): of everything claimed for *)
(* a transaction, nothing beats the stored score on both the watermark and *)
(* the scoring time, in whatever order results arrived.                    *)
CanonicalUnbeaten ==
    \A m \in claimed :
        LET row == scores[m.tx] IN
        /\ row # NoScore
        /\ m.watermark >= row.watermark /\ m.scoredAt >= row.scoredAt
              => m.watermark = row.watermark /\ m.scoredAt = row.scoredAt

(* "Redis publication uses a durable PostgreSQL intent"                    *)
(* (docs/architecture.md:190): the dashboard cannot miss a stored score.   *)
ScoreIntended == \A t \in Txs : scores[t] # NoScore => scores[t].event \in intents

(* The loop over Kafka, with its redeliveries, zombies and lost replies,   *)
(* does to risk_scores no more than the abstract store: each event takes   *)
(* effect once, and a score is never replaced by an older one.             *)
ValidResults ==
    {[event |-> m.event, tx |-> m.tx, watermark |-> m.watermark,
      scoredAt |-> m.scoredAt] : m \in {n \in Messages : n.form = "valid"}}

Store == INSTANCE ScoreStore
            WITH Results <- ValidResults, seen <- inbox, canonical <- scores

ImplementsStore == Store!Spec

(* Every result in the partition is eventually stored or dead-lettered,    *)
(* unless PostgreSQL refused its transaction.                              *)
EveryResultAccounted ==
    \A i \in 1 .. MaxTopic : (i \in Offsets) ~> (i \in Offsets /\ Accounted(i))
=============================================================================
