--------------------------- MODULE RedisPublisher ---------------------------
(***************************************************************************)
(* The Redis half of the result projector: each replica publishes the      *)
(* intents of outbox_events to the Redis stream in batches, one database   *)
(* transaction per batch, with a script that adds an event to the stream   *)
(* unless its deduplication key exists.                                    *)
(*                                                                         *)
(*   services/result_projector/main.py, publish_redis_outbox               *)
(*   shared/redis/stream.py, DEDUPLICATED_XADD                             *)
(*                                                                         *)
(* An intent is the number of its place in the order (created_at,          *)
(* outbox_id).  The intents of one transaction are created one after the   *)
(* other, by the consumer of its partition; those of others in any order.  *)
(***************************************************************************)
EXTENDS Integers, Sequences, FiniteSets

CONSTANTS
    Replicas,          \* result projector processes
    Rows,              \* intents, numbered
    TxOf,              \* the transaction an intent is about
    BatchSize,         \* settings.outbox_batch_size
    RetryMaxAttempts,  \* settings.retry_max_attempts
    MaxCrashes,        \* bound: processes killed
    MaxRedisFaults,    \* bound: scripts that raise, run or not
    MaxDbFaults        \* bound: database calls that raise, sessions that end

ASSUME RowsAssumption    == Rows \subseteq Nat /\ DOMAIN TxOf = Rows
ASSUME SettingAssumption == /\ BatchSize \in Nat \ {0}
                            /\ RetryMaxAttempts \in Nat \ {0}
ASSUME BoundsAssumption  == /\ MaxCrashes \in Nat
                            /\ MaxRedisFaults \in Nat
                            /\ MaxDbFaults \in Nat

VARIABLES
    rows,        \* outbox_events: the intents that have been inserted
    published,   \* intents whose published_at is set and committed
    stream,      \* every entry ever added to the Redis stream, in order
    keys,        \* deduplication keys that exist
    pc,          \* where each replica's Redis task is
    batch,       \* intents its open transaction has locked
    marked,      \* those of them it has marked in the transaction
    failures,    \* consecutive_failures
    lost,        \* replicas whose session PostgreSQL has ended before a script
    crashes, redisFaults, dbFaults,   \* environment counters
    overlapped   \* history: replicas that took a batch while another had one

table    == <<rows, published>>
redis    == <<stream, keys>>
task     == <<pc, batch, marked, failures, lost>>
counters == <<crashes, redisFaults, dbFaults, overlapped>>
vars     == <<table, redis, task, counters>>

PCs == {"down", "select", "publish", "commit", "backlog"}

(* What other replicas have in hand, and what of it they have locked: a    *)
(* session that ends frees its locks.                                      *)
InHand(r) == UNION {batch[p] : p \in Replicas \ {r}}
Locked(r) == UNION {batch[p] : p \in Replicas \ ({r} \cup lost)}

(* ORDER BY created_at, outbox_id LIMIT n.                                 *)
FirstOf(n, S) == {s \in S : Cardinality({t \in S : t < s}) < n}

(* Mutation: a batch is published in no particular order.                  *)
IsNextAny(r, n) == n \in batch[r] \ marked[r]

(* n is the next intent of its batch for r to publish.                     *)
IsNext(r, n) ==
    /\ n \in batch[r] \ marked[r]
    /\ \A m \in batch[r] \ marked[r] : n <= m

(* Mutation: a plain XADD.                                                 *)
PlainXAdd(n) == stream' = Append(stream, n) /\ keys' = keys \cup {n}

(* The script: GET the key, else XADD the event and SET the key.           *)
DeduplicatedXAdd(n) ==
    IF n \in keys
    THEN UNCHANGED redis
    ELSE stream' = Append(stream, n) /\ keys' = keys \cup {n}

-----------------------------------------------------------------------------
Init ==
    /\ rows = {}
    /\ published = {}
    /\ stream = <<>>
    /\ keys = {}
    /\ pc = [r \in Replicas |-> "down"]
    /\ batch = [r \in Replicas |-> {}]
    /\ marked = [r \in Replicas |-> {}]
    /\ failures = [r \in Replicas |-> 0]
    /\ lost = {}
    /\ crashes = 0 /\ redisFaults = 0 /\ dbFaults = 0
    /\ overlapped = {}

(* project_scoring_result commits an intent.                               *)
Intend(n) ==
    /\ n \notin rows
    /\ \A m \in Rows : m < n /\ TxOf[m] = TxOf[n] => m \in rows
    /\ rows' = rows \cup {n}
    /\ UNCHANGED <<published, redis, task, counters>>

(* The key's time to live (a day) ends.  The model takes an intent to be   *)
(* marked within a day of its first publication, and a batch to be shorter *)
(* than that.                                                              *)
ExpireKey(n) ==
    /\ n \in keys \cap published
    /\ \A r \in Replicas : n \notin batch[r]
    /\ keys' = keys \ {n}
    /\ UNCHANGED <<table, stream, task, counters>>

Start(r) ==
    /\ pc[r] = "down"
    /\ pc' = [pc EXCEPT ![r] = "select"]
    /\ UNCHANGED <<table, redis, batch, marked, failures, lost, counters>>

(* SELECT ... WHERE published_at IS NULL ... FOR UPDATE SKIP LOCKED LIMIT. *)
SelectBatch(r) ==
    /\ pc[r] = "select"
    /\ batch' = [batch EXCEPT ![r] =
                    FirstOf(BatchSize, (rows \ published) \ Locked(r))]
    /\ pc' = [pc EXCEPT ![r] = IF batch'[r] = {} THEN "commit" ELSE "publish"]
    /\ overlapped' = IF batch'[r] # {} /\ InHand(r) # {}
                      THEN overlapped \cup {r} ELSE overlapped
    /\ UNCHANGED <<table, redis, marked, failures, lost, crashes, redisFaults, dbFaults>>

(* Mutation: the row is marked only when XADD returned a new entry.        *)
PublishNew(r) ==
    /\ pc[r] = "publish"
    /\ r \notin lost
    /\ \E n \in Rows :
          /\ IsNext(r, n)
          /\ DeduplicatedXAdd(n)
          /\ marked' = IF n \in keys THEN marked
                       ELSE [marked EXCEPT ![r] = @ \cup {n}]
    /\ pc' = [pc EXCEPT ![r] = IF marked'[r] = batch[r] THEN "commit" ELSE "publish"]
    /\ UNCHANGED <<table, batch, failures, lost, counters>>

(* The payload is built, the script runs, the row is marked.               *)
Publish(r) ==
    /\ pc[r] = "publish"
    /\ r \notin lost
    /\ \E n \in Rows :
          /\ IsNext(r, n)
          /\ DeduplicatedXAdd(n)
          /\ marked' = [marked EXCEPT ![r] = @ \cup {n}]
    /\ pc' = [pc EXCEPT ![r] = IF marked'[r] = batch[r] THEN "commit" ELSE "publish"]
    /\ UNCHANGED <<table, batch, failures, lost, counters>>

(* An exception rolls the batch back; the last one of the budget ends the  *)
(* process, the others sleep and go round.                                 *)
RollBack(r) ==
    /\ batch' = [batch EXCEPT ![r] = {}]
    /\ marked' = [marked EXCEPT ![r] = {}]
    /\ lost' = lost \ {r}

HandleFailure(r) ==
    /\ RollBack(r)
    /\ \/ /\ failures[r] + 1 >= RetryMaxAttempts
          /\ failures' = [failures EXCEPT ![r] = 0]
          /\ pc' = [pc EXCEPT ![r] = "down"]
       \/ /\ failures[r] + 1 < RetryMaxAttempts
          /\ failures' = [failures EXCEPT ![r] = @ + 1]
          /\ pc' = [pc EXCEPT ![r] = "select"]

(* Redis raises; the script may have run before its reply was lost.        *)
RedisFails(r) ==
    /\ pc[r] = "publish"
    /\ redisFaults < MaxRedisFaults
    /\ redisFaults' = redisFaults + 1
    /\ \E n \in Rows : IsNext(r, n) /\ (UNCHANGED redis \/ DeduplicatedXAdd(n))
    /\ HandleFailure(r)
    /\ UNCHANGED <<table, crashes, dbFaults, overlapped>>

(* PostgreSQL ends the session between the payload's query and the script: *)
(* the locks are free, and the replica does not know.                      *)
SessionLost(r) ==
    /\ pc[r] = "publish"
    /\ r \notin lost
    /\ dbFaults < MaxDbFaults
    /\ dbFaults' = dbFaults + 1
    /\ lost' = lost \cup {r}
    /\ UNCHANGED <<table, redis, pc, batch, marked, failures>>
    /\ UNCHANGED <<crashes, redisFaults, overlapped>>

(* The script runs all the same; the next database call, for the next      *)
(* payload or to commit, finds the session gone and raises.                *)
PublishUnlocked(r) ==
    /\ pc[r] = "publish"
    /\ r \in lost
    /\ \E n \in Rows : IsNext(r, n) /\ DeduplicatedXAdd(n)
    /\ HandleFailure(r)
    /\ UNCHANGED <<table, counters>>

CommitBatch(r) ==
    /\ pc[r] = "commit"
    /\ published' = published \cup marked[r]
    /\ RollBack(r)
    /\ pc' = [pc EXCEPT ![r] = "backlog"]
    /\ UNCHANGED <<rows, redis, failures, counters>>

(* The count of the backlog; only then are the failures forgotten.         *)
CountBacklog(r) ==
    /\ pc[r] = "backlog"
    /\ failures' = [failures EXCEPT ![r] = 0]
    /\ pc' = [pc EXCEPT ![r] = "select"]
    /\ UNCHANGED <<table, redis, batch, marked, lost, counters>>

(* A database call raises: the select, the payload's query, the commit,    *)
(* which may have taken effect, or the count.                              *)
DatabaseFails(r) ==
    /\ pc[r] # "down" /\ r \notin lost
    /\ dbFaults < MaxDbFaults
    /\ dbFaults' = dbFaults + 1
    /\ published' \in IF pc[r] = "commit" THEN {published, published \cup marked[r]}
                                          ELSE {published}
    /\ HandleFailure(r)
    /\ UNCHANGED <<rows, redis, crashes, redisFaults, overlapped>>

(* A kill, or the consumer task of the process giving up.                  *)
Crash(r) ==
    /\ pc[r] # "down"
    /\ crashes < MaxCrashes
    /\ crashes' = crashes + 1
    /\ RollBack(r)
    /\ failures' = [failures EXCEPT ![r] = 0]
    /\ pc' = [pc EXCEPT ![r] = "down"]
    /\ UNCHANGED <<table, redis, redisFaults, dbFaults, overlapped>>

TaskStep(r) ==
    \/ Start(r)
    \/ SelectBatch(r)
    \/ Publish(r)
    \/ PublishUnlocked(r)
    \/ CommitBatch(r)
    \/ CountBacklog(r)

Fault(r) == RedisFails(r) \/ SessionLost(r) \/ DatabaseFails(r) \/ Crash(r)

Next ==
    \/ \E n \in Rows : Intend(n) \/ ExpireKey(n)
    \/ \E r \in Replicas : TaskStep(r) \/ Fault(r)

(* The task keeps running its loop and its container is restarted.         *)
Fairness == \A r \in Replicas : WF_vars(TaskStep(r))

Spec == Init /\ [][Next]_vars /\ Fairness

-----------------------------------------------------------------------------
(* Properties                                                              *)

Entries == 1 .. Len(stream)

TypeOK ==
    /\ rows \subseteq Rows
    /\ published \subseteq rows
    /\ stream \in Seq(rows)
    /\ keys \subseteq rows
    /\ pc \in [Replicas -> PCs]
    /\ batch \in [Replicas -> SUBSET rows]
    /\ marked \in [Replicas -> SUBSET rows]
    /\ failures \in [Replicas -> 0 .. (RetryMaxAttempts - 1)]
    /\ lost \subseteq Replicas
    /\ crashes \in Nat /\ redisFaults \in Nat /\ dbFaults \in Nat
    /\ overlapped \subseteq Replicas

(* "Redis publication uses a durable PostgreSQL intent and event-ID        *)
(* deduplication" (docs/architecture.md:190): however often batches roll   *)
(* back after Redis has taken some of their events, the stream has every   *)
(* event once, and clients count every transaction once.                   *)
StreamOnce == \A i, j \in Entries : stream[i] = stream[j] => i = j

(* An intent is marked only when its event is in the stream.               *)
PublishedInStream == \A n \in published : \E i \in Entries : stream[i] = n

(* Until two publishers hold batches at one time, as they never do in      *)
(* docker-compose.yml, the scores of a transaction reach the stream in the *)
(* order in which they became canonical, so the last one a client sees is  *)
(* the stored one, also when a batch is rolled back halfway.               *)
StreamInOrder ==
    overlapped = {} => \A i, j \in Entries :
        i < j /\ TxOf[stream[i]] = TxOf[stream[j]] => stream[i] <= stream[j]

(* "Redis publication is retried" (docs/architecture.md:220): every intent *)
(* reaches the stream in the end.                                          *)
EveryIntentPublished == \A n \in Rows : (n \in rows) ~> (n \in published)
=============================================================================
