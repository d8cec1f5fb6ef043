---------------------------- MODULE OutboxRelay ----------------------------
(***************************************************************************)
(* The outbox relay: any number of processes publish the unpublished rows  *)
(* of outbox_events to Kafka in batches.  A batch is one database          *)
(* transaction: its rows are locked with FOR UPDATE SKIP LOCKED, sent one  *)
(* after the other, marked as they are acknowledged, and the marks become  *)
(* visible together when the transaction commits.  Any error rolls all of  *)
(* them back, also those of rows Kafka has accepted.  Between the select   *)
(* and the commit no database call is made: a relay whose session ends     *)
(* there has lost its locks, and sends on.                                 *)
(*                                                                         *)
(*   services/outbox_relay/main.py                                         *)
(*                                                                         *)
(* A row is the number of its place in the order (created_at, outbox_id)   *)
(* in which relays select; rows may commit, so appear, out of that order.  *)
(***************************************************************************)
EXTENDS Integers, Sequences, FiniteSets

CONSTANTS
    Relays,            \* relay processes
    Rows,              \* scoring requests in the outbox
    BatchSize,         \* settings.outbox_batch_size
    RetryMaxAttempts,  \* settings.retry_max_attempts
    MaxCrashes,        \* bound: relays killed
    MaxKafkaFaults,    \* bound: sends that raise
    MaxDbFaults        \* bound: database calls that raise, sessions that end

ASSUME RowsAssumption   == Rows \subseteq Nat
ASSUME RelayAssumption  == /\ BatchSize \in Nat \ {0}
                           /\ RetryMaxAttempts \in Nat \ {0}
ASSUME BoundsAssumption == /\ MaxCrashes \in Nat
                           /\ MaxKafkaFaults \in Nat
                           /\ MaxDbFaults \in Nat

NoRow == -1     \* failed_outbox_id is None

VARIABLES
    rows,        \* outbox_events: the rows that have been inserted
    published,   \* rows whose published_at is set and committed
    lastError,   \* rows whose last_error is set
    attempts,    \* attempt_count of each row
    log,         \* what Kafka accepted, in order: a sequence of rows
    pc,          \* where each relay is in its loop
    batch,       \* rows its open transaction has locked
    marked,      \* those of them it has sent and marked in the transaction
    failed,      \* failed_outbox_id
    attempt,     \* consecutive failed rounds
    lost,        \* relays in a transaction whose session PostgreSQL has ended
    crashes, kafkaFaults, dbFaults    \* environment counters

table    == <<rows, published, lastError, attempts>>
relay    == <<pc, batch, marked, failed, attempt, lost>>
counters == <<crashes, kafkaFaults, dbFaults>>
vars     == <<table, log, relay, counters>>

PCs == {"down", "select", "send", "commit", "backlog", "failure"}

(* ORDER BY ... LIMIT: the n first rows of S.                              *)
FirstOf(n, S) == {s \in S : Cardinality({t \in S : t < s}) < n}

(* Mutation: a plain SELECT, nothing is locked.                            *)
NoneLocked(r) == {}

(* The rows others have locked.  A session that ends frees its locks,      *)
(* whatever the relay still takes for its batch.                           *)
Locked(r) == UNION {batch[p] : p \in Relays \ ({r} \cup lost)}

(* n is the next row of its batch for r to send: they go in order.         *)
IsNext(r, n) ==
    /\ n \in batch[r] \ marked[r]
    /\ \A m \in batch[r] \ marked[r] : n <= m

-----------------------------------------------------------------------------
Init ==
    /\ rows = {}
    /\ published = {}
    /\ lastError = {}
    /\ attempts = [n \in Rows |-> 0]
    /\ log = <<>>
    /\ pc = [r \in Relays |-> "down"]
    /\ batch = [r \in Relays |-> {}]
    /\ marked = [r \in Relays |-> {}]
    /\ failed = [r \in Relays |-> NoRow]
    /\ attempt = [r \in Relays |-> 0]
    /\ lost = {}
    /\ crashes = 0 /\ kafkaFaults = 0 /\ dbFaults = 0

(* A materializer transaction commits: its rows appear together.           *)
Insert(S) ==
    /\ S # {} /\ S \cap rows = {}
    /\ rows' = rows \cup S
    /\ UNCHANGED <<published, lastError, attempts, log, relay, counters>>

Start(r) ==
    /\ pc[r] = "down"
    /\ pc' = [pc EXCEPT ![r] = "select"]
    /\ UNCHANGED <<table, log, batch, marked, failed, attempt, lost, counters>>

(* Mutation: rows that failed once are left to somebody else.              *)
SelectUntried(r) ==
    /\ pc[r] = "select"
    /\ batch' = [batch EXCEPT ![r] =
                    FirstOf(BatchSize, (rows \ (published \cup lastError)) \ Locked(r))]
    /\ pc' = [pc EXCEPT ![r] = IF batch'[r] = {} THEN "commit" ELSE "send"]
    /\ UNCHANGED <<table, log, marked, failed, attempt, lost, counters>>

(* SELECT ... WHERE published_at IS NULL ... FOR UPDATE SKIP LOCKED LIMIT. *)
SelectBatch(r) ==
    /\ pc[r] = "select"
    /\ batch' = [batch EXCEPT ![r] =
                    FirstOf(BatchSize, (rows \ published) \ Locked(r))]
    /\ pc' = [pc EXCEPT ![r] = IF batch'[r] = {} THEN "commit" ELSE "send"]
    /\ UNCHANGED <<table, log, marked, failed, attempt, lost, counters>>

(* send_and_wait returns: Kafka has the row, and the row is marked.        *)
Send(r) ==
    /\ pc[r] = "send"
    /\ \E n \in Rows :
          /\ IsNext(r, n)
          /\ log' = Append(log, n)
          /\ marked' = [marked EXCEPT ![r] = @ \cup {n}]
    /\ failed' = [failed EXCEPT ![r] = NoRow]
    /\ pc' = [pc EXCEPT ![r] = IF marked'[r] = batch[r] THEN "commit" ELSE "send"]
    /\ UNCHANGED <<table, batch, attempt, lost, counters>>

(* Leaving the transaction by an exception rolls it back: the locks and    *)
(* the marks are gone.  The next transaction has a session that works.     *)
RollBack(r) ==
    /\ batch' = [batch EXCEPT ![r] = {}]
    /\ marked' = [marked EXCEPT ![r] = {}]
    /\ lost' = lost \ {r}

(* Mutation: a failed send is caught inside the loop over the rows.        *)
SendFailsCaught(r) ==
    /\ pc[r] = "send"
    /\ kafkaFaults < MaxKafkaFaults
    /\ kafkaFaults' = kafkaFaults + 1
    /\ \E n \in Rows :
          /\ IsNext(r, n)
          /\ log' \in {log, Append(log, n)}
          /\ marked' = [marked EXCEPT ![r] = @ \cup {n}]
    /\ pc' = [pc EXCEPT ![r] = IF marked'[r] = batch[r] THEN "commit" ELSE "send"]
    /\ UNCHANGED <<table, batch, failed, attempt, lost, crashes, dbFaults>>

(* send_and_wait raises.  Kafka may have accepted the row all the same,    *)
(* when only the acknowledgement was lost.                                 *)
SendFails(r) ==
    /\ pc[r] = "send"
    /\ kafkaFaults < MaxKafkaFaults
    /\ kafkaFaults' = kafkaFaults + 1
    /\ \E n \in Rows :
          /\ IsNext(r, n)
          /\ log' \in {log, Append(log, n)}
          /\ failed' = [failed EXCEPT ![r] = n]
    /\ RollBack(r)
    /\ pc' = [pc EXCEPT ![r] = "failure"]
    /\ UNCHANGED <<table, attempt, crashes, dbFaults>>

(* PostgreSQL restarts, fails over or drops the connection while a batch   *)
(* is being sent: the transaction is rolled back and its locks are free,   *)
(* and nothing in the loop over the rows tells the relay.  (After the last *)
(* send this is DatabaseFails, at the commit.)                             *)
SessionLost(r) ==
    /\ pc[r] = "send"
    /\ r \notin lost
    /\ dbFaults < MaxDbFaults
    /\ dbFaults' = dbFaults + 1
    /\ lost' = lost \cup {r}
    /\ UNCHANGED <<table, log, pc, batch, marked, failed, attempt, crashes, kafkaFaults>>

(* session.begin() commits: the marks become visible, the locks go.        *)
CommitBatch(r) ==
    /\ pc[r] = "commit"
    /\ r \notin lost
    /\ published' = published \cup marked[r]
    /\ lastError' = lastError \ marked[r]
    /\ RollBack(r)
    /\ attempt' = [attempt EXCEPT ![r] = 0]
    /\ pc' = [pc EXCEPT ![r] = "backlog"]
    /\ UNCHANGED <<rows, attempts, log, failed, counters>>

(* The commit finds that the session is gone, and raises.                  *)
CommitFails(r) ==
    /\ pc[r] = "commit"
    /\ r \in lost
    /\ RollBack(r)
    /\ pc' = [pc EXCEPT ![r] = "failure"]
    /\ UNCHANGED <<table, log, failed, attempt, counters>>

(* update_backlog reads the gauge, and the loop starts over.               *)
UpdateBacklog(r) ==
    /\ pc[r] = "backlog"
    /\ pc' = [pc EXCEPT ![r] = "select"]
    /\ UNCHANGED <<table, log, batch, marked, failed, attempt, lost, counters>>

(* The select, the commit or the gauge query raises; the commit may have   *)
(* taken effect before its reply was lost.                                 *)
DatabaseFails(r) ==
    /\ pc[r] \in {"select", "commit", "backlog"}
    /\ r \notin lost
    /\ dbFaults < MaxDbFaults
    /\ dbFaults' = dbFaults + 1
    /\ \/ UNCHANGED <<published, lastError>>
       \/ /\ pc[r] = "commit"
          /\ published' = published \cup marked[r]
          /\ lastError' = lastError \ marked[r]
    /\ RollBack(r)
    /\ pc' = [pc EXCEPT ![r] = "failure"]
    /\ UNCHANGED <<rows, attempts, log, failed, attempt, crashes, kafkaFaults>>

(* Mutation: record_failure takes the mark off the row that failed.        *)
HandleFailureReopens(r) ==
    /\ pc[r] = "failure"
    /\ failed[r] \notin Locked(r)
    /\ published' = published \ {failed[r]}
    /\ IF failed[r] = NoRow
       THEN UNCHANGED <<attempts, lastError>>
       ELSE /\ attempts' = [attempts EXCEPT ![failed[r]] = @ + 1]
            /\ lastError' = lastError \cup {failed[r]}
    /\ failed' = [failed EXCEPT ![r] = NoRow]
    /\ attempt' = [attempt EXCEPT ![r] = (@ + 1) % RetryMaxAttempts]
    /\ pc' = [pc EXCEPT ![r] = IF attempt'[r] = 0 THEN "down" ELSE "select"]
    /\ UNCHANGED <<rows, log, batch, marked, lost, counters>>

(* record_failure, which waits for the row's lock, then the retry budget:  *)
(* raise when it is spent, else sleep and go round.                        *)
HandleFailure(r) ==
    /\ pc[r] = "failure"
    /\ failed[r] \notin Locked(r)
    /\ IF failed[r] = NoRow
       THEN UNCHANGED <<attempts, lastError>>
       ELSE /\ attempts' = [attempts EXCEPT ![failed[r]] = @ + 1]
            /\ lastError' = lastError \cup {failed[r]}
    /\ failed' = [failed EXCEPT ![r] = NoRow]
    /\ IF attempt[r] + 1 >= RetryMaxAttempts
       THEN /\ attempt' = [attempt EXCEPT ![r] = 0]
            /\ pc' = [pc EXCEPT ![r] = "down"]
       ELSE /\ attempt' = [attempt EXCEPT ![r] = @ + 1]
            /\ pc' = [pc EXCEPT ![r] = "select"]
    /\ UNCHANGED <<rows, published, log, batch, marked, lost, counters>>

Crash(r) ==
    /\ pc[r] # "down"
    /\ crashes < MaxCrashes
    /\ crashes' = crashes + 1
    /\ RollBack(r)
    /\ failed' = [failed EXCEPT ![r] = NoRow]
    /\ attempt' = [attempt EXCEPT ![r] = 0]
    /\ pc' = [pc EXCEPT ![r] = "down"]
    /\ UNCHANGED <<table, log, kafkaFaults, dbFaults>>

RelayStep(r) ==
    \/ Start(r)
    \/ SelectBatch(r)
    \/ Send(r)
    \/ CommitBatch(r)
    \/ CommitFails(r)
    \/ UpdateBacklog(r)
    \/ HandleFailure(r)

Fault(r) == SendFails(r) \/ SessionLost(r) \/ DatabaseFails(r) \/ Crash(r)

Next ==
    \/ \E S \in SUBSET Rows : Insert(S)
    \/ \E r \in Relays : RelayStep(r) \/ Fault(r)

(* A relay process keeps running its loop and its container is restarted.  *)
Fairness == \A r \in Relays : WF_vars(RelayStep(r))

Spec == Init /\ [][Next]_vars /\ Fairness
-----------------------------------------------------------------------------
(* Properties                                                              *)

Accepted == {log[i] : i \in 1 .. Len(log)}

Copies(n) == Cardinality({i \in 1 .. Len(log) : log[i] = n})

TypeOK ==
    /\ rows \subseteq Rows
    /\ published \subseteq rows
    /\ lastError \subseteq rows
    /\ attempts \in [Rows -> Nat]
    /\ log \in Seq(rows)
    /\ pc \in [Relays -> PCs]
    /\ batch \in [Relays -> SUBSET rows]
    /\ marked \in [Relays -> SUBSET rows]
    /\ failed \in [Relays -> rows \cup {NoRow}]
    /\ attempt \in [Relays -> 0 .. (RetryMaxAttempts - 1)]
    /\ lost \subseteq Relays
    /\ crashes \in Nat /\ kafkaFaults \in Nat /\ dbFaults \in Nat

(* A row counts as published only if Kafka has accepted it: "The           *)
(* transactional outbox prevents committed graph state from losing its     *)
(* scoring request" (docs/architecture.md:188).                            *)
PublishedAccepted == published \subseteq Accepted

(* r puts n on the topic, whether or not it hears of it.                   *)
Sends(r, n) ==
    /\ IsNext(r, n)
    /\ log' = Append(log, n)
    /\ n \in marked'[r] \/ failed'[r] = n

(* A row whose publication is committed is sent again only by a relay      *)
(* whose session ended in the middle of the batch that holds the row       *)
(* (main.py:99-121): as long as sessions last, the locks keep the select   *)
(* of one relay away from the rows another still holds, however their      *)
(* batches interleave.                                                     *)
ResentOnlyAfterLoss ==
    [][\A n \in published : log' = Append(log, n) => \E r \in lost : Sends(r, n)]_vars

(* A row is sent twice only after something failed: each fault costs a row *)
(* at most one more copy, so duplicates stay bounded by the faults; a      *)
(* session that ends counts for every row its relay sends afterwards, and  *)
(* a failure that is recorded late, of a row another relay has published   *)
(* since, costs none (main.py:131).                                        *)
DuplicatesNeedFaults ==
    \A n \in rows : Copies(n) <= 1 + crashes + kafkaFaults + dbFaults

(* Every row is published in the end, whoever crashed while holding it.    *)
EveryRowPublished == \A n \in Rows : (n \in rows) ~> (n \in published)
=============================================================================
