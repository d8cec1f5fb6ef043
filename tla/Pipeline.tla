------------------------------ MODULE Pipeline ------------------------------
(***************************************************************************)
(* The services together: batches become graph rows and scoring requests   *)
(* (graph materializer), the requests reach Kafka (outbox relay), are      *)
(* scored (inference workers), become scores and intents to publish them   *)
(* (result projector), and these reach the Redis stream (its publisher).   *)
(* What fails for good goes to the DLQ, from which an operator may replay  *)
(* it, at any later time and with a fresh event id.                        *)
(*                                                                         *)
(*   services/graph_materializer, services/outbox_relay,                   *)
(*   services/inference_worker, services/result_projector                  *)
(*   shared/database/queries.py, shared/database/models.py                 *)
(*   scripts/replay_dlq.py                                                 *)
(*                                                                         *)
(* Every stage has a module of its own with all of its steps; here each    *)
(* keeps those in which one stage can surprise the next.  There is one     *)
(* partition per topic, one process per stage, and several workers.  An    *)
(* event is identified with its event id: ids are derived from the cause's *)
(* id, so equal events have equal ids, and copy tells a replay from its    *)
(* original.                                                               *)
(***************************************************************************)
EXTENDS Integers, Sequences, FiniteSets, SequencesExt

CONSTANTS
    Txs,           \* transactions
    Workers,       \* inference worker processes
    Scenarios      \* what the producer has sent, and the bounds: faults (crashes,
                   \* rebalances, calls that fail or whose reply is lost, refused
                   \* transactions) and dead letters an operator replays

(* nodes: the transactions of the batch; ends: those its edges connect.    *)
Batch == [step : Nat \ {0}, nodes : {S \in SUBSET Txs : IsFiniteSet(S)},
          ends : SUBSET Txs, copy : Nat]

ASSUME ScenariosAssumption ==
    Scenarios \subseteq [batches : Seq(Batch), faults : Nat, replays : Nat]

VARIABLES
    batches,       \* topic graph-batches
    requests,      \* topic scoring-requests: [tx, step, batch, copy]
    results,       \* topic scoring-results: [request, scoredAt]
    dlq,           \* topic of dead letters: [topic, event]
    position,      \* of each consumer group, in its topic
    committed,     \* the offset it has committed
    inbox,         \* consumer_inbox: batches and results claimed
    graph,         \* graph_watermark of each transaction, 0 if it has no row
    outbox,        \* outbox_events for Kafka, in the order of created_at
    marked,        \* how many of them are marked published
    sent, upto,    \* the relay's batch: the last row it has sent, and its last row
    scores,        \* risk_scores
    intents,       \* outbox_events for Redis, in the order of created_at
    streamed,      \* how many of them are in the Redis stream
    owner,         \* worker the requests are assigned to
    pc, record, scoredAt,    \* each worker: where, with which request
    clock,         \* now() of every host
    faults, replays,         \* how many of them are still to come
    replayed,      \* history: the dead letters that were replayed
    refused,       \* history: results whose transaction PostgreSQL refused
    overtaken      \* history: results that lost to one of an older step

topics   == <<batches, requests, results, dlq>>
group    == <<position, committed>>
relay    == <<sent, upto>>
graphDb  == <<graph, outbox, marked, relay>>    \* and what the relay has of it
scoreDb  == <<scores, intents>>
worker   == <<owner, pc, record, scoredAt, clock>>
history  == <<replayed, refused, overtaken>>
counters == <<faults, replays>>
vars     == <<topics, group, inbox, graphDb, scoreDb, streamed, worker, history, counters>>

Groups  == {"materializer", "workers", "projector"}
NoScore == [request |-> "none", step |-> 0, scoredAt |-> 0]

Fault == faults > 0 /\ faults' = faults - 1 /\ UNCHANGED replays

-----------------------------------------------------------------------------
Init ==
    /\ \E s \in Scenarios : batches = s.batches /\ faults = s.faults /\ replays = s.replays
    /\ requests = <<>> /\ results = <<>> /\ dlq = {}
    /\ position = [g \in Groups |-> 0]
    /\ committed = [g \in Groups |-> 0]
    /\ inbox = {}
    /\ graph = [t \in Txs |-> 0]
    /\ outbox = <<>> /\ marked = 0
    /\ sent = 0 /\ upto = 0
    /\ scores = [t \in Txs |-> NoScore]
    /\ intents = <<>> /\ streamed = 0
    /\ owner = CHOOSE w \in Workers : TRUE
    /\ pc = [w \in Workers |-> "idle"]
    /\ record = [w \in Workers |-> 0]
    /\ scoredAt = [w \in Workers |-> 0]
    /\ clock = 0
    /\ replayed = {} /\ refused = {} /\ overtaken = {}

(***************** The loop of materializer and projector ******************)

(* One round over the next record m, whose work is done: its offset is     *)
(* committed, or the process dies or loses a reply before that, and starts *)
(* again at the committed one.                                             *)
Consume(g, topic) ==
    /\ position[g] < Len(topic)
    /\ \/ /\ position' = [position EXCEPT ![g] = @ + 1]
          /\ committed' = [committed EXCEPT ![g] = position[g] + 1]
          /\ UNCHANGED counters
       \/ /\ Fault
          /\ position' = [position EXCEPT ![g] = committed[g]]
          /\ UNCHANGED committed

(* The transaction is refused: the generic except goes round, and the next *)
(* record is polled.                                                       *)
Pass(g, topic) ==
    /\ position[g] < Len(topic)
    /\ Fault
    /\ position' = [position EXCEPT ![g] = @ + 1]
    /\ UNCHANGED <<topics, committed, inbox, graphDb, scoreDb, streamed, worker>>

Restart(g) ==
    /\ position[g] # committed[g]
    /\ Fault
    /\ position' = [position EXCEPT ![g] = committed[g]]
    /\ UNCHANGED <<topics, committed, inbox, graphDb, scoreDb, streamed, worker, history>>

(************************** Graph materializer *****************************)

RequestOf(t, b) == [tx |-> t, step |-> b.step, batch |-> b.copy, copy |-> 0]

(* Mutation: the id of a request is derived from its transaction alone, so *)
(* that the insert does nothing for the next batch's.                      *)
InsertOncePerTransaction(b) ==
    LET new == {t \in b.nodes : \A i \in DOMAIN outbox : outbox[i].tx # t}
    IN  outbox' = outbox \o SetToSeq({RequestOf(t, b) : t \in new})

(* One request for each transaction of the batch, also for one whose row   *)
(* is newer.                                                               *)
InsertRequests(b) ==
    outbox' = outbox \o SetToSeq({RequestOf(t, b) : t \in b.nodes})

Unknown(b) == {t \in b.ends \ b.nodes : graph[t] = 0}

(* materialize_graph_batch: claim, guarded upsert, edges, requests.  An    *)
(* edge to a transaction without a row rolls all of it back, and the batch *)
(* is dead-lettered.                                                       *)
Materialize ==
    /\ Consume("materializer", batches)
    /\ LET b == batches[position["materializer"] + 1]
       IN  \/ /\ b \in inbox
              /\ UNCHANGED <<dlq, inbox, graph, outbox>>
           \/ /\ b \notin inbox /\ Unknown(b) # {}
              /\ dlq' = dlq \cup {[topic |-> "batches", event |-> b]}
              /\ UNCHANGED <<inbox, graph, outbox>>
           \/ /\ b \notin inbox /\ Unknown(b) = {}
              /\ inbox' = inbox \cup {b}
              /\ graph' = [t \in Txs |-> IF t \in b.nodes /\ graph[t] <= b.step
                                         THEN b.step ELSE graph[t]]
              /\ InsertRequests(b)
              /\ UNCHANGED dlq
    /\ UNCHANGED <<batches, requests, results, marked, relay, scoreDb, streamed, worker,
                   history>>

PassBatch == Pass("materializer", batches) /\ UNCHANGED history

(***************************** Outbox relay ********************************)

(* The last row of the batch: a select takes rows there are, up to its     *)
(* limit.                                                                  *)
BatchEnds == IF sent = marked THEN marked + 1 .. Len(outbox) ELSE {upto}

(* The next row of the batch is sent.  With the last one the transaction   *)
(* commits all the marks; or the relay dies, a later send or the commit    *)
(* fails, none of them is kept, and the batch is sent again.               *)
Relay ==
    /\ sent < Len(outbox)
    /\ requests' = Append(requests, outbox[sent + 1])
    /\ \/ /\ upto' \in BatchEnds
          /\ sent' = sent + 1
          /\ marked' = IF sent' = upto' THEN sent' ELSE marked
          /\ UNCHANGED counters
       \/ /\ Fault
          /\ sent' = marked /\ upto' = marked
          /\ UNCHANGED marked
    /\ UNCHANGED <<batches, results, dlq, group, inbox, graph, outbox, scoreDb,
                   streamed, worker, history>>

(*************************** Inference workers *****************************)

Request(w) == requests[record[w]]
Result(w)  == [request |-> Request(w), scoredAt |-> scoredAt[w]]

(* w is done with its request, or loses it.                                *)
Rest(w) ==
    /\ pc' = [pc EXCEPT ![w] = "idle"]
    /\ record' = [record EXCEPT ![w] = 0]
    /\ scoredAt' = [scoredAt EXCEPT ![w] = 0]

(* Mutation: enable_auto_commit=True, the offset is committed on delivery. *)
TakeAutoCommit(w) ==
    /\ pc[w] = "idle" /\ owner = w
    /\ position["workers"] < Len(requests)
    /\ position' = [position EXCEPT !["workers"] = @ + 1]
    /\ committed' = [committed EXCEPT !["workers"] = position["workers"] + 1]
    /\ record' = [record EXCEPT ![w] = position["workers"] + 1]
    /\ pc' = [pc EXCEPT ![w] = "score"]
    /\ UNCHANGED <<topics, inbox, graphDb, scoreDb, streamed, owner, scoredAt, clock,
                   history, counters>>

Take(w) ==
    /\ pc[w] = "idle" /\ owner = w
    /\ position["workers"] < Len(requests)
    /\ position' = [position EXCEPT !["workers"] = @ + 1]
    /\ record' = [record EXCEPT ![w] = position["workers"] + 1]
    /\ pc' = [pc EXCEPT ![w] = "score"]
    /\ UNCHANGED <<topics, committed, inbox, graphDb, scoreDb, streamed, owner,
                   scoredAt, clock, history, counters>>

(* The subgraph is read; a graph behind the request is a permanent error.  *)
Score(w) ==
    /\ pc[w] = "score"
    /\ clock' = clock + 1
    /\ scoredAt' = [scoredAt EXCEPT ![w] = clock + 1]
    /\ pc' = [pc EXCEPT ![w] = IF graph[Request(w).tx] >= Request(w).step
                               THEN "publish" ELSE "dead_letter"]
    /\ UNCHANGED <<topics, group, inbox, graphDb, scoreDb, streamed, owner, record,
                   history, counters>>

Publish(w) ==
    /\ pc[w] = "publish"
    /\ results' = Append(results, Result(w))
    /\ pc' = [pc EXCEPT ![w] = "commit"]
    /\ UNCHANGED <<batches, requests, dlq, group, inbox, graphDb, scoreDb, streamed,
                   owner, record, scoredAt, clock, history, counters>>

Commit(w) ==
    /\ pc[w] \in {"commit", "commit_dead"} /\ owner = w
    /\ committed' = [committed EXCEPT !["workers"] = record[w]]
    /\ Rest(w)
    /\ UNCHANGED <<topics, position, inbox, graphDb, scoreDb, streamed, owner, clock,
                   history, counters>>

(* After a result a refused commit is a failed attempt, and as every later *)
(* one is refused too, the last is followed by a dead letter; after a dead *)
(* letter it ends the process.                                             *)
CommitRefused(w) ==
    /\ owner # w
    /\ \/ /\ pc[w] = "commit"
          /\ pc' = [pc EXCEPT ![w] = "dead_letter"]
          /\ UNCHANGED <<record, scoredAt>>
       \/ pc[w] = "commit_dead" /\ Rest(w)
    /\ UNCHANGED <<topics, group, inbox, graphDb, scoreDb, streamed, owner, clock,
                   history, counters>>

(* An exception of the database, the model or Kafka: the request is scored *)
(* again, or the attempts are used up.  What raised may have taken effect. *)
AttemptFails(w) ==
    /\ pc[w] \in {"score", "publish", "commit"}
    /\ Fault
    /\ results' \in IF pc[w] = "publish" THEN {results, Append(results, Result(w))}
                                         ELSE {results}
    /\ pc' \in {[pc EXCEPT ![w] = "score"], [pc EXCEPT ![w] = "dead_letter"]}
    /\ UNCHANGED <<batches, requests, dlq, group, inbox, graphDb, scoreDb, streamed,
                   owner, record, scoredAt, clock, history>>

DeadLetter(w) ==
    /\ pc[w] = "dead_letter"
    /\ dlq' = dlq \cup {[topic |-> "requests", event |-> Request(w)]}
    /\ pc' = [pc EXCEPT ![w] = "commit_dead"]
    /\ UNCHANGED <<batches, requests, results, group, inbox, graphDb, scoreDb, streamed,
                   owner, record, scoredAt, clock, history, counters>>

(* The partition moves; the worker that had it goes on with what it holds. *)
Rebalance(w) ==
    /\ owner # w
    /\ Fault
    /\ owner' = w
    /\ position' = [position EXCEPT !["workers"] = committed["workers"]]
    /\ UNCHANGED <<topics, committed, inbox, graphDb, scoreDb, streamed, pc, record,
                   scoredAt, clock, history>>

(* A worker dies and comes back.                                           *)
Crash(w) ==
    /\ pc[w] # "idle"
    /\ Fault
    /\ Rest(w)
    /\ position' = IF owner = w
                   THEN [position EXCEPT !["workers"] = committed["workers"]]
                   ELSE position
    /\ UNCHANGED <<topics, committed, inbox, graphDb, scoreDb, streamed, owner, clock,
                   history>>

(*************************** Result projector ******************************)

(* Mutation: only the scoring times are compared.                          *)
AcceptsLater(m) == m.scoredAt >= scores[m.request.tx].scoredAt

(* The WHERE of the upsert.                                                *)
Accepts(m) ==
    LET row == scores[m.request.tx]
    IN  m.request.step >= row.step /\ m.scoredAt >= row.scoredAt

(* project_scoring_result: claim, guarded upsert, intent.                  *)
Project ==
    /\ Consume("projector", results)
    /\ LET m   == results[position["projector"] + 1]
           t   == m.request.tx
           new == m.request \notin inbox
       IN  /\ inbox' = inbox \cup {m.request}
           /\ IF new /\ Accepts(m)
              THEN /\ scores' = [scores EXCEPT ![t] =
                          [request |-> m.request, step |-> m.request.step,
                           scoredAt |-> m.scoredAt]]
                   /\ intents' = Append(intents, m.request)
              ELSE UNCHANGED scoreDb
           /\ overtaken' = IF new /\ m.request.step > scores[t].step /\ ~Accepts(m)
                           THEN overtaken \cup {m.request} ELSE overtaken
    /\ UNCHANGED <<topics, graphDb, streamed, worker, replayed, refused>>

PassResult ==
    /\ Pass("projector", results)
    /\ refused' = refused \cup {results[position["projector"] + 1].request}
    /\ UNCHANGED <<replayed, overtaken>>

(* publish_redis_outbox: intents in their order.  Its mark is left out: a  *)
(* crash before it repeats an XADD that its key makes void.                *)
PublishToRedis ==
    /\ streamed < Len(intents)
    /\ streamed' = streamed + 1
    /\ UNCHANGED <<topics, group, inbox, graphDb, scoreDb, worker, history, counters>>

(***************************** The operator ********************************)

(* uuid4: an id no other event has.                                        *)
FreshId(event) == [event EXCEPT !.copy = replays]

(* replay_dlq.py --replay: the event goes back to its topic, with another  *)
(* id, however old it is, and whether or not it was replayed before.       *)
Replay(d) ==
    /\ replays > 0
    /\ replays' = replays - 1
    /\ replayed' = replayed \cup {d}
    /\ \/ /\ d.topic = "batches"
          /\ batches' = Append(batches, FreshId(d.event))
          /\ UNCHANGED requests
       \/ /\ d.topic = "requests"
          /\ requests' = Append(requests, FreshId(d.event))
          /\ UNCHANGED batches
    /\ UNCHANGED <<results, dlq, group, inbox, graphDb, scoreDb, streamed, worker, faults,
                   refused, overtaken>>

-----------------------------------------------------------------------------
WorkerStep(w) ==
    Take(w) \/ Score(w) \/ Publish(w) \/ Commit(w) \/ CommitRefused(w) \/ DeadLetter(w)

Next ==
    \/ Materialize
    \/ PassBatch
    \/ Relay
    \/ \E w \in Workers : WorkerStep(w) \/ AttemptFails(w) \/ Rebalance(w) \/ Crash(w)
    \/ Project
    \/ PassResult
    \/ PublishToRedis
    \/ \E g \in {"materializer", "projector"} : Restart(g)
    \/ \E d \in dlq : Replay(d)

(* The event loops run and containers are restarted.  Nobody has to replay *)
(* a dead letter.                                                          *)
Fairness ==
    /\ WF_vars(Materialize) /\ WF_vars(Relay)
    /\ WF_vars(Project) /\ WF_vars(PublishToRedis)
    /\ \A w \in Workers : WF_vars(WorkerStep(w))

Spec == Init /\ [][Next]_vars /\ Fairness

-----------------------------------------------------------------------------
(* Properties                                                              *)

(* The graph rows there may be: of a transaction, at a step.               *)
GraphRows ==
    UNION {{[tx |-> t, step |-> b.step] : t \in b.nodes} :
              b \in UNION {Range(s.batches) : s \in Scenarios}}

LastShown(t) ==
    LET mine == {i \in 1 .. streamed : intents[i].tx = t}
    IN  IF mine = {} THEN 0 ELSE intents[Max(mine)].step

(* End to end the services are the abstract one: whatever is lost, sent    *)
(* twice, given up or replayed from the DLQ late, a transaction's score is *)
(* never ahead of its graph row, it never goes back, neither does what the *)
(* dashboard is sent, and that catches up.                                 *)
Service == INSTANCE RiskService
              WITH observed <- graph,
                   scored   <- [t \in Txs |-> scores[t].step],
                   shown    <- [t \in Txs |-> LastShown(t)]

ImplementsService == Service!Spec

(* Nothing is to be said of the score of t at this step but what the       *)
(* environment did: it waits in the DLQ, its result's transaction was      *)
(* refused, or it lost to one of an older step.                            *)
Excused(t, step) ==
    \/ \E d \in dlq \ replayed :
          d.topic = "requests" /\ d.event.tx = t /\ d.event.step = step
    \/ \E m \in refused \cup overtaken : m.tx = t /\ m.step = step

(* "prevents committed graph state from losing its scoring request"        *)
(* (docs/architecture.md:187), followed to its end: whatever row a         *)
(* transaction gets in the graph is scored, that row or a later one.       *)
EveryRowScored ==
    \A r \in GraphRows :
        graph[r.tx] = r.step ~> scores[r.tx].step >= r.step \/ Excused(r.tx, r.step)

(* A result loses to one of an older time step, and with it the newer      *)
(* score, only if a request of that transaction was given up although      *)
(* another worker had it, or one of its results was refused: two workers   *)
(* alone, or a late replay alone, cannot bring it about.                   *)
OvertakenExplained ==
    \A m \in overtaken :
        \E r \in {d.event : d \in {e \in dlq : e.topic = "requests"}} \cup refused :
            r.tx = m.tx
=============================================================================
