# TLA+ models of the Risk Monitor pipeline

Formal models of the services in this repository: what each process does with
Kafka, PostgreSQL, Redis and its own memory, under crashes, rebalances, lost
replies and failed calls. TLC checks them on small instances, TLAPS proves the
central safety properties for instances of every size.

Paths such as `services/outbox_relay/main.py` are relative to the repository's
source tree.

## 1. The system

```
 dataset -> replay producer -> [graph-batches] -> graph materializer -> PostgreSQL
                 ^                                        |  outbox_events
                 | replay_control                         v
 browser <-> API gateway <- Redis stream <- result    outbox relay -> [scoring-requests]
                                           projector                        |
                                              ^-- [scoring-results] <- inference worker
```

| Component | State it keeps | Operations | What is hard about it | What makes it correct |
|---|---|---|---|---|
| Replay producer and replay control (`services/replay_producer`, `replay_control` row, the pages' pause button) | checkpoint row, control row, position in the dataset; the pages' wishes and their messages on the way | send a step, save the checkpoint, pause, resume, complete, reconnect | death between send and checkpoint; sessions that write the row from other processes; messages lost with their connection | steps in order and none skipped; a pause holds; completion means all is sent; the last word of a page is kept |
| Graph materializer (`services/graph_materializer`) | inbox, graph rows, checkpoint, outbox, group offset, failure count | poll, materialize, commit, dead-letter | redelivery, zombies after a rebalance, the generic `except` | graph never goes back, requests never ahead of the graph, offsets after work |
| Outbox relay (`services/outbox_relay`) | `outbox_events`, row locks, retry count | select and lock, send, mark, commit, record a failure | several relays; send and mark are in different systems | a mark implies Kafka has the row; no needless copy; every row goes out |
| Inference worker (`services/inference_worker`) | bounded queue, paused flag, group offset, attempt | fetch, pause, resume, score, publish, commit, dead-letter, stop | two coroutines, backpressure, rebalances with records queued | no request skipped; bounded queue; every request settled |
| Result projector, consumer (`services/result_projector`) | inbox, `risk_scores`, intents, group offset | project, commit, dead-letter | results out of order, clocks that disagree | one canonical score, which is intended for publication |
| Result projector, Redis publisher | intents, Redis stream, deduplication keys | lock a batch, run the script, mark, commit | two systems; a batch that fails halfway | each event once in the stream, in a transaction's order |
| API gateway, live delivery (`services/api_gateway`) with the page (`frontend`) | tail cursor, client queues, connection, the page's cursor | tail, broadcast, register, replay, send, close, reconnect | replay overlapping the live tail; slow clients; restarts; registrations nobody removes | every event once, in order; no unexplained hole; a page gets in |
| Dashboard (`frontend/src/context/WebSocketContext.tsx`) | pending list and head, pause and threshold with their refs, four bounded lists with the refs of their ids | enqueue, tick, ingest, render, pause, move the threshold, clear the alerts | one head index for two writers; refs that change at once beside lists that change when React renders | events presented in order, none lost but by a full list; the lists show the latest of what was presented |
| API gateway, REST queries and cache, with the Entity Explorer page | subgraph cache; the page's query, entity and viewer | look up, search hop by hop, cache, show | batches commit between two hops; a key that is read before the query; answers that come late | a subgraph not marked truncated lacks nothing; the page shows what belongs to its query |
| All services together, with the DLQ and `scripts/replay_dlq.py` | the topics, tables and the stream between them | one action of each service, in the steps the others can see | zombies and redeliveries of one stage meet those of the next; dead letters that come back weeks later | the abstract `RiskService`; every graph row is scored |
| Contracts, configuration, observability, migrations, model runtime, legacy simulator | - | - | - | see section 8 |

Components meet only through Kafka topics, PostgreSQL rows and the Redis
stream. Each model of one component takes what it receives from the others as
input in any order the neighbour can produce: batches in any order (an operator
may replay them), results in any order and with another clock, intents as the
projector commits them. `Pipeline` then composes them over shared topics and
tables.

## 2. Modules

| Module | Models |
|---|---|
| `GraphMaterializer` | `graph_materializer/main.py` run, `queries.py` `materialize_graph_batch`, `kafka/dlq.py` |
| `OutboxRelay` | `outbox_relay/main.py` |
| `InferenceWorker` | `inference_worker/main.py` poller, drainer, `process_record`, shutdown |
| `ScoreStore` | the abstract promise of `risk_scores` |
| `ResultProjector` | `result_projector/main.py` consumer, `project_scoring_result`; implements `ScoreStore` |
| `RedisPublisher` | `result_projector/main.py` `publish_redis_outbox`, the script in `redis/stream.py` |
| `ReplayControl` | `replay_producer/main.py`, `fetch_replay_control` and `update_replay_control`, `websocket_receiver`, `setPaused` and `onopen` of the page |
| `StreamDelivery` | `broadcaster.py`, `websocket_handler`, `websocket_sender`, `WebSocketContext.tsx` |
| `Dashboard` | `WebSocketContext.tsx`: `enqueueTransaction`, the timer, `ingestTransaction`, `setPaused`, `setThreshold`, `clearAlerts` |
| `RiskService` | the abstract promise of the whole pipeline for a transaction |
| `Pipeline` | the loops of materializer, relay, workers, projector and publisher over shared topics, with `replay_dlq.py`; implements `RiskService` |
| `Investigation` | `EntityExplorer.tsx`, `SubgraphViewer.tsx`, the gateway's `entity` and `subgraph`, `get_bounded_subgraph`, `subgraph_cache_key` |
| `MC...` | the constants of the instances TLC checks |
| `..._proofs` | theorems and proofs |

A variable carries the name of what it models (`committed` the group's offset,
`inbox` the rows of `consumer_inbox`, `failures` the loop's
`consecutive_failures`). A `pc` names the await at which a process is; one
action is the code from there to the next await or commit. The common rules:

- A database transaction is one step. PostgreSQL makes it atomic, and the row
  that each of them inserts first, or its row locks, orders two that compete.
  Where READ COMMITTED does *not* order them, the model has two steps: the
  status of `ReplayControl` is read in one and written in another. Row locks
  that are held across awaits (both outboxes) are modelled as such.
- A Kafka partition is an immutable sequence with an offset committed by the
  group. One partition is modelled; partitions do not share state, except that
  those of one worker share its queue.
- A call that raises is given both outcomes, done and not done, where the caller
  cannot tell them apart. A graceful stop that does no more than leave the loop,
  and an exception that ends the process, are crashes.
- A message is a record of what the code compares: its event id, its validity,
  watermarks, times, sets of nodes and edges. Features, scores and traces are
  left out.
- A definition whose comment begins with `Mutation:` is not part of the
  specification. It is the neighbouring definition with a plausible bug, and it
  is there to show that the property named beside it in `PROJECT.json` would
  notice that bug.

### How actions correspond to the code

*GraphMaterializer and ResultProjector.* `Poll` is `getone()` and the
validation; `Materialize`/`Project` the whole transaction of a valid message
(`Transaction` is the inbox claim and all that it guards); `CommitOffset` is
`commit_record` and the reset of the failure count; `PublishDeadLetter` and
`CommitDeadLetter` the handler of the permanent errors; `HandleFailure` the
generic `except`, which counts, sleeps, and goes round **without seeking back**,
so that `position` stays where it is. `Rebalance` moves the partition while the
old owner keeps its record: there is no rebalance listener, and a zombie's
commit is refused (`CommitRefused`).

*OutboxRelay and RedisPublisher.* `SelectBatch` locks rows that no other process
has locked (`FOR UPDATE SKIP LOCKED`). `Send`/`Publish` handles the next row of
the batch, `CommitBatch` makes the marks visible and frees the locks. Every
exception rolls the batch back (`RollBack`); the relay's `record_failure` then
runs outside the lock. The relay calls the database for the select and for the
commit, and not between the two: a session that PostgreSQL ends there
(`SessionLost`) has lost its locks while the relay sends on, until its commit
raises (`CommitFails`). Rows it sends by then may be another relay's, or published.
`lost` holds the relays in that state, and `Locked` leaves them out. The publisher
to Redis queries the payload of every row, so it publishes at most one row after
its session has ended (`PublishUnlocked`).

*InferenceWorker.* `Fetch` is the `getmany` whose limit is the room in the
queue, `PauseWhenFull` and `Resume` set the poller's flag, `quiet` is the state
inside the consumer. The attempt loop holds score, publish *and* commit. `Stop`
cancels the poller; `InferenceTimesOut` is `asyncio.wait_for` giving up, and after
the last attempt `DeadLetterInvalid` the `ValidationError` of a dead letter
without an error message, which ends the process; `StopDrained` is a drainer that finished in time,
`StopTimesOut` the shutdown timeout.

*ReplayControl.* `ReadControl` is `fetch_replay_control` before each step, with
its insertion of a missing row; `ReadStatus` and `WriteStatus` are the two
statements of a session's transaction. Only when the first one inserts the row
does it hold a lock; then both are one step. A page speaks through its
connection: `Click` sends a message if the socket is open, `Open` repeats the
pause of a page that is paused (`onopen`), and `Break` ends a connection, with
what the gateway has received still on its way or cancelled, or reloads the
page, which is not paused then. `unheard` holds the pages whose last word the
gateways may not have.

*StreamDelivery.* `XRead` is the moment an XREAD reaches Redis, where "$" is
resolved and what is there is the reply; `Publish` answers the ones that block;
`XReadReturns` broadcasts a reply, which the code does without an await.
`Connect` registers the client before `Fetch` reads the replay, `SendQueued`
drops what the replay has sent. `SendTimesOut` is the `TimeoutError` of a send
that the sender takes for a quiet queue: the frame is in the transport by then,
and the heartbeat that follows carries the entry before. `HasRoom` is the capacity
check of `register`, and `LeaveBehind` the client that stays registered when its
connection ends before the `try` whose `finally` removes it: `Broadcast` fills
its queue and removes it when that overflows.

*Dashboard.* `Enqueue` is `enqueueTransaction`, `Tick` the timer and the whole of
`ingestTransaction`, which hands updaters to React; `Render` makes them, in
order: `Updated` is one of them on all four lists, `Rendered` all that wait, as
recursive functions, which the proofs can follow. `Listed` is the updater of
transactions, alerts and nodes (`Without` is its `filter`), `Linked` that of the
edges (`Added` is its loop), each with the ref it keeps. `ClearAlerts` empties the ref at once
and the list in an update of its own. `SeenByTimer` is the effect that copies
`isPaused` to the ref the timer reads.

*Pipeline.* `Materialize`, `Project` and `PublishToRedis` are one transaction
each; `Relay` sends one row of a batch, whose marks are committed with its last
row or not at all, so that a batch that fails is sent again as a whole; `Consume` is a round of a consumer's loop, which commits, or
dies before that. A worker has the steps `Take`, `Score`, `Publish` and `Commit`,
because another worker can come between; `AttemptFails`, `CommitRefused` and
`DeadLetter` are the outcomes of its attempt loop. `Pass` is the generic `except`
after a refused transaction. `Replay` puts a dead letter back with a fresh event
id, at any time and any number of times.

*Investigation.* One action per await of `subgraph()`: `FetchWatermark`,
`CacheHit` or `CacheMiss`, `FindCenter`, a `Hop` per statement of the search
(READ COMMITTED gives each a snapshot of its own), `Assemble`, `Store`. `Expand`
is the body of the loop, with both of its cuts: the first `max_edges` rows of
the hop, and the new ids in the order of the rows while there is room; `Subgraph`
is the third cut. `DoSearch` is `doSearch` up to its await, `EntityFound` and
`EntityMissing` what follows, and the mounting of the viewer when
`entityData && queryId && !loading` becomes true; `Receive` is the viewer's
`active` guard.

## 3. Runs and what they show

`P` marks runs that pass, `V` runs in which TLC finds the violation of something
the repository says of itself (section 5).

| Run | Instance | Shows |
|---|---|---|
| `GraphMaterializer` P | 2 replicas, 3 messages out of 4 kinds (early, late, malformed, refused by PostgreSQL), 1 fault of each kind; 560 000 states | only refused batches are passed over; the graph and its requests agree; materialization is in order; every batch is accounted for |
| `GraphMaterializerSkip` V | valid batches, 1 refused transaction | `CommittedSettled` fails |
| `OutboxRelay` P | 2 relays, 2 rows, 2 Kafka faults, 1 crash, 1 database fault or lost session; 559 000 states | marks only on accepted rows, no copy without a fault, none after the mark but by a relay whose session ended in its batch, every row goes out |
| `InferenceWorker` P | 2 workers, 3 requests (permanent, good, slow), queue of 2, 2 attempts, 1 fault of each kind; 319 000 states | no request skipped, dead letters only after all attempts, every request settled up to the slow one |
| `InferenceWorkerTimeout` V | 4 requests, one of each kind, no fault | `TimeoutsDeadLettered` fails |
| `ResultProjector` P | 2 replicas, 2 messages out of 5, 2 rebalances, 2 lost replies; 600 000 states | canonical score unbeaten and intended; `ScoreStore` implemented; every result accounted for |
| `RedisPublisher` P | 2 publishers, 3 intents of 2 transactions, batches of 2; 458 000 states | each event once, in order until publishers overlap, all published |
| `ReplayControl` P | 2 pages, 2 sessions, 2 steps, 3 clicks, 3 exits or broken connections; 962 000 states | steps in order, a pause holds, completion is true and, once no session is between its statements, final, a page's last word is kept, the replay ends |
| `StreamDelivery` P | 2 gateways with room for 1 client, 3 events, replay limit 1, queue of 1, stream of 2, 2 faults of any kind; 394 000 states | each event once and in order; holes only from a limit, a trim or "$"; every event arrives or is passed over; a page stays out only when clients left behind fill every gateway |
| `Dashboard` P | 5 events of 3 transactions in a triangle, lists, edges and pending list of 2, splice after 1, 3 updates between renders, 2 clicks; 587 000 states | the pending list is bounded, presents in order and loses only what a full list pushed out; the page shows the latest of what was presented; nothing waits for ever |
| `Pipeline` P | 2 workers, 2 transactions, 2 batches in two scenarios (2 faults and 1 replay, or an edge that comes too early with 1 fault and 2 replays); 460 000 states | `RiskService` implemented; every graph row scored unless given up, refused or overtaken; overtaking only after a request was given up or a result refused |
| `Investigation` P | 5 transactions on a path of 4 edges that comes in 3 batches, 3 hops, 4 nodes, 3 edges; 2 searches, 2 requests, 2 faults; 28 000 states | a subgraph not marked truncated has the neighbourhood of its watermark, no subgraph has more than there is; the page shows what belongs to its query |

*Why the bounds are enough.* The properties relate at most two messages (an
earlier and a later one, one that failed and the one whose commit covers it),
so three messages give every such pair a neighbour, and two replicas every pair
of a zombie and an owner. A retry budget of two separates the last failure from
the others. One fault of each kind lets every combination of different faults
happen; where two of one kind matter (a lost reply in each of two replicas, a
partition that moves away and back, a row whose send fails twice) the bound is
two. In `StreamDelivery` the limits are the smallest that can overflow: a replay
that is cut off, a reply longer than the queue, a stream that is trimmed. In
`Investigation` they are the smallest for which each of the three cuts happens
and some searches have none; two requests are enough for one to read what the
other cached, and for one to answer after the other has replaced it. In
`Dashboard` five events are the fewest for which a list of two is pushed over,
spliced, and listed again under ids that left it; three updates let a clear
stand between two alerts of one render. In `Pipeline` two faults are the fewest
after which a newer score is overtaken (a rebalance, and a refusal or the end of
the zombie's attempts), and two replays let one dead letter come back before
and after its successor, or twice. In the
two-row run of `OutboxRelay` the `LIMIT` never cuts a batch; the three-row run of
`RedisPublisher`, whose select is the same, has it do so, and the proofs hold
for every batch size.

`CHECK_DEADLOCK FALSE` stands where the model comes to rest: everything
consumed and the bounds used up.

## 4. Fairness

Weak fairness of each process's own step, the restart included. An event loop
runs what is ready; the containers have `restart: unless-stopped` in
`docker-compose.yml`, and the Deployments restart theirs. No fairness is assumed
of a fault, of new input, of a rebalance, or of a browser's commands. The replay
producer is the exception in `docker-compose.yml` (`restart: "no"`):
`EveryStepProduced` holds where somebody restarts it, as
`infra/kubernetes/base/workloads.yaml` does, and for replays that are not left
paused, nor by a page whose resume went unheard. The page reconnects because its
`onclose` always sets the timer. In `Dashboard` the timer and React's rendering
are fair; the analyst is not, so `EveryEventPresented` is about pages that are
not left paused. In `Pipeline` nobody has to replay a dead letter.

## 5. What the code does not do as it says

1. *A failed transaction is passed over* (`GraphMaterializerSkip`; the result
   projector's loop is the same). `docs/architecture.md` says that offsets are committed
   only after the durable work and that processing pauses while PostgreSQL is
   away. The generic `except` sleeps and polls the **next** message, whose commit
   covers the failed one. `CommittedAccounted`, which is proved, says that this is
   the only way a message is passed over. A consequence that no test shows: a
   message the database refuses every time never reaches the DLQ. Alone it is
   dropped with the next commit; as many of them in a row as `retry_max_attempts`
   end the process before anything is committed, and the restarted process meets
   them again. `EveryBatchAccounted` therefore leaves such topics out.
2. *A request whose inference times out ends the worker*
   (`InferenceWorkerTimeout`). `process_record` has a `failure_stage` for it, but
   the `TimeoutError` of `asyncio.wait_for` has an empty message, and
   `DeadLetterPayloadV1` wants at least one character: `publish_dead_letter`
   raises, `run()` ends, and the restarted worker meets the request again. Where
   that happens every time, nothing behind it in the partition is settled;
   `EveryRequestSettled` says that nothing else holds a request back.

More limits are part of properties that hold:

- *Completion is terminal only once no session is between its two statements.*
  `api_gateway/main.py:448` says that completion is terminal for a replay run, but
  `websocket_receiver` checks the status in one statement and writes it in another;
  a resume that has read "running" may write it over "completed", and the finished
  producer, which waits to be stopped, never sets it right. `CompletionSettles`, checked and proved, is the exact limit: after that window nothing takes the
  row off "completed". For the same reason an old session of a page may write over
  what the page has said in a new one.
- *A resume may go unheard.* `setPaused` sends only if the socket is open, `onopen`
  repeats a pause and not a resume, and a reloaded page has forgotten its pause.
  `LastWordHolds` and `EveryStepProduced` except the pages in `unheard`: with one of
  them the replay may stay paused while every page shows it running.
- *A newer score can lose to an older one for good.* The upsert compares watermark
  *and* scoring time. A request of an older step that is scored again later stamps
  the row with a later time, and the result of the newer step, scored before,
  is refused. `OvertakenExplained` says when: only after a request of that
  transaction was given up although another worker had it, or one of its results
  was refused by PostgreSQL. Neither a second worker alone nor a late replay alone
  is enough.
- *A good request may be dead-lettered.* The commit is inside the attempt loop;
  after a rebalance every attempt scores, publishes, and is refused the commit. An
  outage as long as all the attempts has the same effect. `GivenUpAfterAttempts`
  allows for both.
- *A quiet stream keeps registrations.* A connection that ends in `accept`, in
  `replay_telemetry` or in its first message leaves its client registered until its
  queue overflows. Events free the place; after the end of a replay none come, and
  `PageGetsIn` and `EveryEventReaches` except a gateway that is full of such clients.
- *Holes in the stream.* `HolesExplained` counts a replay that is cut off by its
  limit among the causes of a hole, of which the page is not told, and a gateway
  that has read no entry yet: its cursor is "$", resolved anew by each XREAD, so
  an entry between two of them is lost to its clients.
- *The page remembers a thousand ids.* A page that reconnects is replayed from its
  cursor and skips what it knows. `IngestedInOrder` holds as long as the
  connections that ended and the late frames are together no more than the ids it
  remembers (`WebSocketContext.tsx:338`). With one id, TLC shows how a send that
  timed out, a lost connection and another late frame make it take an event twice.
- `StreamInOrder` stops holding once two publishers have held batches at one time
  (the Kubernetes manifests run two replicas).
- *Alerts beyond their limit.* `clearAlerts` empties the ref of ids at once, the list
  when React renders; the updater of an alert that was handed over before runs in
  between. Its id stays in the ref, and the next alert of that transaction is added
  to the list without the cut. `PageShowsLatest` allows for it: what such a list
  shows is right, but it may be longer than `MAX_VISIBLE_TRANSACTIONS`.
- `ShownOfQuery` excepts the entity once searches have overlapped: `doSearch` takes
  any answer for the current one's, so the page may show the entity of an earlier
  search beside the subgraph of the later one.

## 6. Proofs

All theorems are of the form `Spec => []P`, `Spec => [][A]_vars` or
`Spec => Abstract!Spec`, for every value of the constants. They assume only the
named `ASSUME`s of the modules: retry budgets and batch sizes are positive, ids
determine batches, a batch has finitely many transactions and edges, the neighbors
of an event are a list, bounds are numbers.

| Module | Theorem | Argument |
|---|---|---|
| `GraphMaterializer_proofs` | `TypeCorrect` | `TypeOK` with `RecordOK`: a replica that handles a message holds an index of the topic |
| | `WatermarksMonotone`, `RequestsFollowGraph`, `ClaimsComplete`, `CheckpointIsExact` | each is inductive over the one transaction that writes the database; the `WHERE` of the upserts is what carries them |
| | `CommittedIsAccounted`, `MaterializesInOrder` | `DurableInv`: whatever precedes a replica's position, and the record itself once it may be committed, is settled or was refused. The committed offset alone is not inductive: what a zombie commits was accounted for when *it* polled it |
| `OutboxRelay_proofs` | `TypeCorrect`, `MarksAccepted` | marks of an open batch are accepted rows, so those that commit are |
| | `ResentByLoss` | mutual exclusion, `LockInv`: what relays with a session have locked is disjoint and contains no published row, so only a relay in `lost` holds one |
| | `DuplicatesBounded` | `CopiesInv`: a row with one copy more than there were faults is marked, by a commit or in an open batch whose session lasts; what unmarks a row is a fault. The copies that relays without a session have yet to send (`Unlocked`) are counted when the session ends, so that sending them needs no new fault |
| `InferenceWorker_proofs` | `TypeCorrect`, `PauseIsKnown` | `TypeInv`: a drainer has a record except between two, a worker that is down has nothing; the flags follow on their own |
| | `CommittedIsSettled` | `DurableInv`: whatever precedes a record is settled, in the drainer, or queued before it, and what the owner has fetched is settled or with it. It holds of stale queues too, which the code keeps when the partition moves, and so of what a worker commits once it owns the partition again |
| | `GivenUpIsEarned` | `EarnedInv`: while no live worker has lost the partition, who holds records owns it, so no commit is refused, and the attempts at a good record are at most one more than the faults |
| `ResultProjector_proofs` | `TypeCorrect`, `StoredIsIntended`, `CanonicalIsUnbeaten`, `CommittedIsAccounted` | as above, with what has been claimed as history |
| | `StoreImplemented` | refinement: a step that claims an event is `ScoreStore!Take`, every other step stutters |
| `RedisPublisher_proofs` | `TypeCorrect`, `EventsOnce`, `MarksInStream` | `StreamInv`: an event in the stream still has its key as long as it is unmarked or in anybody's batch, locked or not |
| | `TransactionsInOrder` | `OrderInv`: stream and batches are closed under "earlier intent of the same transaction" as long as no two publishers overlap |
| `ReplayControl_proofs` | `TypeCorrect`, `ReplayIsInOrder`, `CompletedIsSent` | `PositionInv`: the topic is at most one step ahead of the checkpoint, and the producer handles the step after it |
| | `PauseIsKept` | `PauseInv`: a batch that is past its look at the row has seen no pause |
| | `LastWordIsKept` | `LinkInv`: a session belongs to the page that opened it. `WordInv` follows the last message on its way from each page: it says what the page shows, and when none is on its way, what the page wrote last does. Without the messages on the way the property is not inductive |
| | `CompletionIsSettled` | a step from "completed" with no open transaction leaves both as they are: every session finds "completed" and writes nothing |
| `Page_proofs` | `ShownBelongs` | `PageInv`: the viewer's current effect is for the query, an open search looks up the query or has been overlapped, and without an entity there is no effect |
| | `ServesTheNeighbourhood` | `SearchInv`, hop by hop: what was found is within so many hops in the graph of now; unless it was cut, it has everything that is within so many hops in the graph of the watermark, and behind its frontier every edge. `CacheInv` says the same of what is stored for others. Rests on induction over the hops (`AroundSteps`, `AroundGrows`, `AroundClosed`), which `NumbersByInduction` derives from the library's theorem on minimal elements |
| | `ExplorerTypes` | the same invariant with `FewComeFirst`: of finitely many in an order at most n have fewer than n before them, so that both cuts keep to their limits |
| | `PresentsInOrder`, `PendingIsBounded` | `BacklogInv`: what is pending are the last events that came in, place by place counted from the end, so that a splice, which moves all places, changes none of it; everything before them is presented or was pushed out; a head that was not cut off is short |
| | `PageShowsWhatIsLatest` | `ListsInv`: the lists are those of the first events presented, as many as are rendered, and the updates lead from there to all of them (`Placed` gives each update its place). A list shows the last event of each transaction, newest first, up to its limit; its ref has the ids of the list, no more and no fewer, unless the queue was cleared with an alert on its way; before that clear is rendered the list of alerts may be anything and its ref is empty. `ListedShows`, `LinkedShows`, `AlertedShows`: each updater leads from the right lists to the right lists. What `filter` and the loop over neighbors compute is by induction (`WithoutLeaves`, `AddedNew`, `RenderedShows`), that the list is the first part of `Newest` by counting (`ListIsFirst`) |
| | `PageTypesHold` | from `ListsInv`, `BacklogInv` and the types of what neither speaks of |
| | `DeliveryTypes` | a registered client has a place at its gateway; without it a step that frees a place frees none |
| | `HolesAreExplained` | `ReplayCovered`, `TailCovered`, `TakenCovered`: whatever precedes an event of the page, of its replay, or the position of its gateway's tail is with the page, on its way to it, or passed over. `CursorInv` says what the gateway knows of the page's cursor |
| | `IngestsInOrder` | `QueueInv`: what is on its way is in order but for frames that are late. `AheadInv`: the page is ahead of its cursor by at most one event per late frame, so that what it gets again it still remembers |
| `Pipeline_proofs` | `ImplementsServiceSafely` | refinement of `RiskService` without its fairness, action by action, from the types and from: no request, result or score is of a later step than its graph row, and intents are in order |
| | `RequestsSettledInOrder` | `NoneSkipped` over the committed offset, the worker's position and its record: what a worker has published comes after requests that are settled |
| | `OvertakenIsExplained` | while no request was given up under another worker and no result was refused, `PublishedInOrder` and `ResultsInOrder` keep the results of a transaction in the order of its requests, and `BeforeClock` their times, so that the upsert takes the newer one |

The strengthened invariants were checked by TLC as invariants of the same
instances before they were proved.

Only model-checked: every liveness property (TLAPS does not prove liveness
under fairness) and the liveness half of `ImplementsService` with it: every
safety property of a run that passes is proved. Only proved, and in no run, are
`RequestsSettledInOrder`, `WatermarksMonotone`, `CheckpointIsExact`, `PauseIsKnown`, `MarksInStream`,
`DeliveryTypes`, and the `TypeCorrect` of the modules whose run does not list
`TypeOK`.

## 7. Assumptions of the models

- A Redis deduplication key (a day) outlives the retries of its row (seconds), and the batch of a publisher that has lost its session:
  `ExpireKey` takes only keys of marked rows that are in nobody's batch.
- The event id is a function of stream and time step
  (`contracts/ids.py`), so equal ids are equal batches.
- One replay producer runs (one replica, `Recreate`).
- Rows of `transaction_nodes` and `transaction_edges` are never deleted (nothing
  in the code does), so a node that was found is there when its row is read.
- The Entity Explorer stays mounted, outside React's StrictMode.
- The production build of the page: in development React's StrictMode runs every
  updater twice, and updaters that change a ref are not made for that.
- React runs the updaters of one list in the order they were handed over, and
  all of them by the next render. (It may run the first one earlier, which only
  makes the race with `clearAlerts` rarer.)
- A click of the analyst is rendered, with its effects, before the next event of
  the page.
- In `Pipeline` all hosts have one clock: workers whose clocks disagree are in
  `ResultProjector`.
- Redis keeps the stream: its loss is not modelled.
- A send that times out has been written to the transport, as uvicorn's
  `websockets` implementation does before it drains.

## 8. Not modelled

The numeric model and its features, log and metric output, tracing, migrations
and infrastructure files keep no state that a property is about. The legacy
demonstration (`streaming/`, `api/main.py`) was replaced by the services.
Notebooks and benchmarks (`notebooks/`, `scripts/benchmark.py`) explore the data or drive
the services from outside. Pydantic contracts appear
as the form of a message; `contracts/compatibility.py` compares two JSON schemas in
continuous integration and is no part of the running system. Thresholds and speeds
that a page sends to its gateway do not change what is delivered. A lag
gauge that raises *is* modelled, as a failure after the commit
(`CommitUnavailable`), since it ends up in the generic `except`. Of the page, demo
mode, latencies, throughput and the views that only draw are left out.

## 9. Plan

Done, in this order: `GraphMaterializer`, `OutboxRelay`, `InferenceWorker`,
`ResultProjector` over `ScoreStore`, `RedisPublisher`, `ReplayControl`,
`StreamDelivery`, `Investigation`, `Pipeline` over `RiskService`, `Dashboard`;
theorems for every component, the composition and its refinement included.

Next, by weight:

1. Risk scores in `Investigation`: a cached subgraph shows scores up to the time
   to live late.
2. Contract compatibility (`contracts/compatibility.py`) as a pure function.
