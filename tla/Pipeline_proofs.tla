-------------------------- MODULE Pipeline_proofs --------------------------
(***************************************************************************)
(* What holds of the services together, for any transactions, batches and  *)
(* workers and any number of faults and replays: they do no step that      *)
(* RiskService does not allow, and a result loses to one of an older time  *)
(* step only for a reason.                                                 *)
(***************************************************************************)
EXTENDS Pipeline, SequenceTheorems, FiniteSetTheorems, TLAPS

-----------------------------------------------------------------------------
(* Types                                                                   *)

Requests == [tx : Txs, step : Nat \ {0}, batch : Nat, copy : Nat]
Results  == [request : Requests, scoredAt : Nat]
Letters  == [topic : {"batches"}, event : Batch] \cup [topic : {"requests"}, event : Requests]
Rows     == [request : Requests, step : Nat, scoredAt : Nat] \cup {NoScore}
PCs      == {"idle", "score", "publish", "commit", "dead_letter", "commit_dead"}

TopicsOK ==
    /\ batches \in Seq(Batch)
    /\ requests \in Seq(Requests)
    /\ results \in Seq(Results)
    /\ dlq \subseteq Letters

PlacesOK ==
    /\ position \in [Groups -> Nat] /\ committed \in [Groups -> Nat]
    /\ position["workers"] <= Len(requests) /\ committed["workers"] <= Len(requests)
    /\ position["projector"] <= Len(results) /\ committed["projector"] <= Len(results)

StoresOK ==
    /\ graph \in [Txs -> Nat]
    /\ outbox \in Seq(Requests)
    /\ {marked, sent, upto} \subseteq 0 .. Len(outbox)
    /\ scores \in [Txs -> Rows]
    /\ intents \in Seq(Requests) /\ streamed \in 0 .. Len(intents)

WorkersOK ==
    /\ pc \in [Workers -> PCs]
    /\ record \in [Workers -> 0 .. Len(requests)]
    /\ scoredAt \in [Workers -> Nat]
    /\ clock \in Nat
    /\ Workers # {} => owner \in Workers
    /\ \A w \in Workers : pc[w] # "idle" => record[w] # 0

CountersOK ==
    /\ faults \in Nat /\ replays \in Nat
    /\ refused \subseteq Requests /\ overtaken \subseteq Requests

TypeOK == TopicsOK /\ PlacesOK /\ StoresOK /\ WorkersOK /\ CountersOK

(* What a sequence is, and what appending to it does.                      *)
LEMMA Elements ==
    ASSUME NEW S, NEW s \in Seq(S)
    PROVE  /\ Len(s) \in Nat /\ DOMAIN s = 1 .. Len(s)
           /\ \A i \in DOMAIN s : s[i] \in S
  BY LenProperties, ElementOfSeq

Extends(s, t) == \A i \in DOMAIN s : i \in DOMAIN t /\ t[i] = s[i]

LEMMA Appended ==
    ASSUME NEW S, NEW s \in Seq(S), NEW e \in S
    PROVE  /\ Append(s, e) \in Seq(S)
           /\ Len(s) \in Nat /\ Len(Append(s, e)) = Len(s) + 1
           /\ DOMAIN Append(s, e) = DOMAIN s \cup {Len(s) + 1}
           /\ Append(s, e)[Len(s) + 1] = e
           /\ Extends(s, Append(s, e))
  <1>1. /\ Append(s, e) \in Seq(S)
        /\ Len(Append(s, e)) = Len(s) + 1
        /\ \A i \in 1 .. Len(s) : Append(s, e)[i] = s[i]
        /\ Append(s, e)[Len(s) + 1] = e
    BY AppendProperties
  <1>2. Len(s) \in Nat /\ DOMAIN s = 1 .. Len(s)
    BY Elements
  <1>3. DOMAIN Append(s, e) = 1 .. Len(Append(s, e))
    BY <1>1, Elements
  <1>4. 1 .. Len(s) + 1 = (1 .. Len(s)) \cup {Len(s) + 1}
    BY <1>2
  <1>. QED BY <1>1, <1>2, <1>3, <1>4 DEF Extends

(* The requests of a batch: it has finitely many transactions.             *)
LEMMA RequestsOfBatch ==
    ASSUME NEW b \in Batch
    PROVE  SetToSeq({RequestOf(t, b) : t \in b.nodes}) \in Seq(Requests)
  <1>. DEFINE R == {RequestOf(t, b) : t \in b.nodes}
              f == [t \in b.nodes |-> RequestOf(t, b)]
  <1>1. IsFiniteSet(b.nodes) /\ b.nodes \subseteq Txs /\ b.step \in Nat \ {0} /\ b.copy \in Nat
    BY DEF Batch
  <1>2. R \subseteq Requests
    BY <1>1 DEF RequestOf, Requests
  <1>3. f \in Surjection(b.nodes, R)
    BY DEF Surjection
  <1>4. IsFiniteSet(R)
    BY <1>1, <1>3, FS_Surjection
  <1>. HIDE DEF R, f
  <1>5. /\ Cardinality(R) \in Nat
        /\ \E g \in [1 .. Cardinality(R) -> R] : IsInjective(g)
    BY <1>4, FS_CardinalityType DEF ExistsBijection, Bijection, Injection
  <1>6. SetToSeq(R) \in [1 .. Cardinality(R) -> R]
    BY <1>5 DEF SetToSeq
  <1>7. SetToSeq(R) \in Seq(R)
    BY <1>5, <1>6, SeqDef
  <1>8. SetToSeq(R) \in Seq(Requests)
    BY <1>2, <1>7, SeqMonotonic
  <1>. QED BY <1>8 DEF R

LEMMA InitType == Init => TypeOK
  <1>. SUFFICES ASSUME Init PROVE TypeOK
    OBVIOUS
  <1>1. batches \in Seq(Batch) /\ faults \in Nat /\ replays \in Nat
    BY ScenariosAssumption DEF Init
  <1>2. /\ requests = <<>> /\ results = <<>> /\ outbox = <<>> /\ intents = <<>>
        /\ \A S : <<>> \in Seq(S) /\ Len(<<>>) = 0
    BY EmptySeq DEF Init
  <1>3. TopicsOK
    BY <1>1, <1>2 DEF Init, TopicsOK
  <1>4. PlacesOK
    BY <1>2 DEF Init, PlacesOK, Groups
  <1>5. StoresOK
    BY <1>2 DEF Init, StoresOK, Rows
  <1>6. WorkersOK
    BY <1>2 DEF Init, WorkersOK, PCs
  <1>7. CountersOK
    BY <1>1 DEF Init, CountersOK
  <1>. QED BY <1>3, <1>4, <1>5, <1>6, <1>7 DEF TypeOK

(* A consumer comes to the record it has polled, or goes back to its       *)
(* committed offset.                                                       *)
Moves(g) ==
    /\ position' \in [Groups -> Nat] /\ committed' \in [Groups -> Nat]
    /\ \A h \in Groups \ {g} : position'[h] = position[h] /\ committed'[h] = committed[h]
    /\ position'[g] \in {position[g] + 1, committed[g]}
    /\ committed'[g] \in {position[g] + 1, committed[g]}
    /\ faults' \in Nat /\ replays' \in Nat

LEMMA ConsumeMoves ==
    ASSUME TypeOK, NEW g \in Groups, NEW S, NEW topic \in Seq(S), Consume(g, topic)
    PROVE  Moves(g) /\ position[g] \in Nat /\ position[g] + 1 \in DOMAIN topic
  <1>1. /\ position \in [Groups -> Nat] /\ committed \in [Groups -> Nat]
        /\ faults \in Nat /\ replays \in Nat
    BY DEF TypeOK, PlacesOK, CountersOK
  <1>2. position[g] \in Nat /\ position[g] + 1 \in DOMAIN topic
    BY <1>1, Elements DEF Consume
  <1>3. CASE /\ position' = [position EXCEPT ![g] = @ + 1]
             /\ committed' = [committed EXCEPT ![g] = position[g] + 1]
             /\ UNCHANGED counters
    BY <1>1, <1>2, <1>3 DEF Moves, counters
  <1>4. CASE /\ Fault
             /\ position' = [position EXCEPT ![g] = committed[g]]
             /\ UNCHANGED committed
    BY <1>1, <1>2, <1>4 DEF Moves, Fault
  <1>. QED BY <1>2, <1>3, <1>4 DEF Consume

LEMMA PassMoves ==
    ASSUME TypeOK, NEW g \in Groups, NEW S, NEW topic \in Seq(S), Pass(g, topic)
    PROVE  Moves(g) /\ position[g] \in Nat /\ position[g] + 1 \in DOMAIN topic
  <1>1. /\ position \in [Groups -> Nat] /\ committed \in [Groups -> Nat]
        /\ faults \in Nat /\ replays \in Nat
    BY DEF TypeOK, PlacesOK, CountersOK
  <1>2. position[g] \in Nat /\ position[g] + 1 \in DOMAIN topic
    BY <1>1, Elements DEF Pass
  <1>. QED BY <1>1, <1>2 DEF Moves, Pass, Fault

LEMMA RestartMoves ==
    ASSUME TypeOK, NEW g \in Groups, Restart(g)
    PROVE  Moves(g)
  BY DEF TypeOK, PlacesOK, CountersOK, Moves, Restart, Fault

(* The projector does not come past the end of its topic.                  *)
LEMMA MovesKeepPlaces ==
    ASSUME TypeOK, NEW g \in {"materializer", "projector"}, Moves(g),
           UNCHANGED <<requests, results>>,
           g = "projector" => \/ position[g] + 1 \in DOMAIN results
                              \/ position'[g] = committed[g] /\ committed' = committed
    PROVE  PlacesOK'
  <1>1. results \in Seq(Results) /\ PlacesOK
    BY DEF TypeOK, TopicsOK
  <1>2. Len(results) \in Nat /\ DOMAIN results = 1 .. Len(results)
    BY <1>1, Elements
  <1>3. position'["workers"] = position["workers"] /\ committed'["workers"] = committed["workers"]
    BY DEF Moves, Groups
  <1>4. position'["projector"] <= Len(results) /\ committed'["projector"] <= Len(results)
    BY <1>1, <1>2 DEF Moves, Groups, PlacesOK
  <1>. QED BY <1>1, <1>3, <1>4 DEF Moves, PlacesOK

LEMMA MaterializeType ==
    ASSUME TypeOK, Materialize
    PROVE  TypeOK'
  <1>. DEFINE b == batches[position["materializer"] + 1]
  <1>1. batches \in Seq(Batch) /\ TopicsOK /\ StoresOK /\ WorkersOK /\ CountersOK
    BY DEF TypeOK, TopicsOK
  <1>2. Consume("materializer", batches)
    BY DEF Materialize
  <1>3. "materializer" \in Groups
    BY DEF Groups
  <1>4. Moves("materializer") /\ position["materializer"] + 1 \in DOMAIN batches
    BY <1>1, <1>2, <1>3, ConsumeMoves
  <1>5. b \in Batch
    BY <1>1, <1>4, Elements
  <1>6. UNCHANGED <<batches, requests, results, marked, sent, upto, scoreDb, streamed, worker,
                    history>>
    BY DEF Materialize, relay
  <1>7. PlacesOK'
    BY <1>4, <1>6, MovesKeepPlaces
  <1>8. WorkersOK' /\ CountersOK'
    BY <1>1, <1>4, <1>6 DEF WorkersOK, CountersOK, Moves, worker, history
  <1>. HIDE DEF b
  <1>9. /\ dlq' = dlq \/ dlq' = dlq \cup {[topic |-> "batches", event |-> b]}
        /\ \/ UNCHANGED <<graph, outbox>>
           \/ /\ graph' = [t \in Txs |-> IF t \in b.nodes /\ graph[t] <= b.step
                                         THEN b.step ELSE graph[t]]
              /\ InsertRequests(b)
    BY DEF Materialize, b
  <1>10. TopicsOK'
    BY <1>1, <1>5, <1>6, <1>9 DEF TopicsOK, Letters
  <1>11. StoresOK'
    <2>1. CASE UNCHANGED <<graph, outbox>>
      BY <1>1, <1>6, <2>1 DEF StoresOK, scoreDb
    <2>2. CASE /\ graph' = [t \in Txs |-> IF t \in b.nodes /\ graph[t] <= b.step
                                          THEN b.step ELSE graph[t]]
               /\ InsertRequests(b)
      <3>1. graph' \in [Txs -> Nat]
        BY <1>1, <1>5, <2>2 DEF StoresOK, Batch
      <3>2. /\ outbox' \in Seq(Requests)
            /\ Len(outbox') = Len(outbox) + Len(SetToSeq({RequestOf(t, b) : t \in b.nodes}))
        BY <1>1, <1>5, <2>2, RequestsOfBatch, ConcatProperties DEF StoresOK, InsertRequests
      <3>3. /\ Len(outbox) \in Nat
            /\ Len(SetToSeq({RequestOf(t, b) : t \in b.nodes})) \in Nat
        BY <1>1, <1>5, RequestsOfBatch, Elements DEF StoresOK
      <3>. QED BY <1>1, <1>6, <3>1, <3>2, <3>3 DEF StoresOK, scoreDb
    <2>. QED BY <1>9, <2>1, <2>2
  <1>. QED BY <1>7, <1>8, <1>10, <1>11 DEF TypeOK

LEMMA RelayType ==
    ASSUME TypeOK, Relay
    PROVE  TypeOK'
  <1>1. TopicsOK /\ PlacesOK /\ StoresOK /\ WorkersOK /\ CountersOK
    BY DEF TypeOK
  <1>2. outbox[sent + 1] \in Requests
    BY <1>1, Elements DEF StoresOK, Relay
  <1>3. requests \in Seq(Requests) /\ requests' = Append(requests, outbox[sent + 1])
    BY <1>1 DEF TopicsOK, Relay
  <1>4. /\ requests' \in Seq(Requests) /\ Len(requests) \in Nat
        /\ Len(requests') = Len(requests) + 1
    BY <1>2, <1>3, Appended
  <1>5. /\ UNCHANGED <<batches, results, dlq, group, graph, outbox, scoreDb, streamed, worker,
                       history>>
        /\ UNCHANGED counters \/ Fault
    BY DEF Relay
  <1>6. TopicsOK'
    BY <1>1, <1>4, <1>5 DEF TopicsOK
  <1>7. PlacesOK'
    BY <1>1, <1>4, <1>5 DEF PlacesOK, group, Groups
  <1>8. StoresOK'
    <2>1. Len(outbox) \in Nat /\ {marked, sent, upto} \subseteq 0 .. Len(outbox)
      BY <1>1, Elements DEF StoresOK
    <2>2. sent + 1 \in 0 .. Len(outbox)
      BY <2>1 DEF Relay
    <2>3. {marked', sent', upto'} \subseteq 0 .. Len(outbox)
      BY <2>1, <2>2 DEF Relay, BatchEnds
    <2>. QED BY <1>1, <1>5, <2>3 DEF StoresOK, scoreDb
  <1>9. WorkersOK'
    BY <1>1, <1>4, <1>5 DEF WorkersOK, worker
  <1>10. CountersOK'
    BY <1>1, <1>5 DEF CountersOK, counters, Fault, history
  <1>. QED BY <1>6, <1>7, <1>8, <1>9, <1>10 DEF TypeOK

LEMMA RequestOfWorker ==
    ASSUME TypeOK, NEW w \in Workers, pc[w] # "idle"
    PROVE  /\ record[w] \in DOMAIN requests
           /\ Request(w) \in Requests /\ Result(w) \in Results
           /\ Result(w).request = Request(w) /\ Result(w).scoredAt = scoredAt[w]
  <1>1. requests \in Seq(Requests) /\ WorkersOK
    BY DEF TypeOK, TopicsOK
  <1>2. record[w] \in DOMAIN requests
    BY <1>1, Elements DEF WorkersOK
  <1>3. Request(w) \in Requests
    BY <1>1, <1>2, Elements DEF Request
  <1>. QED BY <1>1, <1>2, <1>3 DEF Result, Results, WorkersOK

(* What a worker step may do to the topics.                                *)
Delivers(w) ==
    /\ UNCHANGED <<batches, requests>>
    /\ \/ results' = results
       \/ pc[w] = "publish" /\ results' = Append(results, Result(w))
    /\ \/ dlq' = dlq
       \/ /\ pc[w] = "dead_letter"
          /\ dlq' = dlq \cup {[topic |-> "requests", event |-> Request(w)]}

LEMMA WorkerDelivers ==
    ASSUME NEW w \in Workers, WorkerStep(w) \/ AttemptFails(w) \/ Rebalance(w) \/ Crash(w)
    PROVE  Delivers(w) /\ UNCHANGED <<inbox, graphDb, scoreDb, streamed, history>>
  BY DEF WorkerStep, Take, Score, Publish, Commit, CommitRefused, DeadLetter, AttemptFails,
         Rebalance, Crash, Delivers, topics, history

LEMMA DeliversType ==
    ASSUME TypeOK, NEW w \in Workers, Delivers(w)
    PROVE  /\ TopicsOK'
           /\ Len(results) \in Nat /\ Len(results') \in Nat /\ Len(results) <= Len(results')
  <1>1. TopicsOK /\ results \in Seq(Results)
    BY DEF TypeOK, TopicsOK
  <1>2. Len(results) \in Nat
    BY <1>1, Elements
  <1>3. CASE results' = results
    <2>1. dlq' \subseteq Letters
      BY <1>1, RequestOfWorker DEF Delivers, TopicsOK, Letters
    <2>. QED BY <1>1, <1>2, <1>3, <2>1 DEF TopicsOK, Delivers
  <1>4. CASE pc[w] = "publish" /\ results' = Append(results, Result(w))
    <2>1. Result(w) \in Results
      BY <1>4, RequestOfWorker
    <2>2. results' \in Seq(Results) /\ Len(results') = Len(results) + 1
      BY <1>1, <1>4, <2>1, Appended
    <2>3. dlq' \subseteq Letters
      BY <1>1, <1>4, RequestOfWorker DEF Delivers, TopicsOK, Letters
    <2>. QED BY <1>1, <1>2, <2>2, <2>3 DEF TopicsOK, Delivers
  <1>. QED BY <1>3, <1>4 DEF Delivers

LEMMA RestType ==
    ASSUME WorkersOK, Len(requests) \in Nat, NEW w \in Workers, Rest(w)
    PROVE  /\ pc' \in [Workers -> PCs]
           /\ record' \in [Workers -> 0 .. Len(requests)]
           /\ scoredAt' \in [Workers -> Nat]
           /\ \A v \in Workers : pc'[v] # "idle" => record'[v] # 0
  <1>1. /\ pc' = [pc EXCEPT ![w] = "idle"] /\ record' = [record EXCEPT ![w] = 0]
        /\ scoredAt' = [scoredAt EXCEPT ![w] = 0]
    BY DEF Rest
  <1>. QED BY <1>1 DEF WorkersOK, PCs

LEMMA WorkerType ==
    ASSUME TypeOK, NEW w \in Workers,
           WorkerStep(w) \/ AttemptFails(w) \/ Rebalance(w) \/ Crash(w)
    PROVE  TypeOK'
  <1>1. PlacesOK /\ StoresOK /\ WorkersOK /\ CountersOK
    BY DEF TypeOK
  <1>2. Delivers(w) /\ UNCHANGED <<inbox, graphDb, scoreDb, streamed, history>>
    BY WorkerDelivers
  <1>3. TopicsOK'
    BY <1>2, DeliversType
  <1>4. StoresOK'
    BY <1>1, <1>2 DEF StoresOK, graphDb, relay, scoreDb
  <1>5. requests' = requests /\ Len(requests) \in Nat
    BY <1>2, Elements DEF Delivers, TypeOK, TopicsOK
  <1>6. CountersOK'
    <2>1. UNCHANGED counters \/ Fault
      BY DEF WorkerStep, Take, Score, Publish, Commit, CommitRefused, DeadLetter, AttemptFails,
             Rebalance, Crash
    <2>. QED BY <1>1, <1>2, <2>1 DEF CountersOK, counters, Fault, history
  <1>7. /\ \/ UNCHANGED position
           \/ /\ pc[w] = "idle" /\ position["workers"] < Len(requests)
              /\ position' = [position EXCEPT !["workers"] = @ + 1]
           \/ position' = [position EXCEPT !["workers"] = committed["workers"]]
        /\ \/ UNCHANGED committed
           \/ committed' = [committed EXCEPT !["workers"] = record[w]]
    BY DEF WorkerStep, Take, Score, Publish, Commit, CommitRefused, DeadLetter, AttemptFails,
           Rebalance, Crash, group
  <1>8. record[w] \in Nat /\ record[w] <= Len(requests)
    BY <1>1, <1>5 DEF WorkersOK
  <1>9. PlacesOK'
    <2>0. /\ position \in [Groups -> Nat] /\ committed \in [Groups -> Nat]
          /\ position["workers"] <= Len(requests) /\ committed["workers"] <= Len(requests)
          /\ "workers" \in Groups /\ "projector" \in Groups
      BY <1>1 DEF PlacesOK, Groups
    <2>1. position' \in [Groups -> Nat] /\ committed' \in [Groups -> Nat]
      BY <1>7, <1>8, <2>0
    <2>2. position'["projector"] = position["projector"]
          /\ committed'["projector"] = committed["projector"]
      BY <1>7, <2>0
    <2>3. position'["workers"] <= Len(requests) /\ committed'["workers"] <= Len(requests)
      BY <1>5, <1>7, <1>8, <2>0
    <2>4. Len(results) \in Nat /\ Len(results') \in Nat /\ Len(results) <= Len(results')
      BY <1>2, DeliversType
    <2>. QED BY <1>1, <1>5, <2>0, <2>1, <2>2, <2>3, <2>4 DEF PlacesOK
  <1>10. WorkersOK'
    <2>1. /\ pc' \in [Workers -> PCs]
          /\ record' \in [Workers -> 0 .. Len(requests)]
          /\ scoredAt' \in [Workers -> Nat]
          /\ \A v \in Workers : pc'[v] # "idle" => record'[v] # 0
      <3>1. CASE Take(w)
        <4>1. position["workers"] + 1 \in 1 .. Len(requests)
          BY <1>1, <1>5, <3>1 DEF Take, PlacesOK, Groups
        <4>. QED BY <1>1, <3>1, <4>1 DEF Take, WorkersOK, PCs
      <3>2. CASE Score(w)
        BY <1>1, <3>2 DEF Score, WorkersOK, PCs
      <3>3. CASE Publish(w) \/ DeadLetter(w)
        BY <1>1, <3>3 DEF Publish, DeadLetter, WorkersOK, PCs
      <3>4. CASE Commit(w) \/ Crash(w)
        <4>1. Rest(w)
          BY <3>4 DEF Commit, Crash
        <4>. QED BY <1>1, <1>5, <4>1, RestType
      <3>5. CASE CommitRefused(w)
        <4>1. CASE Rest(w)
          BY <1>1, <1>5, <4>1, RestType
        <4>2. CASE /\ pc[w] = "commit"
                   /\ pc' = [pc EXCEPT ![w] = "dead_letter"]
                   /\ UNCHANGED <<record, scoredAt>>
          BY <1>1, <4>2 DEF WorkersOK, PCs
        <4>. QED BY <3>5, <4>1, <4>2 DEF CommitRefused
      <3>6. CASE AttemptFails(w)
        <4>1. /\ \/ pc' = [pc EXCEPT ![w] = "score"]
                 \/ pc' = [pc EXCEPT ![w] = "dead_letter"]
              /\ pc[w] # "idle" /\ UNCHANGED <<record, scoredAt>>
          BY <3>6 DEF AttemptFails
        <4>. QED BY <1>1, <4>1 DEF WorkersOK, PCs
      <3>7. CASE Rebalance(w)
        BY <1>1, <3>7 DEF Rebalance, WorkersOK
      <3>. QED BY <3>1, <3>2, <3>3, <3>4, <3>5, <3>6, <3>7 DEF WorkerStep
    <2>2. clock' \in {clock, clock + 1} /\ owner' \in {owner, w}
      BY DEF WorkerStep, Take, Score, Publish, Commit, CommitRefused, DeadLetter, AttemptFails,
             Rebalance, Crash
    <2>. QED BY <1>1, <1>5, <2>1, <2>2 DEF WorkersOK
  <1>. QED BY <1>3, <1>4, <1>6, <1>9, <1>10 DEF TypeOK

(* The result that the projector has polled.                               *)
Polled == results[position["projector"] + 1]

LEMMA ProjectMoves ==
    ASSUME TypeOK, Project \/ PassResult
    PROVE  /\ Moves("projector") /\ position["projector"] \in Nat
           /\ position["projector"] + 1 \in DOMAIN results
           /\ Polled \in Results /\ Polled.request \in Requests
           /\ Polled.request.tx \in Txs
           /\ UNCHANGED <<topics, graphDb, streamed, worker>>
  <1>1. results \in Seq(Results) /\ "projector" \in Groups
    BY DEF TypeOK, TopicsOK, Groups
  <1>2. Consume("projector", results) \/ Pass("projector", results)
    BY DEF Project, PassResult
  <1>3. Moves("projector") /\ position["projector"] \in Nat
        /\ position["projector"] + 1 \in DOMAIN results
    BY <1>1, <1>2, ConsumeMoves, PassMoves
  <1>4. Polled \in Results
    BY <1>1, <1>3, Elements DEF Polled
  <1>5. UNCHANGED <<topics, graphDb, streamed, worker>>
    BY DEF Project, PassResult, Pass
  <1>. QED BY <1>3, <1>4, <1>5 DEF Results, Requests

(* Its row.                                                                *)
Scored == [request |-> Polled.request, step |-> Polled.request.step,
           scoredAt |-> Polled.scoredAt]

LEMMA ProjectTables ==
    ASSUME TypeOK, Project
    PROVE  /\ inbox' = inbox \cup {Polled.request}
           /\ \/ UNCHANGED scoreDb
              \/ /\ Polled.request \notin inbox /\ Accepts(Polled)
                 /\ scores' = [scores EXCEPT ![Polled.request.tx] = Scored]
                 /\ intents' = Append(intents, Polled.request)
           /\ \/ UNCHANGED overtaken
              \/ /\ Polled.request \notin inbox /\ ~Accepts(Polled)
                 /\ Polled.request.step > scores[Polled.request.tx].step
                 /\ overtaken' = overtaken \cup {Polled.request}
           /\ UNCHANGED <<replayed, refused>>
  BY DEF Project, Polled, Scored, scoreDb

LEMMA ProjectorType ==
    ASSUME TypeOK, Project \/ PassResult
    PROVE  TypeOK'
  <1>1. TopicsOK /\ StoresOK /\ WorkersOK /\ CountersOK
    BY DEF TypeOK
  <1>2. /\ Moves("projector") /\ position["projector"] + 1 \in DOMAIN results
        /\ Polled \in Results /\ Polled.request \in Requests /\ Polled.request.tx \in Txs
        /\ UNCHANGED <<topics, graphDb, streamed, worker>>
    BY ProjectMoves
  <1>3. TopicsOK'
    BY <1>1, <1>2 DEF TopicsOK, topics
  <1>4. PlacesOK'
    <2>1. UNCHANGED <<requests, results>>
      BY <1>2 DEF topics
    <2>. QED BY <1>2, <2>1, MovesKeepPlaces
  <1>5. WorkersOK'
    BY <1>1, <1>2 DEF WorkersOK, worker, topics
  <1>6. StoresOK' /\ CountersOK'
    <2>1. CASE PassResult
      BY <1>1, <1>2, <2>1 DEF PassResult, Pass, StoresOK, CountersOK, Moves, Polled,
                              graphDb, relay, scoreDb
    <2>2. CASE Project
      <3>1. /\ \/ UNCHANGED scoreDb
               \/ /\ scores' = [scores EXCEPT ![Polled.request.tx] = Scored]
                  /\ intents' = Append(intents, Polled.request)
            /\ overtaken' = overtaken \/ overtaken' = overtaken \cup {Polled.request}
            /\ UNCHANGED refused
        BY <2>2, ProjectTables
      <3>2. Scored \in Rows
        BY <1>2 DEF Scored, Rows, Results, Requests
      <3>3. Append(intents, Polled.request) \in Seq(Requests)
            /\ Len(Append(intents, Polled.request)) = Len(intents) + 1
            /\ Len(intents) \in Nat
        BY <1>1, <1>2, Appended DEF StoresOK
      <3>4. StoresOK'
        <4>1. scores' \in [Txs -> Rows]
          BY <1>1, <1>2, <3>1, <3>2 DEF StoresOK, scoreDb
        <4>2. intents' \in Seq(Requests) /\ Len(intents') >= Len(intents) /\ Len(intents') \in Nat
          <5>1. CASE intents' = intents
            BY <1>1, <3>3, <5>1 DEF StoresOK
          <5>2. CASE intents' = Append(intents, Polled.request)
            BY <3>3, <5>2
          <5>. QED BY <3>1, <5>1, <5>2 DEF scoreDb
        <4>3. streamed' \in 0 .. Len(intents')
          BY <1>1, <1>2, <3>3, <4>2 DEF StoresOK
        <4>. QED BY <1>1, <1>2, <4>1, <4>2, <4>3 DEF StoresOK, graphDb, relay
      <3>. QED BY <1>1, <1>2, <3>1, <3>4 DEF CountersOK, Moves
    <2>. QED BY <2>1, <2>2
  <1>. QED BY <1>3, <1>4, <1>5, <1>6 DEF TypeOK

LEMMA PublishToRedisType ==
    ASSUME TypeOK, PublishToRedis
    PROVE  TypeOK'
  <1>1. TopicsOK /\ PlacesOK /\ StoresOK /\ WorkersOK /\ CountersOK
    BY DEF TypeOK
  <1>2. /\ streamed < Len(intents) /\ streamed' = streamed + 1
        /\ UNCHANGED <<topics, group, graphDb, scoreDb, worker, history, counters>>
    BY DEF PublishToRedis
  <1>3. Len(intents) \in Nat
    BY <1>1, Elements DEF StoresOK
  <1>4. StoresOK'
    BY <1>1, <1>2, <1>3 DEF StoresOK, graphDb, relay, scoreDb
  <1>. QED
    BY <1>1, <1>2, <1>4 DEF TypeOK, TopicsOK, PlacesOK, WorkersOK, CountersOK,
                            topics, group, worker, history, counters

(* A dead letter that is replayed gets another id, and nothing else.       *)
LEMMA Replayed ==
    ASSUME TypeOK, NEW d \in dlq, Replay(d)
    PROVE  \/ /\ requests' = requests
              /\ FreshId(d.event) \in Batch /\ batches' = Append(batches, FreshId(d.event))
           \/ /\ batches' = batches
              /\ FreshId(d.event) \in Requests
              /\ requests' = Append(requests, FreshId(d.event))
  <1>1. d \in Letters /\ replays \in Nat
    BY DEF TypeOK, TopicsOK, CountersOK
  <1>2. CASE d.topic = "batches"
    <2>1. d.event \in Batch
      BY <1>1, <1>2 DEF Letters
    <2>2. FreshId(d.event) \in Batch
      BY <1>1, <2>1 DEF FreshId, Batch
    <2>. QED BY <1>2, <2>2 DEF Replay
  <1>3. CASE d.topic = "requests"
    <2>1. d.event \in Requests
      BY <1>1, <1>3 DEF Letters
    <2>2. FreshId(d.event) \in Requests
      BY <1>1, <2>1 DEF FreshId, Requests
    <2>. QED BY <1>3, <2>2 DEF Replay
  <1>. QED BY <1>2, <1>3 DEF Replay

LEMMA ReplayType ==
    ASSUME TypeOK, NEW d \in dlq, Replay(d)
    PROVE  TypeOK'
  <1>1. TopicsOK /\ PlacesOK /\ StoresOK /\ WorkersOK /\ CountersOK
    BY DEF TypeOK
  <1>2. /\ replays > 0 /\ replays' = replays - 1
        /\ UNCHANGED <<results, dlq, group, inbox, graphDb, scoreDb, streamed, worker, faults,
                       refused, overtaken>>
    BY DEF Replay
  <1>3. /\ batches' \in Seq(Batch) /\ requests' \in Seq(Requests)
        /\ Len(requests) \in Nat /\ Len(requests') \in Nat /\ Len(requests) <= Len(requests')
    <2>1. batches \in Seq(Batch) /\ requests \in Seq(Requests) /\ Len(requests) \in Nat
      BY <1>1, Elements DEF TopicsOK
    <2>2. CASE /\ requests' = requests
               /\ FreshId(d.event) \in Batch /\ batches' = Append(batches, FreshId(d.event))
      BY <2>1, <2>2, Appended
    <2>3. CASE /\ batches' = batches
               /\ FreshId(d.event) \in Requests
               /\ requests' = Append(requests, FreshId(d.event))
      <3>1. requests' \in Seq(Requests) /\ Len(requests') = Len(requests) + 1
        BY <2>1, <2>3, Appended
      <3>. QED BY <2>1, <2>3, <3>1
    <2>. QED BY <2>2, <2>3, Replayed
  <1>4. TopicsOK'
    BY <1>1, <1>2, <1>3 DEF TopicsOK
  <1>5. PlacesOK'
    BY <1>1, <1>2, <1>3 DEF PlacesOK, group, Groups
  <1>6. WorkersOK'
    BY <1>1, <1>2, <1>3 DEF WorkersOK, worker
  <1>7. StoresOK' /\ CountersOK'
    BY <1>1, <1>2 DEF StoresOK, CountersOK, graphDb, relay, scoreDb
  <1>. QED BY <1>4, <1>5, <1>6, <1>7 DEF TypeOK

LEMMA PassType ==
    ASSUME TypeOK, PassBatch \/ \E g \in {"materializer", "projector"} : Restart(g)
    PROVE  TypeOK'
  <1>1. TopicsOK /\ StoresOK /\ WorkersOK /\ CountersOK /\ batches \in Seq(Batch)
    BY DEF TypeOK, TopicsOK
  <1>2. UNCHANGED <<topics, committed, graphDb, scoreDb, streamed, worker, history>>
    BY DEF PassBatch, Pass, Restart
  <1>3. \E g \in {"materializer", "projector"} :
            /\ Moves(g)
            /\ g = "projector" => position'[g] = committed[g]
    <2>1. CASE PassBatch
      BY <1>1, <2>1, PassMoves DEF PassBatch, Groups
    <2>2. ASSUME NEW g \in {"materializer", "projector"}, Restart(g)
          PROVE  Moves(g) /\ (g = "projector" => position'[g] = committed[g])
      <3>1. position \in [Groups -> Nat] /\ g \in Groups
        BY DEF TypeOK, PlacesOK, Groups
      <3>. QED BY <2>2, <3>1, RestartMoves DEF Restart
    <2>. QED BY <2>1, <2>2
  <1>4. PlacesOK'
    <2>1. UNCHANGED <<requests, results, committed>>
      BY <1>2 DEF topics
    <2>. QED BY <1>3, <2>1, MovesKeepPlaces
  <1>5. TopicsOK' /\ StoresOK' /\ WorkersOK'
    BY <1>1, <1>2 DEF TopicsOK, StoresOK, WorkersOK, topics, graphDb, relay, scoreDb, worker
  <1>6. CountersOK'
    BY <1>1, <1>2, <1>3 DEF CountersOK, history, Moves
  <1>. QED BY <1>4, <1>5, <1>6 DEF TypeOK

LEMMA NextType ==
    ASSUME TypeOK, [Next]_vars
    PROVE  TypeOK'
  <1>1. CASE UNCHANGED vars
    BY <1>1 DEF vars, topics, group, graphDb, relay, scoreDb, worker, history, counters, TypeOK,
                TopicsOK, PlacesOK, StoresOK, WorkersOK, CountersOK
  <1>. QED
    BY <1>1, MaterializeType, PassType, RelayType, WorkerType, ProjectorType,
       PublishToRedisType, ReplayType DEF Next

LEMMA TypesHold == Init /\ [][Next]_vars => []TypeOK
  BY InitType, NextType, PTL

-----------------------------------------------------------------------------
(* Every step                                                              *)

(* Topics, claims and histories only grow, and no row goes back.           *)
Grown ==
    /\ Extends(requests, requests') /\ Extends(results, results')
    /\ dlq \subseteq dlq' /\ inbox \subseteq inbox'
    /\ refused \subseteq refused' /\ overtaken \subseteq overtaken'
    /\ \A t \in Txs : graph[t] <= graph'[t]

LEMMA WorkerGrows ==
    ASSUME TypeOK, NEW w \in Workers, Delivers(w),
           UNCHANGED <<inbox, graphDb, scoreDb, streamed, history>>
    PROVE  Grown
  <1>1. Extends(results, results')
    <2>1. CASE results' = results
      BY <2>1 DEF Extends
    <2>2. CASE pc[w] = "publish" /\ results' = Append(results, Result(w))
      BY <2>2, RequestOfWorker, Appended DEF TypeOK, TopicsOK
    <2>. QED BY <2>1, <2>2 DEF Delivers
  <1>2. \A t \in Txs : graph[t] <= graph'[t]
    BY DEF TypeOK, StoresOK, graphDb, relay
  <1>. QED BY <1>1, <1>2 DEF Grown, Delivers, Extends, history

LEMMA NextGrows ==
    ASSUME TypeOK, [Next]_vars
    PROVE  Grown
  <1>0. /\ graph \in [Txs -> Nat] /\ batches \in Seq(Batch)
        /\ \A t \in Txs : graph[t] <= graph[t]
        /\ Extends(requests, requests) /\ Extends(results, results)
    BY DEF TypeOK, StoresOK, TopicsOK, Extends
  <1>1. CASE Materialize
    <2>1. position["materializer"] + 1 \in DOMAIN batches
      BY <1>0, <1>1, ConsumeMoves DEF Materialize, Groups
    <2>2. batches[position["materializer"] + 1].step \in Nat
      <3>1. batches[position["materializer"] + 1] \in Batch
        BY <1>0, <2>1, Elements
      <3>. QED BY <3>1 DEF Batch
    <2>. QED BY <1>0, <1>1, <2>2 DEF Materialize, Grown, history
  <1>2. CASE Relay
    <2>1. outbox[sent + 1] \in Requests
      BY <1>2, Elements DEF TypeOK, StoresOK, Relay
    <2>2. Extends(requests, requests')
      BY <1>2, <2>1, Appended DEF TypeOK, TopicsOK, Relay
    <2>. QED BY <1>0, <1>2, <2>2 DEF Relay, Grown, history
  <1>3. CASE \E w \in Workers : WorkerStep(w) \/ AttemptFails(w) \/ Rebalance(w) \/ Crash(w)
    BY <1>3, WorkerDelivers, WorkerGrows
  <1>4. CASE Project
    BY <1>0, <1>4 DEF Project, Grown, topics, graphDb
  <1>5. CASE PassResult \/ PassBatch
    BY <1>0, <1>5 DEF PassResult, PassBatch, Pass, Grown, topics, graphDb, history
  <1>6. CASE PublishToRedis \/ UNCHANGED vars
    BY <1>0, <1>6 DEF PublishToRedis, vars, Grown, topics, graphDb, history
  <1>7. CASE \E g \in {"materializer", "projector"} : Restart(g)
    BY <1>0, <1>7 DEF Restart, Grown, topics, graphDb, history
  <1>8. ASSUME NEW d \in dlq, Replay(d) PROVE Grown
    <2>1. Extends(requests, requests')
      <3>1. requests \in Seq(Requests)
        BY DEF TypeOK, TopicsOK
      <3>2. CASE requests' = requests
        BY <1>0, <3>2
      <3>3. CASE FreshId(d.event) \in Requests /\ requests' = Append(requests, FreshId(d.event))
        BY <3>1, <3>3, Appended
      <3>. QED BY <1>8, <3>2, <3>3, Replayed
    <2>. QED BY <1>0, <1>8, <2>1 DEF Replay, Grown, graphDb
  <1>. QED
    BY <1>1, <1>2, <1>3, <1>4, <1>5, <1>6, <1>7, <1>8 DEF Next

(* What steps other than a worker's leave of the workers and their results.*)
LEMMA OthersKeepWorkers ==
    ASSUME [Next]_vars
    PROVE  \/ UNCHANGED <<results, dlq, worker>>
           \/ Materialize
           \/ \E w \in Workers : WorkerStep(w) \/ AttemptFails(w) \/ Rebalance(w) \/ Crash(w)
  BY DEF Next, Relay, Project, PassResult, PassBatch, Pass, Restart, PublishToRedis, Replay,
         vars, topics

LEMMA RequestStays ==
    ASSUME TypeOK, Grown, NEW w \in Workers, pc[w] # "idle", record'[w] = record[w]
    PROVE  Request(w)' = Request(w)
  BY RequestOfWorker DEF Grown, Extends, Request

-----------------------------------------------------------------------------
(* Scores and the graph                                                    *)

(* No worker, no result and no score is ahead of the graph.                *)
InGraph(r) == r.step <= graph[r.tx]

ScoredFromGraph ==
    /\ \A w \in Workers : pc[w] \in {"publish", "commit"} => InGraph(Request(w))
    /\ \A i \in DOMAIN results : InGraph(results[i].request)
    /\ \A t \in Txs : scores[t].step <= graph[t]

LEMMA InitGraph == Init => ScoredFromGraph
  BY EmptySeq DEF Init, ScoredFromGraph, NoScore

LEMMA InGraphStays ==
    ASSUME TypeOK, TypeOK', Grown, NEW r \in Requests, InGraph(r)
    PROVE  r.step <= graph'[r.tx]
  <1>1. graph[r.tx] <= graph'[r.tx] /\ graph[r.tx] \in Nat /\ graph'[r.tx] \in Nat
    BY DEF Grown, Requests, TypeOK, StoresOK
  <1>. QED BY <1>1 DEF InGraph, Requests

(* A worker that publishes or commits has found its request in the graph.  *)
LEMMA WorkersInGraph ==
    ASSUME TypeOK, TypeOK', Grown, ScoredFromGraph, [Next]_vars,
           NEW w \in Workers, pc'[w] \in {"publish", "commit"}
    PROVE  InGraph(Request(w))'
  <1>1. /\ pc[w] # "idle" /\ record'[w] = record[w]
        /\ InGraph(Request(w))
    <2>1. pc \in [Workers -> PCs] /\ record \in [Workers -> 0 .. Len(requests)]
      BY DEF TypeOK, WorkersOK
    <2>2. CASE UNCHANGED <<results, dlq, worker>> \/ Materialize
      BY <2>2 DEF worker, Materialize, ScoredFromGraph
    <2>3. ASSUME NEW v \in Workers,
                 WorkerStep(v) \/ AttemptFails(v) \/ Rebalance(v) \/ Crash(v)
          PROVE  <1>1!:
      <3>1. CASE Score(v)
        BY <2>1, <3>1 DEF Score, InGraph, ScoredFromGraph
      <3>2. CASE Take(v) \/ Publish(v) \/ DeadLetter(v)
        BY <2>1, <3>2 DEF Take, Publish, DeadLetter, ScoredFromGraph
      <3>3. CASE Commit(v) \/ Crash(v)
        BY <2>1, <3>3 DEF Commit, Crash, Rest, ScoredFromGraph
      <3>4. CASE CommitRefused(v)
        BY <2>1, <3>4 DEF CommitRefused, Rest, ScoredFromGraph
      <3>5. CASE AttemptFails(v)
        BY <2>1, <3>5 DEF AttemptFails, ScoredFromGraph
      <3>6. CASE Rebalance(v)
        BY <3>6 DEF Rebalance, ScoredFromGraph
      <3>. QED BY <2>3, <3>1, <3>2, <3>3, <3>4, <3>5, <3>6 DEF WorkerStep
    <2>. QED BY <2>2, <2>3, OthersKeepWorkers
  <1>2. Request(w)' = Request(w) /\ Request(w) \in Requests
    BY <1>1, RequestStays, RequestOfWorker
  <1>3. Request(w).step <= graph'[Request(w).tx]
    BY <1>1, <1>2, InGraphStays
  <1>. QED BY <1>2, <1>3 DEF InGraph

LEMMA ResultsInGraph ==
    ASSUME TypeOK, TypeOK', Grown, ScoredFromGraph, [Next]_vars,
           NEW i \in DOMAIN results'
    PROVE  InGraph(results[i].request)'
  <1>1. results'[i].request \in Requests /\ InGraph(results'[i].request)
    <2>1. results \in Seq(Results)
      BY DEF TypeOK, TopicsOK
    <2>2. CASE results' = results
      <3>1. results[i] \in Results
        BY <2>1, <2>2, Elements
      <3>. QED BY <2>2, <3>1 DEF ScoredFromGraph, Results
    <2>3. ASSUME NEW w \in Workers, pc[w] = "publish", results' = Append(results, Result(w))
          PROVE  <1>1!:
      <3>1. /\ Request(w) \in Requests /\ Result(w) \in Results
            /\ Result(w).request = Request(w)
        BY <2>3, RequestOfWorker
      <3>2. /\ DOMAIN results' = DOMAIN results \cup {Len(results) + 1}
            /\ results'[Len(results) + 1] = Result(w) /\ Extends(results, results')
        BY <2>1, <2>3, <3>1, Appended
      <3>3. CASE i \in DOMAIN results
        <4>1. results'[i] = results[i] /\ results[i] \in Results
          BY <2>1, <3>2, <3>3, Elements DEF Extends
        <4>. QED BY <3>3, <4>1 DEF ScoredFromGraph, Results
      <3>4. CASE i = Len(results) + 1
        BY <2>3, <3>1, <3>2, <3>4 DEF ScoredFromGraph
      <3>. QED BY <3>2, <3>3, <3>4
    <2>4. \/ results' = results
          \/ \E w \in Workers : pc[w] = "publish" /\ results' = Append(results, Result(w))
      BY OthersKeepWorkers, WorkerDelivers DEF Materialize, Delivers
    <2>. QED BY <2>2, <2>3, <2>4
  <1>2. results'[i].request.step <= graph'[results'[i].request.tx]
    BY <1>1, InGraphStays
  <1>. QED BY <1>2 DEF InGraph

LEMMA ScoresInGraph ==
    ASSUME TypeOK, TypeOK', Grown, ScoredFromGraph, [Next]_vars, NEW t \in Txs
    PROVE  scores'[t].step <= graph'[t]
  <1>1. /\ scores \in [Txs -> Rows] /\ graph[t] \in Nat /\ graph'[t] \in Nat
        /\ graph[t] <= graph'[t] /\ scores[t].step <= graph[t]
    BY DEF TypeOK, StoresOK, Grown, ScoredFromGraph
  <1>2. scores[t].step \in Nat
    <2>1. scores[t] \in Rows
      BY <1>1
    <2>. QED BY <2>1 DEF Rows, NoScore
  <1>3. CASE UNCHANGED scores
    BY <1>1, <1>2, <1>3
  <1>4. CASE Project /\ scores' = [scores EXCEPT ![Polled.request.tx] = Scored]
    <2>1. /\ position["projector"] + 1 \in DOMAIN results
          /\ Polled.request \in Requests /\ UNCHANGED graphDb
      BY <1>4, ProjectMoves
    <2>2. InGraph(Polled.request)
      BY <2>1 DEF Polled, ScoredFromGraph
    <2>. QED BY <1>1, <1>2, <1>4, <2>1, <2>2 DEF InGraph, Scored, graphDb
  <1>5. UNCHANGED scores \/ Project
    BY WorkerDelivers DEF Next, Materialize, Relay, PassResult, PassBatch, Pass, Restart,
       PublishToRedis, Replay, vars, scoreDb
  <1>. QED BY <1>3, <1>4, <1>5, ProjectTables DEF scoreDb

LEMMA NextGraph ==
    ASSUME TypeOK, TypeOK', Grown, ScoredFromGraph, [Next]_vars
    PROVE  ScoredFromGraph'
  <1>1. \A w \in Workers : pc'[w] \in {"publish", "commit"} => InGraph(Request(w))'
    BY WorkersInGraph
  <1>2. \A i \in DOMAIN results' : InGraph(results[i].request)'
    BY ResultsInGraph
  <1>3. \A t \in Txs : scores'[t].step <= graph'[t]
    BY ScoresInGraph
  <1>. QED BY <1>1, <1>2, <1>3 DEF ScoredFromGraph

-----------------------------------------------------------------------------
(* The services together do what RiskService allows                        *)

Mine(t) == {i \in 1 .. streamed : intents[i].tx = t}

IsLast(n, S) == n \in S /\ \A i \in S : i <= n

(* Intents are in the order of their steps, the last has the score's; the  *)
(* stream has a last one of a transaction if it has one.                   *)
IntentsInOrder ==
    /\ \A i, j \in DOMAIN intents :
          i < j /\ intents[i].tx = intents[j].tx => intents[i].step <= intents[j].step
    /\ \A i \in DOMAIN intents : intents[i].step <= scores[intents[i].tx].step
    /\ \A t \in Txs : Mine(t) # {} => \E n \in Mine(t) : IsLast(n, Mine(t))

LEMMA InitIntents == Init => IntentsInOrder
  <1>. SUFFICES ASSUME Init PROVE IntentsInOrder
    OBVIOUS
  <1>1. intents = <<>> /\ DOMAIN intents = {} /\ streamed = 0
    BY DEF Init
  <1>. QED BY <1>1 DEF IntentsInOrder, Mine

LEMMA MaxIsLast ==
    ASSUME NEW S \in SUBSET Nat, NEW n, IsLast(n, S)
    PROVE  Max(S) = n
  <1>1. n \in S /\ \A y \in S : n >= y
    BY DEF IsLast
  <1>2. Max(S) \in S /\ \A y \in S : Max(S) >= y
    BY <1>1 DEF Max
  <1>3. n \in Nat /\ Max(S) \in Nat /\ n >= Max(S) /\ Max(S) >= n
    BY <1>1, <1>2
  <1>. QED BY <1>3

(* Scores and intents change in the projector, the stream's end in its     *)
(* publisher, the graph in the materializer.                               *)
LEMMA WhoWrites ==
    ASSUME [Next]_vars
    PROVE  \/ UNCHANGED <<graph, scoreDb, streamed>>
           \/ Materialize
           \/ Project /\ UNCHANGED <<graph, streamed>>
           \/ PublishToRedis
  BY WorkerDelivers DEF Next, Relay, Project, PassResult, PassBatch, Pass, Restart, Replay,
     vars, graphDb

(* What the projector writes when it does.                                 *)
LEMMA ProjectWrites ==
    ASSUME TypeOK, ScoredFromGraph, Project
    PROVE  \/ UNCHANGED scoreDb
           \/ LET t == Polled.request.tx
              IN  /\ t \in Txs /\ Polled.request \in Requests
                  /\ Polled.request.step \in Nat /\ scores[t].step \in Nat
                  /\ Polled.request.step >= scores[t].step
                  /\ Polled.request.step <= graph[t]
                  /\ scores' = [scores EXCEPT ![t] = Scored]
                  /\ intents' = Append(intents, Polled.request)
                  /\ DOMAIN intents' = DOMAIN intents \cup {Len(intents) + 1}
                  /\ intents'[Len(intents) + 1] = Polled.request
                  /\ Extends(intents, intents') /\ DOMAIN intents = 1 .. Len(intents)
                  /\ Len(intents) \in Nat
  <1>1. /\ position["projector"] + 1 \in DOMAIN results
        /\ Polled.request \in Requests /\ Polled.request.tx \in Txs
    BY ProjectMoves
  <1>2. InGraph(Polled.request)
    BY <1>1 DEF Polled, ScoredFromGraph
  <1>3. scores[Polled.request.tx].step \in Nat
    <2>1. scores[Polled.request.tx] \in Rows
      BY <1>1 DEF TypeOK, StoresOK
    <2>. QED BY <2>1 DEF Rows, NoScore
  <1>4. CASE Accepts(Polled) /\ scores' = [scores EXCEPT ![Polled.request.tx] = Scored]
             /\ intents' = Append(intents, Polled.request)
    <2>1. intents \in Seq(Requests)
      BY DEF TypeOK, StoresOK
    <2>2. /\ DOMAIN intents' = DOMAIN intents \cup {Len(intents) + 1}
          /\ intents'[Len(intents) + 1] = Polled.request
          /\ Extends(intents, intents') /\ DOMAIN intents = 1 .. Len(intents)
          /\ Len(intents) \in Nat
      BY <1>1, <1>4, <2>1, Appended, Elements
    <2>3. Polled.request.step >= scores[Polled.request.tx].step
      BY <1>4 DEF Accepts
    <2>. QED BY <1>1, <1>2, <1>3, <1>4, <2>2, <2>3 DEF InGraph, Requests
  <1>. QED BY <1>4, ProjectTables

LEMMA IntentNumbers ==
    ASSUME TypeOK
    PROVE  /\ DOMAIN intents = 1 .. Len(intents) /\ Len(intents) \in Nat
           /\ streamed \in 0 .. Len(intents)
           /\ \A i \in DOMAIN intents : /\ intents[i].tx \in Txs
                                        /\ intents[i].step \in Nat /\ intents[i].step > 0
           /\ \A t \in Txs : scores[t].step \in Nat
           /\ \A t : Mine(t) \in SUBSET Nat /\ Mine(t) \subseteq DOMAIN intents
  <1>1. intents \in Seq(Requests) /\ streamed \in 0 .. Len(intents) /\ scores \in [Txs -> Rows]
    BY DEF TypeOK, StoresOK
  <1>2. /\ DOMAIN intents = 1 .. Len(intents) /\ Len(intents) \in Nat
        /\ \A i \in DOMAIN intents : intents[i] \in Requests
    BY <1>1, Elements
  <1>3. \A t \in Txs : scores[t].step \in Nat
    <2>1. \A t \in Txs : scores[t] \in Rows
      BY <1>1
    <2>. QED BY <2>1 DEF Rows, NoScore
  <1>4. \A i \in DOMAIN intents : /\ intents[i].tx \in Txs
                                  /\ intents[i].step \in Nat /\ intents[i].step > 0
    BY <1>2 DEF Requests
  <1>5. \A t : Mine(t) \in SUBSET Nat /\ Mine(t) \subseteq DOMAIN intents
    BY <1>1, <1>2 DEF Mine
  <1>. QED BY <1>1, <1>2, <1>3, <1>4, <1>5

LEMMA ProjectIntents ==
    ASSUME TypeOK, ScoredFromGraph, IntentsInOrder, Project, UNCHANGED streamed
    PROVE  IntentsInOrder' /\ \A t : Mine(t)' = Mine(t)
  <1>1. CASE UNCHANGED scoreDb
    BY <1>1 DEF IntentsInOrder, Mine, scoreDb
  <1>2. CASE ~UNCHANGED scoreDb
    <2>. DEFINE m == Polled.request
                n == Len(intents) + 1
    <2>1. /\ m.tx \in Txs /\ m.step \in Nat /\ m.step >= scores[m.tx].step
          /\ scores' = [scores EXCEPT ![m.tx] = Scored] /\ Scored.step = m.step
          /\ DOMAIN intents' = DOMAIN intents \cup {n} /\ intents'[n] = m
          /\ \A i \in DOMAIN intents : intents'[i] = intents[i] /\ i < n
      BY <1>2, ProjectWrites DEF Extends, Scored
    <2>2. /\ scores \in [Txs -> Rows]
          /\ \A i \in DOMAIN intents : /\ intents[i].tx \in Txs /\ intents[i].step \in Nat
                                       /\ intents[i].step <= scores[intents[i].tx].step
          /\ \A t \in Txs : scores[t].step \in Nat
      BY IntentNumbers DEF IntentsInOrder, TypeOK, StoresOK
    <2>3. \A t : Mine(t)' = Mine(t)
      <3>1. 1 .. streamed \subseteq DOMAIN intents
        BY IntentNumbers
      <3>. QED BY <2>1, <3>1 DEF Mine
    <2>. HIDE DEF m, n
    <2>4. \A i \in DOMAIN intents' : intents'[i].step <= scores'[intents'[i].tx].step
      <3>. SUFFICES ASSUME NEW i \in DOMAIN intents'
                    PROVE  intents'[i].step <= scores'[intents'[i].tx].step
        OBVIOUS
      <3>1. CASE i = n
        BY <2>1, <2>2, <3>1
      <3>2. CASE i \in DOMAIN intents /\ intents[i].tx = m.tx
        <4>1. intents'[i].step <= scores[m.tx].step /\ scores'[m.tx].step = m.step
          BY <2>1, <2>2, <3>2
        <4>. QED BY <2>1, <2>2, <3>2, <4>1
      <3>3. CASE i \in DOMAIN intents /\ intents[i].tx # m.tx
        BY <2>1, <2>2, <3>3
      <3>. QED BY <2>1, <3>1, <3>2, <3>3
    <2>5. \A i, j \in DOMAIN intents' :
              i < j /\ intents'[i].tx = intents'[j].tx => intents'[i].step <= intents'[j].step
      <3>. SUFFICES ASSUME NEW i \in DOMAIN intents', NEW j \in DOMAIN intents', i < j,
                           intents'[i].tx = intents'[j].tx
                    PROVE  intents'[i].step <= intents'[j].step
        OBVIOUS
      <3>0. i \in DOMAIN intents
        BY <2>1, IntentNumbers DEF n
      <3>1. CASE j = n
        <4>1. intents'[i].step <= scores[m.tx].step
          BY <2>1, <2>2, <3>0, <3>1
        <4>2. intents'[i].step \in Nat /\ scores[m.tx].step \in Nat
          BY <2>1, <2>2, <3>0
        <4>. QED BY <2>1, <3>1, <4>1, <4>2
      <3>2. CASE j \in DOMAIN intents
        BY <2>1, <3>0, <3>2 DEF IntentsInOrder
      <3>. QED BY <2>1, <3>1, <3>2
    <2>. QED BY <2>3, <2>4, <2>5 DEF IntentsInOrder
  <1>. QED BY <1>1, <1>2

(* The next intent is the last that the stream has of its transaction.     *)
LEMMA PublishIntents ==
    ASSUME TypeOK, IntentsInOrder, PublishToRedis, NEW own, own = intents[streamed + 1].tx
    PROVE  /\ IntentsInOrder'
           /\ own \in Txs /\ streamed + 1 \in DOMAIN intents
           /\ \A t \in Txs \ {own} : Mine(t)' = Mine(t)
           /\ Mine(own)' = Mine(own) \cup {streamed + 1}
           /\ IsLast(streamed + 1, Mine(own)')
  <1>. DEFINE n == streamed + 1
  <1>1. /\ n \in DOMAIN intents /\ streamed \in Nat /\ streamed' = n /\ own \in Txs
        /\ UNCHANGED <<scores, intents>>
    BY IntentNumbers DEF PublishToRedis, scoreDb
  <1>2. \A t : Mine(t)' = Mine(t) \cup (IF own = t THEN {n} ELSE {})
    <2>1. 1 .. n = (1 .. streamed) \cup {n}
      BY <1>1
    <2>. QED BY <1>1, <2>1 DEF Mine
  <1>3. IsLast(n, Mine(own)')
    <2>1. \A i \in Mine(own)' : i \in 1 .. n
      BY <1>1 DEF Mine
    <2>2. n \in Mine(own)'
      BY <1>2
    <2>3. \A i \in 1 .. n : i <= n
      BY <1>1
    <2>. QED BY <2>1, <2>2, <2>3 DEF IsLast
  <1>. HIDE DEF n
  <1>4. \A t \in Txs : Mine(t)' # {} => \E k \in Mine(t)' : IsLast(k, Mine(t)')
    <2>. SUFFICES ASSUME NEW t \in Txs, Mine(t)' # {}
                  PROVE  \E k \in Mine(t)' : IsLast(k, Mine(t)')
      OBVIOUS
    <2>1. CASE t = own
      <3>1. n \in Mine(own)'
        BY <1>3 DEF IsLast
      <3>. QED BY <1>3, <2>1, <3>1
    <2>2. CASE t # own
      <3>1. Mine(t)' = Mine(t)
        BY <1>2, <2>2
      <3>. QED BY <3>1 DEF IntentsInOrder
    <2>. QED BY <2>1, <2>2
  <1>5. IntentsInOrder'
    BY <1>1, <1>4 DEF IntentsInOrder
  <1>. QED BY <1>1, <1>2, <1>3, <1>5 DEF n

LEMMA NextIntents ==
    ASSUME TypeOK, ScoredFromGraph, IntentsInOrder, [Next]_vars
    PROVE  IntentsInOrder'
  <1>1. CASE UNCHANGED <<graph, scoreDb, streamed>> \/ Materialize
    <2>1. scores' = scores /\ intents' = intents /\ streamed' = streamed
      BY <1>1 DEF Materialize, scoreDb
    <2>. QED BY <2>1 DEF IntentsInOrder, Mine
  <1>. QED BY <1>1, WhoWrites, ProjectIntents, PublishIntents

LEMMA LastShownIs ==
    \A t : /\ LastShown(t) = IF Mine(t) = {} THEN 0 ELSE intents[Max(Mine(t))].step
           /\ LastShown(t)' = IF Mine(t)' = {} THEN 0 ELSE intents'[Max(Mine(t)')].step
  BY DEF LastShown, Mine

LEMMA InitService == Init => Service!Init
  <1>. SUFFICES ASSUME Init PROVE Service!Init
    OBVIOUS
  <1>1. /\ graph = [t \in Txs |-> 0] /\ scores = [t \in Txs |-> NoScore] /\ streamed = 0
        /\ NoScore.step = 0
    BY DEF Init, NoScore
  <1>2. \A t \in Txs : scores[t].step = 0 /\ LastShown(t) = 0
    <2>1. \A t : Mine(t) = {}
      BY <1>1 DEF Mine
    <2>. QED BY <1>1, <2>1, LastShownIs
  <1>. QED BY <1>1, <1>2 DEF Service!Init

LEMMA ProjectAllowed ==
    ASSUME TypeOK, ScoredFromGraph, IntentsInOrder, Project, UNCHANGED <<graph, streamed>>
    PROVE  [Service!Next]_(Service!serviceVars)
  <1>1. \A t : LastShown(t)' = LastShown(t)
    <2>1. \A t : Mine(t)' = Mine(t) /\ Mine(t) \in SUBSET Nat /\ Mine(t) \subseteq DOMAIN intents
      BY ProjectIntents, IntentNumbers
    <2>2. \A i \in DOMAIN intents : intents'[i] = intents[i]
      BY ProjectWrites DEF scoreDb, Extends
    <2>3. \A t \in Txs : Mine(t) # {} => Max(Mine(t)) \in DOMAIN intents
      <3>. SUFFICES ASSUME NEW t \in Txs, Mine(t) # {} PROVE Max(Mine(t)) \in DOMAIN intents
        OBVIOUS
      <3>1. PICK n \in Mine(t) : IsLast(n, Mine(t))
        BY DEF IntentsInOrder
      <3>. QED BY <2>1, <3>1, MaxIsLast
    <2>4. \A t : Mine(t) # {} => t \in Txs
      BY <2>1, IntentNumbers DEF Mine
    <2>. QED BY <2>1, <2>2, <2>3, <2>4, LastShownIs
  <1>2. CASE UNCHANGED scoreDb
    BY <1>1, <1>2 DEF Service!serviceVars, scoreDb
  <1>3. CASE ~UNCHANGED scoreDb
    <2>0. PICK own, step : own = Polled.request.tx /\ step = Polled.request.step
      OBVIOUS
    <2>1. /\ own \in Txs /\ step \in Nat /\ scores[own].step \in Nat
          /\ step >= scores[own].step /\ step <= graph[own]
          /\ scores' = [scores EXCEPT ![own] = Scored] /\ Scored.step = step
          /\ scores \in [Txs -> Rows]
      BY <1>3, <2>0, ProjectWrites DEF Scored, TypeOK, StoresOK
    <2>2. /\ scores'[own].step = step
          /\ \A t \in Txs \ {own} : scores'[t].step = scores[t].step
      BY <2>1
    <2>3. CASE step = scores[own].step
      <3>1. [t \in Txs |-> scores'[t].step] = [t \in Txs |-> scores[t].step]
        BY <2>2, <2>3
      <3>. QED BY <1>1, <3>1 DEF Service!serviceVars
    <2>4. CASE step > scores[own].step
      <3>1. [t \in Txs |-> scores'[t].step]
              = [[t \in Txs |-> scores[t].step] EXCEPT ![own] = [t \in Txs |-> scores'[t].step][own]]
        BY <2>1, <2>2
      <3>2. Service!Score(own)
        BY <1>1, <2>1, <2>2, <2>4, <3>1 DEF Service!Score
      <3>. QED BY <2>1, <3>2 DEF Service!Next
    <2>. QED BY <2>1, <2>3, <2>4
  <1>. QED BY <1>2, <1>3

LEMMA PublishAllowed ==
    ASSUME TypeOK, IntentsInOrder, PublishToRedis
    PROVE  [Service!Next]_(Service!serviceVars)
  <1>. DEFINE n == streamed + 1
  <1>1. PICK own : own = intents[n].tx
    OBVIOUS
  <1>2. /\ own \in Txs /\ n \in DOMAIN intents
        /\ \A t \in Txs \ {own} : Mine(t)' = Mine(t)
        /\ Mine(own)' = Mine(own) \cup {n}
        /\ IsLast(n, Mine(own)')
    BY <1>1, PublishIntents
  <1>3. UNCHANGED <<graph, scores, intents>> /\ streamed \in Nat
    BY IntentNumbers DEF PublishToRedis, graphDb, scoreDb
  <1>4. \A t \in Txs \ {own} : LastShown(t)' = LastShown(t)
    BY <1>2, <1>3, LastShownIs
  <1>5. Mine(own) \in SUBSET Nat /\ Mine(own) \subseteq DOMAIN intents /\ n \in Nat
    BY <1>3, IntentNumbers
  <1>. HIDE DEF n
  <1>6. LastShown(own)' = intents[n].step
    <2>1. Mine(own)' \in SUBSET Nat
      BY <1>2, <1>5
    <2>2. Max(Mine(own)') = n /\ Mine(own)' # {}
      BY <1>2, <2>1, MaxIsLast
    <2>. QED BY <1>3, <2>2, LastShownIs
  <1>7. /\ intents[n].step \in Nat /\ intents[n].step > 0
        /\ scores[own].step \in Nat /\ intents[n].step <= scores[own].step
    BY <1>1, <1>2, IntentNumbers DEF IntentsInOrder
  <1>8. LastShown(own) \in Nat /\ LastShown(own) <= intents[n].step
    <2>1. CASE Mine(own) = {}
      BY <1>7, <2>1, LastShownIs
    <2>2. CASE Mine(own) # {}
      <3>1. PICK k \in Mine(own) : IsLast(k, Mine(own))
        BY <1>2, <2>2 DEF IntentsInOrder
      <3>2. LastShown(own) = intents[k].step
        BY <1>5, <2>2, <3>1, MaxIsLast, LastShownIs
      <3>3. k \in DOMAIN intents /\ intents[k].tx = own /\ k < n
        BY <1>3, <1>5, <3>1 DEF Mine, n
      <3>. QED BY <1>1, <1>2, <3>2, <3>3, IntentNumbers DEF IntentsInOrder
    <2>. QED BY <2>1, <2>2
  <1>9. CASE LastShown(own) = intents[n].step
    <2>1. \A t \in Txs : LastShown(t)' = LastShown(t)
      BY <1>4, <1>6, <1>9
    <2>. QED BY <1>3, <2>1 DEF Service!serviceVars
  <1>10. CASE LastShown(own) < intents[n].step
    <2>1. [t \in Txs |-> LastShown(t)']
            = [[t \in Txs |-> LastShown(t)] EXCEPT ![own] = [t \in Txs |-> LastShown(t)'][own]]
      BY <1>2, <1>4
    <2>2. Service!Show(own)
      BY <1>2, <1>3, <1>6, <1>7, <1>10, <2>1 DEF Service!Show
    <2>. QED BY <1>2, <2>2 DEF Service!Next
  <1>. QED BY <1>7, <1>8, <1>9, <1>10

LEMMA NextAllowed ==
    ASSUME TypeOK, TypeOK', Grown, ScoredFromGraph, IntentsInOrder, [Next]_vars
    PROVE  [Service!Next]_(Service!serviceVars)
  <1>1. CASE UNCHANGED <<graph, scoreDb, streamed>>
    BY <1>1 DEF Service!serviceVars, LastShown, scoreDb
  <1>2. CASE Materialize
    <2>1. UNCHANGED <<scoreDb, streamed>>
      BY <1>2 DEF Materialize
    <2>2. \A t \in Txs : graph'[t] >= graph[t]
      <3>1. \A t \in Txs : graph[t] \in Nat /\ graph'[t] \in Nat
        BY DEF TypeOK, StoresOK
      <3>. QED BY <3>1 DEF Grown
    <2>3. Service!Observe
      BY <2>1, <2>2 DEF Service!Observe, LastShown, scoreDb
    <2>. QED BY <2>3 DEF Service!Next
  <1>. QED BY <1>1, <1>2, WhoWrites, ProjectAllowed, PublishAllowed

ServiceInv == TypeOK /\ ScoredFromGraph /\ IntentsInOrder

LEMMA InitServiceInv == Init => ServiceInv
  BY InitType, InitGraph, InitIntents DEF ServiceInv

LEMMA NextServiceInv ==
    ASSUME ServiceInv, [Next]_vars
    PROVE  ServiceInv' /\ [Service!Next]_(Service!serviceVars)
  <1>1. TypeOK /\ TypeOK' /\ Grown /\ ScoredFromGraph /\ IntentsInOrder
    BY NextType, NextGrows DEF ServiceInv
  <1>. QED BY <1>1, NextGraph, NextIntents, NextAllowed DEF ServiceInv

(* The safety of ImplementsService: whatever is lost, sent twice, given up *)
(* or replayed late, the services together start as the abstract one does  *)
(* and do no step that it does not allow.  No score is ahead of its graph  *)
(* row (queries.py:98), nor a dashboard ahead of the score, and none of   *)
(* the three ever goes back (queries.py:234).                              *)
THEOREM ImplementsServiceSafely ==
    Spec => Service!Init /\ [][Service!Next]_(Service!serviceVars)
  <1>1. Init => Service!Init
    BY InitService
  <1>2. Init => ServiceInv
    BY InitServiceInv
  <1>3. ServiceInv /\ [Next]_vars => ServiceInv' /\ [Service!Next]_(Service!serviceVars)
    BY NextServiceInv
  <1>. QED BY <1>1, <1>2, <1>3, PTL DEF Spec

-----------------------------------------------------------------------------
(* No request is skipped                                                   *)

Dead(r) == [topic |-> "requests", event |-> r] \in dlq

Answered(r) == \E i \in DOMAIN results : results[i].request = r

Settled(j) == Dead(requests[j]) \/ Answered(requests[j])

(* A request is done with when it has a result or a dead letter.  All are  *)
(* before the committed offset, before the position but the one that the   *)
(* owner has, and before the one that any worker has.                      *)
NoneSkipped ==
    /\ \A j \in DOMAIN requests : j <= committed["workers"] => Settled(j)
    /\ \A j \in DOMAIN requests : j <= position["workers"] =>
          Settled(j) \/ (pc[owner] # "idle" /\ record[owner] = j)
    /\ \A w \in Workers : pc[w] # "idle" =>
          \A j \in DOMAIN requests : j < record[w] => Settled(j)
    /\ \A w \in Workers : pc[w] \in {"commit", "commit_dead"} => Settled(record[w])

LEMMA InitSkipped == Init => NoneSkipped
  <1>. SUFFICES ASSUME Init PROVE NoneSkipped
    OBVIOUS
  <1>1. requests = <<>> /\ DOMAIN requests = {} /\ \A w \in Workers : pc[w] = "idle"
    BY DEF Init
  <1>. QED BY <1>1 DEF NoneSkipped

LEMMA SettledStays ==
    ASSUME TypeOK, Grown, NEW j \in DOMAIN requests, Settled(j)
    PROVE  Settled(j)'
  <1>1. requests'[j] = requests[j]
    BY DEF Grown, Extends
  <1>2. CASE Dead(requests[j])
    BY <1>1, <1>2 DEF Grown, Dead, Settled
  <1>3. CASE Answered(requests[j])
    BY <1>1, <1>3 DEF Grown, Extends, Answered, Settled
  <1>. QED BY <1>2, <1>3 DEF Settled

(* Places in a topic that has grown.                                       *)
LEMMA OldPlaces ==
    ASSUME TypeOK, TypeOK', Grown
    PROVE  /\ \A j \in DOMAIN requests' : j <= Len(requests) => j \in DOMAIN requests
           /\ \A i \in DOMAIN results' : i <= Len(results) => i \in DOMAIN results
           /\ \A i \in DOMAIN results' \ DOMAIN results, n \in DOMAIN results : n < i
  <1>1. /\ DOMAIN requests = 1 .. Len(requests) /\ DOMAIN results = 1 .. Len(results)
        /\ Len(requests) \in Nat /\ Len(results) \in Nat
    BY Elements DEF TypeOK, TopicsOK
  <1>2. /\ DOMAIN requests' = 1 .. Len(requests') /\ DOMAIN results' = 1 .. Len(results')
        /\ Len(requests') \in Nat /\ Len(results') \in Nat
    BY Elements DEF TypeOK, TopicsOK
  <1>. QED BY <1>1, <1>2

LEMMA OthersSkipNone ==
    ASSUME TypeOK, TypeOK', Grown, NoneSkipped, UNCHANGED worker,
           position'["workers"] = position["workers"],
           committed'["workers"] = committed["workers"]
    PROVE  NoneSkipped'
  <1>1. /\ pc' = pc /\ record' = record /\ owner' = owner
        /\ \A w \in Workers : record[w] <= Len(requests) /\ record[w] \in Nat
        /\ \A w \in Workers : pc[w] # "idle" => record[w] \in DOMAIN requests
        /\ position["workers"] \in Nat /\ committed["workers"] \in Nat /\ Len(requests) \in Nat
        /\ position["workers"] <= Len(requests) /\ committed["workers"] <= Len(requests)
        /\ DOMAIN requests = 1 .. Len(requests)
    <2>1. requests \in Seq(Requests) /\ PlacesOK /\ WorkersOK
      BY DEF TypeOK, TopicsOK
    <2>2. Len(requests) \in Nat /\ DOMAIN requests = 1 .. Len(requests)
      BY <2>1, Elements
    <2>. QED BY <2>1, <2>2, RequestOfWorker DEF worker, PlacesOK, WorkersOK, Groups
  <1>2. \A j \in DOMAIN requests' : j <= Len(requests) => j \in DOMAIN requests
    BY OldPlaces
  <1>3. \A j \in DOMAIN requests : Settled(j) => Settled(j)'
    BY SettledStays
  <1>4. \A j \in DOMAIN requests' : j \in Nat
    BY Elements DEF TypeOK, TopicsOK
  <1>5. \A j \in DOMAIN requests' : j <= committed'["workers"] => Settled(j)'
    BY <1>1, <1>2, <1>3, <1>4 DEF NoneSkipped
  <1>6. \A j \in DOMAIN requests' : j <= position'["workers"] =>
            Settled(j)' \/ (pc'[owner'] # "idle" /\ record'[owner'] = j)
    BY <1>1, <1>2, <1>3, <1>4 DEF NoneSkipped
  <1>7. \A w \in Workers : pc'[w] # "idle" =>
            \A j \in DOMAIN requests' : j < record'[w] => Settled(j)'
    BY <1>1, <1>2, <1>3, <1>4 DEF NoneSkipped
  <1>8. \A w \in Workers : pc'[w] \in {"commit", "commit_dead"} => Settled(record[w])'
    BY <1>1, <1>3 DEF NoneSkipped
  <1>. QED BY <1>1, <1>5, <1>6, <1>7, <1>8 DEF NoneSkipped

(* What a worker step keeps.                                               *)
LEMMA WorkerFacts ==
    ASSUME TypeOK, Grown, NoneSkipped, NEW w \in Workers, Delivers(w)
    PROVE  /\ requests' = requests
           /\ \A j \in DOMAIN requests : j \in Nat /\ (Settled(j) => Settled(j)')
           /\ pc \in [Workers -> PCs] /\ owner \in Workers
           /\ record \in [Workers -> Nat]
           /\ \A v \in Workers : pc[v] # "idle" => record[v] \in DOMAIN requests
           /\ position \in [Groups -> Nat] /\ committed \in [Groups -> Nat]
           /\ "workers" \in Groups
  <1>1. requests' = requests
    BY DEF Delivers
  <1>2. \A j \in DOMAIN requests : j \in Nat /\ (Settled(j) => Settled(j)')
    BY SettledStays, Elements DEF TypeOK, TopicsOK
  <1>3. /\ pc \in [Workers -> PCs] /\ owner \in Workers
        /\ record \in [Workers -> 0 .. Len(requests)] /\ Len(requests) \in Nat
        /\ position \in [Groups -> Nat] /\ committed \in [Groups -> Nat]
    BY Elements DEF TypeOK, TopicsOK, WorkersOK, PlacesOK
  <1>. QED BY <1>1, <1>2, <1>3, RequestOfWorker DEF Groups

LEMMA WorkerSkipsNone ==
    ASSUME TypeOK, TypeOK', Grown, NoneSkipped, NEW w \in Workers,
           WorkerStep(w) \/ AttemptFails(w) \/ Rebalance(w) \/ Crash(w)
    PROVE  NoneSkipped'
  <1>0. Delivers(w)
    BY WorkerDelivers
  <1>1. /\ requests' = requests
        /\ \A j \in DOMAIN requests : j \in Nat /\ (Settled(j) => Settled(j)')
        /\ pc \in [Workers -> PCs] /\ owner \in Workers
        /\ record \in [Workers -> Nat]
        /\ \A v \in Workers : pc[v] # "idle" => record[v] \in DOMAIN requests
        /\ position \in [Groups -> Nat] /\ committed \in [Groups -> Nat]
        /\ "workers" \in Groups
    BY <1>0, WorkerFacts
  <1>2. CASE Take(w)
    <2>1. /\ pc[w] = "idle" /\ owner = w /\ owner' = w
          /\ pc' = [pc EXCEPT ![w] = "score"]
          /\ record' = [record EXCEPT ![w] = position["workers"] + 1]
          /\ position' = [position EXCEPT !["workers"] = @ + 1]
          /\ committed' = committed
      BY <1>2 DEF Take
    <2>2. \A j \in DOMAIN requests : j <= position["workers"] => Settled(j)
      BY <2>1 DEF NoneSkipped
    <2>3. \A j \in DOMAIN requests : j <= committed'["workers"] => Settled(j)'
      BY <1>1, <2>1 DEF NoneSkipped
    <2>4. \A j \in DOMAIN requests : j <= position'["workers"] =>
              Settled(j)' \/ (pc'[owner'] # "idle" /\ record'[owner'] = j)
      <3>1. \A j \in DOMAIN requests : j <= position["workers"] + 1 =>
                j <= position["workers"] \/ j = position["workers"] + 1
        BY <1>1
      <3>2. /\ pc'[owner'] # "idle" /\ record'[owner'] = position["workers"] + 1
            /\ position'["workers"] = position["workers"] + 1
        BY <1>1, <2>1
      <3>. QED BY <1>1, <2>2, <3>1, <3>2
    <2>5. \A v \in Workers : pc'[v] # "idle" =>
              \A j \in DOMAIN requests : j < record'[v] => Settled(j)'
      <3>1. \A j \in DOMAIN requests : j < record'[w] => Settled(j)'
        BY <1>1, <2>1, <2>2
      <3>2. \A v \in Workers \ {w} : pc'[v] = pc[v] /\ record'[v] = record[v]
        BY <1>1, <2>1
      <3>. QED BY <1>1, <3>1, <3>2 DEF NoneSkipped
    <2>6. \A v \in Workers : pc'[v] \in {"commit", "commit_dead"} => Settled(record[v])'
      <3>1. \A v \in Workers : pc'[v] \in {"commit", "commit_dead"} =>
                pc'[v] = pc[v] /\ record'[v] = record[v] /\ pc[v] # "idle"
        BY <1>1, <2>1
      <3>. QED BY <1>1, <3>1 DEF NoneSkipped
    <2>. QED BY <1>1, <2>3, <2>4, <2>5, <2>6 DEF NoneSkipped
  <1>3. CASE Score(w) \/ Publish(w) \/ DeadLetter(w) \/ AttemptFails(w)
             \/ (CommitRefused(w) /\ pc[w] = "commit")
    <2>1. /\ UNCHANGED <<record, position, committed, owner>>
          /\ pc[w] # "idle"
          /\ \E x \in {"score", "publish", "commit", "dead_letter", "commit_dead"} :
                pc' = [pc EXCEPT ![w] = x]
      BY <1>3 DEF Score, Publish, DeadLetter, AttemptFails, CommitRefused, Rest, group
    <2>2. pc'[w] \in {"commit", "commit_dead"} => Settled(record[w])'
      <3>1. record[w] \in DOMAIN requests /\ Request(w) = requests[record[w]]
        BY <1>1, <2>1 DEF Request
      <3>2. CASE Publish(w)
        <4>1. /\ Result(w) \in Results /\ Result(w).request = Request(w)
              /\ results \in Seq(Results) /\ results' = Append(results, Result(w))
          BY <3>2, RequestOfWorker DEF Publish, TypeOK, TopicsOK
        <4>2. /\ Len(results) + 1 \in DOMAIN results'
              /\ results'[Len(results) + 1].request = requests[record[w]]
          BY <3>1, <4>1, Appended
        <4>. QED BY <1>1, <2>1, <4>2 DEF Settled, Answered
      <3>3. CASE DeadLetter(w)
        <4>1. [topic |-> "requests", event |-> requests[record[w]]] \in dlq'
          BY <3>1, <3>3 DEF DeadLetter
        <4>. QED BY <1>1, <2>1, <4>1 DEF Settled, Dead
      <3>4. CASE Score(w) \/ AttemptFails(w) \/ (CommitRefused(w) /\ pc[w] = "commit")
        <4>1. \E x \in {"score", "publish", "dead_letter"} : pc' = [pc EXCEPT ![w] = x]
          BY <3>4 DEF Score, AttemptFails, CommitRefused
        <4>. QED BY <1>1, <4>1
      <3>. QED BY <1>3, <3>2, <3>3, <3>4
    <2>3. \A v \in Workers \ {w} : pc'[v] = pc[v]
      BY <1>1, <2>1
    <2>4. \A j \in DOMAIN requests : j <= committed'["workers"] => Settled(j)'
      BY <1>1, <2>1 DEF NoneSkipped
    <2>5. \A j \in DOMAIN requests : j <= position'["workers"] =>
              Settled(j)' \/ (pc'[owner'] # "idle" /\ record'[owner'] = j)
      <3>1. pc[owner] # "idle" => pc'[owner'] # "idle"
        BY <1>1, <2>1
      <3>. QED BY <1>1, <2>1, <3>1 DEF NoneSkipped
    <2>6. \A v \in Workers : pc'[v] # "idle" =>
              \A j \in DOMAIN requests : j < record'[v] => Settled(j)'
      BY <1>1, <2>1, <2>3 DEF NoneSkipped
    <2>7. \A v \in Workers : pc'[v] \in {"commit", "commit_dead"} => Settled(record[v])'
      <3>1. \A v \in Workers \ {w} :
                pc[v] \in {"commit", "commit_dead"} => Settled(record[v]) /\ Settled(record[v])'
        BY <1>1, <2>1 DEF NoneSkipped
      <3>. QED BY <2>2, <2>3, <3>1
    <2>. QED BY <1>1, <2>4, <2>5, <2>6, <2>7 DEF NoneSkipped
  <1>4. ASSUME Rest(w), owner' = owner,
               \/ /\ pc[w] \in {"commit", "commit_dead"} /\ position' = position
                  /\ committed' = [committed EXCEPT !["workers"] = record[w]]
               \/ owner # w /\ UNCHANGED <<position, committed>>
               \/ /\ position' = [position EXCEPT !["workers"] = committed["workers"]]
                  /\ committed' = committed
        PROVE  NoneSkipped'
    <2>1. /\ pc' = [pc EXCEPT ![w] = "idle"] /\ record' = [record EXCEPT ![w] = 0]
          /\ \A v \in Workers \ {w} : pc'[v] = pc[v] /\ record'[v] = record[v]
          /\ pc'[w] = "idle"
      BY <1>1, <1>4 DEF Rest
    <2>2. pc[w] \in {"commit", "commit_dead"} =>
              \A j \in DOMAIN requests : j <= record[w] => Settled(j)
      <3>. SUFFICES ASSUME pc[w] \in {"commit", "commit_dead"},
                           NEW j \in DOMAIN requests, j <= record[w]
                    PROVE  Settled(j)
        OBVIOUS
      <3>1. record[w] \in Nat /\ j \in Nat
        BY <1>1
      <3>2. CASE j = record[w]
        BY <3>2 DEF NoneSkipped
      <3>3. CASE j < record[w]
        BY <3>3 DEF NoneSkipped
      <3>. QED BY <3>1, <3>2, <3>3
    <2>3. \A j \in DOMAIN requests : j <= committed'["workers"] => Settled(j)'
      BY <1>1, <1>4, <2>2 DEF NoneSkipped
    <2>4. \A j \in DOMAIN requests : j <= position'["workers"] =>
              Settled(j)' \/ (pc'[owner'] # "idle" /\ record'[owner'] = j)
      <3>1. CASE pc[w] \in {"commit", "commit_dead"} /\ position' = position /\ owner = w
        <4>1. \A j \in DOMAIN requests : j <= position["workers"] => Settled(j)
          BY <1>1, <2>2, <3>1 DEF NoneSkipped
        <4>. QED BY <1>1, <3>1, <4>1
      <3>2. CASE owner # w /\ position' = position
        BY <1>1, <1>4, <2>1, <3>2 DEF NoneSkipped
      <3>3. CASE position' = [position EXCEPT !["workers"] = committed["workers"]]
        BY <1>1, <3>3 DEF NoneSkipped
      <3>. QED BY <1>4, <3>1, <3>2, <3>3
    <2>5. \A v \in Workers : pc'[v] # "idle" =>
              \A j \in DOMAIN requests : j < record'[v] => Settled(j)'
      BY <1>1, <2>1 DEF NoneSkipped
    <2>6. \A v \in Workers : pc'[v] \in {"commit", "commit_dead"} => Settled(record[v])'
      <3>1. \A v \in Workers \ {w} :
                pc[v] \in {"commit", "commit_dead"} =>
                    Settled(record[v]) /\ record'[v] \in DOMAIN requests
        BY <1>1, <2>1 DEF NoneSkipped
      <3>2. \A v \in Workers : pc'[v] \in {"commit", "commit_dead"} =>
                v # w /\ pc[v] = pc'[v]
        BY <2>1
      <3>. QED BY <1>1, <2>1, <3>1, <3>2
    <2>. QED BY <1>1, <2>3, <2>4, <2>5, <2>6 DEF NoneSkipped
  <1>5. CASE Commit(w)
    <2>1. /\ Rest(w) /\ owner' = owner
          /\ pc[w] \in {"commit", "commit_dead"} /\ position' = position
          /\ committed' = [committed EXCEPT !["workers"] = record[w]]
      BY <1>5 DEF Commit
    <2>. QED BY <1>4, <2>1
  <1>6. CASE Crash(w)
    BY <1>4, <1>6 DEF Crash
  <1>7. CASE CommitRefused(w)
    <2>1. CASE pc[w] = "commit"
      BY <1>3, <1>7, <2>1
    <2>2. CASE pc[w] # "commit"
      BY <1>4, <1>7, <2>2 DEF CommitRefused, group
    <2>. QED BY <2>1, <2>2
  <1>8. CASE Rebalance(w)
    <2>1. /\ UNCHANGED <<committed, pc, record>>
          /\ position' = [position EXCEPT !["workers"] = committed["workers"]]
      BY <1>8 DEF Rebalance
    <2>2. \A v \in Workers : pc[v] \in {"commit", "commit_dead"} =>
              Settled(record[v]) /\ Settled(record[v])'
      BY <1>1, <2>1 DEF NoneSkipped
    <2>. QED BY <1>1, <2>1, <2>2 DEF NoneSkipped
  <1>. QED BY <1>2, <1>3, <1>5, <1>6, <1>7, <1>8 DEF WorkerStep

(* Which steps touch the workers, their results and their place.           *)
LEMMA WhoWorks ==
    ASSUME TypeOK, [Next]_vars
    PROVE  \/ /\ UNCHANGED worker /\ results' = results
              /\ position'["workers"] = position["workers"]
              /\ committed'["workers"] = committed["workers"]
           \/ \E w \in Workers : WorkerStep(w) \/ AttemptFails(w) \/ Rebalance(w) \/ Crash(w)
  <1>. DEFINE Away == /\ UNCHANGED worker /\ results' = results
                      /\ position'["workers"] = position["workers"]
                      /\ committed'["workers"] = committed["workers"]
  <1>1. batches \in Seq(Batch) /\ "materializer" \in Groups /\ "workers" \in Groups
        /\ "projector" \in Groups
    BY DEF TypeOK, TopicsOK, Groups
  <1>2. \A g \in Groups : Moves(g) /\ g # "workers" =>
            /\ position'["workers"] = position["workers"]
            /\ committed'["workers"] = committed["workers"]
    BY <1>1 DEF Moves
  <1>3. CASE Materialize
    BY <1>1, <1>2, <1>3, ConsumeMoves DEF Materialize
  <1>4. CASE PassBatch
    BY <1>1, <1>2, <1>4, PassMoves DEF PassBatch, Pass, topics
  <1>5. CASE Project \/ PassResult
    BY <1>1, <1>2, <1>5, ProjectMoves DEF topics
  <1>6. ASSUME NEW g \in {"materializer", "projector"}, Restart(g) PROVE Away
    BY <1>1, <1>2, <1>6, RestartMoves DEF Restart, topics
  <1>7. CASE Relay \/ PublishToRedis \/ UNCHANGED vars \/ \E d \in dlq : Replay(d)
    BY <1>7 DEF Relay, PublishToRedis, vars, Replay, topics, group
  <1>. QED BY <1>3, <1>4, <1>5, <1>6, <1>7 DEF Next

LEMMA NextSkipped ==
    ASSUME TypeOK, TypeOK', Grown, NoneSkipped, [Next]_vars
    PROVE  NoneSkipped'
  BY WhoWorks, OthersSkipNone, WorkerSkipsNone

-----------------------------------------------------------------------------
(* A result is later than what was done with the requests before its own   *)

(* The request has a dead letter, or a result that came into its topic     *)
(* before every one with this time or a later one.                         *)
SettledBefore(j, at) ==
    \/ Dead(requests[j])
    \/ \E i \in DOMAIN results :
          /\ results[i].request = requests[j]
          /\ \A n \in DOMAIN results : results[n].scoredAt >= at => i < n

BeforeClock ==
    /\ \A w \in Workers : scoredAt[w] <= clock
    /\ \A i \in DOMAIN results : results[i].scoredAt <= clock

PublishedInOrder ==
    \A w \in Workers : pc[w] = "publish" =>
        \A j \in DOMAIN requests : j < record[w] => SettledBefore(j, scoredAt[w])

ResultsInOrder ==
    \A i \in DOMAIN results : \E k \in DOMAIN requests :
        /\ requests[k] = results[i].request
        /\ \A j \in DOMAIN requests : j < k => SettledBefore(j, results[i].scoredAt)

ScoredInOrder == BeforeClock /\ PublishedInOrder /\ ResultsInOrder

LEMMA InitScored == Init => ScoredInOrder
  <1>. SUFFICES ASSUME Init PROVE ScoredInOrder
    OBVIOUS
  <1>1. /\ results = <<>> /\ DOMAIN results = {} /\ clock = 0
        /\ \A w \in Workers : pc[w] = "idle" /\ scoredAt[w] = 0
    BY DEF Init
  <1>. QED BY <1>1 DEF ScoredInOrder, BeforeClock, PublishedInOrder, ResultsInOrder

LEMMA SettledBeforeStays ==
    ASSUME TypeOK, TypeOK', Grown, NEW j \in DOMAIN requests, NEW at, SettledBefore(j, at)
    PROVE  SettledBefore(j, at)'
  <1>1. requests'[j] = requests[j]
    BY DEF Grown, Extends
  <1>2. CASE Dead(requests[j])
    BY <1>1, <1>2 DEF Grown, Dead, SettledBefore
  <1>3. ASSUME NEW i \in DOMAIN results, results[i].request = requests[j],
               \A n \in DOMAIN results : results[n].scoredAt >= at => i < n
        PROVE  SettledBefore(j, at)'
    <2>1. i \in DOMAIN results' /\ results'[i].request = requests'[j]
      BY <1>1, <1>3 DEF Grown, Extends
    <2>2. \A n \in DOMAIN results' : results'[n].scoredAt >= at => i < n
      <3>1. \A n \in DOMAIN results : results'[n] = results[n]
        BY DEF Grown, Extends
      <3>2. \A n \in DOMAIN results' \ DOMAIN results : i < n
        BY OldPlaces
      <3>. QED BY <1>3, <3>1, <3>2
    <2>. QED BY <2>1, <2>2 DEF SettledBefore
  <1>. QED BY <1>2, <1>3 DEF SettledBefore

(* The times of the workers and their results.                             *)
LEMMA NextClock ==
    ASSUME TypeOK, TypeOK', BeforeClock, [Next]_vars
    PROVE  BeforeClock'
  <1>1. /\ clock \in Nat /\ scoredAt \in [Workers -> Nat] /\ results \in Seq(Results)
        /\ \A i \in DOMAIN results : results[i].scoredAt \in Nat
    <2>1. \A i \in DOMAIN results : results[i] \in Results
      BY Elements DEF TypeOK, TopicsOK
    <2>. QED BY <2>1 DEF TypeOK, TopicsOK, WorkersOK, Results
  <1>2. CASE UNCHANGED worker /\ results' = results
    BY <1>2 DEF worker, BeforeClock
  <1>3. ASSUME NEW w \in Workers,
               WorkerStep(w) \/ AttemptFails(w) \/ Rebalance(w) \/ Crash(w)
        PROVE  BeforeClock'
    <2>1. \/ scoredAt' = scoredAt /\ clock' = clock
          \/ scoredAt' = [scoredAt EXCEPT ![w] = 0] /\ clock' = clock
          \/ scoredAt' = [scoredAt EXCEPT ![w] = clock + 1] /\ clock' = clock + 1
      BY <1>3 DEF WorkerStep, Take, Score, Publish, Commit, CommitRefused, DeadLetter,
                  AttemptFails, Rebalance, Crash, Rest
    <2>2. \A v \in Workers : scoredAt'[v] <= clock'
      BY <1>1, <2>1 DEF BeforeClock
    <2>3. clock <= clock' /\ clock' \in Nat
      BY <1>1, <2>1
    <2>4. \A i \in DOMAIN results' : results'[i].scoredAt <= clock'
      <3>1. CASE results' = results
        BY <1>1, <2>3, <3>1 DEF BeforeClock
      <3>2. CASE pc[w] = "publish" /\ results' = Append(results, Result(w))
        <4>1. Result(w) \in Results /\ Result(w).scoredAt = scoredAt[w]
          BY <3>2, RequestOfWorker
        <4>2. /\ DOMAIN results' = DOMAIN results \cup {Len(results) + 1}
              /\ results'[Len(results) + 1] = Result(w)
              /\ \A i \in DOMAIN results : results'[i] = results[i]
          BY <1>1, <3>2, <4>1, Appended DEF Extends
        <4>3. scoredAt[w] <= clock /\ scoredAt[w] \in Nat
          BY <1>1 DEF BeforeClock
        <4>. QED BY <1>1, <2>3, <4>1, <4>2, <4>3 DEF BeforeClock
      <3>. QED BY <1>3, <3>1, <3>2, WorkerDelivers DEF Delivers
    <2>. QED BY <2>2, <2>4 DEF BeforeClock
  <1>. QED BY <1>2, <1>3, WhoWorks

LEMMA RequestNumbers ==
    ASSUME TypeOK
    PROVE  /\ DOMAIN requests = 1 .. Len(requests) /\ Len(requests) \in Nat
           /\ \A w \in Workers : pc[w] # "idle" => record[w] \in DOMAIN requests
           /\ results \in Seq(Results) /\ Len(results) \in Nat
           /\ \A i \in DOMAIN results : results[i].scoredAt \in Nat
  <1>1. requests \in Seq(Requests) /\ results \in Seq(Results)
    BY DEF TypeOK, TopicsOK
  <1>2. \A i \in DOMAIN results : results[i] \in Results
    BY <1>1, Elements
  <1>. QED BY <1>1, <1>2, Elements, RequestOfWorker DEF Results

(* Requests before an old one are old.                                     *)
LEMMA OldBefore ==
    ASSUME TypeOK, TypeOK', Grown, NEW k \in DOMAIN requests
    PROVE  \A j \in DOMAIN requests' : j < k => j \in DOMAIN requests
  <1>1. k \in Nat /\ k <= Len(requests) /\ Len(requests) \in Nat
    BY RequestNumbers
  <1>2. \A j \in DOMAIN requests' : j \in Nat
    BY Elements DEF TypeOK, TopicsOK
  <1>. QED BY <1>1, <1>2, OldPlaces

LEMMA NextPublished ==
    ASSUME TypeOK, TypeOK', Grown, NoneSkipped, ScoredInOrder, [Next]_vars
    PROVE  PublishedInOrder'
  <1>. SUFFICES ASSUME NEW w \in Workers, pc'[w] = "publish",
                       NEW j \in DOMAIN requests', j < record'[w],
                       NEW at, at = scoredAt'[w]
                PROVE  SettledBefore(j, at)'
    BY DEF PublishedInOrder, SettledBefore
  <1>1. \/ /\ pc[w] = "publish" /\ record'[w] = record[w] /\ scoredAt'[w] = scoredAt[w]
        \/ /\ pc[w] = "score" /\ record'[w] = record[w] /\ scoredAt'[w] = clock + 1
           /\ UNCHANGED topics
    <2>1. CASE UNCHANGED worker
      BY <2>1 DEF worker
    <2>2. ASSUME NEW v \in Workers,
                 WorkerStep(v) \/ AttemptFails(v) \/ Rebalance(v) \/ Crash(v)
          PROVE  <1>1!:
      <3>0. pc \in [Workers -> PCs] /\ scoredAt \in [Workers -> Nat]
            /\ record \in [Workers -> 0 .. Len(requests)]
        BY DEF TypeOK, WorkersOK
      <3>1. CASE Score(v)
        BY <3>0, <3>1 DEF Score
      <3>2. CASE Take(v) \/ Publish(v) \/ DeadLetter(v) \/ AttemptFails(v)
        BY <3>0, <3>2 DEF Take, Publish, DeadLetter, AttemptFails
      <3>3. CASE Commit(v) \/ Crash(v) \/ CommitRefused(v)
        BY <3>0, <3>3 DEF Commit, Crash, CommitRefused, Rest
      <3>4. CASE Rebalance(v)
        BY <3>4 DEF Rebalance
      <3>. QED BY <2>2, <3>1, <3>2, <3>3, <3>4 DEF WorkerStep
    <2>. QED BY <2>1, <2>2, WhoWorks
  <1>2. record[w] \in DOMAIN requests /\ record'[w] = record[w] /\ pc[w] # "idle"
    BY <1>1, RequestNumbers
  <1>3. j \in DOMAIN requests
    BY <1>2, OldBefore
  <1>4. CASE pc[w] = "publish" /\ scoredAt'[w] = scoredAt[w]
    <2>1. SettledBefore(j, at)
      BY <1>2, <1>3, <1>4 DEF ScoredInOrder, PublishedInOrder
    <2>. QED BY <1>3, <2>1, SettledBeforeStays
  <1>5. CASE scoredAt'[w] = clock + 1 /\ UNCHANGED topics
    <2>1. Settled(j)
      BY <1>2, <1>3 DEF NoneSkipped
    <2>2. \A n \in DOMAIN results : ~(results[n].scoredAt >= at)
      <3>1. clock \in Nat
        BY DEF TypeOK, WorkersOK
      <3>. QED BY <1>5, <3>1, RequestNumbers DEF ScoredInOrder, BeforeClock
    <2>3. SettledBefore(j, at)
      BY <2>1, <2>2 DEF Settled, Answered, SettledBefore
    <2>. QED BY <1>3, <2>3, SettledBeforeStays
  <1>. QED BY <1>1, <1>4, <1>5

LEMMA NextResults ==
    ASSUME TypeOK, TypeOK', Grown, ScoredInOrder, [Next]_vars
    PROVE  ResultsInOrder'
  <1>. SUFFICES ASSUME NEW i \in DOMAIN results', NEW at, at = results'[i].scoredAt
                PROVE  \E k \in DOMAIN requests' :
                          /\ requests'[k] = results'[i].request
                          /\ \A j \in DOMAIN requests' : j < k => SettledBefore(j, at)'
    BY DEF ResultsInOrder, SettledBefore
  <1>1. \E k \in DOMAIN requests :
            /\ requests[k] = results'[i].request
            /\ \A j \in DOMAIN requests : j < k => SettledBefore(j, at)
    <2>1. CASE i \in DOMAIN results
      <3>1. results'[i] = results[i]
        BY <2>1 DEF Grown, Extends
      <3>. QED BY <2>1, <3>1 DEF ScoredInOrder, ResultsInOrder
    <2>2. ASSUME NEW w \in Workers, pc[w] = "publish", results' = Append(results, Result(w)),
                 i \notin DOMAIN results
          PROVE  <1>1!:
      <3>1. /\ record[w] \in DOMAIN requests /\ Result(w) \in Results
            /\ Result(w).request = requests[record[w]] /\ Result(w).scoredAt = scoredAt[w]
        BY <2>2, RequestOfWorker DEF Request
      <3>2. results'[i] = Result(w)
        BY <2>2, <3>1, Appended, RequestNumbers
      <3>. QED BY <2>2, <3>1, <3>2 DEF ScoredInOrder, PublishedInOrder
    <2>. QED BY <2>1, <2>2, WhoWorks, WorkerDelivers DEF Delivers
  <1>2. PICK k \in DOMAIN requests :
            /\ requests[k] = results'[i].request
            /\ \A j \in DOMAIN requests : j < k => SettledBefore(j, at)
    BY <1>1
  <1>3. k \in DOMAIN requests' /\ requests'[k] = requests[k]
    BY DEF Grown, Extends
  <1>4. \A j \in DOMAIN requests' : j < k => SettledBefore(j, at)'
    BY <1>2, OldBefore, SettledBeforeStays
  <1>. QED BY <1>2, <1>3, <1>4

LEMMA NextScored ==
    ASSUME TypeOK, TypeOK', Grown, NoneSkipped, ScoredInOrder, [Next]_vars
    PROVE  ScoredInOrder'
  BY NextClock, NextPublished, NextResults DEF ScoredInOrder

-----------------------------------------------------------------------------
(* A result that loses to one of an older step                             *)

(* The projector has claimed the result's request, or its transaction was  *)
(* refused.                                                                *)
Dealt(i) == results[i].request \in inbox \cup refused

(* The row of t is that of result i.  All up to it are dealt with, and of  *)
(* the same request those before it were refused.                          *)
Origin(t, i) ==
    /\ results[i].request = scores[t].request /\ results[i].scoredAt = scores[t].scoredAt
    /\ results[i].request.tx = t
    /\ \A n \in DOMAIN results : n <= i => Dealt(n)
    /\ \A n \in DOMAIN results :
          n < i /\ results[n].request = results[i].request => results[n].request \in refused

PlacesDealt ==
    \A i \in DOMAIN results :
        i <= position["projector"] \/ i <= committed["projector"] => Dealt(i)

RowsOfResults ==
    \A t \in Txs : scores[t].scoredAt = 0 \/ \E i \in DOMAIN results : Origin(t, i)

ProjectedInOrder == PlacesDealt /\ RowsOfResults

LEMMA InitProjected == Init => ProjectedInOrder
  <1>. SUFFICES ASSUME Init PROVE ProjectedInOrder
    OBVIOUS
  <1>1. /\ results = <<>> /\ DOMAIN results = {}
        /\ scores = [t \in Txs |-> NoScore] /\ NoScore.scoredAt = 0
    BY DEF Init, NoScore
  <1>. QED BY <1>1 DEF ProjectedInOrder, PlacesDealt, RowsOfResults

LEMMA DealtStays ==
    ASSUME Grown, NEW i \in DOMAIN results, Dealt(i)
    PROVE  Dealt(i)' /\ results'[i] = results[i]
  BY DEF Grown, Extends, Dealt

LEMMA OriginStays ==
    ASSUME TypeOK, TypeOK', Grown, NEW t \in Txs, NEW i \in DOMAIN results, Origin(t, i),
           scores'[t] = scores[t]
    PROVE  Origin(t, i)'
  <1>1. /\ i \in Nat /\ i <= Len(results) /\ Len(results) \in Nat
        /\ \A n \in DOMAIN results : results'[n] = results[n]
    BY Elements DEF TypeOK, TopicsOK, Grown, Extends
  <1>2. \A n \in DOMAIN results' : n <= i => n \in DOMAIN results
    BY <1>1, OldPlaces, Elements DEF TypeOK, TopicsOK
  <1>3. \A n \in DOMAIN results' : n \in Nat
    BY Elements DEF TypeOK, TopicsOK
  <1>4. \A n \in DOMAIN results' : n <= i => Dealt(n)'
    BY <1>2, DealtStays DEF Origin
  <1>5. \A n \in DOMAIN results' :
            n < i /\ results'[n].request = results'[i].request => results'[n].request \in refused'
    <2>1. \A n \in DOMAIN results' : n < i => n \in DOMAIN results
      BY <1>1, <1>2, <1>3
    <2>. QED BY <1>1, <2>1 DEF Origin, Grown
  <1>6. /\ results'[i].request = scores'[t].request
        /\ results'[i].scoredAt = scores'[t].scoredAt /\ results'[i].request.tx = t
    BY <1>1 DEF Origin
  <1>. QED BY <1>4, <1>5, <1>6 DEF Origin

(* Where the projector comes to is dealt with.                             *)
LEMMA NextPlaces ==
    ASSUME TypeOK, TypeOK', Grown, PlacesDealt, [Next]_vars
    PROVE  PlacesDealt'
  <1>0. /\ position \in [Groups -> Nat] /\ committed \in [Groups -> Nat]
        /\ position["projector"] \in Nat /\ committed["projector"] \in Nat
        /\ position["projector"] <= Len(results) /\ committed["projector"] <= Len(results)
        /\ Len(results) \in Nat
        /\ "projector" \in Groups /\ batches \in Seq(Batch)
        /\ \A i \in DOMAIN results' : i \in Nat
    <2>1. batches \in Seq(Batch) /\ results \in Seq(Results) /\ results' \in Seq(Results)
      BY DEF TypeOK, TopicsOK
    <2>2. Len(results) \in Nat /\ Len(results') \in Nat /\ DOMAIN results' = 1 .. Len(results')
      BY <2>1, Elements
    <2>. QED BY <2>1, <2>2 DEF TypeOK, PlacesOK, Groups
  <1>. SUFFICES ASSUME NEW i \in DOMAIN results',
                       i <= position'["projector"] \/ i <= committed'["projector"]
                PROVE  Dealt(i)'
    BY DEF PlacesDealt
  <1>. DEFINE Back == /\ position'["projector"] \in {position["projector"], committed["projector"]}
                      /\ committed'["projector"] = committed["projector"]
  <1>1. CASE Project \/ PassResult
    <2>1. /\ Moves("projector") /\ position["projector"] + 1 \in DOMAIN results
          /\ results' = results
      BY <1>1, ProjectMoves DEF topics
    <2>2. i <= position["projector"] + 1 \/ i <= committed["projector"]
      BY <1>0, <2>1 DEF Moves
    <2>3. CASE i = position["projector"] + 1
      <3>1. Polled.request \in inbox' \cup refused'
        BY <1>1, ProjectTables DEF PassResult, Polled
      <3>. QED BY <2>1, <2>3, <3>1 DEF Dealt, Polled
    <2>4. CASE i # position["projector"] + 1
      <3>1. i \in DOMAIN results /\ Dealt(i)
        BY <1>0, <2>1, <2>2, <2>4 DEF PlacesDealt
      <3>. QED BY <3>1, DealtStays
    <2>. QED BY <2>3, <2>4
  <1>2. CASE Back
    <2>1. i \in DOMAIN results
      BY <1>0, <1>2, OldPlaces
    <2>2. Dealt(i)
      BY <1>2, <2>1 DEF PlacesDealt
    <2>. QED BY <2>1, <2>2, DealtStays
  <1>3. Project \/ PassResult \/ Back
    <2>1. CASE Materialize
      BY <1>0, <2>1, ConsumeMoves DEF Materialize, Moves, Groups
    <2>2. CASE PassBatch
      BY <1>0, <2>2, PassMoves DEF PassBatch, Moves, Groups
    <2>3. ASSUME NEW g \in {"materializer", "projector"}, Restart(g) PROVE Back
      BY <1>0, <2>3 DEF Restart
    <2>4. ASSUME NEW w \in Workers,
                 WorkerStep(w) \/ AttemptFails(w) \/ Rebalance(w) \/ Crash(w)
          PROVE  Back
      BY <1>0, <2>4 DEF WorkerStep, Take, Score, Publish, Commit, CommitRefused, DeadLetter,
                        AttemptFails, Rebalance, Crash, group
    <2>5. CASE Relay \/ PublishToRedis \/ UNCHANGED vars \/ \E d \in dlq : Replay(d)
      BY <2>5 DEF Relay, PublishToRedis, vars, Replay, group
    <2>. QED BY <2>1, <2>2, <2>3, <2>4, <2>5 DEF Next
  <1>. QED BY <1>1, <1>2, <1>3

LEMMA NextRows ==
    ASSUME TypeOK, TypeOK', Grown, ProjectedInOrder, [Next]_vars
    PROVE  RowsOfResults'
  <1>. SUFFICES ASSUME NEW t \in Txs
                PROVE  scores'[t].scoredAt = 0 \/ \E i \in DOMAIN results' : Origin(t, i)'
    BY DEF RowsOfResults
  <1>. DEFINE Row == /\ Project /\ Polled.request \notin inbox /\ Polled.request.tx = t
                     /\ scores' = [scores EXCEPT ![Polled.request.tx] = Scored]
  <1>1. CASE scores'[t] = scores[t]
    <2>1. CASE scores[t].scoredAt = 0
      BY <1>1, <2>1
    <2>2. CASE scores[t].scoredAt # 0
      <3>1. PICK i \in DOMAIN results : Origin(t, i)
        BY <2>2 DEF ProjectedInOrder, RowsOfResults
      <3>2. i \in DOMAIN results'
        BY DEF Grown, Extends
      <3>. QED BY <1>1, <3>1, <3>2, OriginStays
    <2>. QED BY <2>1, <2>2
  <1>2. CASE Row
    <2>1. /\ position["projector"] \in Nat /\ position["projector"] + 1 \in DOMAIN results
          /\ results' = results
      BY <1>2, ProjectMoves DEF topics
    <2>2. PICK i \in DOMAIN results : i = position["projector"] + 1
      BY <2>1
    <2>3. results'[i] = Polled /\ inbox' = inbox \cup {Polled.request}
      BY <1>2, <2>1, <2>2, ProjectTables DEF Polled
    <2>4. scores'[t].request = Polled.request /\ scores'[t].scoredAt = Polled.scoredAt
      BY <1>2 DEF Scored, TypeOK, StoresOK
    <2>5. \A n \in DOMAIN results : n < i => Dealt(n)
      BY <2>1, <2>2, RequestNumbers, Elements DEF ProjectedInOrder, PlacesDealt
    <2>6. \A n \in DOMAIN results' : n <= i => Dealt(n)'
      <3>1. Dealt(i)'
        BY <2>3 DEF Dealt
      <3>2. \A n \in DOMAIN results' : n <= i => n < i \/ n = i
        BY <2>1, RequestNumbers, Elements
      <3>. QED BY <2>1, <2>5, <3>1, <3>2, DealtStays
    <2>7. \A n \in DOMAIN results' :
              n < i /\ results'[n].request = results'[i].request => results'[n].request \in refused'
      BY <1>2, <2>1, <2>3, <2>5 DEF Dealt, Grown
    <2>8. Origin(t, i)'
      BY <1>2, <2>3, <2>4, <2>6, <2>7 DEF Origin
    <2>. QED BY <2>1, <2>8
  <1>3. scores'[t] = scores[t] \/ Row
    <2>1. CASE Project
      BY <2>1, ProjectTables, ProjectMoves DEF scoreDb, TypeOK, StoresOK
    <2>2. CASE ~Project
      BY <2>2, WhoWrites DEF Materialize, PublishToRedis, scoreDb
    <2>. QED BY <2>1, <2>2
  <1>. QED BY <1>1, <1>2, <1>3

LEMMA NextProjected ==
    ASSUME TypeOK, TypeOK', Grown, ProjectedInOrder, [Next]_vars
    PROVE  ProjectedInOrder'
  BY NextPlaces, NextRows DEF ProjectedInOrder

Excusing(t) ==
    \E r \in {d.event : d \in {e \in dlq : e.topic = "requests"}} \cup refused : r.tx = t

LEMMA WhatExcuses ==
    ASSUME NEW r, Dead(r) \/ r \in refused
    PROVE  Excusing(r.tx)
  <1>1. CASE Dead(r)
    <2>. DEFINE letter == [topic |-> "requests", event |-> r]
    <2>1. letter \in {e \in dlq : e.topic = "requests"} /\ letter.event = r
      BY <1>1 DEF Dead
    <2>. HIDE DEF letter
    <2>2. r \in {d.event : d \in {e \in dlq : e.topic = "requests"}}
      BY <2>1
    <2>. QED BY <2>2 DEF Excusing
  <1>2. CASE r \in refused
    BY <1>2 DEF Excusing
  <1>. QED BY <1>1, <1>2

(* Result n loses to i, whose row is its transaction's, although it is the *)
(* first of its request to be claimed: i has the later time but came       *)
(* first.  Then a request was given up, or a result refused.               *)
LEMMA LaterCameFirst ==
    ASSUME TypeOK, ScoredInOrder,
           NEW t \in Txs, NEW i \in DOMAIN results, Origin(t, i),
           NEW n \in DOMAIN results, results[n].request.tx = t,
           results[n].request \notin inbox, results[n].scoredAt < results[i].scoredAt
    PROVE  Excusing(t)
  <1>1. /\ \A l \in DOMAIN results : l \in Nat /\ results[l].scoredAt \in Nat
        /\ \A j \in DOMAIN requests : j \in Nat
    <2>1. \A l \in DOMAIN results : results[l] \in Results
      BY Elements DEF TypeOK, TopicsOK
    <2>. QED BY <2>1, Elements DEF TypeOK, TopicsOK, Results
  <1>2. PICK first \in DOMAIN requests :
           /\ requests[first] = results[i].request
           /\ \A j \in DOMAIN requests : j < first => SettledBefore(j, results[i].scoredAt)
    BY DEF ScoredInOrder, ResultsInOrder
  <1>3. PICK second \in DOMAIN requests :
           /\ requests[second] = results[n].request
           /\ \A j \in DOMAIN requests : j < second => SettledBefore(j, results[n].scoredAt)
    BY DEF ScoredInOrder, ResultsInOrder
  <1>4. results[i].request.tx = t /\ results[n].request.tx = t
    BY DEF Origin
  <1>5. CASE first = second
    <2>1. results[n].request \in refused
      BY <1>1, <1>2, <1>3, <1>5 DEF Origin, Dealt
    <2>. QED BY <1>4, <2>1, WhatExcuses
  <1>6. CASE second < first
    <2>1. SettledBefore(second, results[i].scoredAt)
      BY <1>2, <1>6
    <2>2. CASE Dead(results[n].request)
      BY <1>4, <2>2, WhatExcuses
    <2>3. ASSUME NEW l \in DOMAIN results, results[l].request = results[n].request, l < i
          PROVE  Excusing(t)
      <3>1. results[n].request \in refused
        BY <1>1, <2>3 DEF Origin, Dealt
      <3>. QED BY <1>4, <3>1, WhatExcuses
    <2>4. \/ Dead(results[n].request)
          \/ \E l \in DOMAIN results : results[l].request = results[n].request /\ l < i
      BY <1>1, <1>3, <2>1 DEF SettledBefore
    <2>. QED BY <2>2, <2>3, <2>4
  <1>7. CASE first < second
    <2>1. SettledBefore(first, results[n].scoredAt)
      BY <1>3, <1>7
    <2>2. CASE Dead(results[i].request)
      BY <1>4, <2>2, WhatExcuses
    <2>3. ASSUME NEW l \in DOMAIN results, results[l].request = results[i].request, l < i
          PROVE  Excusing(t)
      <3>1. results[i].request \in refused
        BY <2>3 DEF Origin
      <3>. QED BY <1>4, <3>1, WhatExcuses
    <2>4. \/ Dead(results[i].request)
          \/ \E l \in DOMAIN results : results[l].request = results[i].request /\ l < i
      BY <1>1, <1>2, <2>1 DEF SettledBefore
    <2>. QED BY <2>2, <2>3, <2>4
  <1>. QED BY <1>1, <1>5, <1>6, <1>7

LEMMA LoserExplained ==
    ASSUME TypeOK, ScoredInOrder, ProjectedInOrder, Project,
           Polled.request \notin inbox, ~Accepts(Polled),
           Polled.request.step > scores[Polled.request.tx].step
    PROVE  Excusing(Polled.request.tx)
  <1>1. PICK n \in DOMAIN results : n = position["projector"] + 1
    BY ProjectMoves
  <1>2. Polled = results[n] /\ results[n] \in Results
    BY <1>1, Elements DEF Polled, TypeOK, TopicsOK
  <1>3. PICK t \in Txs : t = results[n].request.tx
    BY <1>2 DEF Results, Requests
  <1>4. /\ scores[t].step \in Nat /\ scores[t].scoredAt \in Nat
        /\ results[n].scoredAt \in Nat /\ results[n].request.step \in Nat
    BY <1>2, <1>3 DEF TypeOK, StoresOK, Rows, NoScore, Results, Requests
  <1>5. results[n].scoredAt < scores[t].scoredAt
    BY <1>2, <1>3, <1>4 DEF Accepts
  <1>6. PICK i \in DOMAIN results : Origin(t, i)
    BY <1>4, <1>5 DEF ProjectedInOrder, RowsOfResults
  <1>7. results[n].scoredAt < results[i].scoredAt
    BY <1>5, <1>6 DEF Origin
  <1>. QED BY <1>2, <1>3, <1>6, <1>7, LaterCameFirst

LEMMA NextExplained ==
    ASSUME TypeOK, TypeOK', Grown, ScoredInOrder, ProjectedInOrder, OvertakenExplained,
           [Next]_vars
    PROVE  OvertakenExplained'
  <1>1. \A t : Excusing(t) => Excusing(t)'
    <2>1. {d.event : d \in {e \in dlq : e.topic = "requests"}}
            \subseteq {d.event : d \in {e \in dlq' : e.topic = "requests"}}
      BY DEF Grown
    <2>. QED BY <2>1 DEF Grown, Excusing
  <1>2. \A m \in overtaken' : m \in overtaken \/ Excusing(m.tx)
    <2>1. CASE Project
      BY <2>1, ProjectTables, LoserExplained
    <2>2. CASE ~Project
      <3>1. overtaken' = overtaken
        BY <2>2, WorkerDelivers
           DEF Next, Materialize, PassBatch, Relay, PassResult, PublishToRedis, Restart, Replay,
               vars, history
      <3>. QED BY <3>1
    <2>. QED BY <2>1, <2>2
  <1>3. \A m \in overtaken : Excusing(m.tx)
    BY DEF OvertakenExplained, Excusing
  <1>4. \A m \in overtaken' : Excusing(m.tx)'
    BY <1>1, <1>2, <1>3
  <1>. QED BY <1>4 DEF OvertakenExplained, Excusing

-----------------------------------------------------------------------------
(* Theorems                                                                *)

ScoringInv == TypeOK /\ NoneSkipped /\ ScoredInOrder

LoserInv == ScoringInv /\ ProjectedInOrder /\ OvertakenExplained

LEMMA InitLoserInv == Init => LoserInv
  <1>1. Init => OvertakenExplained
    BY DEF Init, OvertakenExplained
  <1>. QED BY <1>1, InitType, InitSkipped, InitScored, InitProjected DEF LoserInv, ScoringInv

LEMMA NextLoserInv ==
    ASSUME LoserInv, [Next]_vars
    PROVE  LoserInv'
  <1>1. TypeOK /\ TypeOK' /\ Grown /\ NoneSkipped /\ ScoredInOrder /\ ProjectedInOrder
        /\ OvertakenExplained
    BY NextType, NextGrows DEF LoserInv, ScoringInv
  <1>. QED BY <1>1, NextSkipped, NextScored, NextProjected, NextExplained
           DEF LoserInv, ScoringInv

(* No request is lost between two workers.  However often the partition    *)
(* moves, a worker dies or its commit is refused, every request before the *)
(* committed offset has a result or a dead letter (main.py:222, :277), and  *)
(* so has every one before a request that any worker still holds.  And a   *)
(* result is scored after those requests were settled: each of them has a  *)
(* dead letter, or a result that precedes all that are scored later.       *)
THEOREM RequestsSettledInOrder == Spec => [](NoneSkipped /\ ResultsInOrder)
  <1>1. LoserInv => NoneSkipped /\ ResultsInOrder
    BY DEF LoserInv, ScoringInv, ScoredInOrder
  <1>2. Init => LoserInv
    BY InitLoserInv
  <1>3. LoserInv /\ [Next]_vars => LoserInv'
    BY NextLoserInv
  <1>. QED BY <1>1, <1>2, <1>3, PTL DEF Spec

(* A result loses to one of an older step (queries.py:234) only if a       *)
(* request of its transaction was given up to the DLQ or one of its        *)
(* results refused: redeliveries, crashes, rebalances and late replays do  *)
(* not suffice by themselves.                                              *)
THEOREM OvertakenIsExplained == Spec => []OvertakenExplained
  <1>1. LoserInv => OvertakenExplained
    BY DEF LoserInv
  <1>2. Init => LoserInv
    BY InitLoserInv
  <1>3. LoserInv /\ [Next]_vars => LoserInv'
    BY NextLoserInv
  <1>. QED BY <1>1, <1>2, <1>3, PTL DEF Spec
=============================================================================
