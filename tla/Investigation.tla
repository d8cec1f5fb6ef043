--------------------------- MODULE Investigation ---------------------------
(***************************************************************************)
(* The Entity Explorer and the queries it makes.  A search looks up the    *)
(* entity; once that is shown, a viewer asks a gateway for the subgraph    *)
(* around it.  The gateway serves it from a cache keyed by the graph's     *)
(* watermark, or searches PostgreSQL hop by hop, one statement each, while *)
(* batches go on being materialized.                                       *)
(*                                                                         *)
(*   frontend/src/pages/EntityExplorer.tsx, doSearch                       *)
(*   frontend/src/components/monitor/SubgraphViewer.tsx                    *)
(*   services/api_gateway/main.py, entity, subgraph                        *)
(*   shared/database/queries.py, get_bounded_subgraph                      *)
(*                                                                         *)
(* A transaction id is a number, for the order of SQL and of sorted().     *)
(***************************************************************************)
EXTENDS Integers, FiniteSets

CONSTANTS
    Txs,        \* transaction ids
    Searched,   \* those the analyst searches
    Batches,    \* batches to come: [step, nodes, edges]
    MaxHops,    \* the query's hops, 2 by default
    MaxNodes,   \* settings.graph_max_nodes
    MaxEdges,   \* settings.graph_max_edges
    MaxSearches, \* bound: calls of doSearch
    MaxFetches,  \* bound: requests for a subgraph
    MaxFaults   \* bound: requests that PostgreSQL or the network fails

ASSUME LimitAssumption == {MaxHops, MaxNodes, MaxEdges} \subseteq Nat \ {0}
ASSUME BatchAssumption ==
    /\ Txs \subseteq Nat \ {0} /\ Searched \subseteq Txs
    /\ \A b \in Batches : /\ b.step \in Nat \ {0}
                          /\ b.nodes \subseteq Txs
                          /\ b.edges \subseteq Txs \X Txs
                          /\ IsFiniteSet(b.edges)
                          /\ \A e \in b.edges : e[1] # e[2]
ASSUME RequestsAssumption == {MaxSearches, MaxFetches, MaxFaults} \subseteq Nat

Searches == 1 .. MaxSearches
Fetches  == 1 .. MaxFetches
NoOne    == 0   \* no search, no fetch
Null     == 0   \* no transaction id

VARIABLES
    graph,      \* [nodes, edges]: transaction_nodes and transaction_edges
    checkpoint, \* stream_checkpoints.last_completed_time_step
    cache,      \* the subgraphs Redis holds, by key
    pc,         \* at which await subgraph() is, per request
    center,     \* its tx_id
    watermark,  \* the watermark it has read, which its cache_key has
    search,     \* its variables of get_bounded_subgraph
    result,     \* its result
    lookup,     \* what each doSearch looks up
    open,       \* those that are not answered
    query,      \* queryId
    entity,     \* entityData
    active,     \* the fetch of the viewer's current effect
    shown,      \* the fetch whose result is the viewer's data
    faults,     \* environment counter
    asOf,       \* history: the graph when the checkpoint came to each step
    overlapped  \* history: doSearch was called while another was open

database == <<graph, checkpoint>>
request  == <<pc, center, watermark, search, result>>
explorer == <<lookup, open, query, entity>>
viewer   == <<active, shown>>
page     == <<explorer, viewer>>
past     == <<asOf, overlapped>>
explorerVars == <<database, cache, request, page, faults, past>>

PCs == {"unused", "watermark", "cached", "center", "hop", "store", "reply", "done"}

EmptyGraph      == [nodes |-> {}, edges |-> {}]
NoSubgraph == [center |-> Null, nodes |-> {}, edges |-> {}, truncated |-> FALSE]
NoSearch   == [visited |-> {}, frontier |-> {}, found |-> {},
               truncated |-> FALSE, hop |-> 0]

-----------------------------------------------------------------------------
(* get_bounded_subgraph                                                    *)

Ends(E) == UNION {{e[1], e[2]} : e \in E}

(* ORDER BY source_tx_id, destination_tx_id                                *)
Before(d, e) == d[1] < e[1] \/ (d[1] = e[1] /\ d[2] < e[2])

(* LIMIT n, and sorted(...)[:n]                                            *)
FirstEdges(E, n) == {e \in E : Cardinality({d \in E : Before(d, e)}) < n}

(* The loop over the rows comes to c before it comes to d.                 *)
Sooner(c, d, rows) ==
    \E e \in rows :
        /\ c \in {e[1], e[2]}
        /\ \A f \in rows : d \in {f[1], f[2]} => Before(e, f) \/ (e = f /\ c = e[1])

AtCenter(c) == [visited |-> {c}, frontier |-> {c}, found |-> {},
                truncated |-> FALSE, hop |-> 0]

Room(s) == MaxNodes - Cardinality(s.visited)

Incident(s, edges) == {e \in edges : e[1] \in s.frontier \/ e[2] \in s.frontier}
Rows(s, edges)     == FirstEdges(Incident(s, edges), MaxEdges)
New(s, rows)       == Ends(rows) \ s.visited

(* Mutation: what a full subgraph has no room for is let in.               *)
AdmittedAll(s, rows) == New(s, rows)

(* New ids are let in, in the order of the rows, while there is room.      *)
Admitted(s, rows) ==
    {c \in New(s, rows) :
        Cardinality({d \in New(s, rows) \ {c} : Sooner(d, c, rows)}) < Room(s)}

(* One hop, with the edges its statement reads.                            *)
Expand(s, edges) ==
    LET rows == Rows(s, edges)
    IN  [visited   |-> s.visited \cup Admitted(s, rows),
         frontier  |-> Admitted(s, rows),
         found     |-> s.found \cup rows,
         truncated |-> \/ s.truncated
                       \/ rows # Incident(s, edges)
                       \/ Admitted(s, rows) # New(s, rows),
         hop       |-> s.hop + 1]

(* What is returned: the edges found between nodes found, cut again.       *)
Subgraph(c, s) ==
    LET bounded == {e \in s.found : e[1] \in s.visited /\ e[2] \in s.visited}
        kept    == FirstEdges(bounded, MaxEdges)
    IN  [center |-> c, nodes |-> s.visited, edges |-> kept,
         truncated |-> s.truncated \/ kept # bounded]

(* Mutation: the watermark is left out of the key.                         *)
KeyWithoutWatermark(f) == [tx |-> center[f], watermark |-> 0]

(* Of the key's parts those that vary: the page leaves the limits to the   *)
(* settings, and a gateway has one model version.                          *)
SubgraphCacheKey(f) == [tx |-> center[f], watermark |-> watermark[f]]

-----------------------------------------------------------------------------
ExplorerInit ==
    /\ graph = EmptyGraph /\ checkpoint = 0
    /\ cache = [k \in {} |-> NoSubgraph]
    /\ pc = [f \in Fetches |-> "unused"]
    /\ center = [f \in Fetches |-> Null]
    /\ watermark = [f \in Fetches |-> 0]
    /\ search = [f \in Fetches |-> NoSearch]
    /\ result = [f \in Fetches |-> NoSubgraph]
    /\ lookup = [n \in Searches |-> Null]
    /\ open = {}
    /\ query = Null /\ entity = Null
    /\ active = NoOne /\ shown = NoOne
    /\ faults = 0
    /\ asOf = [w \in {0} |-> EmptyGraph] /\ overlapped = FALSE

(************************ Graph materializer *******************************)

(* materialize_graph_batch, as far as the query sees it.                   *)
Materialize(b) ==
    /\ b \in Batches
    /\ graph' = [nodes |-> graph.nodes \cup b.nodes,
                 edges |-> graph.edges \cup b.edges]
    /\ Ends(b.edges) \subseteq graph'.nodes
    /\ checkpoint' = IF b.step > checkpoint THEN b.step ELSE checkpoint
    /\ asOf' = [w \in DOMAIN asOf \cup {checkpoint'} |->
                   IF w \in DOMAIN asOf THEN asOf[w] ELSE graph']
    /\ UNCHANGED <<cache, request, page, faults, overlapped>>

(************************ The gateway: subgraph() **************************)

(* fetch_graph_watermark.                                                  *)
FetchWatermark(f) ==
    /\ pc[f] = "watermark"
    /\ watermark' = [watermark EXCEPT ![f] = checkpoint]
    /\ pc' = [pc EXCEPT ![f] = "cached"]
    /\ UNCHANGED <<database, cache, center, search, result, page, faults, past>>

CacheHit(f) ==
    /\ pc[f] = "cached"
    /\ SubgraphCacheKey(f) \in DOMAIN cache
    /\ result' = [result EXCEPT ![f] = cache[SubgraphCacheKey(f)]]
    /\ pc' = [pc EXCEPT ![f] = "reply"]
    /\ UNCHANGED <<database, cache, center, watermark, search, page, faults, past>>

(* Nothing under the key, or Redis raises: the same.                       *)
CacheMiss(f) ==
    /\ pc[f] = "cached"
    /\ pc' = [pc EXCEPT ![f] = "center"]
    /\ UNCHANGED <<database, cache, center, watermark, search, result, page, faults, past>>

(* Without a row for it the result is None: 404.                           *)
FindCenter(f) ==
    /\ pc[f] = "center"
    /\ IF center[f] \in graph.nodes
       THEN /\ search' = [search EXCEPT ![f] = AtCenter(center[f])]
            /\ pc' = [pc EXCEPT ![f] = "hop"]
       ELSE /\ pc' = [pc EXCEPT ![f] = "reply"]
            /\ UNCHANGED search
    /\ UNCHANGED <<database, cache, center, watermark, result, page, faults, past>>

Searching(s) == s.hop < MaxHops /\ s.frontier # {}

(* Each statement has a snapshot of its own.                               *)
Hop(f) ==
    /\ pc[f] = "hop"
    /\ Searching(search[f])
    /\ search' = [search EXCEPT ![f] = Expand(@, graph.edges)]
    /\ UNCHANGED <<database, cache, pc, center, watermark, result, page, faults, past>>

(* The statements for nodes and scores find a row for every id.            *)
Assemble(f) ==
    /\ pc[f] = "hop"
    /\ ~Searching(search[f])
    /\ result' = [result EXCEPT ![f] = Subgraph(center[f], search[f])]
    /\ search' = [search EXCEPT ![f] = NoSearch]
    /\ pc' = [pc EXCEPT ![f] = "store"]
    /\ UNCHANGED <<database, cache, center, watermark, page, faults, past>>

(* setex, which may raise and is not missed.                               *)
Store(f) ==
    /\ pc[f] = "store"
    /\ \/ cache' = [k \in DOMAIN cache \cup {SubgraphCacheKey(f)} |->
                      IF k = SubgraphCacheKey(f) THEN result[f] ELSE cache[k]]
       \/ UNCHANGED cache
    /\ pc' = [pc EXCEPT ![f] = "reply"]
    /\ UNCHANGED <<database, center, watermark, search, result, page, faults, past>>

(* The key's time to live has passed.                                      *)
Expire(k) ==
    /\ cache' = [j \in DOMAIN cache \ {k} |-> cache[j]]
    /\ UNCHANGED <<database, request, page, faults, past>>

(* PostgreSQL raises or is too slow, which is 503, or the gateway stops.   *)
FetchFails(f) ==
    /\ pc[f] \in {"watermark", "cached", "center", "hop", "store"}
    /\ faults < MaxFaults
    /\ faults' = faults + 1
    /\ search' = [search EXCEPT ![f] = NoSearch]
    /\ result' = [result EXCEPT ![f] = NoSubgraph]
    /\ pc' = [pc EXCEPT ![f] = "reply"]
    /\ UNCHANGED <<database, cache, center, watermark, page, past>>

(************************ The page: SubgraphViewer *************************)

(* The viewer is mounted: its effect fetches the subgraph of queryId.      *)
Mount ==
    \E f \in Fetches :
        /\ pc[f] = "unused"
        /\ \A g \in Fetches : g < f => pc[g] # "unused"
        /\ pc' = [pc EXCEPT ![f] = "watermark"]
        /\ center' = [center EXCEPT ![f] = query]
        /\ active' = f

(* Mutation: the viewer's cleanup does not deactivate the request.         *)
ReceiveLate(f) ==
    /\ pc[f] = "reply"
    /\ pc' = [pc EXCEPT ![f] = "done"]
    /\ watermark' = [watermark EXCEPT ![f] = 0]
    /\ result' = [result EXCEPT ![f] = NoSubgraph]
    /\ shown' = IF result[f] # NoSubgraph THEN f ELSE shown
    /\ UNCHANGED <<database, cache, center, search, explorer, active, faults, past>>

(* The answer counts if its effect is the current one.                     *)
Receive(f) ==
    /\ pc[f] = "reply"
    /\ pc' = [pc EXCEPT ![f] = "done"]
    /\ watermark' = [watermark EXCEPT ![f] = 0]
    /\ result' = [result EXCEPT ![f] = NoSubgraph]
    /\ shown' = IF active = f /\ result[f] # NoSubgraph THEN f ELSE shown
    /\ UNCHANGED <<database, cache, center, search, explorer, active, faults, past>>

(************************ The page: doSearch *******************************)

(* Called by the form, the history, a neighbour or another page; only the  *)
(* form's button is disabled while a search is open.                       *)
DoSearch(id) ==
    \E n \in Searches :
        /\ lookup[n] = Null
        /\ \A m \in Searches : m < n => lookup[m] # Null
        /\ lookup' = [lookup EXCEPT ![n] = id]
        /\ open' = open \cup {n}
        /\ query' = id
        /\ entity' = Null
        /\ active' = NoOne /\ shown' = NoOne
        /\ overlapped' = (overlapped \/ open # {})
        /\ UNCHANGED <<database, cache, request, faults, asOf>>

(* get_transaction_entity: what it reads of a node never goes away again.  *)
EntityExists(id) == id \in graph.nodes

(* The entity is there; the viewer is mounted unless it is already.        *)
EntityFound(n) ==
    /\ n \in open
    /\ EntityExists(lookup[n])
    /\ open' = open \ {n}
    /\ entity' = lookup[n]
    /\ IF entity = Null
       THEN Mount /\ UNCHANGED <<watermark, search, result>>
       ELSE UNCHANGED <<request, active>>
    /\ UNCHANGED <<database, cache, lookup, query, shown, faults, past>>

(* 404, or a request that fails: the error is shown, entityData stays.     *)
EntityMissing(n) ==
    /\ n \in open
    /\ \/ ~EntityExists(lookup[n]) /\ UNCHANGED faults
       \/ faults < MaxFaults /\ faults' = faults + 1
    /\ open' = open \ {n}
    /\ UNCHANGED <<database, cache, request, lookup, query, entity, viewer, past>>

ExplorerNext ==
    \/ \E b \in Batches : Materialize(b)
    \/ \E f \in Fetches :
          \/ FetchWatermark(f) \/ CacheHit(f) \/ CacheMiss(f) \/ FindCenter(f) \/ Hop(f)
          \/ Assemble(f) \/ Store(f) \/ FetchFails(f) \/ Receive(f)
    \/ \E k \in DOMAIN cache : Expire(k)
    \/ \E id \in Searched : DoSearch(id)
    \/ \E n \in Searches : EntityFound(n) \/ EntityMissing(n)

ExplorerSpec == ExplorerInit /\ [][ExplorerNext]_explorerVars

-----------------------------------------------------------------------------
(* Properties                                                              *)

(* A subgraph in its limits.                                               *)
Bounded(r, c) ==
    /\ r.center = c /\ c \in r.nodes
    /\ r.nodes \subseteq Txs /\ Cardinality(r.nodes) <= MaxNodes
    /\ r.edges \subseteq r.nodes \X r.nodes /\ Cardinality(r.edges) <= MaxEdges
    /\ r.truncated \in BOOLEAN

ExplorerTypeOK ==
    /\ graph.nodes \subseteq Txs /\ graph.edges \subseteq graph.nodes \X graph.nodes
    /\ checkpoint \in DOMAIN asOf
    /\ \A k \in DOMAIN cache : Bounded(cache[k], k.tx)
    /\ pc \in [Fetches -> PCs]
    /\ center \in [Fetches -> Searched \cup {Null}]
    /\ \A f \in Fetches :
          /\ pc[f] = "hop" => /\ search[f].visited \subseteq graph.nodes
                              /\ search[f].hop <= MaxHops
          /\ pc[f] \in {"store", "reply"} /\ result[f] # NoSubgraph
                => Bounded(result[f], center[f])
    /\ lookup \in [Searches -> Searched \cup {Null}]
    /\ open \subseteq {n \in Searches : lookup[n] # Null}
    /\ query \in Searched \cup {Null} /\ entity \in Searched \cup {Null}
    /\ active \in Fetches \cup {NoOne} /\ shown \in Fetches \cup {NoOne}
    /\ faults \in 0 .. MaxFaults

(* Reference: the nodes within each number of hops of c.                   *)
Around(g, c) ==
    LET ball[n \in 0 .. MaxHops] ==
            IF n = 0 THEN {c}
            ELSE ball[n - 1] \cup Ends({e \in g.edges : e[1] \in ball[n - 1]
                                                      \/ e[2] \in ball[n - 1]})
    IN  ball

(* What the query is for: the nodes within MaxHops, and the edges on the   *)
(* way to them.                                                            *)
Neighbourhood(g, c) ==
    [nodes |-> Around(g, c)[MaxHops],
     edges |-> {e \in g.edges : e[1] \in Around(g, c)[MaxHops - 1]
                             \/ e[2] \in Around(g, c)[MaxHops - 1]}]

Within(r, s) == r.nodes \subseteq s.nodes /\ r.edges \subseteq s.edges

(* "Bounded deterministic graph with `truncated`" (README.md:270): a       *)
(* subgraph that is not marked lacks nothing of the neighbourhood that was *)
(* there when the checkpoint came to the watermark the request has read,   *)
(* and none has anything beyond the neighbourhood there is, although it is *)
(* read hop by hop while batches commit, cut at two limits, or was cached  *)
(* for another request at another time.                                    *)
ServedBetween ==
    \A f \in Fetches : pc[f] = "reply" /\ result[f] # NoSubgraph =>
        /\ Within(result[f], Neighbourhood(graph, center[f]))
        /\ ~result[f].truncated =>
              Within(Neighbourhood(asOf[watermark[f]], center[f]), result[f])

(* The page shows what belongs to the query in its title: the subgraph     *)
(* always, whichever answer comes late; the entity unless doSearch has     *)
(* been called while an earlier search was open, since it takes any answer *)
(* for the current one's.                                                  *)
ShownOfQuery ==
    /\ shown # NoOne => center[shown] = query
    /\ entity \in {query, Null} \/ overlapped
=============================================================================
