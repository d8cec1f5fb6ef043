----------------------------- MODULE Dashboard -----------------------------
(***************************************************************************)
(* What a dashboard page does with the events that its WebSocket brings.   *)
(* onmessage puts each into a pending list; a timer takes one from it per  *)
(* tick, unless the page is paused, and ingests it: the event goes to the  *)
(* front of the transactions, of the alerts when it is flagged, and of the *)
(* graph, each of a bounded length.  ingestTransaction only hands updater  *)
(* functions to React, which runs them at the next render, in order; the   *)
(* sets of ids that the updaters consult are refs, which change at once.   *)
(*                                                                         *)
(*   frontend/src/context/WebSocketContext.tsx                             *)
(*                                                                         *)
(* Events are numbered as they reach enqueueTransaction, which is in the   *)
(* order of the stream and once each (StreamDelivery).  An event gives a   *)
(* transaction, its score and its neighbors; demo mode, latencies and      *)
(* throughput are left out.                                                *)
(***************************************************************************)
EXTENDS Integers, Sequences, SequencesExt, FiniteSetsExt

CONSTANTS
    Contents,         \* what events say: [tx, score, neighbors]
    Thresholds,       \* positions of the threshold slider
    DefaultThreshold, \* 0.9: where it is at first
    MaxVisible,       \* MAX_VISIBLE_TRANSACTIONS, and MAX_GRAPH_NODES
    MaxPending,       \* MAX_PENDING_TRANSACTIONS
    MaxGraphEdges,    \* MAX_GRAPH_EDGES
    Compact,          \* 1024: no splice of a shorter head than this
    MaxEvents,        \* bound: events that reach the page
    MaxUpdates,       \* bound: ticks and clears between two renders
    MaxClicks         \* bound: clicks on pause, on the slider and on clear

ASSUME LimitsAssumption == MaxVisible \in Nat \ {0} /\ MaxPending \in Nat \ {0}
                           /\ MaxGraphEdges \in Nat \ {0} /\ Compact \in Nat
ASSUME NeighborsAssumption ==
    \A content \in Contents : content.neighbors \in Seq(Range(content.neighbors))
ASSUME ThresholdAssumption == DefaultThreshold \in Thresholds
ASSUME BoundsAssumption == MaxEvents \in Nat /\ MaxUpdates \in Nat \ {0} /\ MaxClicks \in Nat

VARIABLES
    received,       \* history: the contents of the events received
    pending,        \* pendingTransactionsRef: events, by number
    pendingHead,    \* pendingHeadRef: how many of them are dealt with
    isPaused,       \* what the button shows
    isPausedRef,    \* what the timer looks at
    threshold,      \* thresholdRef
    updates,        \* updates handed to React and not rendered
    transactions, alerts, graphNodes,    \* a list, and the ref of its ids
    graphEdges,     \* the list of edges, and the ref of their keys
    presented,      \* history: what was ingested, in order
    cleared,        \* history: how much of it when the alerts were cleared
    raced,          \* history: they were, with an alert not rendered yet
    clicks          \* environment counter

backlog == <<received, pending, pendingHead>>
lists   == <<transactions, alerts, graphNodes, graphEdges>>
history == <<presented, cleared, raced>>
vars    == <<backlog, isPaused, isPausedRef, threshold, updates, lists, history, clicks>>

TxIds == {content.tx : content \in Contents}

(* What ingestTransaction makes of an event, and the update of clearAlerts.*)
Items == [event : 1 .. MaxEvents, tx : TxIds, flagged : BOOLEAN,
          neighbors : {content.neighbors : content \in Contents}]

Clearing == [event |-> 0]

Empty == [list |-> <<>>, ids |-> {}]

Init ==
    /\ received = <<>> /\ pending = <<>> /\ pendingHead = 0
    /\ isPaused = FALSE /\ isPausedRef = FALSE
    /\ threshold = DefaultThreshold
    /\ updates = <<>>
    /\ transactions = Empty /\ alerts = Empty /\ graphNodes = Empty
    /\ graphEdges = Empty
    /\ presented = <<>> /\ cleared = 0 /\ raced = FALSE
    /\ clicks = 0

-----------------------------------------------------------------------------
(* The pending list                                                        *)

(* Mutation: what is dealt with is never cut off.                          *)
SplicedNever(list, dealt) == [list |-> list, head |-> dealt]

(* Mutation: the list is cut and its head is not set back.                        *)
SplicedOnly(list, dealt) ==
    IF dealt > Compact /\ dealt * 2 > Len(list)
    THEN [list |-> SubSeq(list, dealt + 1, Len(list)), head |-> dealt]
    ELSE [list |-> list, head |-> dealt]

(* A list of which so many are dealt with; they are cut off when they are  *)
(* more than Compact and more than half of it.                             *)
Spliced(list, dealt) ==
    IF dealt > Compact /\ dealt * 2 > Len(list)
    THEN [list |-> SubSeq(list, dealt + 1, Len(list)), head |-> 0]
    ELSE [list |-> list, head |-> dealt]

PendingLength == Len(pending) - pendingHead

(* enqueueTransaction: a full list loses its oldest event.                 *)
Enqueue(content) ==
    /\ Len(received) < MaxEvents
    /\ received' = Append(received, content)
    /\ LET dropped == IF PendingLength >= MaxPending THEN PendingLength - MaxPending + 1 ELSE 0
           rest == Spliced(pending, pendingHead + dropped)
       IN /\ pending' = Append(rest.list, Len(received) + 1)
          /\ pendingHead' = rest.head
    /\ UNCHANGED <<isPaused, isPausedRef, threshold, updates, lists, history, clicks>>

Item(n) == [event |-> n, tx |-> received[n].tx, flagged |-> received[n].score >= threshold,
            neighbors |-> received[n].neighbors]

(* The timer: take the next event and ingest it.                           *)
Tick ==
    /\ ~isPausedRef
    /\ pendingHead < Len(pending)
    /\ Len(updates) < MaxUpdates
    /\ LET item == Item(pending[pendingHead + 1])
           rest == Spliced(pending, pendingHead + 1)
       IN /\ pending' = rest.list
          /\ pendingHead' = rest.head
          /\ presented' = Append(presented, item)
          /\ updates' = Append(updates, item)
    /\ UNCHANGED <<received, isPaused, isPausedRef, threshold, lists, cleared, raced, clicks>>

-----------------------------------------------------------------------------
(* The updaters                                                            *)

(* list.filter(other => other.tx_id !== tx)                                *)
Without(list, tx) ==
    LET kept[n \in 0 .. Len(list)] ==
            IF n = 0 THEN <<>>
            ELSE IF list[n].tx = tx THEN kept[n - 1]
            ELSE Append(kept[n - 1], list[n])
    IN  kept[Len(list)]

Fitting(list, limit) == IF Len(list) > limit THEN limit ELSE Len(list)

(* Mutation: what leaves the list is still taken for listed.               *)
ListedKeepingIds(view, item, limit) ==
    IF item.tx \in view.ids
    THEN [view EXCEPT !.list = <<item>> \o Without(@, item.tx)]
    ELSE LET longer == <<item>> \o view.list
         IN  [list |-> SubSeq(longer, 1, Fitting(longer, limit)),
              ids |-> view.ids \cup {item.tx}]

(* setTransactions, setAlerts, setGraphNodes: the item comes to the front. *)
(* The list is cut only when the transaction is new to it.                 *)
Listed(view, item, limit) ==
    IF item.tx \in view.ids
    THEN [view EXCEPT !.list = <<item>> \o Without(@, item.tx)]
    ELSE LET longer == <<item>> \o view.list
         IN  [list |-> SubSeq(longer, 1, Fitting(longer, limit)),
              ids |-> (view.ids \cup {item.tx})
                      \ {longer[i].tx : i \in Fitting(longer, limit) + 1 .. Len(longer)}]

(* The keys of an item's edges: an edge is the same from both its ends.    *)
EdgeKeys(item) == [i \in DOMAIN item.neighbors |-> {item.tx, item.neighbors[i]}]

(* Those of the keys that are not known, each once.                        *)
Added(known, keys) ==
    LET new[n \in 0 .. Len(keys)] ==
            IF n = 0 THEN <<>>
            ELSE IF keys[n] \in known \cup Range(new[n - 1]) THEN new[n - 1]
            ELSE Append(new[n - 1], keys[n])
    IN  new[Len(keys)]

(* setGraphEdges: the edges that are new, in front.                        *)
Linked(view, item) ==
    LET added == Added(view.ids, EdgeKeys(item))
        longer == added \o view.list
        length == Fitting(longer, MaxGraphEdges)
    IN  [list |-> SubSeq(longer, 1, length),
         ids |-> (view.ids \cup Range(added)) \ {longer[i] : i \in length + 1 .. Len(longer)}]

(* The alerts after one update: setAlerts([]) leaves the ref as it is, for *)
(* clearAlerts has emptied it before.                                      *)
Alerted(view, update) ==
    IF update = Clearing THEN [view EXCEPT !.list = <<>>]
    ELSE IF update.flagged THEN Listed(view, update, MaxVisible)
    ELSE view

(* The four lists after one update.                                        *)
Updated(views, update) ==
    [transactions |-> IF update = Clearing THEN views.transactions
                      ELSE Listed(views.transactions, update, MaxVisible),
     alerts       |-> Alerted(views.alerts, update),
     graphNodes   |-> IF update = Clearing THEN views.graphNodes
                      ELSE Listed(views.graphNodes, update, MaxVisible),
     graphEdges   |-> IF update = Clearing THEN views.graphEdges
                      ELSE Linked(views.graphEdges, update)]

(* All updates, in the order they were handed over; each step is a set of  *)
(* one, for TLC to evaluate it once.                                       *)
Rendered ==
    LET made[n \in 0 .. Len(updates)] ==
            IF n = 0
            THEN {[transactions |-> transactions, alerts |-> alerts,
                   graphNodes |-> graphNodes, graphEdges |-> graphEdges]}
            ELSE {Updated(views, updates[n]) : views \in made[n - 1]}
    IN  made[Len(updates)]

(* React renders.  (The click on clear is rendered first, but the updates  *)
(* before it are then made, and it again after them.)                      *)
Render ==
    /\ updates # <<>>
    /\ updates' = <<>>
    /\ \E views \in Rendered :
          /\ transactions' = views.transactions
          /\ alerts' = views.alerts
          /\ graphNodes' = views.graphNodes
          /\ graphEdges' = views.graphEdges
    /\ UNCHANGED <<backlog, isPaused, isPausedRef, threshold, history, clicks>>

-----------------------------------------------------------------------------
(* The analyst                                                             *)

Click == clicks < MaxClicks /\ clicks' = clicks + 1

(* Mutation: the effect that copies the state to the ref runs only once    *)
(* the page has been paused, not again.                                    *)
SeenByTimerOnce(value) == isPausedRef \/ value

(* useEffect(() => { isPausedRef.current = isPaused; }, [isPaused])        *)
SeenByTimer(value) == value

(* setPaused.  React renders a click, with its effects, before anything    *)
(* else happens on the page.                                               *)
SetPaused ==
    /\ Click
    /\ isPaused' = ~isPaused
    /\ isPausedRef' = SeenByTimer(~isPaused)
    /\ UNCHANGED <<backlog, threshold, updates, lists, history>>

SetThreshold ==
    /\ Click
    /\ threshold' \in Thresholds \ {threshold}
    /\ UNCHANGED <<backlog, isPaused, isPausedRef, updates, lists, history>>

(* clearAlerts: the ref is empty at once, the list once React renders it.  *)
ClearAlerts ==
    /\ Click
    /\ alerts.list # <<>>
    /\ Len(updates) < MaxUpdates
    /\ alerts' = [alerts EXCEPT !.ids = {}]
    /\ updates' = Append(updates, Clearing)
    /\ cleared' = Len(presented)
    /\ raced' = (raced \/ \E i \in DOMAIN updates : updates[i] # Clearing /\ updates[i].flagged)
    /\ UNCHANGED <<backlog, isPaused, isPausedRef, threshold, transactions, graphNodes,
                   graphEdges, presented>>

Next ==
    \/ \E content \in Contents : Enqueue(content)
    \/ Tick
    \/ Render
    \/ SetPaused \/ SetThreshold \/ ClearAlerts

(* The browser runs its timers, and React renders what it was handed.      *)
Fairness == WF_vars(Tick) /\ WF_vars(Render)

Spec == Init /\ [][Next]_vars /\ Fairness

-----------------------------------------------------------------------------
(* Properties                                                              *)

Views == [list : Seq(Items), ids : SUBSET TxIds]

Greater(a, b) == IF a > b THEN a ELSE b

(* The pending list takes no more memory than twice a full list, or a full *)
(* one and a head that is too short to cut off (WebSocketContext.tsx:290). *)
PendingBounded ==
    /\ PendingLength <= MaxPending
    /\ Len(pending) <= Greater(2 * MaxPending, MaxPending + Compact)

TypeOK ==
    /\ received \in Seq(Contents) /\ Len(received) <= MaxEvents
    /\ pending \in Seq(1 .. MaxEvents)
    /\ pendingHead \in 0 .. Len(pending)
    /\ PendingBounded
    /\ isPaused \in BOOLEAN /\ isPausedRef \in BOOLEAN
    /\ threshold \in Thresholds
    /\ updates \in Seq(Items \cup {Clearing})
    /\ transactions \in Views /\ alerts \in Views /\ graphNodes \in Views
    /\ graphEdges.list \in Seq(graphEdges.ids)
    /\ presented \in Seq(Items)
    /\ cleared \in 0 .. Len(presented)
    /\ raced \in BOOLEAN
    /\ clicks \in 0 .. MaxClicks

Pending == {pending[i] : i \in pendingHead + 1 .. Len(pending)}

Presented == {presented[i].event : i \in DOMAIN presented}

(* However bursts, pauses and splices of the pending list fall, events are *)
(* presented in the order they came in and once each, and one is missing   *)
(* only if as many came in after it as the list holds: a pause loses the   *)
(* oldest events and nothing else (WebSocketContext.tsx:287).              *)
PresentedInOrder ==
    /\ \A i, j \in DOMAIN presented : i < j => presented[i].event < presented[j].event
    /\ \A i, j \in pendingHead + 1 .. Len(pending) : i < j => pending[i] < pending[j]
    /\ \A n \in Presented, m \in Pending : n < m
    /\ \A n \in DOMAIN received \ (Presented \cup Pending) : n + MaxPending <= Len(received)

(* Of the events presented at some places, the last of each transaction,   *)
Latest(places) ==
    {i \in places : \A j \in places : j > i => presented[j].tx # presented[i].tx}

(* from the newest on.                                                     *)
Newest(places) ==
    [k \in 1 .. Cardinality(Latest(places)) |->
        presented[CHOOSE i \in Latest(places) :
                      Cardinality({j \in Latest(places) : j >= i}) = k]]

FirstOf(list, n) == SubSeq(list, 1, Fitting(list, n))

FlaggedSinceClear == {i \in cleared + 1 .. Len(presented) : presented[i].flagged}

EdgesPresented == UNION {Range(EdgeKeys(presented[i])) : i \in DOMAIN presented}

(* When React has rendered everything, the page lists the transactions     *)
(* presented last, each once and as its last event had it, so many as fit; *)
(* the alerts likewise, of what was flagged since the queue was cleared;   *)
(* the graph has their nodes, and every edge, once, until it is full.      *)
(* Lists and refs are changed apart and at different times.  When the      *)
(* queue is cleared with an alert on its way, the ref keeps that alert's   *)
(* id, and the list may outgrow its limit, but what it has is right.       *)
PageShowsLatest ==
    updates = <<>> =>
        LET flagged == Newest(FlaggedSinceClear) IN
        /\ transactions.list = FirstOf(Newest(DOMAIN presented), MaxVisible)
        /\ graphNodes.list = transactions.list
        /\ \/ alerts.list = FirstOf(flagged, MaxVisible)
           \/ raced /\ Len(alerts.list) > MaxVisible /\ IsPrefix(alerts.list, flagged)
        /\ Len(graphEdges.list) = Cardinality(Range(graphEdges.list))
        /\ Range(graphEdges.list) \subseteq EdgesPresented
        /\ Len(graphEdges.list) < MaxGraphEdges => Range(graphEdges.list) = EdgesPresented
        /\ Len(graphEdges.list) <= MaxGraphEdges

(* Unless the page is left paused, it gets to the end of what came in:     *)
(* nothing waits in the list or for React.  (MaxEvents bounds what comes   *)
(* in; nothing else keeps the rate of the stream below that of the timer.) *)
EveryEventPresented ==
    []<>~isPaused => []<>(Pending = {} /\ updates = <<>>)
=============================================================================
