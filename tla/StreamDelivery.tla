--------------------------- MODULE StreamDelivery ---------------------------
(***************************************************************************)
(* From the Redis stream to a browser.  Every gateway tails the stream     *)
(* with XREAD and puts each entry into the bounded queue of each of its    *)
(* clients.  A client that connects is registered first, then gets the     *)
(* entries after its cursor from the stream itself, and then its queue,    *)
(* without what the replay has sent.  The model follows one browser page,  *)
(* which reconnects to any gateway whenever its connection ends.  A        *)
(* connection that ends before its replay leaves its client registered:    *)
(* that counts for the gateway's capacity until its queue overflows.       *)
(*                                                                         *)
(*   services/api_gateway/broadcaster.py, RedisStreamBroadcaster           *)
(*   services/api_gateway/main.py, websocket_handler, websocket_sender     *)
(*   frontend/src/context/WebSocketContext.tsx                             *)
(*   shared/redis/stream.py                                                *)
(*                                                                         *)
(* A stream entry, and its event, is its place in the stream: 1, 2, ...    *)
(***************************************************************************)
EXTENDS Integers, Sequences, FiniteSets, Functions

CONSTANTS
    Gateways,      \* gateway processes
    MaxLen,        \* settings.redis_stream_maxlen
    ReplayLimit,   \* settings.redis_replay_limit
    ReadCount,     \* XREAD's count, 256
    QueueSize,     \* settings.websocket_client_queue_size
    MaxClients,    \* settings.websocket_max_clients
    Remembered,    \* event ids the page remembers, 1000
    MaxEntries,    \* bound: entries of the stream
    MaxBreaks      \* bound: gateways that stop, connections that break, Redis
                   \* reads that raise and sends that time out, together

ASSUME SettingAssumption == {MaxLen, ReplayLimit, ReadCount, QueueSize, MaxClients,
                              Remembered} \subseteq Nat \ {0}
ASSUME DeliveryBounds == MaxEntries \in Nat /\ MaxBreaks \in Nat

Fresh    == -1     \* the cursor "$"
NoCursor == 0      \* no cursor: null, None
None     == "none"

VARIABLES
    last,       \* the newest entry of the stream
    oldest,     \* the oldest one that is not trimmed
    tailPc,     \* where each gateway's _tail is: "down", "idle" or "reading"
    tailCursor, \* self.cursor
    from,       \* the entry its XREAD reads from, "$" resolved
    upto,       \* the last entry of Redis's reply, from itself if it blocks
    phase,      \* where websocket_handler is with the page, "away" if nowhere
    gateway,    \* on which gateway, None if away
    queue,      \* client.queue
    closed,     \* client.closed, "set" or "clear"; if set, not in self.clients
    leaked,     \* how long the queues of the clients left behind are, per gateway,
                \* by the place each takes of the gateway's MaxClients
    replay,     \* replayed_events still to be sent
    sent,       \* state["last_event_id"]
    cursor,     \* lastEventIdRef of the page
    ingested,   \* the events the page has taken in, in order
    breaks,     \* environment counter
    skipped,    \* history: entries a connection passed over
    early       \* history: clients each gateway has left behind since its start

stream   == <<last, oldest>>
tail     == <<tailPc, tailCursor, from, upto>>
left     == <<leaked, early>>
session  == <<phase, gateway, queue, closed, replay, sent>>
browser  == <<cursor, ingested>>
deliveryVars == <<stream, tail, left, session, browser, breaks, skipped>>

Least(a, b)    == IF a <= b THEN a ELSE b
Greatest(a, b) == IF a >= b THEN a ELSE b

Places == 1 .. MaxClients
Nobody == [c \in {} |-> 0]

Interval(lo, hi) == [i \in 1 .. (hi - lo + 1) |-> lo + i - 1]

(* Mutation: a client is in self.clients only once its replay is over.     *)
ListeningLate(g) == gateway = g /\ phase = "live" /\ closed = "clear"

(* The page's client is in self.clients of g.                              *)
Listening(g) == gateway = g /\ phase # "away" /\ closed = "clear"

(* History: g passes over the entries of S, and its client has had its     *)
(* replay, so that nothing brings them back to it.                         *)
PassOver(g, S) ==
    skipped' = IF gateway = g /\ phase \in {"replaying", "live"}
               THEN skipped \cup (S \ (Range(ingested) \cup Range(replay) \cup Range(queue)))
               ELSE skipped

-----------------------------------------------------------------------------
DeliveryInit ==
    /\ last = 0 /\ oldest = 1
    /\ tailPc = [g \in Gateways |-> "down"]
    /\ tailCursor = [g \in Gateways |-> Fresh]
    /\ from = [g \in Gateways |-> 0]
    /\ upto = [g \in Gateways |-> 0]
    /\ phase = "away"
    /\ gateway = None
    /\ queue = <<>> /\ closed = "clear" /\ replay = <<>> /\ sent = NoCursor
    /\ cursor = NoCursor /\ ingested = <<>>
    /\ breaks = 0
    /\ skipped = {}
    /\ leaked = [g \in Gateways |-> Nobody]
    /\ early = [g \in Gateways |-> 0]

(****************************** Redis **************************************)

(* XADD with MAXLEN ~: Redis may trim to MaxLen entries, and may not.  A   *)
(* blocked XREAD is answered with the entry.  A gateway that was to read   *)
(* from "$" and is between two XREADs passes it over.                      *)
Publish ==
    /\ last < MaxEntries
    /\ last' = last + 1
    /\ oldest' \in {oldest, Greatest(oldest, last' - MaxLen + 1)}
    /\ upto' = [g \in Gateways |->
                  IF tailPc[g] = "reading" /\ upto[g] = from[g] THEN last' ELSE upto[g]]
    /\ \/ \E g \in Gateways : tailPc[g] = "idle" /\ tailCursor[g] = Fresh
                             /\ gateway = g /\ PassOver(g, {last'})
       \/ /\ \A g \in Gateways : gateway = g =>
                 ~(tailPc[g] = "idle" /\ tailCursor[g] = Fresh)
          /\ UNCHANGED skipped
    /\ UNCHANGED <<tailPc, tailCursor, from, session, browser, breaks, left>>

(*********************** _tail of a gateway ********************************)

StartGateway(g) ==
    /\ tailPc[g] = "down"
    /\ tailPc' = [tailPc EXCEPT ![g] = "idle"]
    /\ UNCHANGED <<stream, tailCursor, from, upto, session, browser, breaks, skipped, left>>

(* The XREAD of g is over.                                                 *)
EndRead(g) ==
    /\ tailPc' = [tailPc EXCEPT ![g] = "idle"]
    /\ from' = [from EXCEPT ![g] = 0]
    /\ upto' = [upto EXCEPT ![g] = 0]

(* XREAD arrives at Redis: it is answered with the entries after the       *)
(* cursor that are still there, or blocks.                                 *)
XRead(g) ==
    /\ tailPc[g] = "idle"
    /\ tailPc' = [tailPc EXCEPT ![g] = "reading"]
    /\ from' = [from EXCEPT ![g] = IF tailCursor[g] = Fresh THEN last
                                   ELSE Greatest(tailCursor[g], oldest - 1)]
    /\ upto' = [upto EXCEPT ![g] = Least(last, from'[g] + ReadCount)]
    /\ IF tailCursor[g] = Fresh THEN UNCHANGED skipped
       ELSE PassOver(g, (tailCursor[g] + 1) .. from'[g])
    /\ UNCHANGED <<stream, tailCursor, session, browser, breaks, left>>

(* put_nowait entry by entry; a full queue closes the client and removes   *)
(* it from self.clients.                                                   *)
Broadcast(g, entries) ==
    /\ leaked' = [leaked EXCEPT ![g] =
                    [c \in {d \in DOMAIN @ : @[d] + Len(entries) <= QueueSize}
                        |-> @[c] + Len(entries)]]
    /\ IF Listening(g)
       THEN LET all == queue \o entries
            IN  /\ queue' = SubSeq(all, 1, Least(Len(all), QueueSize))
                /\ closed' = IF Len(all) > QueueSize THEN "set" ELSE "clear"
       ELSE UNCHANGED <<queue, closed>>

(* The reply: the whole of it is broadcast without an await.               *)
XReadReturns(g) ==
    /\ tailPc[g] = "reading"
    /\ from[g] < upto[g]
    /\ Broadcast(g, Interval(from[g] + 1, upto[g]))
    /\ tailCursor' = [tailCursor EXCEPT ![g] = upto[g]]
    /\ EndRead(g)
    /\ UNCHANGED <<stream, phase, gateway, replay, sent, browser, breaks, skipped, early>>

(* A second without entries: the cursor is still "$" if it was.            *)
XReadEmpty(g) ==
    /\ tailPc[g] = "reading"
    /\ from[g] = upto[g]
    /\ EndRead(g)
    /\ UNCHANGED <<stream, tailCursor, session, browser, breaks, skipped, left>>

(* Redis is away, or the reply is lost: back-off, the same cursor.         *)
XReadFails(g) ==
    /\ tailPc[g] = "reading"
    /\ breaks < MaxBreaks
    /\ breaks' = breaks + 1
    /\ EndRead(g)
    /\ IF tailCursor[g] = Fresh THEN PassOver(g, (from[g] + 1) .. last)
       ELSE UNCHANGED skipped
    /\ UNCHANGED <<stream, tailCursor, session, browser, left>>

(************************ A connection of the page *************************)

EndSession ==
    /\ phase' = "away" /\ gateway' = None
    /\ queue' = <<>> /\ closed' = "clear" /\ replay' = <<>> /\ sent' = NoCursor

(* register: otherwise the gateway answers 1013, and the page tries again. *)
HasRoom(g) == DOMAIN leaked[g] # Places

(* The page connects with its cursor, and the client is registered.        *)
Connect(g) ==
    /\ phase = "away"
    /\ tailPc[g] # "down"
    /\ HasRoom(g)
    /\ gateway' = g
    /\ phase' = "registered"
    /\ sent' = cursor
    /\ UNCHANGED <<stream, tail, queue, closed, replay, browser, breaks, skipped, left>>

(* replay_after the cursor, replay_recent without one.                     *)
ReplayRows ==
    IF cursor # NoCursor
    THEN LET first == Greatest(oldest, cursor + 1)
         IN  Interval(first, Least(last, first + ReplayLimit - 1))
    ELSE Interval(Greatest(oldest, last - ReplayLimit + 1), last)

(* What g has broadcast, or passed over, before.                           *)
TailPosition(g) ==
    IF tailPc[g] = "reading" THEN from[g]
    ELSE IF tailCursor[g] = Fresh THEN last ELSE tailCursor[g]

(* What was trimmed, or precedes the recent entries, is passed over, also  *)
(* if it is queued: the sender drops what is not after the replay.  So is  *)
(* what is after the limit and was broadcast before the page connected.    *)
Fetch ==
    /\ phase = "registered"
    /\ phase' = "replaying"
    /\ replay' = ReplayRows
    /\ skipped' = skipped \cup
          {n \in (cursor + 1) .. last :
              \/ replay' # <<>> /\ n < Head(replay')
              \/ n <= TailPosition(gateway) /\ n \notin Range(replay') \cup Range(queue)}
    /\ UNCHANGED <<stream, tail, gateway, queue, closed, sent, browser, breaks, left>>

(* Mutation: events are not remembered.                                    *)
TakeInAll(n, c) ==
    /\ cursor' = c
    /\ ingested' = Append(ingested, n)

(* onmessage of an event, and last of a message with cursor c: the cursor  *)
(* moves, a remembered event goes no further.                              *)
TakeIn(n, c) ==
    LET recent == {i \in DOMAIN ingested : i > Len(ingested) - Remembered}
    IN  /\ cursor' = c
        /\ ingested' = IF \E i \in recent : ingested[i] = n THEN ingested
                       ELSE Append(ingested, n)

SendReplayed ==
    /\ phase = "replaying"
    /\ replay # <<>>
    /\ TakeIn(Head(replay), Head(replay))
    /\ sent' = Head(replay)
    /\ replay' = Tail(replay)
    /\ UNCHANGED <<stream, tail, phase, gateway, queue, closed, breaks, skipped, left>>

StartSender ==
    /\ phase = "replaying"
    /\ replay = <<>>
    /\ phase' = "live"
    /\ UNCHANGED <<stream, tail, gateway, queue, closed, replay, sent, browser, breaks,
                   skipped, left>>

(* websocket_sender: the replay may have sent the entry already.           *)
SendQueued ==
    /\ phase = "live" /\ closed = "clear" /\ queue # <<>>
    /\ queue' = Tail(queue)
    /\ \/ /\ Head(queue) <= sent
          /\ UNCHANGED <<sent, browser>>
       \/ /\ Head(queue) > sent
          /\ TakeIn(Head(queue), Head(queue))
          /\ sent' = Head(queue)
    /\ UNCHANGED <<stream, tail, phase, gateway, closed, replay, breaks, skipped, left>>

(* The send is not flushed in time.  Its bytes are in the transport, so    *)
(* the page gets them; the sender takes the TimeoutError for a quiet queue *)
(* and sends a heartbeat with the entry before, if any, which the page     *)
(* takes for its cursor.                                                   *)
SendTimesOut ==
    /\ phase = "live" /\ closed = "clear" /\ queue # <<>>
    /\ breaks < MaxBreaks
    /\ breaks' = breaks + 1
    /\ Head(queue) > sent
    /\ queue' = Tail(queue)
    /\ TakeIn(Head(queue), IF sent = NoCursor THEN Head(queue) ELSE sent)
    /\ UNCHANGED <<stream, tail, phase, gateway, closed, replay, sent, skipped, left>>

(* Mutation: a client is closed when it has been sent all of its queue.    *)
CloseDrained ==
    /\ phase = "live" /\ closed = "set" /\ queue = <<>>
    /\ EndSession
    /\ UNCHANGED <<stream, tail, browser, breaks, skipped, left>>

(* The closer: 1013, "slow client".                                        *)
CloseSlow ==
    /\ phase = "live" /\ closed = "set"
    /\ EndSession
    /\ UNCHANGED <<stream, tail, browser, breaks, skipped, left>>

(* The client is left in self.clients.                                     *)
LeaveBehind(g) ==
    LET place == CHOOSE c \in Places : c \notin DOMAIN leaked[g]
    IN  leaked' = [leaked EXCEPT ![g] = [c \in DOMAIN @ \cup {place} |->
                                            IF c = place THEN Len(queue) ELSE @[c]]]

(* Mutation: websocket_handler has no finally.                             *)
UnregisterNever(g) == IF Listening(g) THEN LeaveBehind(g) ELSE UNCHANGED leaked

(* The finally of websocket_handler.                                       *)
Unregister(g) == UNCHANGED leaked

(* The network breaks, or Redis raises in the replay.                      *)
Disconnect ==
    /\ phase # "away"
    /\ breaks < MaxBreaks
    /\ breaks' = breaks + 1
    /\ Unregister(gateway)
    /\ EndSession
    /\ UNCHANGED <<stream, tail, browser, skipped, early>>

(* The same, or an exception of the database, in accept, replay_telemetry  *)
(* or the "connected" message: before the try.                             *)
BreakEarly ==
    /\ phase = "registered"
    /\ breaks < MaxBreaks
    /\ breaks' = breaks + 1
    /\ early' = [early EXCEPT ![gateway] = @ + 1]
    /\ IF Listening(gateway) THEN LeaveBehind(gateway) ELSE UNCHANGED leaked
    /\ EndSession
    /\ UNCHANGED <<stream, tail, browser, skipped>>

(* A gateway stops; its clients lose their connection.                     *)
StopGateway(g) ==
    /\ tailPc[g] # "down"
    /\ breaks < MaxBreaks
    /\ breaks' = breaks + 1
    /\ tailPc' = [tailPc EXCEPT ![g] = "down"]
    /\ tailCursor' = [tailCursor EXCEPT ![g] = Fresh]
    /\ from' = [from EXCEPT ![g] = 0]
    /\ upto' = [upto EXCEPT ![g] = 0]
    /\ leaked' = [leaked EXCEPT ![g] = Nobody]
    /\ early' = [early EXCEPT ![g] = 0]
    /\ IF gateway = g THEN EndSession ELSE UNCHANGED session
    /\ UNCHANGED <<stream, browser, skipped>>

TailStep(g) == StartGateway(g) \/ XRead(g) \/ XReadReturns(g) \/ XReadEmpty(g)

SessionStep ==
    \/ \E g \in Gateways : Connect(g)
    \/ Fetch
    \/ SendReplayed
    \/ StartSender
    \/ SendQueued
    \/ CloseSlow

DeliveryNext ==
    \/ Publish
    \/ \E g \in Gateways : TailStep(g) \/ XReadFails(g) \/ StopGateway(g)
    \/ SessionStep
    \/ SendTimesOut
    \/ Disconnect
    \/ BreakEarly

(* The event loops run, a gateway's container is restarted, and the page   *)
(* reconnects whenever its connection ends.                                *)
DeliveryFairness ==
    /\ \A g \in Gateways : WF_deliveryVars(TailStep(g))
    /\ WF_deliveryVars(SessionStep)

DeliverySpec == DeliveryInit /\ [][DeliveryNext]_deliveryVars /\ DeliveryFairness

-----------------------------------------------------------------------------
(* Properties                                                              *)

Entries == 1 .. last

(* In particular: the queue of a client never exceeds its bound.           *)
DeliveryTypeOK ==
    /\ last \in 0 .. MaxEntries
    /\ oldest \in 1 .. Greatest(last, 1)
    /\ tailPc \in [Gateways -> {"down", "idle", "reading"}]
    /\ tailCursor \in [Gateways -> Entries \cup {Fresh}]
    /\ from \in [Gateways -> 0 .. last]
    /\ upto \in [Gateways -> 0 .. last]
    /\ phase \in {"away", "registered", "replaying", "live"}
    /\ gateway \in Gateways \cup {None}
    /\ queue \in Seq(Entries) /\ Len(queue) <= QueueSize
    /\ closed \in {"clear", "set"}
    /\ replay \in Seq(Entries) /\ Len(replay) <= ReplayLimit
    /\ sent \in 0 .. last
    /\ cursor \in 0 .. last
    /\ ingested \in Seq(Entries)
    /\ breaks \in 0 .. MaxBreaks
    /\ skipped \subseteq Entries
    /\ leaked \in [Gateways -> UNION {[C -> 0 .. QueueSize] : C \in SUBSET Places}]
    /\ early \in [Gateways -> 0 .. MaxBreaks]

Late == {i \in DOMAIN ingested : ingested[i] \in skipped}

(* The page takes in every event once, and in the order of the stream,     *)
(* over all its connections, its replays and their overlap with the live   *)
(* queue.  Only an event that an earlier connection passed over may come   *)
(* late, when a replay starts before it.  The page may forget an event     *)
(* that it gets again (WebSocketContext.tsx:338), but not before as many   *)
(* breaks and late events as it remembers events.                          *)
IngestedInOrder ==
    breaks + Cardinality(Late) <= Remembered =>
        \A i, j \in DOMAIN ingested :
            i < j => \/ ingested[i] < ingested[j]
                     \/ ingested[j] \in skipped /\ ingested[i] # ingested[j]

Missing(n) ==
    /\ n \notin Range(ingested)
    /\ \E i, j \in DOMAIN ingested : ingested[i] < n /\ n < ingested[j]

(* Nothing is lost between a replay and the queue, when a slow client is   *)
(* closed with entries queued, or when a cursor goes back: the page lacks  *)
(* an event only if a replay was cut off by its limit or by trimming, or   *)
(* if the gateway, which "tails the full Redis Stream" (broadcaster.py:57), *)
(* read from "$" and was between two reads.                                *)
HolesExplained == \A n \in Entries : Missing(n) => n \in skipped

(* Every gateway is full, for good, of clients left behind.                *)
KeptOut == <>[](\A g \in Gateways : ~HasRoom(g) /\ early[g] >= MaxClients)

(* The page is not away for good, whatever ends its connections: only if   *)
(* connections that ended before their replay have filled every gateway,   *)
(* and the events that would free it do not come.                          *)
PageGetsIn == []<>(phase # "away") \/ KeptOut

(* Every event of the stream reaches the page, but for those passed over,  *)
(* unless it is kept out.                                                  *)
EveryEventReaches ==
    KeptOut \/ \A n \in 1 .. MaxEntries :
                 (n <= last) ~> (n \in Range(ingested) \cup skipped)
=============================================================================
