--------------------------- MODULE ReplayControl ---------------------------
(***************************************************************************)
(* The replay of the dataset.  One producer sends a graph batch per time   *)
(* step to Kafka and saves its checkpoint after each; before each it reads *)
(* the replay_control row, waits while that is "paused", and at the end of *)
(* the dataset sets it to "completed".  Dashboard pages set the same row   *)
(* to "paused" or "running" through their WebSocket session on a gateway,  *)
(* which checks in one statement that it is not "completed" and writes it  *)
(* in another.  A page whose connection ends reconnects, and repeats its   *)
(* pause if it is paused; what its old session has received may still be   *)
(* on its way to the row.                                                  *)
(*                                                                         *)
(*   services/replay_producer/main.py                                      *)
(*   services/api_gateway/main.py, websocket_receiver                      *)
(*   frontend/src/context/WebSocketContext.tsx                             *)
(*   shared/database/queries.py, fetch_replay_control, update_replay_...   *)
(*                                                                         *)
(* A time step is its place in the sorted steps of the dataset, a message  *)
(* of the topic the pair of its time_step and its source_offset.  The      *)
(* rate only delays steps.  A control message is the status it asks for.   *)
(***************************************************************************)
EXTENDS Integers, Sequences

CONSTANTS
    Pages,         \* dashboard pages
    Sessions,      \* WebSocket sessions, over all gateways
    Steps,         \* number of time steps of the dataset
    MaxClicks,     \* bound: clicks on pause or resume
    MaxExits       \* bound: signals, kills and exceptions that end a process,
                   \* and connections that end

NoPage    == "no page"
NoSession == "no session"
NoCommand == "none"

ASSUME StepsAssumption  == Steps \in Nat \ {0}
ASSUME NamesAssumption  == NoPage \notin Pages /\ NoSession \notin Sessions
ASSUME BoundsAssumption == MaxClicks \in Nat /\ MaxExits \in Nat

VARIABLES
    topic,        \* what Kafka accepted on the graph batch topic
    checkpoint,   \* the row "<stream>:producer" of stream_checkpoints
    status,       \* replay_control.status, "none" while there is no row
    pc,           \* where the producer is
    next,         \* the batch it handles: its time_step and source_offset
    stopping,     \* the producer's stop event: "set" or "clear"
    paused,       \* the pages that are paused, isPausedRef
    session,      \* the session each page is connected to
    page,         \* the page of a session, also after its connection ended
    messages,     \* control messages a session has not looked at
    command,      \* the status an open transaction of a session will write
    clicks, exits,    \* environment counters
    sincePause,   \* history: batches accepted since status became "paused"
    writer,       \* history: the page whose message was written last
    unheard       \* history: pages whose last word may not be the gateways'

database == <<checkpoint, status>>
producer == <<pc, next, stopping>>
links    == <<session, page>>
gateways == <<messages, command>>
counters == <<clicks, exits>>
wishes   == <<paused, unheard>>
vars     == <<topic, database, producer, links, gateways, counters, wishes,
              sincePause, writer>>

Statuses == {"running", "paused", "completed"}
Wishes   == {"running", "paused"}
PCs      == {"down", "control", "send", "save", "done"}

NoCheckpoint == [step |-> 0, offset |-> -1]

Following(batch) == [step |-> batch.step + 1, offset |-> batch.offset + 1]

-----------------------------------------------------------------------------
Init ==
    /\ topic = <<>>
    /\ checkpoint = NoCheckpoint
    /\ status = "none"
    /\ pc = "down"
    /\ next = NoCheckpoint
    /\ stopping = "clear"
    /\ paused = {}
    /\ session = [p \in Pages |-> NoSession]
    /\ page = [s \in Sessions |-> NoPage]
    /\ messages = [s \in Sessions |-> <<>>]
    /\ command = [s \in Sessions |-> NoCommand]
    /\ clicks = 0 /\ exits = 0
    /\ sincePause = 0 /\ writer = NoPage /\ unheard = {}

SetStatus(new) ==
    /\ status' = new
    /\ sincePause' = IF new = "paused" /\ status = "paused" THEN sincePause ELSE 0

(* The row of replay_control is inserted as "running" by whoever first     *)
(* looks for it or sets the rate.                                          *)
Found == IF status = "none" THEN "running" ELSE status

Exit == exits < MaxExits /\ exits' = exits + 1 /\ UNCHANGED clicks

(*************************** The producer **********************************)

(* Mutation: the checkpoint gives the time step only; batches are numbered *)
(* from 0 again after a restart.                                           *)
ResumedRenumbering == [step |-> checkpoint.step + 1, offset |-> 0]

(* producer_checkpoint, and the steps after it, numbered on.               *)
Resumed == Following(checkpoint)

Start ==
    /\ pc = "down"
    /\ next' = Resumed
    /\ pc' = "control"
    /\ stopping' = "clear"
    /\ UNCHANGED <<topic, database, links, gateways, counters, wishes, sincePause, writer>>

(* Mutation: the wait of a paused producer has no timeout.                 *)
AfterLookParked == IF Found = "paused" THEN "done" ELSE "send"

(* A paused producer asks again half a second later.  "completed" does not *)
(* hold it: only "paused" does.                                            *)
AfterLook == IF Found = "paused" THEN "control" ELSE "send"

(* fetch_replay_control.                                                   *)
ReadControl ==
    /\ pc = "control"
    /\ next.step <= Steps
    /\ SetStatus(Found)
    /\ pc' = IF stopping = "set" THEN "control" ELSE AfterLook
    /\ UNCHANGED <<topic, checkpoint, next, stopping, links, gateways, counters, wishes, writer>>

Send ==
    /\ pc = "send"
    /\ topic' = Append(topic, next)
    /\ sincePause' = IF status = "paused" THEN sincePause + 1 ELSE sincePause
    /\ pc' = "save"
    /\ UNCHANGED <<database, next, stopping, links, gateways, counters, wishes, writer>>

(* Mutation: the control row is read once, before the loop.                *)
AfterSaveSendOn == IF next.step < Steps /\ stopping = "clear" THEN "send" ELSE "control"

AfterSave == "control"

SaveCheckpoint ==
    /\ pc = "save"
    /\ checkpoint' = next
    /\ next' = Following(next)
    /\ pc' = AfterSave
    /\ UNCHANGED <<topic, status, stopping, links, gateways, counters, wishes,
                   sincePause, writer>>

(* Mutation: a producer that was asked to stop reports completion too.     *)
AtEndStopped == next.step > Steps \/ stopping = "set"

AtEnd == next.step > Steps /\ stopping = "clear"

(* The dataset is at its end: status := "completed", then wait for stop.   *)
Complete ==
    /\ pc = "control"
    /\ AtEnd
    /\ SetStatus("completed")
    /\ pc' = "done"
    /\ UNCHANGED <<topic, checkpoint, next, stopping, links, gateways, counters, wishes, writer>>

(* The stop event is looked at before a step, in a pause and at the end;   *)
(* a batch on its way is still sent and saved.                             *)
Leave ==
    /\ pc \in {"control", "done"}
    /\ stopping = "set"
    /\ pc' = "down"
    /\ UNCHANGED <<topic, database, next, stopping, links, gateways, counters, wishes,
                   sincePause, writer>>

(* SIGTERM or SIGINT.                                                      *)
Stop ==
    /\ pc # "down" /\ stopping = "clear"
    /\ Exit
    /\ stopping' = "set"
    /\ UNCHANGED <<topic, database, pc, next, links, gateways, wishes, sincePause, writer>>

(* A kill, or an exception of Kafka or of the database, which run does not *)
(* catch.  The call that raised may have taken effect: that is the crash   *)
(* after its action.                                                       *)
Crash ==
    /\ pc # "down"
    /\ Exit
    /\ pc' = "down"
    /\ UNCHANGED <<topic, database, next, stopping, links, gateways, wishes, sincePause, writer>>

(****************************** The pages **********************************)

Connected(p) == session[p] # NoSession

Wish(p) == IF p \in paused THEN "paused" ELSE "running"

(* A session that has nothing to do and no page.                           *)
Free(s) ==
    /\ messages[s] = <<>> /\ command[s] = NoCommand
    /\ \A p \in Pages : session[p] # s

(* Mutation: the page does not repeat its pause.                           *)
FirstMessagesNone(p) == <<>>

(* onopen: a page that is paused says so.                                  *)
FirstMessages(p) == IF p \in paused THEN <<"paused">> ELSE <<>>

Open(p) ==
    /\ ~Connected(p)
    /\ \E s \in {x \in Sessions : Free(x)} :
          /\ session' = [session EXCEPT ![p] = s]
          /\ page' = [page EXCEPT ![s] = p]
          /\ messages' = [messages EXCEPT ![s] = FirstMessages(p)]
    /\ unheard' = unheard \ (paused \cap {p})
    /\ UNCHANGED <<topic, database, producer, command, counters, paused, sincePause, writer>>

(* setPaused: the message is sent only if the socket is open.              *)
Click(p) ==
    /\ clicks < MaxClicks
    /\ clicks' = clicks + 1
    /\ paused' = IF p \in paused THEN paused \ {p} ELSE paused \cup {p}
    /\ \/ /\ Connected(p)
          /\ messages' = [messages EXCEPT ![session[p]] = Append(@, Wish(p)')]
          /\ unheard' = unheard \ {p}
       \/ /\ ~Connected(p)
          /\ unheard' = IF p \in paused THEN unheard \cup {p} ELSE unheard \ {p}
          /\ UNCHANGED messages
    /\ UNCHANGED <<topic, database, producer, links, command, exits, sincePause, writer>>

(* The connection breaks, or the page is reloaded and is not paused then.  *)
(* The gateway goes on with what it has received, or cancels the receiver, *)
(* which rolls its transaction back.                                       *)
Break(p) ==
    /\ Connected(p)
    /\ Exit
    /\ session' = [session EXCEPT ![p] = NoSession]
    /\ paused' \in {paused, paused \ {p}}
    /\ LET s == session[p] IN
       /\ unheard' = IF p \notin paused' /\ (p \in paused \/ messages[s] # <<>> \/ command[s] # NoCommand)
                     THEN unheard \cup {p} ELSE unheard
       /\ \/ /\ \E n \in 0 .. Len(messages[s]) :
                    messages' = [messages EXCEPT ![s] = SubSeq(@, 1, n)]
             /\ UNCHANGED command
          \/ /\ messages' = [messages EXCEPT ![s] = <<>>]
             /\ command' = [command EXCEPT ![s] = NoCommand]
    /\ UNCHANGED <<topic, database, producer, page, sincePause, writer>>

(**************************** The gateways *********************************)

(* Mutation: a message is written over "completed" too.                    *)
ReplaceableAny == Statuses

(* The statuses a message may be written over: completion is terminal.     *)
Replaceable == Wishes

(* pause_replay, resume_replay: one transaction of two statements.  The    *)
(* first reads the status.  Only when it inserts the row does it hold a    *)
(* lock to the end, so then both are one step.                             *)
ReadStatus(s) ==
    /\ command[s] = NoCommand
    /\ messages[s] # <<>>
    /\ messages' = [messages EXCEPT ![s] = Tail(@)]
    /\ \/ /\ status = "none"
          /\ SetStatus(Head(messages[s]))
          /\ writer' = page[s]
          /\ UNCHANGED command
       \/ /\ status \in Replaceable
          /\ command' = [command EXCEPT ![s] = Head(messages[s])]
          /\ UNCHANGED <<status, sincePause, writer>>
       \/ /\ status \in Statuses \ Replaceable
          /\ UNCHANGED <<command, status, sincePause, writer>>
    /\ UNCHANGED <<topic, checkpoint, producer, links, counters, wishes>>

(* The second one writes it, whatever it is by then.                       *)
WriteStatus(s) ==
    /\ command[s] # NoCommand
    /\ SetStatus(command[s])
    /\ command' = [command EXCEPT ![s] = NoCommand]
    /\ writer' = page[s]
    /\ unheard' = IF session[page[s]] # s /\ command[s] # Wish(page[s])
                  THEN unheard \cup {page[s]} ELSE unheard
    /\ UNCHANGED <<topic, checkpoint, producer, links, messages, counters, paused>>

(* replay_telemetry, or a set_speed message: the row exists afterwards.    *)
Touch ==
    /\ status = "none"
    /\ SetStatus("running")
    /\ UNCHANGED <<topic, checkpoint, producer, links, gateways, counters, wishes, writer>>

ProducerStep == Start \/ ReadControl \/ Send \/ SaveCheckpoint \/ Complete \/ Leave
SessionStep(s) == ReadStatus(s) \/ WriteStatus(s)

Next ==
    \/ ProducerStep
    \/ Stop
    \/ Crash
    \/ Touch
    \/ \E p \in Pages : Open(p) \/ Click(p) \/ Break(p)
    \/ \E s \in Sessions : SessionStep(s)

(* The event loops run, and the Deployment of                              *)
(* infra/kubernetes/base/workloads.yaml:190 restarts a producer that left. *)
Fairness == WF_vars(ProducerStep) /\ \A s \in Sessions : WF_vars(SessionStep(s))

Spec == Init /\ [][Next]_vars /\ Fairness

-----------------------------------------------------------------------------
(* Properties                                                              *)

TypeOK ==
    /\ topic \in Seq([step : 1 .. Steps, offset : 0 .. (Steps - 1)])
    /\ checkpoint \in [step : 0 .. Steps, offset : -1 .. (Steps - 1)]
    /\ status \in Statuses \cup {"none"}
    /\ pc \in PCs
    /\ next \in [step : 0 .. (Steps + 1), offset : -1 .. Steps]
    /\ stopping \in {"clear", "set"}
    /\ paused \subseteq Pages
    /\ session \in [Pages -> Sessions \cup {NoSession}]
    /\ page \in [Sessions -> Pages \cup {NoPage}]
    /\ messages \in [Sessions -> Seq(Wishes)]
    /\ command \in [Sessions -> Wishes \cup {NoCommand}]
    /\ clicks \in 0 .. MaxClicks
    /\ exits \in 0 .. MaxExits
    /\ sincePause \in Nat
    /\ writer \in Pages \cup {NoPage}
    /\ unheard \subseteq Pages

(* The batches reach the topic in the order of their time steps, none left *)
(* out, a resent one right behind itself and numbered as the first time,   *)
(* wherever the producer stopped, crashed or was paused: the materializer  *)
(* only ever sees the next step or a repetition.                           *)
ReplayInOrder ==
    \A i \in 1 .. Len(topic) :
        /\ topic[i].offset = topic[i].step - 1
        /\ i = 1 => topic[i].step = 1
        /\ i > 1 => topic[i].step \in {topic[i-1].step, topic[i-1].step + 1}

(* After a pause has been committed at most the one batch that was past    *)
(* its look at the control row is produced, also across restarts of the    *)
(* producer, until a session resumes.                                      *)
PauseHolds == sincePause <= 1

(* A dashboard shows "completed" only when every time step is in the topic *)
(* (replay_producer/main.py:232: not when the producer was stopped).       *)
CompletedMeansSent ==
    status = "completed" =>
        /\ checkpoint.step = Steps
        /\ topic # <<>> /\ topic[Len(topic)].step = Steps

Quiet(p) ==
    /\ Connected(p)
    /\ \A s \in Sessions : page[s] = p => messages[s] = <<>> /\ command[s] = NoCommand

(* What the page that spoke last shows is what holds, "paused" or not,     *)
(* over broken connections: a pause is repeated until it is heard.  Only a *)
(* resume clicked without a connection or lost with it is not, a page that *)
(* is reloaded forgets its pause, and an old session may write over what a *)
(* new one said.                                                           *)
LastWordHolds ==
    \A p \in Pages \ unheard :
        writer = p /\ Quiet(p) /\ status \in Wishes => status = Wish(p)

(* A replay that in the end no page has paused, but for those unheard, is  *)
(* produced to its end and completes.                                      *)
EveryStepProduced ==
    <>[](paused \cup unheard = {}) => <>(status = "completed" /\ pc = "done")

Over == status = "completed" /\ \A s \in Sessions : command[s] = NoCommand

(* "Completion is terminal for a replay run" (api_gateway/main.py:448)     *)
(* only once no session is between its two statements: from then on, no    *)
(* message, restart or repeated pause takes the row off "completed".  A    *)
(* resume that read "running" before may still be written over it, which   *)
(* is why Over waits for the sessions.                                     *)
CompletionSettles == [][Over => Over']_vars
=============================================================================
