------------------------ MODULE ReplayControl_proofs ------------------------
(***************************************************************************)
(* Safety of ReplayControl for any number of pages, sessions, time steps,  *)
(* clicks and exits.                                                       *)
(*                                                                         *)
(* Every theorem rests on one inductive invariant, in five parts: types;   *)
(* the topic is in order and at most one batch ahead of the checkpoint,    *)
(* and the producer handles the batch after the checkpoint; a batch that   *)
(* passed its look at the control row is the only one a pause lets by; a   *)
(* session belongs to one page; the last message on its way from a page,   *)
(* or the status it wrote, is what the page shows.                         *)
(***************************************************************************)
EXTENDS ReplayControl, SequenceTheorems, TLAPS

(* The time step of the last batch of the topic.                           *)
LastStep == IF topic = <<>> THEN 0 ELSE topic[Len(topic)].step

(* The checkpoint, the batch the producer handles and the topic fit.       *)
PositionInv ==
    /\ checkpoint.offset = checkpoint.step - 1
    /\ LastStep \in {checkpoint.step, checkpoint.step + 1}
    /\ pc # "down" => next = Following(checkpoint)
    /\ pc \in {"send", "save"} => next.step <= Steps
    /\ pc = "save" => LastStep = next.step
    /\ status = "completed" => checkpoint.step = Steps

(* A batch past its look at the control row was not paused then.           *)
PauseInv ==
    /\ sincePause <= 1
    /\ status # "paused" => sincePause = 0
    /\ pc = "send" => sincePause = 0

(* A session belongs to the page that opened it, and only a page sends.    *)
LinkInv ==
    /\ \A p \in Pages : Connected(p) => page[session[p]] = p
    /\ \A s \in Sessions : messages[s] # <<>> \/ command[s] # NoCommand => page[s] \in Pages

Outstanding(s) == messages[s] # <<>> \/ command[s] # NoCommand

(* What s will have written in the end.                                    *)
FinalWord(s) == IF messages[s] # <<>> THEN messages[s][Len(messages[s])] ELSE command[s]

(* Nothing that p says now is on its way, or will be when it reconnects.   *)
Settled(p) == IF Connected(p) THEN ~Outstanding(session[p]) ELSE p \notin paused

(* The last message on its way from a page is what the page shows; when    *)
(* none is, the page's last word stands.                                   *)
WordKept(p) ==
    /\ Connected(p) /\ Outstanding(session[p]) => FinalWord(session[p]) = Wish(p)
    /\ Settled(p) /\ writer = p /\ status \in Wishes => status = Wish(p)
    /\ Settled(p) /\ status = "none" =>
          p \notin paused /\ \A s \in Sessions : page[s] = p => messages[s] = <<>>

WordInv ==
    /\ status = "none" => writer = NoPage /\ \A s \in Sessions : command[s] = NoCommand
    /\ \A p \in Pages \ unheard : WordKept(p)

IInv == TypeOK /\ ReplayInOrder /\ PositionInv /\ PauseInv /\ LinkInv /\ WordInv

-----------------------------------------------------------------------------
(* Every step stays within the types.                                      *)
LEMMA TypeStep == TypeOK /\ PositionInv /\ LinkInv /\ [Next]_vars => TypeOK'
<1> SUFFICES ASSUME TypeOK, PositionInv, LinkInv, [Next]_vars PROVE TypeOK'
  OBVIOUS
<1> USE StepsAssumption, BoundsAssumption
<1>0. UNCHANGED <<links, gateways, wishes>> =>
        /\ UNCHANGED <<session, page, messages, command, paused, unheard>>
  BY DEF links, gateways, wishes
<1>1. CASE Start
  <2>1. checkpoint.step \in 0 .. Steps /\ checkpoint.offset \in -1 .. (Steps - 1)
    BY DEF TypeOK
  <2>2. next' = [step |-> checkpoint.step + 1, offset |-> checkpoint.offset + 1]
    BY <1>1 DEF Start, Resumed, Following
  <2>3. next' \in [step : 0 .. (Steps + 1), offset : -1 .. Steps]
    BY <2>1, <2>2
  <2> QED BY <1>0, <1>1, <2>3 DEF Start, TypeOK, database, counters, PCs
<1>2. CASE ReadControl
  <2>1. status' \in Statuses \cup {"none"} /\ sincePause' \in Nat /\ pc' \in PCs
    BY <1>2 DEF ReadControl, AfterLook, SetStatus, Found, TypeOK, PCs, Statuses
  <2> QED BY <1>0, <1>2, <2>1 DEF ReadControl, TypeOK, counters
<1>3. CASE Send
  <2>1. next \in [step : 1 .. Steps, offset : 0 .. (Steps - 1)]
    <3>1. checkpoint \in [step : 0 .. Steps, offset : -1 .. (Steps - 1)]
      BY DEF TypeOK
    <3>2. next = [step |-> checkpoint.step + 1, offset |-> checkpoint.offset + 1]
      BY <1>3 DEF Send, PositionInv, Following
    <3>3. next.step <= Steps /\ checkpoint.offset = checkpoint.step - 1
      BY <1>3 DEF Send, PositionInv
    <3> QED BY <3>1, <3>2, <3>3
  <2>2. topic' \in Seq([step : 1 .. Steps, offset : 0 .. (Steps - 1)])
    BY <1>3, <2>1 DEF Send, TypeOK
  <2>3. sincePause' \in Nat
    BY <1>3 DEF Send, TypeOK
  <2> QED BY <1>0, <1>3, <2>2, <2>3 DEF Send, TypeOK, database, counters, PCs
<1>4. CASE SaveCheckpoint
  <2>1. checkpoint \in [step : 0 .. Steps, offset : -1 .. (Steps - 1)]
    BY DEF TypeOK
  <2>2. next = [step |-> checkpoint.step + 1, offset |-> checkpoint.offset + 1]
    BY <1>4 DEF SaveCheckpoint, PositionInv, Following
  <2>3. next.step <= Steps /\ checkpoint.offset = checkpoint.step - 1
    BY <1>4 DEF SaveCheckpoint, PositionInv
  <2>4. checkpoint' \in [step : 0 .. Steps, offset : -1 .. (Steps - 1)]
    BY <1>4, <2>1, <2>2, <2>3 DEF SaveCheckpoint
  <2>5. next' \in [step : 0 .. (Steps + 1), offset : -1 .. Steps]
    BY <1>4, <2>1, <2>2, <2>3 DEF SaveCheckpoint, Following
  <2> QED BY <1>0, <1>4, <2>4, <2>5 DEF SaveCheckpoint, AfterSave, TypeOK, counters, PCs
<1>5. CASE Complete
  <2>1. status' \in Statuses /\ sincePause' \in Nat /\ pc' \in PCs
    BY <1>5 DEF Complete, SetStatus, TypeOK, PCs, Statuses
  <2> QED BY <1>0, <1>5, <2>1 DEF Complete, TypeOK, counters
<1>6. CASE Leave
  BY <1>0, <1>6 DEF Leave, TypeOK, database, counters, PCs
<1>7. CASE Stop
  BY <1>0, <1>7 DEF Stop, Exit, TypeOK, database
<1>8. CASE Crash
  BY <1>0, <1>8 DEF Crash, Exit, TypeOK, database, PCs
<1>9. CASE Touch
  <2>1. status' \in Statuses /\ sincePause' \in Nat
    BY <1>9 DEF Touch, SetStatus, TypeOK, Statuses
  <2> QED BY <1>0, <1>9, <2>1 DEF Touch, TypeOK, producer, counters
<1>10. ASSUME NEW p \in Pages, Open(p) PROVE TypeOK'
  <2>1. FirstMessages(p) \in Seq(Wishes)
    <3>1. <<>> \in Seq(Wishes)
      OBVIOUS
    <3>2. "paused" \in Wishes
      BY DEF Wishes
    <3>3. <<"paused">> \in Seq(Wishes)
      BY <3>2
    <3> QED BY <3>1, <3>3 DEF FirstMessages
  <2>2. /\ session' \in [Pages -> Sessions \cup {NoSession}]
        /\ page' \in [Sessions -> Pages \cup {NoPage}]
        /\ messages' \in [Sessions -> Seq(Wishes)]
    BY <1>10, <2>1 DEF Open, TypeOK
  <2>3. unheard' \subseteq Pages
    BY <1>10 DEF Open, TypeOK
  <2> QED BY <1>10, <2>2, <2>3 DEF Open, TypeOK, producer, database, counters
<1>11. ASSUME NEW p \in Pages, Click(p) PROVE TypeOK'
  <2>1. paused' \subseteq Pages /\ unheard' \subseteq Pages
    BY <1>11 DEF Click, TypeOK
  <2>2. messages' \in [Sessions -> Seq(Wishes)]
    <3>1. CASE UNCHANGED messages
      BY <3>1 DEF TypeOK
    <3>2. CASE /\ Connected(p)
               /\ messages' = [messages EXCEPT ![session[p]] = Append(@, Wish(p)')]
      <4>1. session[p] \in Sessions
        BY <3>2 DEF Connected, TypeOK
      <4>2. Wish(p)' \in Wishes
        BY DEF Wish, Wishes
      <4>3. messages[session[p]] \in Seq(Wishes)
        BY <4>1 DEF TypeOK
      <4>4. Append(messages[session[p]], Wish(p)') \in Seq(Wishes)
        BY <4>2, <4>3
      <4> QED BY <3>2, <4>1, <4>4 DEF TypeOK
    <3> QED BY <1>11, <3>1, <3>2 DEF Click
  <2>3. clicks' \in 0 .. MaxClicks
    BY <1>11 DEF Click, TypeOK
  <2> QED BY <1>11, <2>1, <2>2, <2>3 DEF Click, TypeOK, producer, database, links
<1>12. ASSUME NEW p \in Pages, Break(p) PROVE TypeOK'
  <2>1. paused' \subseteq Pages /\ unheard' \subseteq Pages
    BY <1>12 DEF Break, TypeOK
  <2>2. session[p] \in Sessions
    BY <1>12 DEF Break, Connected, TypeOK
  <2>3. \A n \in 0 .. Len(messages[session[p]]) :
          SubSeq(messages[session[p]], 1, n) \in Seq(Wishes)
    BY <2>2 DEF TypeOK
  <2>4. <<>> \in Seq(Wishes)
    OBVIOUS
  <2>5. messages' \in [Sessions -> Seq(Wishes)]
    <3>1. messages \in [Sessions -> Seq(Wishes)]
      BY DEF TypeOK
    <3>2. CASE \E n \in 0 .. Len(messages[session[p]]) :
                  messages' = [messages EXCEPT ![session[p]] =
                                 SubSeq(messages[session[p]], 1, n)]
      BY <2>3, <3>1, <3>2
    <3>3. CASE messages' = [messages EXCEPT ![session[p]] = <<>>]
      BY <2>4, <3>1, <3>3
    <3> QED BY <1>12, <3>2, <3>3 DEF Break
  <2>6. command' \in [Sessions -> Wishes \cup {NoCommand}]
    BY <1>12 DEF Break, TypeOK
  <2>7. session' \in [Pages -> Sessions \cup {NoSession}]
    BY <1>12 DEF Break, TypeOK
  <2>8. exits' \in 0 .. MaxExits /\ clicks' = clicks
    BY <1>12 DEF Break, Exit, TypeOK
  <2> QED BY <1>12, <2>1, <2>5, <2>6, <2>7, <2>8 DEF Break, TypeOK, producer, database
<1>13. ASSUME NEW s \in Sessions, ReadStatus(s) PROVE TypeOK'
  <2>1. messages[s] \in Seq(Wishes) /\ messages[s] # <<>>
    BY <1>13 DEF ReadStatus, Replaceable, TypeOK
  <2>2. Head(messages[s]) \in Wishes /\ Tail(messages[s]) \in Seq(Wishes)
    BY <2>1
  <2>3. messages' \in [Sessions -> Seq(Wishes)]
    BY <1>13, <2>2 DEF ReadStatus, Replaceable, TypeOK
  <2>4. /\ status' \in Statuses \cup {"none"}
        /\ sincePause' \in Nat
        /\ command' \in [Sessions -> Wishes \cup {NoCommand}]
        /\ writer' \in Pages \cup {NoPage}
    <3>1. /\ status \in Statuses \cup {"none"}
          /\ sincePause \in Nat
          /\ command \in [Sessions -> Wishes \cup {NoCommand}]
          /\ writer \in Pages \cup {NoPage}
          /\ page[s] \in Pages \cup {NoPage}
      BY DEF TypeOK
    <3>2. Head(messages[s]) \in Statuses
      BY <2>2 DEF Wishes, Statuses
    <3>3. command' = command \/ command' = [command EXCEPT ![s] = Head(messages[s])]
      BY <1>13 DEF ReadStatus, Replaceable
    <3>4. command' \in [Sessions -> Wishes \cup {NoCommand}]
      BY <2>2, <3>1, <3>3
    <3>5. /\ status' \in {status, Head(messages[s])}
          /\ sincePause' \in {sincePause, 0}
          /\ writer' \in {writer, page[s]}
      BY <1>13 DEF ReadStatus, Replaceable, SetStatus
    <3> QED BY <3>1, <3>2, <3>4, <3>5
  <2> QED BY <1>0, <1>13, <2>3, <2>4
       DEF ReadStatus, Replaceable, TypeOK, producer, counters, links, wishes
<1>14. ASSUME NEW s \in Sessions, WriteStatus(s) PROVE TypeOK'
  <2>1. command[s] \in Wishes
    BY <1>14 DEF WriteStatus, TypeOK
  <2>2. /\ status' \in Statuses
        /\ sincePause' \in Nat
        /\ command' \in [Sessions -> Wishes \cup {NoCommand}]
        /\ writer' \in Pages \cup {NoPage}
    BY <1>14, <2>1 DEF WriteStatus, SetStatus, TypeOK, Statuses, Wishes
  <2>3. unheard' \subseteq Pages
    <3>1. CASE UNCHANGED unheard
      BY <3>1 DEF TypeOK
    <3>2. CASE session[page[s]] # s /\ command[s] # Wish(page[s])
      BY <1>14, <3>2, <2>1 DEF WriteStatus, TypeOK, LinkInv, NoCommand
    <3> QED BY <1>14, <3>1, <3>2 DEF WriteStatus
  <2> QED BY <1>14, <2>2, <2>3 DEF WriteStatus, TypeOK, producer, counters, links
<1>15. CASE UNCHANGED vars
  BY <1>0, <1>15 DEF TypeOK, vars, database, producer, counters
<1> QED
  BY <1>1, <1>2, <1>3, <1>4, <1>5, <1>6, <1>7, <1>8, <1>9, <1>10, <1>11, <1>12,
     <1>13, <1>14, <1>15 DEF Next, ProducerStep, SessionStep

(* Only Send writes the topic, and it appends the batch after the          *)
(* checkpoint, which is the last one or the one after it.                  *)
LEMMA OrderStep ==
    TypeOK /\ ReplayInOrder /\ PositionInv /\ [Next]_vars => ReplayInOrder'
<1> SUFFICES ASSUME TypeOK, ReplayInOrder, PositionInv, [Next]_vars
             PROVE ReplayInOrder'
  OBVIOUS
<1>1. CASE Send
  <2>1. topic \in Seq([step : 1 .. Steps, offset : 0 .. (Steps - 1)])
    BY DEF TypeOK
  <2>2. /\ topic' = Append(topic, next)
        /\ Len(topic') = Len(topic) + 1 /\ Len(topic) \in Nat
        /\ topic'[Len(topic) + 1] = next
        /\ \A i \in 1 .. Len(topic) : topic'[i] = topic[i]
    BY <1>1, <2>1 DEF Send
  <2>3. checkpoint.step \in 0 .. Steps /\ checkpoint.offset \in -1 .. (Steps - 1)
    BY DEF TypeOK
  <2>4. /\ next.step = checkpoint.step + 1
        /\ next.offset = checkpoint.offset + 1
        /\ checkpoint.offset = checkpoint.step - 1
    BY <1>1 DEF Send, PositionInv, Following
  <2>5. next.offset = next.step - 1
    BY <2>3, <2>4
  <2>6. topic = <<>> => next.step = 1
    BY <2>3, <2>4 DEF PositionInv, LastStep
  <2>7. topic # <<>> =>
          /\ Len(topic) >= 1
          /\ next.step \in {topic[Len(topic)].step, topic[Len(topic)].step + 1}
    BY <2>1, <2>3, <2>4 DEF PositionInv, LastStep
  <2>8. ASSUME NEW i \in 1 .. Len(topic')
        PROVE  /\ topic'[i].offset = topic'[i].step - 1
               /\ i = 1 => topic'[i].step = 1
               /\ i > 1 => topic'[i].step \in {topic'[i-1].step, topic'[i-1].step + 1}
    <3>1. CASE i \in 1 .. Len(topic)
      BY <2>2, <3>1 DEF ReplayInOrder
    <3>2. CASE i = Len(topic) + 1
      <4>1. topic'[i] = next
        BY <2>2, <3>2
      <4>2. i = 1 => topic = <<>>
        BY <2>1, <2>2, <3>2
      <4>3. i > 1 => topic # <<>> /\ topic'[i-1] = topic[Len(topic)]
        BY <2>1, <2>2, <3>2
      <4> QED BY <4>1, <4>2, <4>3, <2>5, <2>6, <2>7
    <3> QED BY <2>2, <3>1, <3>2
  <2> QED BY <2>8 DEF ReplayInOrder
<1>2. CASE UNCHANGED topic
  BY <1>2 DEF ReplayInOrder
<1>3. Send \/ UNCHANGED topic
  BY DEF Next, ProducerStep, Start, ReadControl, SaveCheckpoint, Complete, Leave,
         Stop, Crash, Touch, ReadStatus, Replaceable, WriteStatus, Open, Click, Break, SessionStep, vars
<1> QED BY <1>1, <1>2, <1>3

(* The checkpoint follows the topic by at most one batch.                  *)
LEMMA PositionStep == TypeOK /\ PositionInv /\ [Next]_vars => PositionInv'
<1> SUFFICES ASSUME TypeOK, PositionInv, [Next]_vars PROVE PositionInv'
  OBVIOUS
<1> USE StepsAssumption
<1>0. /\ checkpoint.step \in 0 .. Steps
      /\ checkpoint.offset \in -1 .. (Steps - 1)
  BY DEF TypeOK
<1>1. CASE Start
  BY <1>1 DEF Start, Resumed, PositionInv, LastStep, database
<1>2. CASE ReadControl
  BY <1>2 DEF ReadControl, AfterLook, SetStatus, Found, PositionInv, LastStep
<1>3. CASE Send
  <2>1. topic \in Seq([step : 1 .. Steps, offset : 0 .. (Steps - 1)])
    BY DEF TypeOK
  <2>2. topic' = Append(topic, next)
    BY <1>3 DEF Send
  <2>3. topic' # <<>> /\ topic'[Len(topic')] = next
    BY <2>1, <2>2
  <2>4. LastStep' = next.step
    BY <2>3 DEF LastStep
  <2>5. next = Following(checkpoint) /\ next.step = checkpoint.step + 1
    BY <1>3 DEF Send, PositionInv, Following
  <2>6. next.step <= Steps /\ checkpoint.offset = checkpoint.step - 1
        /\ (status = "completed" => checkpoint.step = Steps)
    BY <1>3 DEF Send, PositionInv
  <2>7. UNCHANGED <<checkpoint, status, next>>
    BY <1>3 DEF Send, database
  <2> QED BY <2>4, <2>5, <2>6, <2>7 DEF PositionInv, Following
<1>4. CASE SaveCheckpoint
  <2>1. next = Following(checkpoint) /\ next.step = checkpoint.step + 1
        /\ next.offset = checkpoint.offset + 1
    BY <1>4 DEF SaveCheckpoint, PositionInv, Following
  <2>2. /\ LastStep = next.step
        /\ checkpoint.offset = checkpoint.step - 1
        /\ next.step <= Steps
        /\ (status = "completed" => checkpoint.step = Steps)
    BY <1>4 DEF SaveCheckpoint, PositionInv
  <2>3. status # "completed"
    BY <1>0, <2>1, <2>2
  <2>4. /\ checkpoint' = next
        /\ next' = Following(next)
        /\ pc' = "control"
        /\ status' = status
        /\ topic' = topic
    BY <1>4 DEF SaveCheckpoint, AfterSave
  <2>5. LastStep' = LastStep
    BY <2>4 DEF LastStep
  <2> QED BY <1>0, <2>1, <2>2, <2>3, <2>4, <2>5 DEF PositionInv
<1>5. CASE Complete
  <2>1. next.step = checkpoint.step + 1
    BY <1>5 DEF Complete, PositionInv, Following
  <2>2. checkpoint.step = Steps
    BY <1>0, <1>5, <2>1 DEF Complete, AtEnd
  <2> QED BY <1>5, <2>2 DEF Complete, SetStatus, PositionInv, LastStep
<1>6. CASE Leave
  BY <1>6 DEF Leave, PositionInv, LastStep, database
<1>7. CASE Stop
  BY <1>7 DEF Stop, PositionInv, LastStep, database
<1>8. CASE Crash
  BY <1>8 DEF Crash, PositionInv, LastStep, database
<1>9. CASE Touch
  BY <1>9 DEF Touch, SetStatus, PositionInv, LastStep, producer
<1>10. ASSUME NEW s \in Sessions, ReadStatus(s) PROVE PositionInv'
  <2>1. messages[s] \in Seq(Wishes) /\ messages[s] # <<>>
    BY <1>10 DEF ReadStatus, Replaceable, TypeOK
  <2>2. Head(messages[s]) # "completed"
    BY <2>1 DEF Wishes
  <2> QED BY <1>10, <2>2 DEF ReadStatus, Replaceable, SetStatus, PositionInv, LastStep, producer
<1>11. ASSUME NEW s \in Sessions, WriteStatus(s) PROVE PositionInv'
  <2>1. command[s] # "completed"
    BY DEF TypeOK, NoCommand, Wishes
  <2> QED BY <1>11, <2>1 DEF WriteStatus, SetStatus, PositionInv, LastStep, producer
<1>12. ASSUME NEW p \in Pages, Open(p) \/ Click(p) \/ Break(p) PROVE PositionInv'
  BY <1>12 DEF Open, Click, Break, PositionInv, LastStep, producer, database
<1>13. CASE UNCHANGED vars
  BY <1>13 DEF PositionInv, LastStep, vars, database, producer
<1> QED
  BY <1>1, <1>2, <1>3, <1>4, <1>5, <1>6, <1>7, <1>8, <1>9, <1>10, <1>11, <1>12,
     <1>13 DEF Next, ProducerStep, SessionStep

(* No batch passes its look at the control row while that is paused.       *)
LEMMA PauseStep == TypeOK /\ PauseInv /\ [Next]_vars => PauseInv'
<1> SUFFICES ASSUME TypeOK, PauseInv, [Next]_vars PROVE PauseInv'
  OBVIOUS
<1>0. sincePause \in Nat
  BY DEF TypeOK
<1>1. CASE Start
  BY <1>0, <1>1 DEF Start, PauseInv, database
<1>2. CASE ReadControl
  BY <1>0, <1>2 DEF ReadControl, AfterLook, SetStatus, Found, PauseInv
<1>3. CASE Send
  BY <1>0, <1>3 DEF Send, PauseInv, database
<1>4. CASE SaveCheckpoint
  BY <1>0, <1>4 DEF SaveCheckpoint, AfterSave, PauseInv
<1>5. CASE Complete
  BY <1>0, <1>5 DEF Complete, SetStatus, PauseInv
<1>6. CASE Leave
  BY <1>0, <1>6 DEF Leave, PauseInv, database
<1>7. CASE Stop
  BY <1>0, <1>7 DEF Stop, PauseInv, database
<1>8. CASE Crash
  BY <1>0, <1>8 DEF Crash, PauseInv, database
<1>9. CASE Touch
  BY <1>0, <1>9 DEF Touch, SetStatus, PauseInv, producer
<1>10. ASSUME NEW s \in Sessions, ReadStatus(s) PROVE PauseInv'
  BY <1>0, <1>10 DEF ReadStatus, Replaceable, SetStatus, PauseInv, producer
<1>11. ASSUME NEW s \in Sessions, WriteStatus(s) PROVE PauseInv'
  BY <1>0, <1>11 DEF WriteStatus, SetStatus, PauseInv, producer
<1>12. ASSUME NEW p \in Pages, Open(p) \/ Click(p) \/ Break(p) PROVE PauseInv'
  BY <1>0, <1>12 DEF Open, Click, Break, PauseInv, producer, database
<1>13. CASE UNCHANGED vars
  BY <1>13 DEF PauseInv, vars, database, producer
<1> QED
  BY <1>1, <1>2, <1>3, <1>4, <1>5, <1>6, <1>7, <1>8, <1>9, <1>10, <1>11, <1>12,
     <1>13 DEF Next, ProducerStep, SessionStep

(* Only Open gives a session to a page, and it takes a free one.           *)
LEMMA LinkStep == TypeOK /\ LinkInv /\ [Next]_vars => LinkInv'
<1> SUFFICES ASSUME TypeOK, LinkInv, [Next]_vars PROVE LinkInv'
  OBVIOUS
<1> USE NamesAssumption
<1>1. ASSUME NEW p \in Pages, Open(p) PROVE LinkInv'
  <2>1. PICK s \in Sessions :
          /\ Free(s)
          /\ session' = [session EXCEPT ![p] = s]
          /\ page' = [page EXCEPT ![s] = p]
          /\ messages' = [messages EXCEPT ![s] = FirstMessages(p)]
    BY <1>1 DEF Open
  <2>2. ASSUME NEW q \in Pages, Connected(q)' PROVE page'[session'[q]] = q
    <3>1. CASE q = p
      BY <2>1, <3>1 DEF TypeOK
    <3>2. CASE q # p
      <4>1. session'[q] = session[q] /\ Connected(q)
        BY <2>1, <2>2, <3>2 DEF TypeOK, Connected
      <4>2. session[q] # s /\ session[q] \in Sessions
        BY <2>1, <4>1 DEF Free, TypeOK, Connected
      <4> QED BY <2>1, <4>1, <4>2 DEF TypeOK, LinkInv
    <3> QED BY <3>1, <3>2
  <2>3. ASSUME NEW t \in Sessions, messages'[t] # <<>> \/ command'[t] # NoCommand
        PROVE  page'[t] \in Pages
    <3>1. CASE t = s
      BY <2>1, <3>1 DEF TypeOK
    <3>2. CASE t # s
      <4>1. messages'[t] = messages[t] /\ command'[t] = command[t] /\ page'[t] = page[t]
        BY <1>1, <2>1, <3>2 DEF Open, TypeOK
      <4> QED BY <2>3, <4>1 DEF LinkInv
    <3> QED BY <3>1, <3>2
  <2> QED BY <2>2, <2>3 DEF LinkInv
<1>2. ASSUME NEW p \in Pages, Click(p) PROVE LinkInv'
  <2>1. UNCHANGED <<session, page, command>>
    BY <1>2 DEF Click, links
  <2>2. ASSUME NEW t \in Sessions, messages'[t] # <<>> \/ command[t] # NoCommand
        PROVE  page[t] \in Pages
    <3>1. CASE Connected(p) /\ t = session[p]
      BY <3>1 DEF LinkInv
    <3>2. CASE ~(Connected(p) /\ t = session[p])
      <4>1. messages'[t] = messages[t]
        BY <1>2, <3>2 DEF Click, TypeOK
      <4> QED BY <2>2, <4>1 DEF LinkInv
    <3> QED BY <3>1, <3>2
  <2> QED BY <2>1, <2>2 DEF LinkInv, Connected
<1>3. ASSUME NEW p \in Pages, Break(p) PROVE LinkInv'
  <2>1. session' = [session EXCEPT ![p] = NoSession] /\ page' = page
    BY <1>3 DEF Break
  <2>2. session[p] \in Sessions
    BY <1>3 DEF Break, Connected, TypeOK
  <2>3. ASSUME NEW q \in Pages, Connected(q)' PROVE page'[session'[q]] = q
    BY <2>1, <2>3 DEF Connected, TypeOK, LinkInv
  <2>4. ASSUME NEW t \in Sessions, messages'[t] # <<>> \/ command'[t] # NoCommand
        PROVE  page[t] \in Pages
    <3>1. CASE t = session[p]
      BY <1>3, <3>1 DEF Break, LinkInv
    <3>2. CASE t # session[p]
      <4>1. messages'[t] = messages[t] /\ command'[t] = command[t]
        BY <1>3, <3>2 DEF Break, TypeOK
      <4> QED BY <2>4, <4>1 DEF LinkInv
    <3> QED BY <3>1, <3>2
  <2> QED BY <2>1, <2>3, <2>4 DEF LinkInv
<1>4. ASSUME NEW s \in Sessions, ReadStatus(s) PROVE LinkInv'
  <2>1. page[s] \in Pages /\ UNCHANGED <<session, page>>
    BY <1>4 DEF ReadStatus, Replaceable, LinkInv, links
  <2>2. ASSUME NEW t \in Sessions, t # s
        PROVE  messages'[t] = messages[t] /\ command'[t] = command[t]
    BY <1>4, <2>2 DEF ReadStatus, Replaceable, TypeOK
  <2> QED BY <2>1, <2>2 DEF LinkInv, Connected
<1>5. ASSUME NEW s \in Sessions, WriteStatus(s) PROVE LinkInv'
  <2>1. page[s] \in Pages /\ UNCHANGED <<session, page, messages>>
    BY <1>5 DEF WriteStatus, LinkInv, links
  <2>2. ASSUME NEW t \in Sessions, t # s PROVE command'[t] = command[t]
    BY <1>5, <2>2 DEF WriteStatus, TypeOK
  <2> QED BY <2>1, <2>2 DEF LinkInv, Connected
<1>6. CASE UNCHANGED <<links, gateways>>
  BY <1>6 DEF LinkInv, Connected, links, gateways
<1>7. ASSUME ProducerStep \/ Stop \/ Crash \/ Touch \/ UNCHANGED vars
      PROVE  UNCHANGED <<links, gateways>>
  BY <1>7 DEF ProducerStep, Start, ReadControl, Send, SaveCheckpoint, Complete, Leave,
              Stop, Crash, Touch, vars
<1> QED BY <1>1, <1>2, <1>3, <1>4, <1>5, <1>6, <1>7 DEF Next, SessionStep

(* A step that leaves the pages and the gateways alone, and changes the    *)
(* status, if at all, to "completed" or from no row at all.                *)
LEMMA WordElsewhere ==
    ASSUME WordInv, UNCHANGED <<links, gateways, wishes, writer>>,
           status' \in {status, "completed"} \/ (status = "none" /\ status' = "running")
    PROVE  WordInv'
<1> USE NamesAssumption
<1>1. UNCHANGED <<session, page, messages, command, paused, unheard, writer>>
  BY DEF links, gateways, wishes
<1>2. status' = "none" => status = "none"
  OBVIOUS
<1>3. ASSUME NEW p \in Pages \ unheard PROVE WordKept(p)'
  <2>1. WordKept(p) /\ (Settled(p)' <=> Settled(p)) /\ (Wish(p)' <=> Wish(p))
    BY <1>1, <1>3 DEF WordInv, Settled, Outstanding, Connected, Wish
  <2>2. Wish(p)' = Wish(p)
    BY <1>1 DEF Wish
  <2>3. status' \in Wishes /\ writer = p => status' = status
    BY NoPage \notin Pages DEF WordInv, Wishes
  <2> QED BY <1>1, <1>2, <2>1, <2>2, <2>3 DEF WordKept, Outstanding, FinalWord, Connected
<1> QED BY <1>1, <1>2, <1>3 DEF WordInv

(* A step of page p leaves the word of another page q alone.               *)
LEMMA WordOfOthers ==
    ASSUME TypeOK, LinkInv, NEW p \in Pages, NEW q \in Pages, q # p, WordKept(q),
           Open(p) \/ Click(p) \/ Break(p)
    PROVE  WordKept(q)'
<1> USE NamesAssumption
<1>1. UNCHANGED <<status, writer>> /\ session'[q] = session[q]
  BY DEF Open, Click, Break, TypeOK, database, links
<1>2. q \in paused' <=> q \in paused
  <2>1. CASE Open(p)
    BY <2>1 DEF Open
  <2>2. CASE Click(p)
    BY <2>2 DEF Click
  <2>3. CASE Break(p)
    BY <2>3 DEF Break
  <2> QED BY <2>1, <2>2, <2>3
<1>3. Wish(q)' = Wish(q) /\ (Connected(q)' <=> Connected(q))
  BY <1>1, <1>2 DEF Wish, Connected
<1>4. ASSUME NEW t \in Sessions, page'[t] = q \/ t = session[q]
      PROVE  messages'[t] = messages[t] /\ command'[t] = command[t] /\ page'[t] = page[t]
  <2>1. CASE Open(p)
    <3>1. PICK s \in Sessions :
            /\ Free(s)
            /\ page' = [page EXCEPT ![s] = p]
            /\ messages' = [messages EXCEPT ![s] = FirstMessages(p)]
      BY <2>1 DEF Open
    <3>2. t # s
      BY <1>4, <3>1 DEF Free, TypeOK
    <3> QED BY <2>1, <3>1, <3>2 DEF Open, TypeOK
  <2>2. CASE Click(p)
    <3>1. page' = page /\ command' = command
      BY <2>2 DEF Click, links
    <3>2. CASE Connected(p)
      <4>1. t # session[p]
        BY <1>4, <3>1, <3>2 DEF LinkInv, Connected, TypeOK
      <4> QED BY <2>2, <3>1, <4>1 DEF Click, TypeOK
    <3>3. CASE ~Connected(p)
      BY <2>2, <3>1, <3>3 DEF Click
    <3> QED BY <3>2, <3>3
  <2>3. CASE Break(p)
    <3>1. page' = page /\ Connected(p)
      BY <2>3 DEF Break
    <3>2. t # session[p]
      BY <1>4, <3>1 DEF LinkInv, Connected, TypeOK
    <3> QED BY <2>3, <3>1, <3>2 DEF Break, TypeOK
  <2> QED BY <2>1, <2>2, <2>3
<1>5. Connected(q) => session[q] \in Sessions
  BY DEF Connected, TypeOK
<1>6. Connected(q) =>
        /\ Outstanding(session[q])' <=> Outstanding(session[q])
        /\ FinalWord(session[q])' = FinalWord(session[q])
  BY <1>1, <1>4, <1>5 DEF Outstanding, FinalWord
<1>7. Settled(q)' <=> Settled(q)
  BY <1>2, <1>3, <1>6 DEF Settled
<1>8. /\ Connected(q) /\ Outstanding(session[q]) => FinalWord(session[q]) = Wish(q)
      /\ Settled(q) /\ writer = q /\ status \in Wishes => status = Wish(q)
      /\ Settled(q) /\ status = "none" =>
            q \notin paused /\ \A s \in Sessions : page[s] = q => messages[s] = <<>>
  BY DEF WordKept
<1>9. (Connected(q) /\ Outstanding(session[q]) => FinalWord(session[q]) = Wish(q))'
  BY <1>3, <1>6, <1>8
<1>10. (Settled(q) /\ writer = q /\ status \in Wishes => status = Wish(q))'
  BY <1>1, <1>3, <1>7, <1>8
<1>11. (Settled(q) /\ status = "none" =>
          q \notin paused /\ \A s \in Sessions : page[s] = q => messages[s] = <<>>)'
  BY <1>1, <1>2, <1>4, <1>7, <1>8
<1> QED BY <1>9, <1>10, <1>11 DEF WordKept

(* The last message of a sequence is also the last of its tail.            *)
LEMMA HeadAndLast ==
    ASSUME NEW m \in Seq(Wishes), m # <<>>
    PROVE  /\ Head(m) \in Wishes
           /\ Tail(m) = <<>> => Head(m) = m[Len(m)]
           /\ Tail(m) # <<>> => Tail(m)[Len(Tail(m))] = m[Len(m)]
<1>1. /\ Len(m) \in Nat /\ Len(m) >= 1
      /\ Head(m) = m[1] /\ Head(m) \in Wishes
      /\ Tail(m) \in Seq(Wishes) /\ Len(Tail(m)) = Len(m) - 1
  OBVIOUS
<1>2. Tail(m) = <<>> => Len(m) = 1
  <2>1. Len(<<>>) = 0
    OBVIOUS
  <2>2. Tail(m) = <<>> => Len(Tail(m)) = 0
    BY <2>1
  <2>3. Len(m) \in Nat /\ Len(Tail(m)) = Len(m) - 1
    BY <1>1
  <2> QED BY <2>2, <2>3
<1>3. ASSUME Tail(m) # <<>> PROVE Tail(m)[Len(Tail(m))] = m[Len(m)]
  <2>1. Len(Tail(m)) # 0
    BY <1>1, <1>3
  <2>2. Len(Tail(m)) \in 1 .. Len(Tail(m))
    BY <1>1, <2>1
  <2>3. \A i \in 1 .. Len(Tail(m)) : Tail(m)[i] = m[i + 1]
    OBVIOUS
  <2> QED BY <1>1, <2>2, <2>3
<1> QED BY <1>1, <1>2, <1>3

(* Every step keeps the word of every page that is heard.                  *)
LEMMA WordStep == TypeOK /\ LinkInv /\ WordInv /\ [Next]_vars => WordInv'
<1> SUFFICES ASSUME TypeOK, LinkInv, WordInv, [Next]_vars PROVE WordInv'
  OBVIOUS
<1> USE NamesAssumption
<1>0. ASSUME NEW s \in Sessions
      PROVE  messages[s] \in Seq(Wishes) /\ command[s] \in Wishes \cup {NoCommand}
  BY DEF TypeOK
<1>1. CASE ProducerStep \/ Stop \/ Crash \/ Touch \/ UNCHANGED vars
  <2>1. UNCHANGED <<links, gateways, wishes, writer>>
    BY <1>1 DEF ProducerStep, Start, ReadControl, Send, SaveCheckpoint, Complete, Leave,
                Stop, Crash, Touch, vars
  <2>2. status' \in {status, "completed"} \/ (status = "none" /\ status' = "running")
    <3>1. CASE ReadControl
      BY <3>1 DEF ReadControl, SetStatus, Found
    <3>2. CASE Complete
      BY <3>2 DEF Complete, SetStatus
    <3>3. CASE Touch
      BY <3>3 DEF Touch, SetStatus
    <3>4. CASE Start \/ Send \/ SaveCheckpoint \/ Leave \/ Stop \/ Crash \/ UNCHANGED vars
      BY <3>4 DEF Start, Send, SaveCheckpoint, Leave, Stop, Crash, vars, database
    <3> QED BY <1>1, <3>1, <3>2, <3>3, <3>4 DEF ProducerStep
  <2> QED BY <2>1, <2>2, WordElsewhere
<1>2. ASSUME NEW p \in Pages, Open(p) \/ Click(p) \/ Break(p),
             p \notin unheard' => WordKept(p)'
      PROVE  WordInv'
  <2>1. UNCHANGED <<status, writer>>
    BY <1>2 DEF Open, Click, Break, database
  <2>2. ASSUME NEW s \in Sessions, command[s] = NoCommand PROVE command'[s] = NoCommand
    BY <1>2, <2>2 DEF Open, Click, Break, TypeOK
  <2>3. ASSUME NEW q \in Pages \ unheard', q # p PROVE WordKept(q)'
    <3>1. q \notin unheard
      BY <1>2, <2>3 DEF Open, Click, Break
    <3> QED BY <1>2, <2>3, <3>1, WordOfOthers DEF WordInv
  <2> QED BY <1>2, <2>1, <2>2, <2>3 DEF WordInv
<1>3. ASSUME NEW p \in Pages, Open(p), p \notin unheard' PROVE WordKept(p)'
  <2>1. PICK s \in Sessions :
          /\ Free(s)
          /\ session' = [session EXCEPT ![p] = s]
          /\ page' = [page EXCEPT ![s] = p]
          /\ messages' = [messages EXCEPT ![s] = FirstMessages(p)]
    BY <1>3 DEF Open
  <2>2. /\ session'[p] = s /\ messages'[s] = FirstMessages(p)
        /\ command'[s] = NoCommand
        /\ Connected(p)' /\ ~Connected(p)
        /\ UNCHANGED <<paused, status, writer>>
    BY <1>3, <2>1 DEF Open, Free, Connected, TypeOK, database
  <2>3. CASE p \in paused
    <3>1. messages'[s] = <<"paused">> /\ Wish(p)' = "paused"
      BY <2>2, <2>3 DEF FirstMessages, Wish
    <3>2. messages'[s] # <<>> /\ messages'[s][Len(messages'[s])] = "paused"
      BY <3>1
    <3>3. Outstanding(session[p])' /\ FinalWord(session[p])' = "paused"
      BY <2>2, <3>2 DEF Outstanding, FinalWord
    <3>4. ~Settled(p)'
      BY <2>2, <3>3 DEF Settled
    <3> QED BY <3>1, <3>3, <3>4 DEF WordKept
  <2>4. CASE p \notin paused
    <3>1. messages'[s] = <<>> /\ Wish(p)' = Wish(p)
      BY <2>2, <2>4 DEF FirstMessages, Wish
    <3>2. ~Outstanding(session[p])'
      BY <2>2, <3>1 DEF Outstanding
    <3>3. p \notin unheard
      BY <1>3, <2>4 DEF Open
    <3>4. Settled(p) /\ WordKept(p)
      BY <2>2, <2>4, <3>3 DEF Settled, WordInv
    <3>5. ASSUME NEW t \in Sessions, page'[t] = p, status = "none" PROVE messages'[t] = <<>>
      BY <2>1, <3>1, <3>4, <3>5 DEF WordKept, TypeOK
    <3> QED BY <2>2, <2>4, <3>1, <3>2, <3>4, <3>5 DEF WordKept
  <2> QED BY <2>3, <2>4
<1>4. ASSUME NEW p \in Pages, Click(p), p \notin unheard' PROVE WordKept(p)'
  <2>1. UNCHANGED session /\ (Connected(p)' <=> Connected(p))
    BY <1>4 DEF Click, links, Connected
  <2>2. CASE Connected(p)
    <3>1. session[p] \in Sessions
      BY <2>2 DEF Connected, TypeOK
    <3>2. Wish(p)' \in Wishes
      BY DEF Wish, Wishes
    <3>3. messages'[session[p]] = Append(messages[session[p]], Wish(p)')
      BY <1>4, <2>2, <3>1 DEF Click, TypeOK
    <3>4. /\ messages'[session[p]] # <<>>
          /\ messages'[session[p]][Len(messages'[session[p]])] = Wish(p)'
      BY <1>0, <3>1, <3>2, <3>3
    <3>5. Outstanding(session[p])' /\ FinalWord(session[p])' = Wish(p)'
      BY <2>1, <3>4 DEF Outstanding, FinalWord
    <3>6. ~Settled(p)'
      BY <2>1, <2>2, <3>5 DEF Settled
    <3> QED BY <3>5, <3>6 DEF WordKept
  <2>3. CASE ~Connected(p)
    <3>1. p \in paused'
      BY <1>4, <2>3 DEF Click
    <3>2. ~Settled(p)'
      BY <2>1, <2>3, <3>1 DEF Settled
    <3> QED BY <2>1, <2>3, <3>2 DEF WordKept
  <2> QED BY <2>2, <2>3
<1>5. ASSUME NEW p \in Pages, Break(p), p \notin unheard' PROVE WordKept(p)'
  <2>1. /\ Connected(p) /\ session[p] \in Sessions
        /\ ~Connected(p)'
        /\ UNCHANGED <<page, status, writer>>
    BY <1>5 DEF Break, Connected, TypeOK, database
  <2>2. CASE p \in paused'
    <3>1. ~Settled(p)'
      BY <2>1, <2>2 DEF Settled
    <3> QED BY <2>1, <3>1 DEF WordKept
  <2>3. CASE p \notin paused'
    <3>1. p \notin paused /\ ~Outstanding(session[p]) /\ p \notin unheard
      BY <1>5, <2>3 DEF Break, Outstanding
    <3>2. Settled(p) /\ WordKept(p) /\ Wish(p)' = Wish(p)
      BY <2>1, <2>3, <3>1 DEF Settled, WordInv, Wish
    <3>3. ASSUME NEW t \in Sessions, messages[t] = <<>> PROVE messages'[t] = <<>>
      <4>1. CASE t = session[p]
        <5>1. ASSUME NEW n \in 0 .. Len(messages[t]) PROVE SubSeq(messages[t], 1, n) = <<>>
          BY <3>3
        <5>2. \/ \E n \in 0 .. Len(messages[t]) : messages'[t] = SubSeq(messages[t], 1, n)
              \/ messages'[t] = <<>>
          BY <1>5, <4>1 DEF Break, TypeOK
        <5> QED BY <5>1, <5>2
      <4>2. CASE t # session[p]
        BY <1>5, <3>3, <4>2 DEF Break, TypeOK
      <4> QED BY <4>1, <4>2
    <3> QED BY <2>1, <2>3, <3>2, <3>3 DEF WordKept
  <2> QED BY <2>2, <2>3
<1>6. ASSUME NEW s \in Sessions, ReadStatus(s) PROVE WordInv'
  <2>1. /\ messages[s] # <<>> /\ command[s] = NoCommand
        /\ messages'[s] = Tail(messages[s])
        /\ UNCHANGED <<session, page, paused, unheard>>
    BY <1>6 DEF ReadStatus, Replaceable, links, wishes, TypeOK
  <2>2. ASSUME NEW t \in Sessions, t # s
        PROVE  messages'[t] = messages[t] /\ command'[t] = command[t]
    BY <1>6, <2>2 DEF ReadStatus, Replaceable, TypeOK
  <2>3. /\ Head(messages[s]) \in Wishes
        /\ Tail(messages[s]) = <<>> => Head(messages[s]) = messages[s][Len(messages[s])]
        /\ Tail(messages[s]) # <<>> =>
              Tail(messages[s])[Len(Tail(messages[s]))] = messages[s][Len(messages[s])]
    BY <1>0, <2>1, HeadAndLast
  <2>4. status' # "none"
    BY <1>6, <2>3 DEF ReadStatus, Replaceable, SetStatus, Wishes, TypeOK, Statuses
  <2>5. ASSUME NEW q \in Pages \ unheard' PROVE WordKept(q)'
    <3>1. WordKept(q) /\ Wish(q)' = Wish(q) /\ (Connected(q)' <=> Connected(q))
      BY <2>1, <2>5 DEF WordInv, Wish, Connected
    <3>2. Connected(q) => session[q] \in Sessions
      BY DEF Connected, TypeOK
    <3>3. Connected(q) /\ session[q] # s =>
            /\ Outstanding(session[q])' <=> Outstanding(session[q])
            /\ FinalWord(session[q])' = FinalWord(session[q])
      BY <2>1, <2>2, <3>2 DEF Outstanding, FinalWord
    <3>4. ~(Connected(q) /\ session[q] = s) => (Settled(q)' <=> Settled(q))
      BY <2>1, <3>1, <3>3 DEF Settled
    <3>5. Connected(q) /\ session[q] = s =>
            /\ ~Settled(q)
            /\ messages[s][Len(messages[s])] = Wish(q)
      BY <2>1, <3>1 DEF WordKept, FinalWord, Outstanding, Settled
    <3>6. (Connected(q) /\ Outstanding(session[q]) => FinalWord(session[q]) = Wish(q))'
      <4>1. CASE Connected(q) /\ session[q] = s
        <5>1. command'[s] \in {NoCommand, Head(messages[s])}
          BY <1>6, <2>1 DEF ReadStatus, Replaceable, TypeOK
        <5> QED BY <2>1, <2>3, <3>1, <3>5, <4>1, <5>1 DEF Outstanding, FinalWord
      <4>2. CASE ~(Connected(q) /\ session[q] = s)
        BY <3>1, <3>3, <4>2 DEF WordKept
      <4> QED BY <4>1, <4>2
    <3>7. (Settled(q) /\ writer = q /\ status \in Wishes => status = Wish(q))'
      <4>1. CASE status = "none"
        <5>1. status' = Head(messages[s]) /\ writer' = page[s]
          BY <1>6, <4>1 DEF ReadStatus, Replaceable, SetStatus, Wishes, Statuses
        <5>2. ASSUME page[s] = q, Settled(q)' PROVE Connected(q) /\ session[q] = s
          BY <2>1, <3>1, <3>4, <4>1, <5>2 DEF WordKept
        <5>3. ASSUME Connected(q), session[q] = s, Settled(q)' PROVE Tail(messages[s]) = <<>>
          BY <2>1, <3>1, <5>3 DEF Settled, Outstanding
        <5> QED BY <2>3, <3>1, <3>5, <5>1, <5>2, <5>3
      <4>2. CASE status \in Wishes
        <5>1. command'[s] # NoCommand /\ UNCHANGED <<status, writer>>
          BY <1>6, <2>3, <4>2 DEF ReadStatus, Replaceable, SetStatus, Wishes, TypeOK, NoCommand
        <5>2. Settled(q)' => ~(Connected(q) /\ session[q] = s)
          BY <2>1, <3>1, <5>1 DEF Settled, Outstanding
        <5> QED BY <3>1, <3>4, <5>1, <5>2 DEF WordKept
      <4>3. CASE status = "completed"
        BY <1>6, <4>3 DEF ReadStatus, Replaceable, Wishes
      <4> QED BY <4>1, <4>2, <4>3 DEF TypeOK, Statuses, Wishes
    <3> QED BY <2>4, <3>6, <3>7 DEF WordKept
  <2> QED BY <2>4, <2>5 DEF WordInv
<1>7. ASSUME NEW s \in Sessions, WriteStatus(s) PROVE WordInv'
  <2>1. /\ command[s] # NoCommand /\ command[s] \in Wishes
        /\ status' = command[s] /\ writer' = page[s] /\ command'[s] = NoCommand
        /\ UNCHANGED <<session, page, paused, messages>>
    BY <1>0, <1>7 DEF WriteStatus, SetStatus, links, TypeOK
  <2>2. ASSUME NEW t \in Sessions, t # s PROVE command'[t] = command[t]
    BY <1>7, <2>2 DEF WriteStatus, TypeOK
  <2>3. status' # "none"
    BY <2>1 DEF Wishes
  <2>4. ASSUME NEW q \in Pages \ unheard' PROVE WordKept(q)'
    <3>1. /\ WordKept(q) /\ Wish(q)' = Wish(q) /\ (Connected(q)' <=> Connected(q))
          /\ page[s] = q => session[q] = s \/ command[s] = Wish(q)
      BY <1>7, <2>1, <2>4 DEF WordInv, Wish, Connected, WriteStatus
    <3>2. Connected(q) => session[q] \in Sessions
      BY DEF Connected, TypeOK
    <3>3. (Connected(q) /\ Outstanding(session[q]) => FinalWord(session[q]) = Wish(q))'
      <4>1. CASE Connected(q) /\ session[q] = s
        BY <2>1, <3>1, <4>1 DEF WordKept, Outstanding, FinalWord
      <4>2. CASE Connected(q) /\ session[q] # s
        BY <2>1, <2>2, <3>1, <3>2, <4>2 DEF WordKept, Outstanding, FinalWord
      <4> QED BY <3>1, <4>1, <4>2
    <3>4. ASSUME Settled(q)', page[s] = q PROVE command[s] = Wish(q)
      <4>1. CASE session[q] = s
        <5>1. Connected(q) /\ Outstanding(session[q])
          BY <2>1, <4>1 DEF Connected, Outstanding
        <5>2. messages[s] = <<>>
          BY <2>1, <3>1, <3>4, <4>1, <5>1 DEF Settled, Outstanding
        <5> QED BY <3>1, <4>1, <5>1, <5>2 DEF WordKept, FinalWord
      <4>2. CASE session[q] # s
        BY <3>1, <3>4, <4>2
      <4> QED BY <4>1, <4>2
    <3> QED BY <2>1, <2>3, <3>1, <3>3, <3>4 DEF WordKept
  <2> QED BY <2>3, <2>4 DEF WordInv
<1> QED
  BY <1>1, <1>2, <1>3, <1>4, <1>5, <1>6, <1>7 DEF Next, SessionStep

LEMMA Initially == Init => IInv
<1> SUFFICES ASSUME Init PROVE IInv
  OBVIOUS
<1> USE StepsAssumption, BoundsAssumption DEF Init, NoCheckpoint, NoCommand
<1>1. TypeOK
  BY DEF TypeOK, PCs
<1>2. ReplayInOrder
  BY DEF ReplayInOrder
<1>3. PositionInv /\ PauseInv /\ LinkInv
  BY DEF PositionInv, PauseInv, LastStep, LinkInv, Connected
<1>4. WordInv
  <2>1. writer = NoPage /\ \A s \in Sessions : command[s] = NoCommand
    OBVIOUS
  <2>2. ASSUME NEW p \in Pages PROVE WordKept(p)
    <3>1. ~Connected(p) /\ p \notin paused /\ writer # p
      BY NamesAssumption DEF Connected
    <3>2. \A s \in Sessions : messages[s] = <<>>
      OBVIOUS
    <3> QED BY <3>1, <3>2 DEF WordKept
  <2> QED BY <2>1, <2>2 DEF WordInv
<1> QED BY <1>1, <1>2, <1>3, <1>4 DEF IInv

LEMMA Invariance == Spec => []IInv
<1>1. IInv /\ [Next]_vars => IInv'
  BY TypeStep, OrderStep, PositionStep, PauseStep, LinkStep, WordStep DEF IInv
<1> QED BY Initially, <1>1, PTL DEF Spec

-----------------------------------------------------------------------------
(* The replay stays within its types, in particular never past the last    *)
(* time step of the dataset.                                               *)
THEOREM TypeCorrect == Spec => []TypeOK
<1>1. IInv => TypeOK
  BY DEF IInv
<1> QED BY Invariance, <1>1, PTL

(* The topic never skips a time step and never goes back by more than the  *)
(* resent one, wherever the producer stops or dies.                        *)
THEOREM ReplayIsInOrder == Spec => []ReplayInOrder
<1>1. IInv => ReplayInOrder
  BY DEF IInv
<1> QED BY Invariance, <1>1, PTL

(* However many sessions pause and resume, at most one batch follows a     *)
(* committed pause.                                                        *)
THEOREM PauseIsKept == Spec => []PauseHolds
<1>1. IInv => PauseHolds
  BY DEF IInv, PauseInv, PauseHolds
<1> QED BY Invariance, <1>1, PTL

(* Of all pages, the one whose message was written last shows what holds,  *)
(* over any number of broken connections, unless it went unheard.          *)
THEOREM LastWordIsKept == Spec => []LastWordHolds
<1>1. IInv => LastWordHolds
  <2> SUFFICES ASSUME IInv, NEW p \in Pages \ unheard,
                      writer = p, Quiet(p), status \in Wishes
               PROVE  status = Wish(p)
    BY DEF LastWordHolds
  <2>1. Connected(p) /\ session[p] \in Sessions /\ page[session[p]] = p
    BY DEF IInv, LinkInv, TypeOK, Quiet, Connected
  <2>2. Settled(p)
    BY <2>1 DEF Quiet, Settled, Outstanding
  <2> QED BY <2>2 DEF IInv, WordInv, WordKept
<1> QED BY Invariance, <1>1, PTL

(* "completed" is only ever read when the whole dataset is in the topic.   *)
THEOREM CompletedIsSent == Spec => []CompletedMeansSent
<1>1. IInv => CompletedMeansSent
  <2> SUFFICES ASSUME IInv, status = "completed" PROVE CompletedMeansSent
    BY DEF CompletedMeansSent
  <2> USE StepsAssumption DEF IInv
  <2>1. checkpoint.step = Steps
    BY DEF PositionInv
  <2>2. topic \in Seq([step : 1 .. Steps, offset : 0 .. (Steps - 1)])
    BY DEF TypeOK
  <2>3. LastStep \in {Steps, Steps + 1}
    BY <2>1 DEF PositionInv
  <2>4. topic # <<>>
    BY <2>3 DEF LastStep
  <2>5. topic[Len(topic)].step \in 1 .. Steps
    <3>1. Len(topic) \in 1 .. Len(topic)
      BY <2>2, <2>4
    <3>2. topic[Len(topic)] \in [step : 1 .. Steps, offset : 0 .. (Steps - 1)]
      BY <2>2, <3>1, ElementOfSeq
    <3> QED BY <3>2
  <2> QED BY <2>1, <2>3, <2>4, <2>5 DEF CompletedMeansSent, LastStep
<1> QED BY Invariance, <1>1, PTL

(* Completion is final once no session is between its two statements       *)
(* (api_gateway/main.py:448): whatever pages, sessions and producer do     *)
(* afterwards, the row stays "completed".                                  *)
THEOREM CompletionIsSettled == Spec => CompletionSettles
<1>1. TypeOK /\ [Next]_vars => (Over => Over')
  <2> SUFFICES ASSUME TypeOK, [Next]_vars, Over PROVE Over'
    OBVIOUS
  <2> USE DEF Over
  <2>1. CASE ProducerStep
    <3>1. command' = command
      BY <2>1 DEF ProducerStep, Start, ReadControl, Send, SaveCheckpoint, Complete, Leave, gateways
    <3>2. status' = status
      BY <2>1 DEF ProducerStep, Start, ReadControl, Send, SaveCheckpoint, Complete, Leave,
                  database, SetStatus, Found
    <3> QED BY <3>1, <3>2
  <2>2. CASE Stop \/ Crash \/ Touch
    BY <2>2 DEF Stop, Crash, Touch, database, gateways
  <2>3. ASSUME NEW p \in Pages, Open(p) \/ Click(p)
        PROVE  Over'
    BY <2>3 DEF Open, Click, database, gateways
  <2>4. ASSUME NEW p \in Pages, Break(p)
        PROVE  Over'
    <3>1. status' = status
      BY <2>4 DEF Break, database
    <3>2. \/ command' = command
          \/ command' = [command EXCEPT ![session[p]] = NoCommand]
      BY <2>4 DEF Break
    <3>3. command \in [Sessions -> Wishes \cup {NoCommand}]
      BY DEF TypeOK
    <3> QED BY <3>1, <3>2, <3>3
  <2>5. ASSUME NEW s \in Sessions, SessionStep(s)
        PROVE  Over'
    <3>1. ReadStatus(s)
      BY <2>5 DEF SessionStep, WriteStatus
    <3>2. UNCHANGED <<command, status>>
      BY <3>1 DEF ReadStatus, Replaceable, Wishes
    <3> QED BY <3>2
  <2>6. CASE UNCHANGED vars
    BY <2>6 DEF vars, database, gateways
  <2> QED BY <2>1, <2>2, <2>3, <2>4, <2>5, <2>6 DEF Next
<1>2. Spec => []TypeOK
  BY TypeCorrect
<1>3. Spec => [][Next]_vars
  BY DEF Spec
<1>4. Spec => [][Over => Over']_vars
  BY <1>1, <1>2, <1>3, PTL
<1> QED BY <1>4 DEF CompletionSettles
=============================================================================
