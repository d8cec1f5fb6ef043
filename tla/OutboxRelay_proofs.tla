------------------------- MODULE OutboxRelay_proofs -------------------------
(***************************************************************************)
(* What holds of the outbox relay for any number of relays and rows, any   *)
(* batch size and any number of crashes and failed calls: the types, that  *)
(* only rows Kafka has accepted are marked, that only a relay that lost    *)
(* its session sends a published row again, and that every further copy of *)
(* a row has cost a fault.                                                 *)
(***************************************************************************)
EXTENDS OutboxRelay, FiniteSetTheorems, TLAPS

(* TypeOK in three parts: a step of one relay leaves most of each alone.   *)
RelayTypes ==
    /\ pc \in [Relays -> PCs]
    /\ batch \in [Relays -> SUBSET rows]
    /\ marked \in [Relays -> SUBSET rows]
    /\ failed \in [Relays -> rows \cup {NoRow}]
    /\ attempt \in [Relays -> 0 .. (RetryMaxAttempts - 1)]
    /\ lost \subseteq Relays

TableTypes ==
    /\ rows \subseteq Rows
    /\ published \subseteq rows
    /\ lastError \subseteq rows
    /\ attempts \in [Rows -> Nat]
    /\ log \in Seq(rows)

CounterTypes == crashes \in Nat /\ kafkaFaults \in Nat /\ dbFaults \in Nat

LEMMA TypesOfParts == TypeOK <=> RelayTypes /\ TableTypes /\ CounterTypes
  BY DEF TypeOK, RelayTypes, TableTypes, CounterTypes

LEMMA InitType == Init => TypeOK
  BY RelayAssumption DEF Init, TypeOK, PCs

LEMMA NextType == TypeOK /\ [Next]_vars => TypeOK'
<1>. SUFFICES ASSUME TypeOK, [Next]_vars
              PROVE  TypeOK'
  OBVIOUS
<1>. USE RelayAssumption
<1>0. RelayTypes /\ TableTypes /\ CounterTypes
  BY TypesOfParts
<1>1. ASSUME NEW S \in SUBSET Rows, Insert(S)
      PROVE  TypeOK'
  <2>1. /\ rows' = rows \cup S
        /\ UNCHANGED <<published, lastError, attempts, log, relay, counters>>
    BY <1>1 DEF Insert
  <2>2. rows \subseteq rows' /\ Seq(rows) \subseteq Seq(rows')
    BY <2>1
  <2>3. RelayTypes'
    BY <1>0, <2>1, <2>2 DEF RelayTypes, relay
  <2>4. TableTypes'
    BY <1>0, <2>1, <2>2 DEF TableTypes
  <2>. QED BY <1>0, <2>1, <2>3, <2>4, TypesOfParts
       DEF counters, CounterTypes, TypeOK, RelayTypes, TableTypes
<1>2. ASSUME NEW r \in Relays, Start(r)
      PROVE  TypeOK'
  BY <1>2 DEF Start, TypeOK, PCs, table, counters
<1>3. ASSUME NEW r \in Relays, SelectBatch(r)
      PROVE  TypeOK'
  BY <1>3 DEF SelectBatch, FirstOf, TypeOK, PCs, table, counters
<1>4. ASSUME NEW r \in Relays, Send(r)
      PROVE  TypeOK'
  <2>1. PICK n \in Rows : /\ n \in batch[r]
                          /\ log' = Append(log, n)
                          /\ marked' = [marked EXCEPT ![r] = @ \cup {n}]
    BY <1>4 DEF Send, IsNext
  <2>2. n \in rows
    BY <2>1 DEF TypeOK
  <2>3. log' \in Seq(rows)
    BY <2>1, <2>2 DEF TypeOK
  <2>. QED BY <1>4, <2>1, <2>2, <2>3 DEF Send, TypeOK, PCs, table, counters
<1>5. ASSUME NEW r \in Relays, SendFails(r)
      PROVE  TypeOK'
  <2>1. PICK n \in Rows : /\ n \in batch[r]
                          /\ log' \in {log, Append(log, n)}
                          /\ failed' = [failed EXCEPT ![r] = n]
    BY <1>5 DEF SendFails, IsNext
  <2>2. n \in rows
    BY <2>1 DEF TypeOK
  <2>3. log \in Seq(rows) /\ Append(log, n) \in Seq(rows)
    BY <2>2 DEF TypeOK
  <2>4. log' \in Seq(rows)
    BY <2>1, <2>3
  <2>5. kafkaFaults' \in Nat
    BY <1>5 DEF SendFails, TypeOK
  <2>. QED BY <1>5, <2>1, <2>2, <2>4, <2>5 DEF SendFails, RollBack, TypeOK, PCs, table
<1>6. ASSUME NEW r \in Relays, CommitBatch(r)
      PROVE  TypeOK'
  BY <1>6 DEF CommitBatch, RollBack, TypeOK, PCs, counters
<1>7. ASSUME NEW r \in Relays, UpdateBacklog(r)
      PROVE  TypeOK'
  BY <1>7 DEF UpdateBacklog, TypeOK, PCs, table, counters
<1>8. ASSUME NEW r \in Relays, DatabaseFails(r)
      PROVE  TypeOK'
  <2>1. dbFaults' \in Nat
    BY <1>8 DEF DatabaseFails, TypeOK
  <2>2. published' \subseteq rows /\ lastError' \subseteq rows
    BY <1>8 DEF DatabaseFails, TypeOK
  <2>. QED BY <1>8, <2>1, <2>2 DEF DatabaseFails, RollBack, TypeOK, PCs
<1>9. ASSUME NEW r \in Relays, HandleFailure(r)
      PROVE  TypeOK'
  <2>1. attempts' \in [Rows -> Nat] /\ lastError' \subseteq rows
    <3>1. CASE failed[r] = NoRow
      BY <1>9, <3>1 DEF HandleFailure, TypeOK
    <3>2. CASE failed[r] # NoRow
      <4>1. failed[r] \in rows /\ failed[r] \in Rows
        BY <3>2 DEF TypeOK
      <4>. QED BY <1>9, <3>2, <4>1 DEF HandleFailure, TypeOK
    <3>. QED BY <3>1, <3>2
  <2>2. attempt' \in [Relays -> 0 .. (RetryMaxAttempts - 1)] /\ pc' \in [Relays -> PCs]
    <3>1. attempt[r] \in 0 .. (RetryMaxAttempts - 1)
      BY DEF TypeOK
    <3>2. CASE attempt[r] + 1 >= RetryMaxAttempts
      <4>1. /\ attempt' = [attempt EXCEPT ![r] = 0]
            /\ pc' = [pc EXCEPT ![r] = "down"]
        BY <1>9, <3>2 DEF HandleFailure
      <4>. QED BY <4>1 DEF TypeOK, PCs
    <3>3. CASE ~(attempt[r] + 1 >= RetryMaxAttempts)
      <4>1. /\ attempt' = [attempt EXCEPT ![r] = @ + 1]
            /\ pc' = [pc EXCEPT ![r] = "select"]
        BY <1>9, <3>3 DEF HandleFailure
      <4>2. attempt[r] + 1 \in 0 .. (RetryMaxAttempts - 1)
        BY <3>1, <3>3
      <4>. QED BY <4>1, <4>2 DEF TypeOK, PCs
    <3>. QED BY <3>2, <3>3
  <2>3. /\ failed' = [failed EXCEPT ![r] = NoRow]
        /\ UNCHANGED <<rows, published, log, batch, marked, lost, counters>>
    BY <1>9 DEF HandleFailure
  <2>. QED BY <2>1, <2>2, <2>3 DEF TypeOK, counters
<1>10. ASSUME NEW r \in Relays, Crash(r)
       PROVE  TypeOK'
  <2>1. crashes' \in Nat
    BY <1>10 DEF Crash, TypeOK
  <2>. QED BY <1>10, <2>1 DEF Crash, RollBack, TypeOK, PCs, table
<1>11. ASSUME NEW r \in Relays, SessionLost(r)
       PROVE  TypeOK'
  <2>1. dbFaults' \in Nat /\ lost' \subseteq Relays
    BY <1>11 DEF SessionLost, TypeOK
  <2>. QED BY <1>11, <2>1 DEF SessionLost, TypeOK, table
<1>12. ASSUME NEW r \in Relays, CommitFails(r)
       PROVE  TypeOK'
  BY <1>12 DEF CommitFails, RollBack, TypeOK, PCs, table, counters
<1>13. CASE UNCHANGED vars
  BY <1>13 DEF vars, table, relay, counters, TypeOK
<1>. QED BY <1>1, <1>2, <1>3, <1>4, <1>5, <1>6, <1>7, <1>8, <1>9, <1>10, <1>11, <1>12, <1>13
     DEF Next, RelayStep, Fault

(* Every reachable state has the declared types: a relay locks and marks   *)
(* rows of the table only, and leaves before its retry budget is passed.   *)
THEOREM TypeCorrect == Spec => []TypeOK
  BY InitType, NextType, PTL DEF Spec

-----------------------------------------------------------------------------
(* What the row locks keep true.  PublishedAccepted is not inductive: that *)
(* the marks a commit makes visible are of accepted rows has to be known   *)
(* when they are made.  What a relay holds is its own, and unpublished, as *)
(* long as its session lasts: a batch whose session has ended may be       *)
(* anybody's, and is no longer than the transaction it was selected in.    *)
LockInv ==
    /\ published \subseteq Accepted
    /\ \A r \in Relays : marked[r] \subseteq batch[r] /\ marked[r] \subseteq Accepted
    /\ \A r \in Relays : pc[r] \notin {"send", "commit"} => batch[r] = {} /\ r \notin lost
    /\ \A r \in Relays \ lost : batch[r] \cap published = {}
    /\ \A p, q \in Relays \ lost : p # q => batch[p] \cap batch[q] = {}

LEMMA AppendAccepts ==
    ASSUME TypeOK, NEW n \in rows, log' = Append(log, n)
    PROVE  Accepted' = Accepted \cup {n}
  <1>1. /\ Len(log') = Len(log) + 1 /\ Len(log) \in Nat
        /\ \A i \in 1 .. Len(log) : log'[i] = log[i]
        /\ log'[Len(log) + 1] = n
    BY DEF TypeOK
  <1>2. \A i \in 1 .. Len(log') : i \in 1 .. Len(log) \/ i = Len(log) + 1
    BY <1>1
  <1>3. Accepted' \subseteq Accepted \cup {n}
    BY <1>1, <1>2 DEF Accepted
  <1>4. n \in Accepted'
    BY <1>1 DEF Accepted
  <1>5. Accepted \subseteq Accepted'
    BY <1>1 DEF Accepted
  <1>. QED BY <1>3, <1>4, <1>5

(* Rolling r back, or committing what r has marked under its locks, keeps  *)
(* LockInv.                                                                *)
LEMMA LeaveKeepsLocks ==
    ASSUME TypeOK, LockInv, NEW r \in Relays, RollBack(r),
           Accepted \subseteq Accepted',
           \/ published' = published
           \/ r \notin lost /\ published' = published \cup marked[r],
           \A p \in Relays : p # r => pc'[p] = pc[p]
    PROVE  LockInv'
  <1>1. /\ batch'[r] = {} /\ marked'[r] = {}
        /\ \A p \in Relays : p # r => batch'[p] = batch[p] /\ marked'[p] = marked[p]
        /\ lost' = lost \ {r}
    BY DEF RollBack, TypeOK
  <1>2. r \notin lost => \A p \in Relays \ lost : p # r => batch[p] \cap marked[r] = {}
    BY DEF LockInv
  <1>. QED BY <1>1, <1>2 DEF LockInv

LEMMA InitLocks == Init => LockInv
  BY DEF Init, LockInv

LEMMA NextLocks == TypeOK /\ LockInv /\ [Next]_vars => LockInv'
<1>. SUFFICES ASSUME TypeOK, LockInv, [Next]_vars
              PROVE  LockInv'
  OBVIOUS
<1>1. ASSUME NEW S \in SUBSET Rows, Insert(S)
      PROVE  LockInv'
  BY <1>1 DEF Insert, relay, LockInv, Accepted
<1>2. ASSUME NEW r \in Relays, Start(r) \/ UpdateBacklog(r)
      PROVE  LockInv'
  <2>1. /\ UNCHANGED <<published, log, batch, marked, lost>>
        /\ pc[r] \notin {"send", "commit"}
        /\ \A p \in Relays : p # r => pc'[p] = pc[p]
    BY <1>2 DEF Start, UpdateBacklog, table, TypeOK
  <2>. QED BY <2>1 DEF LockInv, Accepted
<1>3. ASSUME NEW r \in Relays, SelectBatch(r)
      PROVE  LockInv'
  <2>1. /\ UNCHANGED <<published, log, marked, lost>>
        /\ batch' = [batch EXCEPT ![r] = batch'[r]]
        /\ batch'[r] \subseteq (rows \ published) \ Locked(r)
        /\ pc' = [pc EXCEPT ![r] = pc'[r]] /\ pc'[r] \in {"send", "commit"}
    BY <1>3 DEF SelectBatch, FirstOf, table, TypeOK
  <2>2. batch[r] = {} /\ marked[r] = {} /\ r \notin lost
    BY <1>3 DEF SelectBatch, LockInv
  <2>3. \A p \in Relays : p # r =>
          /\ batch'[p] = batch[p] /\ pc'[p] = pc[p]
          /\ p \notin lost => batch'[r] \cap batch[p] = {}
    BY <2>1 DEF Locked, TypeOK
  <2>4. batch'[r] \cap published = {} /\ pc'[r] \in {"send", "commit"}
    BY <2>1
  <2>5. published' \subseteq Accepted'
    BY <2>1 DEF LockInv, Accepted
  <2>6. \A p \in Relays : marked'[p] \subseteq batch'[p] /\ marked'[p] \subseteq Accepted'
    BY <2>1, <2>2, <2>3 DEF LockInv, Accepted
  <2>7. \A p, q \in Relays \ lost : p # q => batch'[p] \cap batch'[q] = {}
    BY <2>3 DEF LockInv
  <2>. QED BY <2>1, <2>2, <2>3, <2>4, <2>5, <2>6, <2>7 DEF LockInv
<1>4. ASSUME NEW r \in Relays, Send(r)
      PROVE  LockInv'
  <2>1. PICK n \in Rows : /\ n \in batch[r]
                          /\ log' = Append(log, n)
                          /\ marked' = [marked EXCEPT ![r] = @ \cup {n}]
    BY <1>4 DEF Send, IsNext
  <2>2. Accepted' = Accepted \cup {n}
    BY <2>1, AppendAccepts DEF TypeOK
  <2>3. /\ UNCHANGED <<published, batch, lost>> /\ pc[r] = "send"
        /\ pc' = [pc EXCEPT ![r] = pc'[r]] /\ pc'[r] \in {"send", "commit"}
    BY <1>4 DEF Send, table, TypeOK
  <2>4. \A p \in Relays : marked'[p] \subseteq batch'[p] /\ marked'[p] \subseteq Accepted'
    BY <2>1, <2>2, <2>3 DEF LockInv, TypeOK
  <2>5. \A p \in Relays : pc'[p] \notin {"send", "commit"} => batch'[p] = {} /\ p \notin lost'
    <3>1. pc'[r] \in {"send", "commit"} /\ \A p \in Relays : p # r => pc'[p] = pc[p]
      BY <2>3 DEF TypeOK
    <3>2. lost' = lost /\ batch' = batch
      BY <2>3
    <3>. QED BY <3>1, <3>2 DEF LockInv
  <2>. QED BY <2>2, <2>3, <2>4, <2>5 DEF LockInv
<1>5. ASSUME NEW r \in Relays, SendFails(r)
      PROVE  LockInv'
  <2>1. PICK n \in Rows : n \in batch[r] /\ log' \in {log, Append(log, n)}
    BY <1>5 DEF SendFails, IsNext
  <2>2. Accepted \subseteq Accepted'
    <3>1. CASE log' = log
      BY <3>1 DEF Accepted
    <3>2. CASE log' = Append(log, n)
      BY <2>1, <3>2, AppendAccepts DEF TypeOK
    <3>. QED BY <2>1, <3>1, <3>2
  <2>. QED BY <1>5, <2>2, LeaveKeepsLocks DEF SendFails, table, TypeOK
<1>6. ASSUME NEW r \in Relays, CommitBatch(r)
      PROVE  LockInv'
  BY <1>6, LeaveKeepsLocks DEF CommitBatch, Accepted, TypeOK
<1>7. ASSUME NEW r \in Relays, DatabaseFails(r)
      PROVE  LockInv'
  BY <1>7, LeaveKeepsLocks DEF DatabaseFails, Accepted, TypeOK
<1>8. ASSUME NEW r \in Relays, HandleFailure(r)
      PROVE  LockInv'
  <2>1. /\ UNCHANGED <<published, log, batch, marked, lost>>
        /\ pc[r] = "failure"
        /\ \A p \in Relays : p # r => pc'[p] = pc[p]
    BY <1>8 DEF HandleFailure, TypeOK
  <2>. QED BY <2>1 DEF LockInv, Accepted
<1>9. ASSUME NEW r \in Relays, Crash(r)
      PROVE  LockInv'
  BY <1>9, LeaveKeepsLocks DEF Crash, table, Accepted, TypeOK
<1>10. ASSUME NEW r \in Relays, SessionLost(r)
       PROVE  LockInv'
  BY <1>10 DEF SessionLost, table, LockInv, Accepted
<1>11. ASSUME NEW r \in Relays, CommitFails(r)
       PROVE  LockInv'
  BY <1>11, LeaveKeepsLocks DEF CommitFails, table, Accepted, TypeOK
<1>12. CASE UNCHANGED vars
  BY <1>12 DEF vars, table, relay, LockInv, Accepted
<1>. QED BY <1>1, <1>2, <1>3, <1>4, <1>5, <1>6, <1>7, <1>8, <1>9, <1>10, <1>11, <1>12
     DEF Next, RelayStep, Fault

(* A row's published_at is committed only after Kafka accepted the row,    *)
(* whatever fails between the send and the commit.                         *)
THEOREM MarksAccepted == Spec => []PublishedAccepted
  <1>1. LockInv => PublishedAccepted
    BY DEF LockInv, PublishedAccepted
  <1>. QED BY <1>1, InitType, NextType, InitLocks, NextLocks, PTL DEF Spec

(* A row whose publication is committed is sent again only by a relay      *)
(* whose session ended while it held the row (main.py:99-121): what a      *)
(* relay holds under a session that lasts is not published.                *)
THEOREM ResentByLoss == Spec => ResentOnlyAfterLoss
  <1>1. TypeOK /\ LockInv /\ [Next]_vars =>
          [\A n \in published : log' = Append(log, n) => \E r \in lost : Sends(r, n)]_vars
    <2>. SUFFICES ASSUME TypeOK, LockInv, Next,
                         NEW n \in published, log' = Append(log, n)
                  PROVE  \E r \in lost : Sends(r, n)
      OBVIOUS
    <2>1. Len(log') = Len(log) + 1 /\ Len(log) \in Nat /\ log'[Len(log')] = n /\ log' # log
      BY DEF TypeOK
    <2>2. PICK r \in Relays : Send(r) \/ SendFails(r)
      <3>1. ASSUME NEW p \in Relays
            PROVE  ~(Start(p) \/ SelectBatch(p) \/ CommitBatch(p) \/ CommitFails(p) \/ UpdateBacklog(p))
        BY <2>1 DEF Start, SelectBatch, CommitBatch, CommitFails, UpdateBacklog
      <3>2. ASSUME NEW p \in Relays
            PROVE  ~(HandleFailure(p) \/ SessionLost(p) \/ DatabaseFails(p) \/ Crash(p))
        BY <2>1 DEF HandleFailure, SessionLost, DatabaseFails, Crash
      <3>3. ~ \E S \in SUBSET Rows : Insert(S)
        BY <2>1 DEF Insert
      <3>. QED BY <3>1, <3>2, <3>3 DEF Next, RelayStep, Fault
    <2>3. PICK m \in Rows : /\ IsNext(r, m)
                            /\ log' \in {log, Append(log, m)}
                            /\ m \in marked'[r] \/ failed'[r] = m
      BY <2>2 DEF Send, SendFails, TypeOK
    <2>4. log' = Append(log, m)
      BY <2>1, <2>3
    <2>5. m = n
      BY <2>1, <2>4 DEF TypeOK
    <2>6. r \in lost
      BY <2>3, <2>5 DEF LockInv, IsNext
    <2>. QED BY <2>3, <2>5, <2>6 DEF Sends
  <1>. QED BY <1>1, InitType, NextType, InitLocks, NextLocks, PTL
       DEF Spec, ResentOnlyAfterLoss

-----------------------------------------------------------------------------
(* Copies.  A row has one more copy than there were faults only while it   *)
(* is marked, under a session that lasts or for good: a fault that takes   *)
(* the mark away has counted for it.  A session that ends counts for the   *)
(* copies its relay has yet to send.                                       *)
Faults == crashes + kafkaFaults + dbFaults

Marked == published \cup UNION {marked[r] : r \in Relays \ lost}

(* The relays that may still send n without having it locked.              *)
Unlocked(n) == {r \in lost : n \in batch[r] \ marked[r]}

CopiesInv ==
    /\ IsFiniteSet(lost)
    /\ \A n \in Rows :
          /\ Copies(n) + Cardinality(Unlocked(n)) <= Faults + 1
          /\ n \notin Marked => Copies(n) + Cardinality(Unlocked(n)) <= Faults

LEMMA CopiesOfAppended ==
    ASSUME log \in Seq(rows), NEW n, log' = Append(log, n), NEW m
    PROVE  /\ Copies(m) \in Nat
           /\ Copies(m)' = IF m = n THEN Copies(m) + 1 ELSE Copies(m)
  <1>. DEFINE S == {i \in 1 .. Len(log) : log[i] = m}
              T == {i \in 1 .. Len(log') : log'[i] = m}
  <1>1. Len(log) \in Nat /\ Len(log') = Len(log) + 1
    OBVIOUS
  <1>2. (\A i \in 1 .. Len(log) : log'[i] = log[i]) /\ log'[Len(log) + 1] = n
    OBVIOUS
  <1>3. IsFiniteSet(S) /\ Cardinality(S) \in Nat
    <2>1. IsFiniteSet(1 .. Len(log)) /\ S \subseteq 1 .. Len(log)
      BY <1>1, FS_Interval
    <2>. QED BY <2>1, FS_Subset, FS_CardinalityType
  <1>4. CASE m = n
    <2>1. T = S \cup {Len(log) + 1} /\ Len(log) + 1 \notin S
      BY <1>1, <1>2, <1>4
    <2>2. Cardinality(T) = Cardinality(S) + 1
      BY <1>3, <2>1, FS_AddElement
    <2>. QED BY <1>3, <1>4, <2>2 DEF Copies
  <1>5. CASE m # n
    <2>1. T = S
      BY <1>1, <1>2, <1>5
    <2>. QED BY <1>3, <1>5, <2>1 DEF Copies
  <1>. QED BY <1>4, <1>5

LEMMA CopiesCounted ==
    ASSUME TypeOK, NEW n
    PROVE  Copies(n) \in Nat /\ Faults \in Nat
  <1>1. Len(log) \in Nat
    BY DEF TypeOK
  <1>2. IsFiniteSet({i \in 1 .. Len(log) : log[i] = n})
    <2>. DEFINE S == {i \in 1 .. Len(log) : log[i] = n}
    <2>1. IsFiniteSet(1 .. Len(log)) /\ S \subseteq 1 .. Len(log)
      BY <1>1, FS_Interval
    <2>. QED BY <2>1, FS_Subset
  <1>3. Faults \in Nat
    BY DEF TypeOK, Faults
  <1>. QED BY <1>2, <1>3, FS_CardinalityType DEF Copies

LEMMA UnlockedCounted ==
    ASSUME CopiesInv, NEW n
    PROVE  IsFiniteSet(Unlocked(n)) /\ Cardinality(Unlocked(n)) \in Nat
  <1>1. IsFiniteSet(lost) /\ Unlocked(n) \subseteq lost
    BY DEF CopiesInv, Unlocked
  <1>. QED BY <1>1, FS_Subset, FS_CardinalityType

(* What is out of the set does not count.                                  *)
LEMMA UnlockedShrinks ==
    ASSUME CopiesInv, NEW n, Unlocked(n)' \subseteq Unlocked(n)
    PROVE  /\ Cardinality(Unlocked(n)') \in Nat
           /\ Cardinality(Unlocked(n)') <= Cardinality(Unlocked(n))
  BY UnlockedCounted, FS_Subset, FS_CardinalityType

(* Nothing is sent: the marks stay, or a fault counts for those that go.   *)
LEMMA NothingSent ==
    ASSUME TypeOK, CopiesInv, UNCHANGED log, lost' \subseteq lost,
           \A n \in Rows : Unlocked(n)' \subseteq Unlocked(n),
           \/ Faults' = Faults /\ Marked \subseteq Marked'
           \/ Faults' = Faults + 1
    PROVE  CopiesInv'
  <1>1. IsFiniteSet(lost')
    BY FS_Subset DEF CopiesInv
  <1>2. ASSUME NEW n \in Rows
        PROVE  /\ Copies(n)' + Cardinality(Unlocked(n)') <= Faults' + 1
               /\ n \notin Marked' => Copies(n)' + Cardinality(Unlocked(n)') <= Faults'
    <2>1. Copies(n)' = Copies(n) /\ Copies(n) \in Nat /\ Faults \in Nat
      BY CopiesCounted DEF Copies
    <2>2. /\ Cardinality(Unlocked(n)) \in Nat /\ Cardinality(Unlocked(n)') \in Nat
          /\ Cardinality(Unlocked(n)') <= Cardinality(Unlocked(n))
      BY UnlockedCounted, UnlockedShrinks
    <2>3. /\ Copies(n) + Cardinality(Unlocked(n)) <= Faults + 1
          /\ n \notin Marked => Copies(n) + Cardinality(Unlocked(n)) <= Faults
      BY DEF CopiesInv
    <2>. QED BY <2>1, <2>2, <2>3
  <1>. QED BY <1>1, <1>2 DEF CopiesInv

(* A row is sent that is not marked: the mark, or the fault, is its.       *)
LEMMA OneSent ==
    ASSUME TypeOK, CopiesInv, NEW n \in Rows, n \notin Marked, log' = Append(log, n),
           lost' \subseteq lost,
           \A m \in Rows : Unlocked(m)' \subseteq Unlocked(m),
           \/ Faults' = Faults /\ Marked \cup {n} \subseteq Marked'
           \/ Faults' = Faults + 1
    PROVE  CopiesInv'
  <1>1. IsFiniteSet(lost')
    BY FS_Subset DEF CopiesInv
  <1>2. ASSUME NEW m \in Rows
        PROVE  /\ Copies(m)' + Cardinality(Unlocked(m)') <= Faults' + 1
               /\ m \notin Marked' => Copies(m)' + Cardinality(Unlocked(m)') <= Faults'
    <2>1. /\ Copies(m)' = IF m = n THEN Copies(m) + 1 ELSE Copies(m)
          /\ Copies(m) \in Nat /\ Faults \in Nat
      BY CopiesOfAppended, CopiesCounted DEF TypeOK
    <2>2. /\ Cardinality(Unlocked(m)) \in Nat /\ Cardinality(Unlocked(m)') \in Nat
          /\ Cardinality(Unlocked(m)') <= Cardinality(Unlocked(m))
      BY UnlockedCounted, UnlockedShrinks
    <2>3. /\ Copies(m) + Cardinality(Unlocked(m)) <= Faults + 1
          /\ m \notin Marked => Copies(m) + Cardinality(Unlocked(m)) <= Faults
      BY DEF CopiesInv
    <2>. QED BY <2>1, <2>2, <2>3
  <1>. QED BY <1>1, <1>2 DEF CopiesInv

(* A relay that has lost its session sends: that copy has been counted.    *)
LEMMA CountedSent ==
    ASSUME TypeOK, CopiesInv, NEW r \in lost, NEW n \in Rows, log' = Append(log, n),
           n \in batch[r] \ marked[r], lost' \subseteq lost,
           \A m \in Rows : Unlocked(m)' \subseteq Unlocked(m),
           r \notin Unlocked(n)',
           Marked' = Marked, Faults' \in {Faults, Faults + 1}
    PROVE  CopiesInv'
  <1>1. IsFiniteSet(lost')
    BY FS_Subset DEF CopiesInv
  <1>2. ASSUME NEW m \in Rows
        PROVE  /\ Copies(m)' + Cardinality(Unlocked(m)') <= Faults' + 1
               /\ m \notin Marked' => Copies(m)' + Cardinality(Unlocked(m)') <= Faults'
    <2>1. /\ Copies(m)' = IF m = n THEN Copies(m) + 1 ELSE Copies(m)
          /\ Copies(m) \in Nat /\ Faults \in Nat
      BY CopiesOfAppended, CopiesCounted DEF TypeOK
    <2>2. /\ Cardinality(Unlocked(m)) \in Nat /\ Cardinality(Unlocked(m)') \in Nat
          /\ Cardinality(Unlocked(m)') <= Cardinality(Unlocked(m))
      BY UnlockedCounted, UnlockedShrinks
    <2>3. m = n => Cardinality(Unlocked(m)') + 1 <= Cardinality(Unlocked(m))
      <3>. SUFFICES ASSUME m = n
                    PROVE  Cardinality(Unlocked(n)') + 1 <= Cardinality(Unlocked(n))
        OBVIOUS
      <3>1. r \in Unlocked(n) /\ Unlocked(n)' \subseteq Unlocked(n) \ {r}
        BY DEF Unlocked
      <3>2. /\ IsFiniteSet(Unlocked(n) \ {r})
            /\ Cardinality(Unlocked(n) \ {r}) = Cardinality(Unlocked(n)) - 1
        BY <3>1, UnlockedCounted, FS_RemoveElement
      <3>3. Cardinality(Unlocked(n)') <= Cardinality(Unlocked(n) \ {r})
        BY <3>1, <3>2, FS_Subset
      <3>. QED BY <2>2, <3>2, <3>3
    <2>4. /\ Copies(m) + Cardinality(Unlocked(m)) <= Faults + 1
          /\ m \notin Marked => Copies(m) + Cardinality(Unlocked(m)) <= Faults
      BY DEF CopiesInv
    <2>5. m \notin Marked' => m \notin Marked
      OBVIOUS
    <2>. QED BY <2>1, <2>2, <2>3, <2>4, <2>5
  <1>. QED BY <1>1, <1>2 DEF CopiesInv

(* A session ends: the fault counts for its marks, or for the copy that    *)
(* may still follow, and no row is in both.                                *)
LEMMA LossCounted ==
    ASSUME TypeOK, LockInv, CopiesInv, NEW r \in Relays, SessionLost(r)
    PROVE  CopiesInv'
  <1>1. /\ UNCHANGED <<log, batch, marked>> /\ Faults' = Faults + 1
        /\ lost' = lost \cup {r} /\ r \notin lost
    BY DEF SessionLost, Faults, TypeOK
  <1>2. IsFiniteSet(lost')
    BY <1>1, FS_AddElement DEF CopiesInv
  <1>3. ASSUME NEW n \in Rows
        PROVE  /\ Copies(n)' + Cardinality(Unlocked(n)') <= Faults' + 1
               /\ n \notin Marked' => Copies(n)' + Cardinality(Unlocked(n)') <= Faults'
    <2>1. Copies(n)' = Copies(n) /\ Copies(n) \in Nat /\ Faults \in Nat
      BY <1>1, CopiesCounted DEF Copies
    <2>2. Cardinality(Unlocked(n)) \in Nat
      BY UnlockedCounted
    <2>3. /\ Copies(n) + Cardinality(Unlocked(n)) <= Faults + 1
          /\ n \notin Marked => Copies(n) + Cardinality(Unlocked(n)) <= Faults
      BY DEF CopiesInv
    <2>4. CASE n \in batch[r] \ marked[r]
      <3>1. Unlocked(n)' = Unlocked(n) \cup {r} /\ r \notin Unlocked(n)
        BY <1>1, <2>4 DEF Unlocked
      <3>2. Cardinality(Unlocked(n)') = Cardinality(Unlocked(n)) + 1
        BY <3>1, UnlockedCounted, FS_AddElement
      <3>3. n \notin Marked
        BY <1>1, <2>4 DEF LockInv, Marked
      <3>. QED BY <1>1, <2>1, <2>2, <2>3, <3>2, <3>3
    <2>5. CASE n \notin batch[r] \ marked[r]
      <3>1. Unlocked(n)' = Unlocked(n)
        BY <1>1, <2>5 DEF Unlocked
      <3>. QED BY <1>1, <2>1, <2>2, <2>3, <3>1
    <2>. QED BY <2>4, <2>5
  <1>. QED BY <1>2, <1>3 DEF CopiesInv

(* A row that a relay sends under its locks is not marked.                 *)
LEMMA NextUnmarked ==
    ASSUME LockInv, NEW r \in Relays \ lost, NEW n, IsNext(r, n)
    PROVE  n \notin Marked
  <1>1. n \in batch[r] /\ n \notin marked[r]
    BY DEF IsNext
  <1>2. n \notin published
    BY <1>1 DEF LockInv
  <1>3. ASSUME NEW p \in Relays \ lost
        PROVE  n \notin marked[p]
    <2>1. CASE p = r
      BY <1>1, <2>1
    <2>2. CASE p # r
      <3>1. batch[p] \cap batch[r] = {} /\ marked[p] \subseteq batch[p]
        BY <2>2 DEF LockInv
      <3>. QED BY <1>1, <3>1
    <2>. QED BY <2>1, <2>2
  <1>. QED BY <1>2, <1>3 DEF Marked

(* What a relay may have sent without locks goes with its transaction, and *)
(* the marks of a relay without locks were none.                           *)
LEMMA RollBackCounts ==
    ASSUME TypeOK, NEW r \in Relays, RollBack(r)
    PROVE  /\ lost' \subseteq lost
           /\ \A n : Unlocked(n)' \subseteq Unlocked(n) /\ r \notin Unlocked(n)'
           /\ r \in lost /\ published' = published => Marked' = Marked
  <1>1. /\ lost' = lost \ {r} /\ marked'[r] = {}
        /\ \A p \in Relays : p # r => batch'[p] = batch[p] /\ marked'[p] = marked[p]
    BY DEF RollBack, TypeOK
  <1>2. lost \subseteq Relays
    BY DEF TypeOK
  <1>3. \A n : Unlocked(n)' \subseteq Unlocked(n) /\ r \notin Unlocked(n)'
    BY <1>1, <1>2 DEF Unlocked
  <1>4. ASSUME r \in lost, published' = published
        PROVE  Marked' = Marked
    <2>1. UNION {marked'[p] : p \in Relays \ lost'} = UNION {marked[p] : p \in Relays \ lost}
      BY <1>1, <1>4
    <2>. QED BY <1>4, <2>1 DEF Marked
  <1>. QED BY <1>1, <1>3, <1>4

LEMMA NextCopies == TypeOK /\ LockInv /\ CopiesInv /\ [Next]_vars => CopiesInv'
<1>. SUFFICES ASSUME TypeOK, LockInv, CopiesInv, [Next]_vars
              PROVE  CopiesInv'
  OBVIOUS
<1>1. CASE UNCHANGED <<published, log, marked, lost, counters>>
           /\ \A p \in lost : batch'[p] = batch[p]
  <2>1. \A n \in Rows : Unlocked(n)' \subseteq Unlocked(n)
    BY <1>1 DEF Unlocked
  <2>. QED BY <1>1, <2>1, NothingSent DEF Faults, Marked, counters
<1>2. ASSUME NEW S \in SUBSET Rows, Insert(S)
      PROVE  CopiesInv'
  BY <1>1, <1>2 DEF Insert, relay
<1>3. ASSUME NEW r \in Relays, Start(r) \/ UpdateBacklog(r) \/ HandleFailure(r)
      PROVE  CopiesInv'
  BY <1>1, <1>3 DEF Start, UpdateBacklog, HandleFailure, table
<1>4. ASSUME NEW r \in Relays, SelectBatch(r)
      PROVE  CopiesInv'
  <2>1. /\ UNCHANGED <<published, log, marked, lost, counters>>
        /\ \A p \in Relays : p # r => batch'[p] = batch[p]
    BY <1>4 DEF SelectBatch, table, TypeOK
  <2>2. r \notin lost /\ lost \subseteq Relays
    BY <1>4 DEF SelectBatch, LockInv, TypeOK
  <2>. QED BY <1>1, <2>1, <2>2
<1>5. ASSUME NEW r \in Relays, Send(r)
      PROVE  CopiesInv'
  <2>1. PICK n \in Rows : /\ IsNext(r, n)
                          /\ log' = Append(log, n)
                          /\ marked' = [marked EXCEPT ![r] = @ \cup {n}]
    BY <1>5 DEF Send
  <2>2. UNCHANGED <<published, batch, lost>> /\ Faults' = Faults
    BY <1>5 DEF Send, table, counters, Faults
  <2>3. /\ marked'[r] = marked[r] \cup {n}
        /\ \A p \in Relays : p # r => marked'[p] = marked[p]
    BY <2>1 DEF TypeOK
  <2>4. lost \subseteq Relays
    BY DEF TypeOK
  <2>5. \A m \in Rows : Unlocked(m)' \subseteq Unlocked(m)
    BY <2>2, <2>3, <2>4 DEF Unlocked
  <2>6. CASE r \notin lost
    <3>1. Marked \cup {n} \subseteq Marked'
      BY <2>2, <2>3, <2>6 DEF Marked
    <3>2. n \notin Marked
      BY <2>1, <2>6, NextUnmarked
    <3>. QED BY <2>1, <2>2, <2>5, <3>1, <3>2, OneSent
  <2>7. CASE r \in lost
    <3>1. Marked' = Marked
      BY <2>2, <2>3, <2>7 DEF Marked
    <3>2. n \in batch[r] \ marked[r] /\ r \notin Unlocked(n)'
      BY <2>1, <2>2, <2>3 DEF IsNext, Unlocked
    <3>. QED BY <2>1, <2>2, <2>5, <2>7, <3>1, <3>2, CountedSent
  <2>. QED BY <2>6, <2>7
<1>6. ASSUME NEW r \in Relays, SendFails(r)
      PROVE  CopiesInv'
  <2>1. PICK n \in Rows : IsNext(r, n) /\ log' \in {log, Append(log, n)}
    BY <1>6 DEF SendFails
  <2>2. Faults' = Faults + 1 /\ published' = published /\ RollBack(r)
    BY <1>6 DEF SendFails, Faults, TypeOK, table
  <2>3. /\ lost' \subseteq lost
        /\ \A m : Unlocked(m)' \subseteq Unlocked(m) /\ r \notin Unlocked(m)'
        /\ r \in lost => Marked' = Marked
    BY <2>2, RollBackCounts
  <2>4. CASE log' = log
    BY <2>2, <2>3, <2>4, NothingSent
  <2>5. CASE log' = Append(log, n) /\ r \notin lost
    <3>1. n \notin Marked
      BY <2>1, <2>5, NextUnmarked
    <3>. QED BY <2>2, <2>3, <2>5, <3>1, OneSent
  <2>6. CASE log' = Append(log, n) /\ r \in lost
    <3>1. n \in batch[r] \ marked[r]
      BY <2>1 DEF IsNext
    <3>. QED BY <2>2, <2>3, <2>6, <3>1, CountedSent
  <2>. QED BY <2>1, <2>4, <2>5, <2>6
<1>7. ASSUME NEW r \in Relays, CommitBatch(r)
      PROVE  CopiesInv'
  <2>1. /\ published' = published \cup marked[r] /\ r \notin lost
        /\ UNCHANGED log /\ RollBack(r) /\ Faults' = Faults
    BY <1>7 DEF CommitBatch, counters, Faults
  <2>2. lost' = lost /\ \A p \in Relays : p # r => marked'[p] = marked[p]
    BY <2>1 DEF RollBack, TypeOK
  <2>3. Marked \subseteq Marked'
    BY <2>1, <2>2 DEF Marked
  <2>. QED BY <2>1, <2>3, RollBackCounts, NothingSent
<1>8. ASSUME NEW r \in Relays, CommitFails(r)
      PROVE  CopiesInv'
  <2>1. /\ r \in lost /\ RollBack(r) /\ UNCHANGED <<published, log>> /\ Faults' = Faults
    BY <1>8 DEF CommitFails, table, counters, Faults
  <2>. QED BY <2>1, RollBackCounts, NothingSent
<1>9. ASSUME NEW r \in Relays, DatabaseFails(r) \/ Crash(r)
      PROVE  CopiesInv'
  <2>1. UNCHANGED log /\ RollBack(r) /\ Faults' = Faults + 1
    <3>1. CASE DatabaseFails(r)
      BY <3>1 DEF DatabaseFails, Faults, TypeOK
    <3>2. CASE Crash(r)
      BY <3>2 DEF Crash, Faults, TypeOK
    <3>. QED BY <1>9, <3>1, <3>2
  <2>. QED BY <2>1, RollBackCounts, NothingSent
<1>10. ASSUME NEW r \in Relays, SessionLost(r)
       PROVE  CopiesInv'
  BY <1>10, LossCounted
<1>11. CASE UNCHANGED vars
  BY <1>1, <1>11 DEF vars, table, relay
<1>. QED BY <1>2, <1>3, <1>4, <1>5, <1>6, <1>7, <1>8, <1>9, <1>10, <1>11
     DEF Next, RelayStep, Fault

(* A row has a second copy in Kafka only after something failed, and one   *)
(* more for each failure (outbox_relay/main.py:115): the send and the mark *)
(* that is rolled back are never further apart than one fault.             *)
THEOREM DuplicatesBounded == Spec => []DuplicatesNeedFaults
  <1>1. Init => CopiesInv
    <2>. SUFFICES ASSUME Init PROVE CopiesInv
      OBVIOUS
    <2>1. lost = {} /\ Faults = 0 /\ Len(log) = 0
      BY DEF Init, Faults
    <2>2. ASSUME NEW n \in Rows
          PROVE  Copies(n) = 0 /\ Cardinality(Unlocked(n)) = 0
      <3>1. {i \in 1 .. Len(log) : log[i] = n} = {} /\ Unlocked(n) = {}
        BY <2>1 DEF Unlocked
      <3>. QED BY <3>1, FS_EmptySet DEF Copies
    <2>. QED BY <2>1, <2>2, FS_EmptySet DEF CopiesInv
  <1>2. TypeOK /\ CopiesInv => DuplicatesNeedFaults
    <2>. SUFFICES ASSUME TypeOK, CopiesInv, NEW n \in rows
                  PROVE  Copies(n) <= 1 + crashes + kafkaFaults + dbFaults
      BY DEF DuplicatesNeedFaults
    <2>1. n \in Rows
      BY DEF TypeOK
    <2>2. Copies(n) + Cardinality(Unlocked(n)) <= Faults + 1
      BY <2>1 DEF CopiesInv
    <2>3. Copies(n) \in Nat /\ Cardinality(Unlocked(n)) \in Nat /\ Faults \in Nat
      BY CopiesCounted, UnlockedCounted
    <2>4. Copies(n) <= Faults + 1
      BY <2>2, <2>3
    <2>. QED BY <2>3, <2>4 DEF Faults, TypeOK
  <1>. QED BY <1>1, <1>2, InitType, NextType, InitLocks, NextLocks, NextCopies, PTL DEF Spec
=============================================================================
