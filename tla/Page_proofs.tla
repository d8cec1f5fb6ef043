----------------------------- MODULE Page_proofs -----------------------------
(***************************************************************************)
(* Proofs about the pages of the frontend: the pending list of the live    *)
(* page and the lists it shows (Dashboard), what the entity explorer shows *)
(* and what the gateway serves it (Investigation), and the delivery of the *)
(* stream to a page (StreamDelivery).                                      *)
(***************************************************************************)
EXTENDS Dashboard, Investigation, StreamDelivery, SequenceTheorems, FiniteSetTheorems,
        WellFoundedInduction, TLAPS

-----------------------------------------------------------------------------
(* Numbers and sequences                                                   *)

(* A set of numbers has a least one, and so the numbers have induction.    *)
LEMMA LeastNumber ==
    ASSUME NEW T \in SUBSET Nat, T # {}
    PROVE  \E x \in T : \A y \in T : x <= y
  <1>. DEFINE R == {ss \in Nat \X Nat : ss[1] < ss[2]}
  <1>1. IsWellFoundedOn(R, Nat)
    BY NatLessThanWellFounded DEF OpToRel
  <1>2. \A x, y \in Nat : y < x => <<y, x>> \in R
    OBVIOUS
  <1>. HIDE DEF R
  <1>3. PICK x \in T : \A y \in T : <<y, x>> \notin R
    <2>1. T \subseteq Nat
      OBVIOUS
    <2>. QED BY <1>1, <2>1, WFMin
  <1>4. ASSUME NEW y \in T PROVE x <= y
    <2>1. x \in Nat /\ y \in Nat /\ ~(y < x)
      BY <1>2, <1>3
    <2>. QED BY <2>1
  <1>. QED BY <1>4

LEMMA NumbersByInduction ==
    ASSUME NEW T, 0 \in T, \A n \in Nat : n \in T => n + 1 \in T
    PROVE  \A n \in Nat : n \in T
  <1>. DEFINE S == Nat \ T
  <1>. SUFFICES ASSUME S # {} PROVE FALSE
    OBVIOUS
  <1>1. PICK x \in S : \A y \in S : x <= y
    <2>1. S \in SUBSET Nat
      OBVIOUS
    <2>. HIDE DEF S
    <2>. QED BY <2>1, LeastNumber
  <1>2. x \in Nat /\ x # 0
    OBVIOUS
  <1>3. x - 1 \in Nat /\ x - 1 \in T /\ x - 1 + 1 = x
    BY <1>1, <1>2
  <1>. QED BY <1>3

Rising(s) == \A i, j \in DOMAIN s : i < j => s[i] < s[j]

LEMMA Elements ==
    ASSUME NEW S, NEW s \in Seq(S)
    PROVE  /\ Len(s) \in Nat /\ DOMAIN s = 1 .. Len(s)
           /\ \A i \in DOMAIN s : s[i] \in S /\ s[i] \in Range(s)
           /\ \A n \in Range(s) : n \in S /\ \E i \in DOMAIN s : s[i] = n
  <1>1. Len(s) \in Nat /\ DOMAIN s = 1 .. Len(s) /\ \A i \in DOMAIN s : s[i] \in S
    BY LenProperties, ElementOfSeq
  <1>. QED BY <1>1 DEF Range

LEMMA NoElements ==
    /\ DOMAIN <<>> = {} /\ Range(<<>>) = {} /\ Rising(<<>>) /\ Len(<<>>) = 0
    /\ \A S : <<>> \in Seq(S)
  BY EmptySeq DEF Range, Rising

-----------------------------------------------------------------------------
(* The pending list, for any limits, any events and any clicks: it is      *)
(* presented in order, it loses what a full list pushes out and nothing    *)
(* else, and its memory is bounded.                                        *)

(* The list and its dead head.  A head that was not cut off is short.      *)
ListTypes ==
    /\ received \in Seq(Contents) /\ Len(received) <= MaxEvents
    /\ pending \in Seq(Nat)
    /\ pendingHead \in 0 .. Len(pending)
    /\ presented \in Seq(Items)

HeadShort == pendingHead <= Compact \/ 2 * pendingHead <= Len(pending)

ListBounded == PendingLength <= MaxPending /\ PendingLength <= Len(received)

(* What is pending are the last events that came in.                       *)
First == Len(received) - PendingLength

PendingLast ==
    \A i \in pendingHead + 1 .. Len(pending) : pending[i] = Len(received) - Len(pending) + i

(* Everything before them is presented or was pushed out by a full list.   *)
PresentedBefore ==
    /\ \A i \in DOMAIN presented : presented[i].event <= First
    /\ \A i, j \in DOMAIN presented : i < j => presented[i].event < presented[j].event
    /\ \A n \in 1 .. First : n \in Presented \/ n + MaxPending <= Len(received)

BacklogInv == ListTypes /\ HeadShort /\ ListBounded /\ PendingLast /\ PresentedBefore

LEMMA Numbers == MaxPending \in Nat /\ MaxPending > 0 /\ Compact \in Nat
  BY LimitsAssumption

(* The numbers of the argument.                                            *)
Numbered ==
    /\ Len(received) \in Nat /\ Len(pending) \in Nat /\ pendingHead \in Nat
    /\ PendingLength = Len(pending) - pendingHead /\ PendingLength \in Nat
    /\ First = Len(received) - PendingLength /\ First \in Nat
    /\ pendingHead <= Len(pending)
    /\ PendingLength <= MaxPending
    /\ MaxPending \in Nat /\ MaxPending > 0 /\ Compact \in Nat

LEMMA Counts ==
    ASSUME BacklogInv
    PROVE  Numbered /\ ListTypes /\ HeadShort /\ PendingLast /\ PresentedBefore
  BY Numbers DEF BacklogInv, ListTypes, ListBounded, PendingLength, First, Numbered

LEMMA ItemFields ==
    \A item \in Items : /\ item.event \in 1 .. MaxEvents /\ item.event \in Nat
                        /\ item.tx \in TxIds /\ item.flagged \in BOOLEAN
                        /\ item.neighbors \in {content.neighbors : content \in Contents}
                        /\ item # Clearing
  <1>. SUFFICES ASSUME NEW item \in Items
                PROVE  /\ item.event \in 1 .. MaxEvents /\ item.event \in Nat
                       /\ item.tx \in TxIds /\ item.flagged \in BOOLEAN
                       /\ item.neighbors \in {content.neighbors : content \in Contents}
                       /\ item # Clearing
    OBVIOUS
  <1>1. /\ item.event \in 1 .. MaxEvents
        /\ item.tx \in TxIds /\ item.flagged \in BOOLEAN
        /\ item.neighbors \in {content.neighbors : content \in Contents}
    BY DEF Items
  <1>2. item.event \in Nat /\ item.event # 0
    BY <1>1, BoundsAssumption
  <1>3. Clearing.event = 0
    BY DEF Clearing
  <1>. QED BY <1>1, <1>2, <1>3

LEMMA EventNumbers ==
    ASSUME ListTypes
    PROVE  /\ Len(presented) \in Nat
           /\ DOMAIN presented = 1 .. Len(presented)
             /\ \A i \in DOMAIN presented : presented[i].event \in Nat
  <1>1. presented \in Seq(Items)
    BY DEF ListTypes
  <1>2. \A i \in DOMAIN presented : presented[i].event \in Nat
    <2>. SUFFICES ASSUME NEW i \in 1 .. Len(presented) PROVE presented[i].event \in Nat
      BY <1>1
    <2>1. presented[i] \in Items
      BY <1>1, ElementOfSeq
    <2>. QED BY <2>1, ItemFields
  <1>. QED BY <1>1, <1>2

(* A spliced list is one whose places are counted from the end.            *)
IsRest(rest, list, dealt) ==
    /\ rest.list \in Seq(Nat)
    /\ rest.head \in 0 .. Len(rest.list)
    /\ Len(rest.list) - rest.head = Len(list) - dealt
    /\ rest.head <= Compact \/ 2 * rest.head <= Len(rest.list)
    /\ \A i \in rest.head + 1 .. Len(rest.list) :
          rest.list[i] = list[i + Len(list) - Len(rest.list)]

LEMMA InitBacklog == Init => BacklogInv
  BY Numbers, BoundsAssumption DEF Init, BacklogInv, ListTypes, HeadShort, ListBounded, PendingLast, PresentedBefore,
         PendingLength, First, Presented

(* Cutting off what is dealt with leaves the rest as it is.                *)
LEMMA SplicedRest ==
    ASSUME NEW list \in Seq(Nat), NEW dealt \in 0 .. Len(list)
    PROVE  IsRest(Spliced(list, dealt), list, dealt)
  <1>1. CASE dealt > Compact /\ dealt * 2 > Len(list)
    <2>1. Spliced(list, dealt) = [list |-> SubSeq(list, dealt + 1, Len(list)), head |-> 0]
      BY <1>1 DEF Spliced
    <2>. DEFINE cut == SubSeq(list, dealt + 1, Len(list))
    <2>3. Len(list) \in Nat /\ dealt \in Nat /\ Len(list) - dealt \in Nat
      OBVIOUS
    <2>2. /\ cut \in Seq(Nat)
          /\ Len(cut) = IF dealt + 1 <= Len(list) THEN Len(list) - (dealt + 1) + 1 ELSE 0
          /\ \A i \in 1 .. Len(list) - (dealt + 1) + 1 : cut[i] = list[(dealt + 1) + i - 1]
      <3>1. \A i \in dealt + 1 .. Len(list) : list[i] \in Nat
        OBVIOUS
      <3>2. \A m, n \in Int : (\A i \in m .. n : list[i] \in Nat) =>
                /\ SubSeq(list, m, n) \in Seq(Nat)
                /\ Len(SubSeq(list, m, n)) = IF m <= n THEN n - m + 1 ELSE 0
                /\ \A i \in 1 .. n - m + 1 : SubSeq(list, m, n)[i] = list[m + i - 1]
        BY SubSeqProperties
      <3>3. dealt + 1 \in Int /\ Len(list) \in Int
        BY <2>3
      <3>. QED BY <3>1, <3>2, <3>3
    <2>4. cut \in Seq(Nat) /\ Len(cut) = Len(list) - dealt
      <3>. HIDE DEF cut
      <3>. QED BY <2>2, <2>3
    <2>5. \A i \in 1 .. Len(cut) : cut[i] = list[i + Len(list) - Len(cut)]
      <3>. SUFFICES ASSUME NEW i \in 1 .. Len(cut)
                    PROVE  cut[i] = list[i + Len(list) - Len(cut)]
        OBVIOUS
      <3>. HIDE DEF cut
      <3>0. i \in 1 .. Len(list) - (dealt + 1) + 1 /\ (dealt + 1) + i - 1 = dealt + i
        BY <2>3, <2>4
      <3>1. cut[i] = list[dealt + i]
        BY <3>0, <2>2
      <3>2. i + Len(list) - Len(cut) = dealt + i
        BY <2>3, <2>4
      <3>. QED BY <3>1, <3>2
    <2>6. Spliced(list, dealt).list = cut /\ Spliced(list, dealt).head = 0
      BY <2>1
    <2>. HIDE DEF cut
    <2>7. 0 \in 0 .. Len(cut) /\ Len(cut) - 0 = Len(list) - dealt /\ 0 <= Compact
          /\ 0 + 1 = 1
      BY <2>3, <2>4, Numbers
    <2>. QED BY <2>4, <2>5, <2>6, <2>7 DEF IsRest
  <1>2. CASE ~(dealt > Compact /\ dealt * 2 > Len(list))
    <2>1. Spliced(list, dealt) = [list |-> list, head |-> dealt]
      BY <1>2 DEF Spliced
    <2>2. Len(list) \in Nat /\ dealt \in Nat /\ dealt <= Len(list)
      OBVIOUS
    <2>3. dealt <= Compact \/ 2 * dealt <= Len(list)
      BY <1>2, <2>2, Numbers
    <2>4. \A i \in dealt + 1 .. Len(list) : list[i] = list[i + Len(list) - Len(list)]
      <3>1. \A i \in dealt + 1 .. Len(list) : i + Len(list) - Len(list) = i
        BY <2>2
      <3>. QED BY <3>1
    <2>5. Spliced(list, dealt).list = list /\ Spliced(list, dealt).head = dealt
      BY <2>1
    <2>. QED BY <2>2, <2>3, <2>4, <2>5 DEF IsRest
  <1>. QED BY <1>1, <1>2

LEMMA EnqueueBacklog ==
    ASSUME BacklogInv, NEW content \in Contents, Enqueue(content)
    PROVE  BacklogInv'
  <1>. DEFINE dropped == IF PendingLength >= MaxPending
                         THEN PendingLength - MaxPending + 1 ELSE 0
              rest == Spliced(pending, pendingHead + dropped)
  <1>0. Numbered /\ ListTypes /\ HeadShort /\ PendingLast /\ PresentedBefore
    BY Counts
  <1>1. /\ received' = Append(received, content)
        /\ pending' = Append(rest.list, Len(received) + 1)
        /\ pendingHead' = rest.head
        /\ presented' = presented
    BY DEF Enqueue, history
  <1>2. /\ pendingHead + dropped \in 0 .. Len(pending)
        /\ dropped \in {0, 1}
        /\ PendingLength - dropped < MaxPending
        /\ dropped = 1 => PendingLength = MaxPending
    <2>1. CASE PendingLength >= MaxPending
      <3>1. PendingLength = MaxPending /\ dropped = 1
        BY <2>1, <1>0 DEF Numbered
      <3>. QED BY <3>1, <1>0 DEF Numbered
    <2>2. CASE ~(PendingLength >= MaxPending)
      <3>1. dropped = 0
        BY <2>2
      <3>. QED BY <2>2, <3>1, <1>0 DEF Numbered
    <2>. QED BY <2>1, <2>2
  <1>. HIDE DEF dropped
  <1>3. IsRest(rest, pending, pendingHead + dropped)
    <2>1. pending \in Seq(Nat)
      BY <1>0 DEF ListTypes
    <2>. QED BY <1>2, <2>1, SplicedRest
  <1>. HIDE DEF rest
  <1>4. ListTypes'
    <2>1. Len(received) < MaxEvents /\ MaxEvents \in Nat /\ Len(received') = Len(received) + 1
      BY <1>0, <1>1, AppendProperties, BoundsAssumption DEF Enqueue, ListTypes
    <2>. QED BY <1>0, <1>1, <1>3, <2>1 DEF ListTypes, IsRest, Numbered
  <1>5. /\ Len(received') = Len(received) + 1
        /\ Len(pending') = Len(rest.list) + 1
        /\ pendingHead' = rest.head
        /\ \A i \in 1 .. Len(rest.list) : pending'[i] = rest.list[i]
        /\ pending'[Len(pending')] = Len(received) + 1
        /\ Len(rest.list) \in Nat /\ rest.head \in 0 .. Len(rest.list)
        /\ Len(rest.list) - rest.head = PendingLength - dropped
    <2>1. received \in Seq(Contents) /\ rest.list \in Seq(Nat) /\ Len(received) + 1 \in Nat
      BY <1>0, <1>3 DEF ListTypes, IsRest, Numbered
    <2>2. Len(received') = Len(received) + 1
      BY <2>1, <1>1, AppendProperties
    <2>3. /\ Len(pending') = Len(rest.list) + 1
          /\ \A i \in 1 .. Len(rest.list) : pending'[i] = rest.list[i]
          /\ pending'[Len(rest.list) + 1] = Len(received) + 1
      BY <2>1, <1>1, AppendProperties
    <2>4. Len(rest.list) \in Nat /\ rest.head \in 0 .. Len(rest.list)
      BY <2>1, <1>3 DEF IsRest
    <2>5. Len(rest.list) - rest.head = PendingLength - dropped
      <3>1. Len(rest.list) - rest.head = Len(pending) - (pendingHead + dropped)
        BY <1>3 DEF IsRest
      <3>. QED BY <3>1, <1>0, <1>2 DEF Numbered
    <2>. QED BY <2>2, <2>3, <2>4, <2>5, <1>1
  <1>6. PendingLength' = PendingLength - dropped + 1 /\ First' = First + dropped
    <2>1. PendingLength' = Len(rest.list) + 1 - rest.head
      BY <1>5 DEF PendingLength
    <2>2. First' = (Len(received) + 1) - PendingLength'
      BY <1>5 DEF First
    <2>3. /\ Len(rest.list) \in Int /\ rest.head \in Int /\ dropped \in Int
          /\ PendingLength \in Int /\ Len(received) \in Int
          /\ First = Len(received) - PendingLength
          /\ Len(rest.list) - rest.head = PendingLength - dropped
      BY <1>0, <1>2, <1>5 DEF Numbered
    <2>4. PendingLength' = PendingLength - dropped + 1
      BY <2>1, <2>3
    <2>. QED BY <2>2, <2>3, <2>4
  <1>7. HeadShort' /\ ListBounded'
    <2>1. rest.head <= Compact \/ 2 * rest.head <= Len(rest.list)
      BY <1>3 DEF IsRest
    <2>2. HeadShort'
      <3>1. Len(rest.list) \in Nat /\ rest.head \in Nat /\ Compact \in Nat
        BY <1>0, <1>5 DEF Numbered
      <3>2. rest.head <= Compact \/ 2 * rest.head <= Len(rest.list) + 1
        BY <2>1, <3>1
      <3>3. pendingHead' = rest.head /\ Len(pending') = Len(rest.list) + 1 /\ Compact' = Compact
        BY <1>5
      <3>. QED BY <3>2, <3>3 DEF HeadShort
    <2>3. PendingLength' <= MaxPending
      BY <1>0, <1>2, <1>6 DEF Numbered
    <2>4. PendingLength' <= Len(received')
      <3>1. /\ PendingLength <= Len(received) /\ dropped \in Nat
            /\ PendingLength \in Nat /\ Len(received) \in Nat
        BY <1>0, <1>2 DEF Numbered, First
      <3>2. Len(received') = Len(received) + 1 /\ PendingLength' = PendingLength - dropped + 1
        BY <1>5, <1>6
      <3>. QED BY <3>1, <3>2
    <2>. QED BY <2>2, <2>3, <2>4 DEF ListBounded
  <1>8. PendingLast'
    <2>. SUFFICES ASSUME NEW i \in pendingHead' + 1 .. Len(pending')
                  PROVE  pending'[i] = Len(received') - Len(pending') + i
      BY DEF PendingLast
    <2>0. /\ Len(rest.list) \in Int /\ rest.head \in Int /\ dropped \in Int
          /\ Len(received) \in Int /\ Len(pending) \in Int /\ pendingHead \in Int
          /\ Len(rest.list) - rest.head = (Len(pending) - pendingHead) - dropped
          /\ dropped \in Nat /\ i \in Int
      BY <1>0, <1>2, <1>5 DEF Numbered
    <2>1. CASE i = Len(pending')
      <3>1. pending'[i] = Len(received) + 1
        BY <2>1, <1>5
      <3>2. Len(received') = Len(received) + 1 /\ Len(pending') \in Int
        BY <1>5
      <3>3. Len(received') - Len(pending') + i = Len(received) + 1
        BY <3>2, <2>0, <2>1
      <3>. QED BY <3>1, <3>3
    <2>2. CASE i # Len(pending')
      <3>1. i \in rest.head + 1 .. Len(rest.list) /\ pending'[i] = rest.list[i]
        BY <2>2, <1>1, <1>5
      <3>2. /\ i + (Len(pending) - Len(rest.list)) \in pendingHead + 1 .. Len(pending)
            /\ (Len(received) - Len(pending)) + (i + (Len(pending) - Len(rest.list)))
                 = (Len(received) - Len(rest.list)) + i
        <4>. DEFINE l == Len(pending)
                    r == Len(rest.list)
                    g == rest.head
        <4>1. /\ l \in Int /\ r \in Int /\ g \in Int /\ pendingHead \in Int
              /\ Len(received) \in Int /\ dropped \in Nat /\ r - g = (l - pendingHead) - dropped
              /\ i \in g + 1 .. r
          BY <3>1, <2>0
        <4>. HIDE DEF l, r, g
        <4>2. /\ i + (l - r) \in pendingHead + 1 .. l
              /\ (Len(received) - l) + (i + (l - r)) = (Len(received) - r) + i
          BY <4>1
        <4>. QED BY <4>2 DEF l, r
      <3>3. rest.list[i] = pending[i + (Len(pending) - Len(rest.list))]
        BY <3>1, <1>3 DEF IsRest
      <3>4. pending[i + (Len(pending) - Len(rest.list))] = (Len(received) - Len(rest.list)) + i
        BY <3>2, <1>0 DEF PendingLast
      <3>5. Len(received') - Len(pending') = Len(received) - Len(rest.list)
        <4>1. Len(received') = Len(received) + 1 /\ Len(pending') = Len(rest.list) + 1
          BY <1>5
        <4>. QED BY <4>1, <2>0
      <3>. QED BY <3>1, <3>3, <3>4, <3>5
    <2>. QED BY <2>1, <2>2
  <1>9. PresentedBefore'
    <2>1. \A i \in DOMAIN presented : presented[i].event \in Nat
      BY <1>0, EventNumbers
    <2>2. Presented' = Presented
      BY <1>1 DEF Presented
    <2>0. /\ First \in Nat /\ Len(received) \in Nat /\ dropped \in {0, 1}
          /\ MaxPending \in Nat /\ First' = First + dropped
          /\ Len(received') = Len(received) + 1
          /\ dropped = 1 => First + MaxPending = Len(received)
      <3>1. dropped = 1 => First + MaxPending = Len(received)
        BY <1>0, <1>2 DEF Numbered
      <3>. QED BY <3>1, <1>0, <1>2, <1>5, <1>6 DEF Numbered
    <2>3. \A n \in 1 .. First' : n \in Presented' \/ n + MaxPending <= Len(received')
      <3>. SUFFICES ASSUME NEW n \in 1 .. First', n \notin Presented
                    PROVE  n + MaxPending <= Len(received')
        BY <2>2
      <3>1. CASE n \in 1 .. First
        <4>1. n + MaxPending <= Len(received)
          BY <3>1, <1>0 DEF PresentedBefore
        <4>. QED BY <4>1, <3>1, <2>0
      <3>2. CASE n \notin 1 .. First
        <4>1. n = First + 1 /\ dropped = 1
          BY <3>2, <2>0
        <4>. QED BY <4>1, <2>0
      <3>. QED BY <3>1, <3>2
    <2>4. \A i \in DOMAIN presented' : presented'[i].event <= First'
      <3>. SUFFICES ASSUME NEW i \in DOMAIN presented PROVE presented[i].event <= First'
        BY <1>1
      <3>1. presented[i].event <= First
        BY <1>0 DEF PresentedBefore
      <3>. QED BY <3>1, <2>0, <2>1
    <2>. QED
      BY <2>3, <2>4, <1>0, <1>1 DEF PresentedBefore
  <1>. QED BY <1>4, <1>7, <1>8, <1>9 DEF BacklogInv

LEMMA TickBacklog ==
    ASSUME BacklogInv, Tick
    PROVE  BacklogInv'
  <1>. DEFINE rest == Spliced(pending, pendingHead + 1)
              item == Item(pending[pendingHead + 1])
  <1>0. Numbered /\ ListTypes /\ HeadShort /\ PendingLast /\ PresentedBefore
    BY Counts
  <1>1. /\ pendingHead < Len(pending)
        /\ pending' = rest.list /\ pendingHead' = rest.head
        /\ presented' = Append(presented, item)
        /\ received' = received
    BY DEF Tick
  <1>2. /\ pendingHead + 1 \in 0 .. Len(pending)
        /\ pending[pendingHead + 1] = First + 1
        /\ First + 1 \in 1 .. Len(received)
    BY <1>0, <1>1 DEF PendingLast, Numbered
  <1>3. IsRest(rest, pending, pendingHead + 1)
    BY <1>0, <1>2, SplicedRest DEF ListTypes
  <1>. HIDE DEF rest
  <1>4. /\ item \in Items
        /\ item.event = First + 1
    <2>1. received[First + 1] \in Contents
      BY <1>0, <1>2 DEF ListTypes
    <2>2. received[First + 1].tx \in TxIds
      BY <2>1 DEF TxIds
    <2>3. item = [event |-> First + 1, tx |-> received[First + 1].tx,
                  flagged |-> received[First + 1].score >= threshold,
                  neighbors |-> received[First + 1].neighbors]
      BY <1>2 DEF Item
    <2>4. First + 1 \in 1 .. MaxEvents
      BY <1>0, <1>2, BoundsAssumption DEF ListTypes, Numbered
    <2>. QED BY <2>1, <2>2, <2>3, <2>4 DEF Items
  <1>. HIDE DEF item
  <1>5. ListTypes'
    BY <1>0, <1>1, <1>3, <1>4 DEF ListTypes, IsRest
  <1>6. /\ Len(rest.list) \in Nat /\ rest.head \in 0 .. Len(rest.list)
        /\ Len(rest.list) - rest.head = PendingLength - 1
    BY <1>0, <1>3 DEF IsRest, Numbered
  <1>7. PendingLength' = PendingLength - 1 /\ First' = First + 1
    BY <1>0, <1>1, <1>6 DEF PendingLength, First, Numbered
  <1>8. HeadShort' /\ ListBounded'
    BY <1>0, <1>1, <1>3, <1>6, <1>7 DEF HeadShort, ListBounded, IsRest, Numbered
  <1>9. PendingLast'
    <2>. SUFFICES ASSUME NEW i \in pendingHead' + 1 .. Len(pending')
                  PROVE  pending'[i] = Len(received') - Len(pending') + i
      BY DEF PendingLast
    <2>0. /\ Len(rest.list) \in Int /\ rest.head \in Int
          /\ Len(received) \in Int /\ Len(pending) \in Int /\ pendingHead \in Int
          /\ Len(rest.list) - rest.head = (Len(pending) - pendingHead) - 1
      BY <1>0, <1>6 DEF Numbered
    <2>1. i \in rest.head + 1 .. Len(rest.list)
      BY <1>1
    <2>2. /\ i + (Len(pending) - Len(rest.list)) \in pendingHead + 1 .. Len(pending)
          /\ (Len(received) - Len(pending)) + (i + (Len(pending) - Len(rest.list)))
               = (Len(received) - Len(rest.list)) + i
      <3>. DEFINE l == Len(pending)
                  r == Len(rest.list)
                  g == rest.head
      <3>1. /\ l \in Int /\ r \in Int /\ g \in Int /\ pendingHead \in Int
            /\ Len(received) \in Int /\ 1 \in Nat /\ r - g = (l - pendingHead) - 1
            /\ i \in g + 1 .. r
        BY <2>1, <2>0
      <3>. HIDE DEF l, r, g
      <3>2. /\ i + (l - r) \in pendingHead + 1 .. l
            /\ (Len(received) - l) + (i + (l - r)) = (Len(received) - r) + i
        BY <3>1
      <3>. QED BY <3>2 DEF l, r
    <2>3. rest.list[i] = pending[i + (Len(pending) - Len(rest.list))]
      BY <2>1, <1>3 DEF IsRest
    <2>4. pending[i + (Len(pending) - Len(rest.list))] = (Len(received) - Len(rest.list)) + i
      BY <2>2, <1>0 DEF PendingLast
    <2>. QED BY <2>3, <2>4, <1>1
  <1>10. PresentedBefore'
    <2>1. /\ Len(presented') = Len(presented) + 1
          /\ DOMAIN presented = 1 .. Len(presented)
          /\ DOMAIN presented' = 1 .. Len(presented')
          /\ Len(presented) \in Nat
          /\ presented'[Len(presented')].event = First + 1
          /\ \A i \in DOMAIN presented : presented'[i] = presented[i] /\ presented[i].event \in Nat
      <3>1. presented \in Seq(Items)
        BY <1>0 DEF ListTypes
      <3>. QED BY <3>1, <1>0, <1>1, <1>4, EventNumbers
    <2>0. First \in Nat /\ First' = First + 1
      BY <1>0, <1>7 DEF Numbered
    <2>2. Presented' = Presented \cup {First + 1}
      <3>1. DOMAIN presented' = DOMAIN presented \cup {Len(presented')}
        BY <2>1
      <3>. QED BY <3>1, <2>1 DEF Presented
    <2>3. \A n \in 1 .. First' : n \in Presented' \/ n + MaxPending <= Len(received')
      <3>. SUFFICES ASSUME NEW n \in 1 .. First', n \notin Presented'
                    PROVE  n + MaxPending <= Len(received')
        OBVIOUS
      <3>1. n \in 1 .. First /\ n \notin Presented
        BY <2>0, <2>2
      <3>. QED BY <3>1, <1>0, <1>1 DEF PresentedBefore
    <2>6. \A i \in DOMAIN presented : presented[i].event <= First
      BY <1>0 DEF PresentedBefore
    <2>4. \A i \in DOMAIN presented' : presented'[i].event <= First'
      <3>. SUFFICES ASSUME NEW i \in DOMAIN presented' PROVE presented'[i].event <= First'
        OBVIOUS
      <3>1. CASE i \in DOMAIN presented
        BY <3>1, <2>0, <2>1, <2>6
      <3>2. CASE i \notin DOMAIN presented
        <4>1. i = Len(presented')
          BY <3>2, <2>1
        <4>. QED BY <4>1, <2>0, <2>1
      <3>. QED BY <3>1, <3>2
    <2>5. \A i, j \in DOMAIN presented' : i < j => presented'[i].event < presented'[j].event
      <3>. SUFFICES ASSUME NEW i \in DOMAIN presented', NEW j \in DOMAIN presented', i < j
                    PROVE  presented'[i].event < presented'[j].event
        OBVIOUS
      <3>1. i \in DOMAIN presented
        BY <2>1
      <3>2. CASE j \in DOMAIN presented
        <4>1. presented[i].event < presented[j].event
          BY <3>1, <3>2, <1>0 DEF PresentedBefore
        <4>. QED BY <4>1, <3>1, <3>2, <2>1
      <3>3. CASE j \notin DOMAIN presented
        <4>1. j = Len(presented')
          BY <3>3, <2>1
        <4>2. presented'[i].event <= First /\ presented'[i].event \in Nat
          BY <3>1, <2>1, <2>6
        <4>. QED BY <4>1, <4>2, <2>0, <2>1
      <3>. QED BY <3>2, <3>3
    <2>. QED BY <2>3, <2>4, <2>5 DEF PresentedBefore
  <1>. QED BY <1>5, <1>8, <1>9, <1>10 DEF BacklogInv

LEMMA NextBacklog == BacklogInv /\ [Next]_vars => BacklogInv'
  <1>. SUFFICES ASSUME BacklogInv, [Next]_vars PROVE BacklogInv'
    OBVIOUS
  <1>1. CASE UNCHANGED <<received, pending, pendingHead, presented>>
    BY <1>1 DEF BacklogInv, ListTypes, HeadShort, ListBounded, PendingLast, PresentedBefore,
                PendingLength, First, Presented
  <1>2. CASE \E content \in Contents : Enqueue(content)
    BY <1>2, EnqueueBacklog
  <1>3. CASE Tick
    BY <1>3, TickBacklog
  <1>4. CASE Render \/ SetPaused \/ SetThreshold
    BY <1>4, <1>1 DEF Render, SetPaused, SetThreshold, backlog, history
  <1>5. CASE ClearAlerts
    BY <1>5, <1>1 DEF ClearAlerts, backlog
  <1>6. CASE UNCHANGED vars
    BY <1>6, <1>1 DEF vars, backlog, history
  <1>. QED BY <1>2, <1>3, <1>4, <1>5, <1>6 DEF Next

LEMMA BacklogHolds == Spec => []BacklogInv
  BY InitBacklog, NextBacklog, PTL DEF Spec

(* enqueueTransaction and the timer (WebSocketContext.tsx:284, 311): the   *)
(* page presents its events in order, and lacks none but those that a full *)
(* list pushed out.                                                        *)
THEOREM PresentsInOrder == Spec => []PresentedInOrder
  <1>1. BacklogInv => PresentedInOrder
    <2>. SUFFICES ASSUME BacklogInv PROVE PresentedInOrder
      OBVIOUS
    <2>0. Numbered /\ ListTypes /\ PendingLast /\ PresentedBefore
      BY Counts
    <2>1. \A n \in Presented : n \in Nat /\ n <= First
      <3>1. \A i \in DOMAIN presented : presented[i].event \in Nat
        BY <2>0, EventNumbers
      <3>2. \A i \in DOMAIN presented : presented[i].event <= First
        BY <2>0 DEF PresentedBefore
      <3>. QED BY <3>1, <3>2 DEF Presented
    <2>2. \A m \in Pending : m \in First + 1 .. Len(received)
      BY <2>0 DEF Pending, PendingLast, Numbered
    <2>3. \A n \in First + 1 .. Len(received) : n \in Pending
      <3>. SUFFICES ASSUME NEW n \in First + 1 .. Len(received) PROVE n \in Pending
        OBVIOUS
      <3>. DEFINE i == n - Len(received) + Len(pending)
      <3>1. i \in pendingHead + 1 .. Len(pending)
        BY <2>0 DEF Numbered
      <3>2. pending[i] = n
        BY <3>1, <2>0 DEF PendingLast, Numbered
      <3>. QED BY <3>1, <3>2 DEF Pending
    <2>4. \A i, j \in pendingHead + 1 .. Len(pending) : i < j => pending[i] < pending[j]
      BY <2>0 DEF PendingLast, Numbered
    <2>5. \A n \in DOMAIN received \ (Presented \cup Pending) : n + MaxPending <= Len(received)
      <3>1. DOMAIN received = 1 .. Len(received)
        BY <2>0 DEF ListTypes
      <3>. QED BY <3>1, <2>0, <2>3 DEF PresentedBefore, Numbered
    <2>6. \A n \in Presented, m \in Pending : n < m
      BY <2>0, <2>1, <2>2 DEF Numbered
    <2>. QED BY <2>0, <2>4, <2>5, <2>6 DEF PresentedInOrder, PresentedBefore
  <1>. QED BY <1>1, BacklogHolds, PTL

(* The memory of the pending list is bounded, although what is presented   *)
(* stays in front of it until a splice (WebSocketContext.tsx:290, 320).    *)
THEOREM PendingIsBounded == Spec => []PendingBounded
  <1>1. BacklogInv => PendingBounded
    BY Counts DEF Numbered, HeadShort, PendingBounded, Greater
  <1>. QED BY <1>1, BacklogHolds, PTL

-----------------------------------------------------------------------------
(* Lists                                                                   *)

(* A list that an entry is put in front of,                                *)
LEMMA InFront ==
    ASSUME NEW T, NEW e \in T, NEW s \in Seq(T)
    PROVE  /\ <<e>> \o s \in Seq(T)
           /\ Len(<<e>> \o s) = Len(s) + 1
           /\ (<<e>> \o s)[1] = e
           /\ \A i \in 1 .. Len(s) : (<<e>> \o s)[i + 1] = s[i]
           /\ \A i \in 1 .. Len(s) + 1 : 
              i = 1 \/ (i - 1 \in 1 .. Len(s) /\ (<<e>> \o s)[i] = s[i - 1])
  <1>1. <<e>> \in Seq(T) /\ Len(<<e>>) = 1 /\ <<e>>[1] = e
    OBVIOUS
  <1>2. Len(s) \in Nat
    OBVIOUS
  <1>. DEFINE t == <<e>> \o s
  <1>3. /\ t \in Seq(T) /\ Len(t) = Len(<<e>>) + Len(s)
        /\ \A i \in 1 .. Len(<<e>>) + Len(s) :
              t[i] = IF i <= Len(<<e>>) THEN <<e>>[i] ELSE s[i - Len(<<e>>)]
    BY <1>1, ConcatProperties
  <1>. HIDE DEF t
  <1>4. Len(t) = Len(s) + 1 /\ \A i \in 1 .. Len(s) + 1 : t[i] = IF i <= 1 THEN e ELSE s[i - 1]
    BY <1>1, <1>2, <1>3
  <1>5. t[1] = e
    BY <1>2, <1>4
  <1>6. \A i \in 1 .. Len(s) : t[i + 1] = s[i]
    <2>. SUFFICES ASSUME NEW i \in 1 .. Len(s) PROVE t[i + 1] = s[i]
      OBVIOUS
    <2>1. i + 1 \in 1 .. Len(s) + 1 /\ ~(i + 1 <= 1) /\ (i + 1) - 1 = i
      BY <1>2
    <2>. QED BY <2>1, <1>4
  <1>7. \A i \in 1 .. Len(s) + 1 : i = 1 \/ (i - 1 \in 1 .. Len(s) /\ t[i] = s[i - 1])
    <2>. SUFFICES ASSUME NEW i \in 1 .. Len(s) + 1, i # 1
                  PROVE  i - 1 \in 1 .. Len(s) /\ t[i] = s[i - 1]
      OBVIOUS
    <2>1. ~(i <= 1) /\ i - 1 \in 1 .. Len(s)
      BY <1>2
    <2>. QED BY <2>1, <1>4
  <1>. QED BY <1>3, <1>4, <1>5, <1>6, <1>7 DEF t

(* and one that is cut to what fits.                                       *)
LEMMA FirstFew ==
    ASSUME NEW T, NEW s \in Seq(T), NEW n \in Nat, n <= Len(s)
    PROVE  /\ SubSeq(s, 1, n) \in Seq(T)
           /\ Len(SubSeq(s, 1, n)) = n
           /\ \A i \in 1 .. n : SubSeq(s, 1, n)[i] = s[i]
  <1>1. Len(s) \in Nat /\ \A i \in 1 .. n : s[i] \in T
    BY Elements
  <1>2. /\ SubSeq(s, 1, n) \in Seq(T)
        /\ Len(SubSeq(s, 1, n)) = IF 1 <= n THEN n - 1 + 1 ELSE 0
        /\ \A i \in 1 .. n - 1 + 1 : SubSeq(s, 1, n)[i] = s[1 + i - 1]
    <2>1. \A a, b \in Int : (\A i \in a .. b : s[i] \in T) =>
              /\ SubSeq(s, a, b) \in Seq(T)
              /\ Len(SubSeq(s, a, b)) = IF a <= b THEN b - a + 1 ELSE 0
              /\ \A i \in 1 .. b - a + 1 : SubSeq(s, a, b)[i] = s[a + i - 1]
      BY SubSeqProperties
    <2>2. 1 \in Int /\ n \in Int
      OBVIOUS
    <2>. QED BY <1>1, <2>1, <2>2
  <1>3. Len(SubSeq(s, 1, n)) = n
    BY <1>2
  <1>4. \A i \in 1 .. n : i \in 1 .. n - 1 + 1 /\ 1 + i - 1 = i
    OBVIOUS
  <1>. QED BY <1>2, <1>3, <1>4

LEMMA FittingIs ==
    ASSUME NEW T, NEW s \in Seq(T), NEW n \in Nat
    PROVE  /\ Fitting(s, n) \in Nat /\ Fitting(s, n) <= Len(s) /\ Fitting(s, n) <= n
           /\ Fitting(s, n) = Len(s) \/ Fitting(s, n) = n
  <1>1. Len(s) \in Nat
    OBVIOUS
  <1>. QED BY <1>1 DEF Fitting

(* Without is the function it says it is.                                  *)
IsFilter(h, N, list, tx) ==
    h = [n \in 0 .. N |-> IF n = 0 THEN <<>>
                          ELSE IF list[n].tx = tx THEN h[n - 1]
                          ELSE Append(h[n - 1], list[n])]

LEMMA FilterSteps ==
    ASSUME NEW h, NEW N \in Nat, NEW list, NEW tx, IsFilter(h, N, list, tx)
    PROVE  /\ h[0] = <<>>
           /\ \A n \in 1 .. N : h[n] = IF list[n].tx = tx THEN h[n - 1]
                                       ELSE Append(h[n - 1], list[n])
  <1>1. h = [n \in 0 .. N |-> IF n = 0 THEN <<>>
                              ELSE IF list[n].tx = tx THEN h[n - 1]
                              ELSE Append(h[n - 1], list[n])]
    BY DEF IsFilter
  <1>2. \A n \in 0 .. N : h[n] = IF n = 0 THEN <<>>
                                 ELSE IF list[n].tx = tx THEN h[n - 1]
                                 ELSE Append(h[n - 1], list[n])
    BY <1>1, Zenon
  <1>3. 0 \in 0 .. N /\ \A n \in 1 .. N : n \in 0 .. N /\ n # 0
    OBVIOUS
  <1>. QED BY <1>2, <1>3

LEMMA FilterExists ==
    ASSUME NEW list, NEW tx
    PROVE  \A N \in Nat : \E h : IsFilter(h, N, list, tx)
  <1>. DEFINE T == {N \in Nat : \E h : IsFilter(h, N, list, tx)}
  <1>1. 0 \in T
    <2>1. IsFilter([n \in 0 .. 0 |-> <<>>], 0, list, tx)
      BY DEF IsFilter
    <2>. QED BY <2>1
  <1>2. ASSUME NEW N \in Nat, N \in T PROVE N + 1 \in T
    <2>1. PICK h : IsFilter(h, N, list, tx)
      BY <1>2
    <2>. DEFINE next == IF list[N + 1].tx = tx THEN h[N] ELSE Append(h[N], list[N + 1])
                k == [n \in 0 .. N + 1 |-> IF n <= N THEN h[n] ELSE next]
    <2>2. IsFilter(k, N + 1, list, tx)
      <3>1. ASSUME NEW n \in 0 .. N + 1
            PROVE  k[n] = IF n = 0 THEN <<>>
                          ELSE IF list[n].tx = tx THEN k[n - 1]
                          ELSE Append(k[n - 1], list[n])
        <4>1. CASE n = 0
          <5>1. k[0] = h[0] /\ h[0] = <<>>
            BY <2>1, FilterSteps
          <5>. QED BY <4>1, <5>1
        <4>2. CASE n \in 1 .. N
          <5>1. k[n] = h[n] /\ k[n - 1] = h[n - 1]
            BY <4>2
          <5>2. n # 0 /\ h[n] = IF list[n].tx = tx THEN h[n - 1] ELSE Append(h[n - 1], list[n])
            BY <2>1, <4>2, FilterSteps
          <5>. HIDE DEF k
          <5>. QED BY <5>1, <5>2
        <4>3. CASE n = N + 1
          <5>1. k[n] = next /\ k[n - 1] = h[N] /\ n # 0
            BY <4>3
          <5>. QED BY <4>3, <5>1
        <4>. QED BY <4>1, <4>2, <4>3
      <3>2. k = [n \in 0 .. N + 1 |-> k[n]]
        OBVIOUS
      <3>. HIDE DEF k
      <3>. QED BY <3>1, <3>2 DEF IsFilter
    <2>. HIDE DEF k
    <2>. QED BY <2>2
  <1>. HIDE DEF T
  <1>3. \A N \in Nat : N \in T
    BY <1>1, <1>2, NumbersByInduction
  <1>. QED BY <1>3 DEF T

LEMMA WithoutIs ==
    ASSUME NEW T, NEW list \in Seq(T), NEW tx
    PROVE  \E h : IsFilter(h, Len(list), list, tx) /\ Without(list, tx) = h[Len(list)]
  <1>1. Len(list) \in Nat
    OBVIOUS
  <1>2. PICK h : IsFilter(h, Len(list), list, tx)
    BY <1>1, FilterExists
  <1>. DEFINE kept == CHOOSE k : IsFilter(k, Len(list), list, tx)
  <1>3. IsFilter(kept, Len(list), list, tx)
    BY <1>2
  <1>4. Without(list, tx) = kept[Len(list)]
    BY DEF Without, IsFilter
  <1>. HIDE DEF kept
  <1>. QED BY <1>3, <1>4

Distinct(list) == \A i, j \in 1 .. Len(list) : list[i].tx = list[j].tx => i = j

(* What it leaves of the first n entries, of which none or one has tx.     *)
Left(list, tx, n, some) ==
    /\ (\A i \in 1 .. n : list[i].tx # tx) =>
           Len(some) = n /\ \A i \in 1 .. n : some[i] = list[i]
    /\ \A q \in 1 .. n : list[q].tx = tx =>
           /\ Len(some) = n - 1
           /\ \A i \in 1 .. n - 1 : some[i] = IF i < q THEN list[i] ELSE list[i + 1]

LEMMA LeftNext ==
    ASSUME NEW T, NEW list \in Seq(T), Distinct(list), NEW tx, NEW n \in 1 .. Len(list),
           NEW some \in Seq(T), Left(list, tx, n - 1, some)
    PROVE  Left(list, tx, n, IF list[n].tx = tx THEN some ELSE Append(some, list[n]))
  <1>1. Len(list) \in Nat /\ n \in Nat /\ n - 1 \in Nat /\ Len(some) \in Nat /\ list[n] \in T
    BY Elements
  <1>2. CASE list[n].tx = tx
    <2>1. \A i \in 1 .. n - 1 : list[i].tx # tx
      BY <1>1, <1>2 DEF Distinct
    <2>2. Len(some) = n - 1 /\ \A i \in 1 .. n - 1 : some[i] = list[i]
      BY <2>1 DEF Left
    <2>3. n \in 1 .. n
      BY <1>1
    <2>4. ASSUME NEW q \in 1 .. n, list[q].tx = tx
          PROVE  /\ Len(some) = n - 1
                 /\ \A i \in 1 .. n - 1 : some[i] = IF i < q THEN list[i] ELSE list[i + 1]
      <3>1. q = n
        BY <1>1, <1>2, <2>4 DEF Distinct
      <3>2. \A i \in 1 .. n - 1 : i < q
        BY <3>1, <1>1
      <3>. QED BY <2>2, <3>2
    <2>. QED BY <1>2, <2>3, <2>4 DEF Left
  <1>3. CASE list[n].tx # tx
    <2>. DEFINE longer == Append(some, list[n])
    <2>1. /\ longer \in Seq(T) /\ Len(longer) = Len(some) + 1
          /\ \A i \in 1 .. Len(some) : longer[i] = some[i]
          /\ longer[Len(some) + 1] = list[n]
      BY <1>1, AppendProperties
    <2>. HIDE DEF longer
    <2>2. ASSUME \A i \in 1 .. n : list[i].tx # tx
          PROVE  Len(longer) = n /\ \A i \in 1 .. n : longer[i] = list[i]
      <3>1. \A i \in 1 .. n - 1 : i \in 1 .. n
        BY <1>1
      <3>2. Len(some) = n - 1 /\ \A i \in 1 .. n - 1 : some[i] = list[i]
        BY <2>2, <3>1 DEF Left
      <3>3. \A i \in 1 .. n : i = n \/ i \in 1 .. n - 1
        BY <1>1
      <3>4. longer[n] = list[n] /\ Len(longer) = n
        BY <1>1, <2>1, <3>2
      <3>. QED BY <2>1, <3>2, <3>3, <3>4
    <2>3. ASSUME NEW q \in 1 .. n, list[q].tx = tx
          PROVE  /\ Len(longer) = n - 1
                 /\ \A i \in 1 .. n - 1 : longer[i] = IF i < q THEN list[i] ELSE list[i + 1]
      <3>1. q \in 1 .. n - 1
        BY <1>1, <1>3, <2>3
      <3>2. /\ Len(some) = (n - 1) - 1
            /\ \A i \in 1 .. (n - 1) - 1 : some[i] = IF i < q THEN list[i] ELSE list[i + 1]
        BY <2>3, <3>1 DEF Left
      <3>3. Len(some) = n - 2 /\ Len(longer) = n - 1
        BY <1>1, <2>1, <3>2
      <3>4. ASSUME NEW i \in 1 .. n - 1
            PROVE  longer[i] = IF i < q THEN list[i] ELSE list[i + 1]
        <4>1. CASE i = n - 1
          <5>1. ~(i < q) /\ i + 1 = n /\ i = Len(some) + 1
            BY <1>1, <3>1, <3>3, <4>1
          <5>. QED BY <2>1, <5>1
        <4>2. CASE i # n - 1
          <5>1. i \in 1 .. (n - 1) - 1 /\ i \in 1 .. Len(some)
            BY <1>1, <3>3, <4>2
          <5>. QED BY <2>1, <3>2, <5>1
        <4>. QED BY <4>1, <4>2
      <3>. QED BY <3>3, <3>4
    <2>4. (IF list[n].tx = tx THEN some ELSE Append(some, list[n])) = longer
      BY <1>3 DEF longer
    <2>. QED BY <2>2, <2>3, <2>4 DEF Left
  <1>. QED BY <1>2, <1>3

LEMMA WithoutLeaves ==
    ASSUME NEW T, NEW list \in Seq(T), NEW tx
    PROVE  /\ Without(list, tx) \in Seq(T)
           /\ Distinct(list) => Left(list, tx, Len(list), Without(list, tx))
  <1>. DEFINE N == Len(list)
  <1>0. N \in Nat
    OBVIOUS
  <1>1. PICK h : IsFilter(h, N, list, tx) /\ Without(list, tx) = h[N]
    BY WithoutIs
  <1>2. /\ h[0] = <<>>
        /\ \A n \in 1 .. N : h[n] = IF list[n].tx = tx THEN h[n - 1]
                                    ELSE Append(h[n - 1], list[n])
    BY <1>0, <1>1, FilterSteps
  <1>. DEFINE OK(n) == h[n] \in Seq(T) /\ (Distinct(list) => Left(list, tx, n, h[n]))
              G == {n \in Nat : n <= N => OK(n)}
  <1>3. 0 \in G
    <2>1. <<>> \in Seq(T) /\ Len(<<>>) = 0 /\ 1 .. 0 = {}
      BY NoElements
    <2>2. Left(list, tx, 0, <<>>)
      BY <2>1 DEF Left
    <2>. QED BY <1>2, <2>1, <2>2
  <1>4. ASSUME NEW n \in Nat, n \in G PROVE n + 1 \in G
    <2>. SUFFICES ASSUME n + 1 <= N PROVE OK(n + 1)
      OBVIOUS
    <2>1. n + 1 \in 1 .. N /\ (n + 1) - 1 = n /\ n <= N
      BY <1>0
    <2>2. OK(n)
      BY <1>4, <2>1
    <2>3. h[n + 1] = IF list[n + 1].tx = tx THEN h[n] ELSE Append(h[n], list[n + 1])
      BY <1>2, <2>1
    <2>4. list[n + 1] \in T
      BY <2>1, Elements
    <2>5. h[n + 1] \in Seq(T)
      BY <2>2, <2>3, <2>4
    <2>6. ASSUME Distinct(list) PROVE Left(list, tx, n + 1, h[n + 1])
      BY <2>1, <2>2, <2>3, <2>6, LeftNext
    <2>. QED BY <2>5, <2>6
  <1>. HIDE DEF OK, G
  <1>5. \A n \in Nat : n \in G
    BY <1>3, <1>4, NumbersByInduction
  <1>6. OK(N)
    BY <1>0, <1>5 DEF G
  <1>. QED BY <1>1, <1>6 DEF OK

(* Where the rest of a list is in the list.                                *)
IsRestAt(at, list, tx, rest) ==
    /\ at \in [1 .. Len(rest) -> 1 .. Len(list)]
    /\ \A k \in 1 .. Len(rest) : rest[k] = list[at[k]] /\ list[at[k]].tx # tx
    /\ \A k, l \in 1 .. Len(rest) : k < l => at[k] < at[l]
    /\ \A i \in 1 .. Len(list) : list[i].tx # tx => \E k \in 1 .. Len(rest) : at[k] = i
    /\ Len(list) <= Len(rest) + 1
    /\ (\E q \in 1 .. Len(list) : list[q].tx = tx) => Len(rest) + 1 = Len(list)

LEMMA RestAt ==
    ASSUME NEW T, NEW list \in Seq(T), Distinct(list), NEW tx
    PROVE  \E at : IsRestAt(at, list, tx, Without(list, tx))
  <1>. DEFINE rest == Without(list, tx)
              N == Len(list)
  <1>1. rest \in Seq(T) /\ Left(list, tx, N, rest)
    BY WithoutLeaves
  <1>2. N \in Nat /\ Len(rest) \in Nat
    BY <1>1, Elements
  <1>. HIDE DEF rest
  <1>3. CASE \A i \in 1 .. N : list[i].tx # tx
    <2>1. Len(rest) = N /\ \A i \in 1 .. N : rest[i] = list[i]
      BY <1>1, <1>3 DEF Left
    <2>2. IsRestAt([k \in 1 .. N |-> k], list, tx, rest)
      BY <1>2, <1>3, <2>1 DEF IsRestAt
    <2>. QED BY <2>2 DEF rest
  <1>4. CASE \E q \in 1 .. N : list[q].tx = tx
    <2>1. PICK q \in 1 .. N : list[q].tx = tx
      BY <1>4
    <2>2. /\ Len(rest) = N - 1
          /\ \A i \in 1 .. N - 1 : rest[i] = IF i < q THEN list[i] ELSE list[i + 1]
      BY <1>1, <2>1 DEF Left
    <2>3. \A i \in 1 .. N : i # q => list[i].tx # tx
      BY <2>1 DEF Distinct
    <2>. DEFINE at == [k \in 1 .. N - 1 |-> IF k < q THEN k ELSE k + 1]
    <2>4. at \in [1 .. Len(rest) -> 1 .. N]
      BY <1>2, <2>2
    <2>5. \A k \in 1 .. Len(rest) : at[k] = IF k < q THEN k ELSE k + 1
      BY <2>2
    <2>6. \A k, l \in 1 .. Len(rest) : k < l => at[k] < at[l]
      BY <1>2, <2>1, <2>2, <2>5
    <2>7. \A i \in 1 .. N : i # q => \E k \in 1 .. Len(rest) : at[k] = i
      <3>. SUFFICES ASSUME NEW i \in 1 .. N, i # q
                    PROVE  \E k \in 1 .. Len(rest) : at[k] = i
        OBVIOUS
      <3>1. CASE i < q
        <4>1. i \in 1 .. Len(rest)
          BY <1>2, <2>1, <2>2, <3>1
        <4>. QED BY <2>5, <3>1, <4>1
      <3>2. CASE ~(i < q)
        <4>1. i - 1 \in 1 .. Len(rest) /\ ~(i - 1 < q) /\ (i - 1) + 1 = i
          BY <1>2, <2>1, <2>2, <3>2
        <4>. QED BY <2>5, <4>1
      <3>. QED BY <3>1, <3>2
    <2>8. \A k \in 1 .. Len(rest) : rest[k] = list[at[k]] /\ at[k] # q
      BY <2>1, <2>2, <2>5
    <2>. HIDE DEF at
    <2>9. \A k \in 1 .. Len(rest) : list[at[k]].tx # tx
      BY <2>3, <2>4, <2>8
    <2>10. Len(rest) + 1 = N
      BY <1>2, <2>2
    <2>11. \A i \in 1 .. N : list[i].tx # tx => \E k \in 1 .. Len(rest) : at[k] = i
      BY <2>1, <2>7
    <2>12. IsRestAt(at, list, tx, rest)
      BY <1>2, <2>4, <2>6, <2>8, <2>9, <2>10, <2>11 DEF IsRestAt
    <2>. QED BY <2>12 DEF rest
  <1>. QED BY <1>3, <1>4

-----------------------------------------------------------------------------
(* What a list shows: the newest of some events, from the newest on.       *)

(* The newest of the events at the places L of P, n of them or all.        *)
Shows(P, list, L, n) ==
    /\ \A k \in 1 .. Len(list) : \E i \in L : list[k] = P[i]
    /\ \A k, l \in 1 .. Len(list) : k < l => list[l].event < list[k].event
    /\ \A i \in L : \/ \E k \in 1 .. Len(list) : list[k] = P[i]
                    \/ n <= Len(list) /\ \A k \in 1 .. Len(list) : P[i].event < list[k].event

(* Those of other transactions, and those that are the last of their own.  *)
OthersIn(P, L, tx) == {i \in L : P[i].tx # tx}

LatestIn(P, S) == {i \in S : \A j \in S : j > i => P[j].tx # P[i].tx}

Rises(P) == \A i, j \in 1 .. Len(P) : i < j => P[i].event < P[j].event

(* One event of each transaction.                                          *)
OneEach(P, L) == \A i, j \in L : P[i].tx = P[j].tx => i = j

LEMMA LatestOneEach ==
    ASSUME NEW P, NEW S, S \subseteq Int
    PROVE  LatestIn(P, S) \subseteq S /\ OneEach(P, LatestIn(P, S))
  <1>1. ASSUME NEW i \in LatestIn(P, S), NEW j \in LatestIn(P, S), P[i].tx = P[j].tx
        PROVE  i = j
    <2>1. ~(j > i) /\ ~(i > j)
      BY <1>1 DEF LatestIn
    <2>2. i \in Int /\ j \in Int
      BY DEF LatestIn
    <2>. QED BY <2>1, <2>2
  <1>. QED BY <1>1 DEF LatestIn, OneEach

(* A later event takes the place of the earlier one of its transaction.    *)
LEMMA LatestNext ==
    ASSUME NEW P, NEW S, S \subseteq Int, NEW m \in Int, \A i \in S : i < m
    PROVE  LatestIn(P, S \cup {m}) = {m} \cup OthersIn(P, LatestIn(P, S), P[m].tx)
  <1>1. m \in LatestIn(P, S \cup {m})
    <2>1. \A j \in S \cup {m} : ~(j > m)
      OBVIOUS
    <2>. QED BY <2>1 DEF LatestIn
  <1>2. ASSUME NEW i \in S
        PROVE  i \in LatestIn(P, S \cup {m}) <=> i \in LatestIn(P, S) /\ P[i].tx # P[m].tx
    <2>1. m > i
      OBVIOUS
    <2>. QED BY <2>1 DEF LatestIn
  <1>3. m \notin S
    OBVIOUS
  <1>. QED BY <1>1, <1>2, <1>3 DEF LatestIn, OthersIn

LEMMA ShownOnce ==
    ASSUME NEW P, NEW L, OneEach(P, L), NEW list \in Seq(Items), NEW n, Shows(P, list, L, n)
    PROVE  Distinct(list)
  <1>. SUFFICES ASSUME NEW k \in 1 .. Len(list), NEW l \in 1 .. Len(list),
                       list[k].tx = list[l].tx
                PROVE  k = l
    BY DEF Distinct
  <1>1. PICK i \in L, j \in L : list[k] = P[i] /\ list[l] = P[j]
    BY DEF Shows
  <1>2. list[k] = list[l]
    BY <1>1 DEF OneEach
  <1>3. list[k].event \in Int /\ list[l].event \in Int
    BY Elements, ItemFields
  <1>4. ~(k < l) /\ ~(l < k)
    BY <1>2, <1>3 DEF Shows
  <1>. QED BY <1>4

(* The rest of a list shows what is left, and one less.                    *)
LEMMA RestShows ==
    ASSUME NEW P, NEW L, OneEach(P, L), NEW list \in Seq(Items), NEW n \in Nat,
           Shows(P, list, L, n), NEW tx
    PROVE  /\ Without(list, tx) \in Seq(Items)
           /\ Shows(P, Without(list, tx), OthersIn(P, L, tx), n - 1)
  <1>. DEFINE rest == Without(list, tx)
              M == {i \in L : P[i].tx # tx}
  <1>1. Distinct(list)
    BY ShownOnce
  <1>2. PICK at : IsRestAt(at, list, tx, rest)
    BY <1>1, RestAt
  <1>3. rest \in Seq(Items)
    BY WithoutLeaves
  <1>. HIDE DEF rest
  <1>4. Len(list) \in Nat /\ Len(rest) \in Nat
    BY <1>3, Elements
  <1>5. \A k \in 1 .. Len(rest) : \E i \in M : rest[k] = P[i]
    <2>. SUFFICES ASSUME NEW k \in 1 .. Len(rest) PROVE \E i \in M : rest[k] = P[i]
      OBVIOUS
    <2>1. at[k] \in 1 .. Len(list) /\ rest[k] = list[at[k]] /\ list[at[k]].tx # tx
      BY <1>2 DEF IsRestAt
    <2>2. PICK i \in L : list[at[k]] = P[i]
      BY <2>1 DEF Shows
    <2>. QED BY <2>1, <2>2
  <1>6. \A k, l \in 1 .. Len(rest) : k < l => rest[l].event < rest[k].event
    <2>1. \A k \in 1 .. Len(rest) : at[k] \in 1 .. Len(list) /\ rest[k] = list[at[k]]
      BY <1>2 DEF IsRestAt
    <2>2. \A k, l \in 1 .. Len(rest) : k < l => at[k] < at[l]
      BY <1>2 DEF IsRestAt
    <2>3. \A k, l \in 1 .. Len(list) : k < l => list[l].event < list[k].event
      BY DEF Shows
    <2>. QED BY <2>1, <2>2, <2>3
  <1>7. ASSUME NEW i \in M, ~ \E k \in 1 .. Len(rest) : rest[k] = P[i]
        PROVE  n - 1 <= Len(rest) /\ \A k \in 1 .. Len(rest) : P[i].event < rest[k].event
    <2>1. \A k \in 1 .. Len(list) : list[k] # P[i]
      <3>. SUFFICES ASSUME NEW k \in 1 .. Len(list), list[k] = P[i] PROVE FALSE
        OBVIOUS
      <3>1. \E l \in 1 .. Len(rest) : at[l] = k
        BY <1>2 DEF IsRestAt
      <3>. QED BY <1>2, <1>7, <3>1 DEF IsRestAt
    <2>2. n <= Len(list) /\ \A k \in 1 .. Len(list) : P[i].event < list[k].event
      BY <2>1 DEF Shows
    <2>3. \A k \in 1 .. Len(rest) : at[k] \in 1 .. Len(list) /\ rest[k] = list[at[k]]
      BY <1>2 DEF IsRestAt
    <2>4. Len(list) <= Len(rest) + 1
      BY <1>2 DEF IsRestAt
    <2>. QED BY <1>4, <2>2, <2>3, <2>4
  <1>8. Shows(P, rest, M, n - 1)
    BY <1>5, <1>6, <1>7 DEF Shows
  <1>. QED BY <1>3, <1>8 DEF rest, OthersIn

(* The same of a list that has no event of the transaction.                *)
LEMMA AllShows ==
    ASSUME NEW P, NEW L, NEW list \in Seq(Items), NEW n \in Nat, Shows(P, list, L, n), NEW tx,
           \A k \in 1 .. Len(list) : list[k].tx # tx
    PROVE  Shows(P, list, OthersIn(P, L, tx), n - 1)
  <1>. DEFINE M == {i \in L : P[i].tx # tx}
  <1>1. Len(list) \in Nat
    OBVIOUS
  <1>2. \A k \in 1 .. Len(list) : \E i \in M : list[k] = P[i]
    <2>. SUFFICES ASSUME NEW k \in 1 .. Len(list) PROVE \E i \in M : list[k] = P[i]
      OBVIOUS
    <2>1. PICK i \in L : list[k] = P[i]
      BY DEF Shows
    <2>. QED BY <2>1
  <1>3. \A i \in M : \/ \E k \in 1 .. Len(list) : list[k] = P[i]
                     \/ n - 1 <= Len(list) /\ \A k \in 1 .. Len(list) : P[i].event < list[k].event
    <2>1. n <= Len(list) => n - 1 <= Len(list)
      BY <1>1
    <2>. QED BY <2>1 DEF Shows
  <1>4. Shows(P, list, M, n - 1)
    BY <1>2, <1>3 DEF Shows
  <1>. QED BY <1>4 DEF OthersIn

(* A newer event in front of a list.                                       *)
LEMMA FrontShows ==
    ASSUME NEW P, NEW M, NEW m, P[m] \in Items, \A i \in M : P[i].event < P[m].event,
           NEW rest \in Seq(Items), NEW n \in Nat, Shows(P, rest, M, n - 1)
    PROVE  Shows(P, <<P[m]>> \o rest, {m} \cup M, n)
  <1>. DEFINE list == <<P[m]>> \o rest
  <1>1. /\ Len(list) = Len(rest) + 1 /\ list[1] = P[m]
        /\ \A k \in 1 .. Len(rest) : list[k + 1] = rest[k]
        /\ \A k \in 1 .. Len(rest) + 1 : k = 1 \/ (k - 1 \in 1 .. Len(rest) /\ list[k] = rest[k - 1])
    BY InFront
  <1>2. Len(rest) \in Nat
    OBVIOUS
  <1>. HIDE DEF list
  <1>3. \A k \in 1 .. Len(rest) : rest[k].event < P[m].event
    BY DEF Shows
  <1>4. ASSUME NEW k \in 1 .. Len(list) PROVE \E i \in {m} \cup M : list[k] = P[i]
    <2>1. CASE k = 1
      BY <1>1, <2>1
    <2>2. CASE k # 1
      <3>1. k - 1 \in 1 .. Len(rest) /\ list[k] = rest[k - 1]
        BY <1>1, <2>2
      <3>. QED BY <3>1 DEF Shows
    <2>. QED BY <2>1, <2>2
  <1>5. ASSUME NEW k \in 1 .. Len(list), NEW l \in 1 .. Len(list), k < l
        PROVE  list[l].event < list[k].event
    <2>1. l - 1 \in 1 .. Len(rest) /\ list[l] = rest[l - 1]
      <3>1. l # 1
        BY <1>5
      <3>. QED BY <1>1, <3>1
    <2>2. CASE k = 1
      BY <1>1, <1>3, <2>1, <2>2
    <2>3. CASE k # 1
      <3>1. k - 1 \in 1 .. Len(rest) /\ list[k] = rest[k - 1]
        BY <1>1, <2>3
      <3>2. k - 1 < l - 1
        BY <1>5
      <3>. QED BY <2>1, <3>1, <3>2 DEF Shows
    <2>. QED BY <2>2, <2>3
  <1>6. ASSUME NEW i \in {m} \cup M, ~ \E k \in 1 .. Len(list) : list[k] = P[i]
        PROVE  n <= Len(list) /\ \A k \in 1 .. Len(list) : P[i].event < list[k].event
    <2>0. 1 \in 1 .. Len(list) /\ \A k \in 1 .. Len(rest) : k + 1 \in 1 .. Len(list)
      BY <1>1, <1>2
    <2>1. i \in M
      BY <1>1, <1>6, <2>0
    <2>2. \A k \in 1 .. Len(rest) : rest[k] # P[i]
      BY <1>1, <1>6, <2>0
    <2>3. n - 1 <= Len(rest) /\ \A k \in 1 .. Len(rest) : P[i].event < rest[k].event
      BY <2>1, <2>2 DEF Shows
    <2>4. ASSUME NEW k \in 1 .. Len(list) PROVE P[i].event < list[k].event
      BY <1>1, <2>1, <2>3
    <2>5. n <= Len(list)
      BY <1>1, <1>2, <2>3
    <2>. QED BY <2>4, <2>5
  <1>7. Shows(P, list, {m} \cup M, n)
    BY <1>4, <1>5, <1>6 DEF Shows
  <1>. QED BY <1>7 DEF list

(* A list that is cut, but not below n.                                    *)
LEMMA CutShows ==
    ASSUME NEW P, NEW L, OneEach(P, L), NEW list \in Seq(Items), NEW n \in Nat,
           Shows(P, list, L, n), NEW c \in Nat, c <= Len(list), c = Len(list) \/ n <= c
    PROVE  Shows(P, SubSeq(list, 1, c), L, n)
  <1>. DEFINE cut == SubSeq(list, 1, c)
  <1>1. Len(cut) = c /\ \A k \in 1 .. c : cut[k] = list[k]
    BY FirstFew
  <1>. HIDE DEF cut
  <1>2. Len(list) \in Nat /\ \A k \in 1 .. c : k \in 1 .. Len(list)
    OBVIOUS
  <1>3. \A k \in 1 .. c : \E i \in L : cut[k] = P[i]
    BY <1>1, <1>2 DEF Shows
  <1>4. \A k, l \in 1 .. c : k < l => cut[l].event < cut[k].event
    BY <1>1, <1>2 DEF Shows
  <1>5. ASSUME NEW i \in L, ~ \E k \in 1 .. c : cut[k] = P[i]
        PROVE  n <= c /\ \A k \in 1 .. c : P[i].event < cut[k].event
    <2>1. CASE \E l \in 1 .. Len(list) : list[l] = P[i]
      <3>1. PICK l \in 1 .. Len(list) : list[l] = P[i]
        BY <2>1
      <3>2. l \notin 1 .. c
        BY <1>1, <1>5, <3>1
      <3>3. \A k \in 1 .. c : k < l
        BY <3>2
      <3>4. n <= c
        BY <1>2, <3>2
      <3>. QED BY <1>1, <1>2, <3>1, <3>3, <3>4 DEF Shows
    <2>2. CASE ~ \E l \in 1 .. Len(list) : list[l] = P[i]
      <3>1. n <= Len(list) /\ \A k \in 1 .. Len(list) : P[i].event < list[k].event
        BY <2>2 DEF Shows
      <3>. QED BY <1>1, <1>2, <3>1
    <2>. QED BY <2>1, <2>2
  <1>6. Shows(P, cut, L, n)
    BY <1>1, <1>3, <1>4, <1>5 DEF Shows
  <1>. QED BY <1>6 DEF cut

-----------------------------------------------------------------------------
(* A list and the ref of its ids                                           *)

TxsIn(list) == {list[k].tx : k \in 1 .. Len(list)}

(* The list shows the latest events at the places S; the ref has its ids,  *)
(* and, unless the queue was cleared with an alert on its way, no others.  *)
ViewOK(P, view, S, exact) ==
    /\ Shows(P, view.list, LatestIn(P, S), MaxVisible)
    /\ TxsIn(view.list) \subseteq view.ids
    /\ exact => view.ids = TxsIn(view.list) /\ Len(view.list) <= MaxVisible

LEMMA VisibleLimit == MaxVisible \in Nat /\ MaxVisible >= 1
  BY LimitsAssumption

LEMMA ViewFields ==
    \A view \in Views : /\ view.list \in Seq(Items) /\ view.ids \subseteq TxIds
                        /\ TxsIn(view.list) \subseteq TxIds
                        /\ \A list : [view EXCEPT !.list = list] = [list |-> list, ids |-> view.ids]
  <1>. SUFFICES ASSUME NEW view \in Views
                PROVE  /\ view.list \in Seq(Items) /\ view.ids \subseteq TxIds
                       /\ TxsIn(view.list) \subseteq TxIds
                       /\ \A list : [view EXCEPT !.list = list]
                                      = [list |-> list, ids |-> view.ids]
    OBVIOUS
  <1>1. view.list \in Seq(Items) /\ view.ids \subseteq TxIds
    BY DEF Views
  <1>2. TxsIn(view.list) \subseteq TxIds
    <2>1. \A k \in 1 .. Len(view.list) : view.list[k].tx \in TxIds
      BY <1>1, Elements, ItemFields
    <2>. QED BY <2>1 DEF TxsIn
  <1>3. \A list : [view EXCEPT !.list = list] = [list |-> list, ids |-> view.ids]
    BY DEF Views
  <1>. QED BY <1>1, <1>2, <1>3

(* The transactions of a list with one more.                               *)
LEMMA FrontTxs ==
    ASSUME NEW item \in Items, NEW rest \in Seq(Items)
    PROVE  TxsIn(<<item>> \o rest) = {item.tx} \cup TxsIn(rest)
  <1>. DEFINE list == <<item>> \o rest
  <1>1. /\ Len(list) = Len(rest) + 1 /\ list[1] = item
        /\ \A k \in 1 .. Len(rest) : list[k + 1] = rest[k]
        /\ \A k \in 1 .. Len(rest) + 1 : k = 1 \/ (k - 1 \in 1 .. Len(rest) /\ list[k] = rest[k - 1])
    BY InFront
  <1>. HIDE DEF list
  <1>2. 1 \in 1 .. Len(list) /\ \A k \in 1 .. Len(rest) : k + 1 \in 1 .. Len(list)
    <2>1. Len(rest) \in Nat
      OBVIOUS
    <2>. QED BY <1>1, <2>1
  <1>3. TxsIn(list) \subseteq {item.tx} \cup TxsIn(rest)
    BY <1>1 DEF TxsIn
  <1>4. {item.tx} \cup TxsIn(rest) \subseteq TxsIn(list)
    <2>1. \A k \in 1 .. Len(rest) : rest[k].tx \in TxsIn(list)
      BY <1>1, <1>2 DEF TxsIn
    <2>. QED BY <1>1, <1>2, <2>1 DEF TxsIn
  <1>. QED BY <1>3, <1>4 DEF list

(* Listed, of any view,                                                    *)
LEMMA ListedIs ==
    ASSUME NEW view \in Views, NEW item \in Items
    PROVE  LET new  == Listed(view, item, MaxVisible)
               rest == IF item.tx \in view.ids THEN Without(view.list, item.tx) ELSE view.list
               list == <<item>> \o rest
               c    == IF item.tx \in view.ids THEN Len(list) ELSE Fitting(list, MaxVisible)
           IN  /\ new \in Views
               /\ rest \in Seq(Items) /\ list \in Seq(Items)
               /\ c \in Nat /\ c <= Len(list) /\ (c = Len(list) \/ MaxVisible <= c)
               /\ item.tx \notin view.ids => c <= MaxVisible
               /\ new.list = SubSeq(list, 1, c)
               /\ new.ids = (view.ids \cup {item.tx}) \ {list[i].tx : i \in c + 1 .. Len(list)}
  <1>. DEFINE new  == Listed(view, item, MaxVisible)
              rest == IF item.tx \in view.ids THEN Without(view.list, item.tx) ELSE view.list
              list == <<item>> \o rest
              c    == IF item.tx \in view.ids THEN Len(list) ELSE Fitting(list, MaxVisible)
  <1>1. rest \in Seq(Items) /\ list \in Seq(Items)
    <2>1. rest \in Seq(Items)
      BY ViewFields, WithoutLeaves
    <2>. HIDE DEF rest
    <2>. QED BY <2>1, InFront
  <1>2. Len(list) \in Nat /\ SubSeq(list, 1, Len(list)) = list
    <2>. HIDE DEF list
    <2>1. Len(list) \in Nat
      BY <1>1
    <2>2. /\ SubSeq(list, 1, Len(list)) \in Seq(Items)
          /\ Len(SubSeq(list, 1, Len(list))) = Len(list)
          /\ \A i \in 1 .. Len(list) : SubSeq(list, 1, Len(list))[i] = list[i]
      BY <1>1, <2>1, FirstFew
    <2>. QED BY <1>1, <2>1, <2>2, SeqEqual
  <1>3. /\ c \in Nat /\ c <= Len(list) /\ (c = Len(list) \/ MaxVisible <= c)
        /\ item.tx \notin view.ids => c <= MaxVisible
    <2>. HIDE DEF list
    <2>1. /\ Fitting(list, MaxVisible) \in Nat /\ Fitting(list, MaxVisible) <= Len(list)
          /\ Fitting(list, MaxVisible) <= MaxVisible
          /\ Fitting(list, MaxVisible) = Len(list) \/ Fitting(list, MaxVisible) = MaxVisible
      BY <1>1, FittingIs, VisibleLimit
    <2>. QED BY <1>2, <2>1, VisibleLimit
  <1>4. /\ new.list = SubSeq(list, 1, c)
        /\ new.ids = (view.ids \cup {item.tx}) \ {list[i].tx : i \in c + 1 .. Len(list)}
        /\ new = [list |-> new.list, ids |-> new.ids]
    <2>1. CASE item.tx \in view.ids
      <3>1. new = [view EXCEPT !.list = list]
        BY <2>1, Zenon DEF Listed
      <3>2. new = [list |-> list, ids |-> view.ids]
        BY <3>1, ViewFields, Zenon
      <3>3. c = Len(list) /\ c + 1 .. Len(list) = {}
        <4>1. c = Len(list)
          BY <2>1
        <4>. HIDE DEF c, list
        <4>. QED BY <1>2, <4>1
      <3>. HIDE DEF new, list, c
      <3>. QED BY <1>2, <2>1, <3>2, <3>3
    <2>2. CASE item.tx \notin view.ids
      <3>1. rest = view.list /\ c = Fitting(list, MaxVisible)
        BY <2>2
      <3>2. new = [list |-> SubSeq(list, 1, c),
                   ids |-> (view.ids \cup {item.tx}) \ {list[i].tx : i \in c + 1 .. Len(list)}]
        BY <2>2, <3>1 DEF Listed
      <3>. HIDE DEF new
      <3>. QED BY <3>2
    <2>. QED BY <2>1, <2>2
  <1>5. new \in Views
    <2>1. SubSeq(list, 1, c) \in Seq(Items)
      <3>. HIDE DEF list, c
      <3>. QED BY <1>1, <1>3, FirstFew
    <2>2. view.ids \subseteq TxIds /\ item.tx \in TxIds
      BY ViewFields, ItemFields
    <2>. HIDE DEF new, list, c
    <2>. QED BY <1>4, <2>1, <2>2 DEF Views
  <1>. HIDE DEF new, rest, list, c
  <1>6. /\ new \in Views
        /\ rest \in Seq(Items) /\ list \in Seq(Items)
        /\ c \in Nat /\ c <= Len(list) /\ (c = Len(list) \/ MaxVisible <= c)
        /\ item.tx \notin view.ids => c <= MaxVisible
        /\ new.list = SubSeq(list, 1, c)
        /\ new.ids = (view.ids \cup {item.tx}) \ {list[i].tx : i \in c + 1 .. Len(list)}
    BY <1>1, <1>3, <1>4, <1>5
  <1>. QED BY <1>6 DEF new, rest, list, c

(* and of one that shows the latest events at S, for the next event.       *)
LEMMA ListedShows ==
    ASSUME NEW P \in Seq(Items), Rises(P), NEW S, NEW m \in 1 .. Len(P), S \subseteq 1 .. Len(P),
           \A i \in S : i < m, NEW view \in Views, NEW exact, ViewOK(P, view, S, exact)
    PROVE  ViewOK(P, Listed(view, P[m], MaxVisible), S \cup {m}, exact)
  <1>. DEFINE item == P[m]
              new  == Listed(view, item, MaxVisible)
              rest == IF item.tx \in view.ids THEN Without(view.list, item.tx) ELSE view.list
              list == <<item>> \o rest
              c    == IF item.tx \in view.ids THEN Len(list) ELSE Fitting(list, MaxVisible)
              L    == LatestIn(P, S)
              M    == OthersIn(P, L, item.tx)
  <1>0. item \in Items
    BY Elements
  <1>1. /\ new \in Views
        /\ rest \in Seq(Items) /\ list \in Seq(Items)
        /\ c \in Nat /\ c <= Len(list) /\ (c = Len(list) \/ MaxVisible <= c)
        /\ item.tx \notin view.ids => c <= MaxVisible
        /\ new.list = SubSeq(list, 1, c)
        /\ new.ids = (view.ids \cup {item.tx}) \ {list[i].tx : i \in c + 1 .. Len(list)}
    <2>. HIDE DEF item
    <2>. QED BY <1>0, ListedIs
  <1>i. S \subseteq Int /\ m \in Int
    BY Elements
  <1>2. LatestIn(P, S \cup {m}) = {m} \cup M
    BY <1>i, LatestNext
  <1>3. L \subseteq S /\ OneEach(P, L)
    BY <1>i, LatestOneEach
  <1>4. view.list \in Seq(Items) /\ Shows(P, view.list, L, MaxVisible)
    BY ViewFields DEF ViewOK
  <1>5. Shows(P, rest, M, MaxVisible - 1) /\ TxsIn(rest) = TxsIn(view.list) \ {item.tx}
    <2>1. CASE item.tx \in view.ids
      <3>0. rest = Without(view.list, item.tx)
        BY <2>1
      <3>1. Distinct(view.list)
        BY <1>3, <1>4, ShownOnce
      <3>2. PICK at : IsRestAt(at, view.list, item.tx, rest)
        BY <1>4, <3>0, <3>1, RestAt
      <3>3. TxsIn(rest) = TxsIn(view.list) \ {item.tx}
        <4>. HIDE DEF rest, item
        <4>1. \A k \in 1 .. Len(rest) : rest[k].tx \in TxsIn(view.list) \ {item.tx}
          <5>. SUFFICES ASSUME NEW k \in 1 .. Len(rest)
                        PROVE  rest[k].tx \in TxsIn(view.list) \ {item.tx}
            OBVIOUS
          <5>1. /\ at[k] \in 1 .. Len(view.list)
                /\ rest[k] = view.list[at[k]] /\ view.list[at[k]].tx # item.tx
            <6>1. at \in [1 .. Len(rest) -> 1 .. Len(view.list)]
              BY <3>2 DEF IsRestAt
            <6>2. at[k] \in 1 .. Len(view.list)
              BY <6>1
            <6>3. rest[k] = view.list[at[k]] /\ view.list[at[k]].tx # item.tx
              BY <3>2 DEF IsRestAt
            <6>. QED BY <6>2, <6>3
          <5>. QED BY <5>1 DEF TxsIn
        <4>2. \A i \in 1 .. Len(view.list) : view.list[i].tx # item.tx =>
                  \E k \in 1 .. Len(rest) : rest[k] = view.list[i]
          <5>. SUFFICES ASSUME NEW i \in 1 .. Len(view.list), view.list[i].tx # item.tx
                        PROVE  \E k \in 1 .. Len(rest) : rest[k] = view.list[i]
            OBVIOUS
          <5>1. PICK k \in 1 .. Len(rest) : at[k] = i
            BY <3>2 DEF IsRestAt
          <5>2. rest[k] = view.list[at[k]]
            BY <3>2 DEF IsRestAt
          <5>. QED BY <5>1, <5>2
        <4>3. ASSUME NEW tx \in TxsIn(view.list) \ {item.tx} PROVE tx \in TxsIn(rest)
          <5>1. PICK i \in 1 .. Len(view.list) : tx = view.list[i].tx
            BY DEF TxsIn
          <5>2. PICK k \in 1 .. Len(rest) : rest[k] = view.list[i]
            BY <4>2, <5>1
          <5>. QED BY <5>1, <5>2 DEF TxsIn
        <4>4. ASSUME NEW tx \in TxsIn(rest) PROVE tx \in TxsIn(view.list) \ {item.tx}
          BY <4>1 DEF TxsIn
        <4>. QED BY <4>3, <4>4
      <3>. QED BY <1>3, <1>4, <3>0, <3>3, RestShows, VisibleLimit
    <2>2. CASE item.tx \notin view.ids
      <3>0. rest = view.list
        BY <2>2
      <3>1. item.tx \notin TxsIn(view.list)
        BY <2>2 DEF ViewOK
      <3>2. \A k \in 1 .. Len(view.list) : view.list[k].tx # item.tx
        BY <3>1 DEF TxsIn
      <3>3. Shows(P, view.list, M, MaxVisible - 1)
        <4>. HIDE DEF item, L
        <4>. QED BY <1>4, <3>2, AllShows, VisibleLimit
      <3>. HIDE DEF rest, M
      <3>. QED BY <3>0, <3>1, <3>3
    <2>. QED BY <2>1, <2>2
  <1>6. OneEach(P, {m} \cup M)
    BY <1>3 DEF OneEach, OthersIn
  <1>7. Shows(P, list, {m} \cup M, MaxVisible)
    <2>1. \A i \in M : P[i].event < P[m].event
      BY <1>3 DEF Rises, OthersIn
    <2>. HIDE DEF rest, M
    <2>. QED BY <1>0, <1>1, <1>5, <2>1, FrontShows, VisibleLimit
  <1>8. TxsIn(list) = {item.tx} \cup TxsIn(view.list)
    <2>. HIDE DEF rest, item
    <2>1. TxsIn(list) = {item.tx} \cup TxsIn(rest)
      BY <1>0, <1>1, FrontTxs
    <2>. QED BY <1>5, <2>1
  <1>9. Distinct(list)
    <2>. HIDE DEF list, M
    <2>. QED BY <1>1, <1>6, <1>7, ShownOnce
  <1>10. Len(new.list) = c /\ \A k \in 1 .. c : new.list[k] = list[k]
    <2>. HIDE DEF list, c, new
    <2>. QED BY <1>1, FirstFew
  <1>11. Len(list) \in Nat /\ \A k \in 1 .. c : k \in 1 .. Len(list)
    <2>. HIDE DEF list, c
    <2>. QED BY <1>1
  <1>12. TxsIn(new.list) = TxsIn(list) \ {list[i].tx : i \in c + 1 .. Len(list)}
    <2>. HIDE DEF list, c, new
    <2>1. \A k \in 1 .. Len(list) : k \in 1 .. c \/ k \in c + 1 .. Len(list)
      BY <1>1, <1>11
    <2>2. \A k \in 1 .. c, i \in c + 1 .. Len(list) : i \in 1 .. Len(list) /\ k # i
      BY <1>1, <1>11
    <2>3. \A k \in 1 .. c : list[k].tx \notin {list[i].tx : i \in c + 1 .. Len(list)}
      BY <1>9, <1>11, <2>2 DEF Distinct
    <2>4. TxsIn(new.list) = {list[k].tx : k \in 1 .. c}
      BY <1>10 DEF TxsIn
    <2>5. {list[k].tx : k \in 1 .. c} \subseteq TxsIn(list) \ {list[i].tx : i \in c + 1 .. Len(list)}
      BY <1>11, <2>3 DEF TxsIn
    <2>6. TxsIn(list) \ {list[i].tx : i \in c + 1 .. Len(list)} \subseteq {list[k].tx : k \in 1 .. c}
      BY <2>1 DEF TxsIn
    <2>. QED BY <2>4, <2>5, <2>6
  <1>13. Shows(P, new.list, LatestIn(P, S \cup {m}), MaxVisible)
    <2>. DEFINE K == {m} \cup M
    <2>. HIDE DEF list, c, new, M
    <2>1. OneEach(P, K) /\ Shows(P, list, K, MaxVisible)
      BY <1>6, <1>7
    <2>. HIDE DEF K
    <2>2. Shows(P, SubSeq(list, 1, c), K, MaxVisible)
      BY <1>1, <2>1, CutShows, VisibleLimit
    <2>3. LatestIn(P, S \cup {m}) = K
      BY <1>2 DEF K
    <2>. QED BY <1>1, <2>2, <2>3
  <1>14. TxsIn(new.list) \subseteq new.ids
    <2>1. TxsIn(view.list) \subseteq view.ids
      BY DEF ViewOK
    <2>. HIDE DEF list, c, new, item
    <2>. QED BY <1>1, <1>8, <1>12, <2>1
  <1>15. ASSUME exact PROVE new.ids = TxsIn(new.list) /\ Len(new.list) <= MaxVisible
    <2>1. view.ids = TxsIn(view.list) /\ Len(view.list) <= MaxVisible
      BY <1>15 DEF ViewOK
    <2>2. new.ids = TxsIn(new.list)
      <3>. HIDE DEF list, c, new, item
      <3>. QED BY <1>1, <1>8, <1>12, <2>1
    <2>3. CASE item.tx \notin view.ids
      <3>. HIDE DEF list, c, new, item
      <3>. QED BY <1>1, <1>10, <2>2, <2>3
    <2>4. CASE item.tx \in view.ids
      <3>0. rest = Without(view.list, item.tx) /\ c = Len(list)
        BY <2>4
      <3>1. Distinct(view.list)
        BY <1>3, <1>4, ShownOnce
      <3>2. PICK at : IsRestAt(at, view.list, item.tx, rest)
        BY <1>4, <3>0, <3>1, RestAt
      <3>3. \E q \in 1 .. Len(view.list) : view.list[q].tx = item.tx
        BY <2>1, <2>4 DEF TxsIn
      <3>4. Len(rest) + 1 = Len(view.list)
        BY <3>2, <3>3 DEF IsRestAt
      <3>5. Len(list) = Len(rest) + 1
        <4>. HIDE DEF rest, item
        <4>. QED BY <1>0, <1>1, InFront
      <3>6. Len(new.list) = Len(view.list)
        <4>. HIDE DEF list, c, new, rest
        <4>. QED BY <1>10, <3>0, <3>4, <3>5
      <3>. QED BY <2>1, <2>2, <3>6
    <2>. QED BY <2>3, <2>4
  <1>. HIDE DEF new
  <1>16. ViewOK(P, new, S \cup {m}, exact)
    BY <1>13, <1>14, <1>15 DEF ViewOK
  <1>. QED BY <1>16 DEF new

-----------------------------------------------------------------------------
(* A list that shows the latest events is the first part of Newest         *)

LEMMA Counted ==
    ASSUME NEW U, NEW n \in Nat, NEW f \in [1 .. n -> U],
           \A k, l \in 1 .. n : f[k] = f[l] => k = l,
           \A u \in U : \E k \in 1 .. n : f[k] = u
    PROVE  IsFiniteSet(U) /\ Cardinality(U) = n
  <1>1. ExistsBijection(1 .. n, U)
    <2>1. f \in Bijection(1 .. n, U)
      BY DEF Bijection, Injection, Surjection, IsInjective
    <2>. QED BY <2>1 DEF ExistsBijection
  <1>. QED BY <1>1, FS_CountingElements, FS_NatBijection

Upto(L, i) == {j \in L : j >= i}

(* The places of the events in a list.                                     *)
IsPlaces(q, P, list, L, n) ==
    /\ q \in [1 .. Len(list) -> L]
    /\ \A k \in 1 .. Len(list) : list[k] = P[q[k]]
    /\ \A k, l \in 1 .. Len(list) : k < l => q[l] < q[k]
    /\ \A i \in L : \/ \E k \in 1 .. Len(list) : q[k] = i
                    \/ n <= Len(list) /\ \A k \in 1 .. Len(list) : i < q[k]

LEMMA PlacesExist ==
    ASSUME NEW P \in Seq(Items), Rises(P), NEW L, L \subseteq 1 .. Len(P),
           NEW list, NEW n, Shows(P, list, L, n)
    PROVE  \E q : IsPlaces(q, P, list, L, n)
  <1>. DEFINE q == [k \in 1 .. Len(list) |-> CHOOSE i \in L : list[k] = P[i]]
  <1>1. \A k \in 1 .. Len(list) : q[k] \in L /\ list[k] = P[q[k]]
    BY DEF Shows
  <1>2. q \in [1 .. Len(list) -> L]
    BY <1>1
  <1>. HIDE DEF q
  <1>3. \A i, j \in L : P[i].event < P[j].event => i < j
    <2>. SUFFICES ASSUME NEW i \in L, NEW j \in L, P[i].event < P[j].event, ~(i < j) PROVE FALSE
      OBVIOUS
    <2>1. i \in 1 .. Len(P) /\ j \in 1 .. Len(P)
      OBVIOUS
    <2>2. P[i].event \in Int /\ P[j].event \in Int
      BY <2>1, Elements, ItemFields
    <2>3. i = j \/ j < i
      BY <2>1
    <2>. QED BY <2>1, <2>2, <2>3 DEF Rises
  <1>4. \A k, l \in 1 .. Len(list) : k < l => q[l] < q[k]
    BY <1>1, <1>3 DEF Shows
  <1>5. ASSUME NEW i \in L, ~ \E k \in 1 .. Len(list) : q[k] = i
        PROVE  n <= Len(list) /\ \A k \in 1 .. Len(list) : i < q[k]
    <2>1. \A k \in 1 .. Len(list) : list[k] # P[i]
      <3>. SUFFICES ASSUME NEW k \in 1 .. Len(list), list[k] = P[i] PROVE FALSE
        OBVIOUS
      <3>1. q[k] \in 1 .. Len(P) /\ i \in 1 .. Len(P) /\ P[q[k]] = P[i]
        BY <1>1
      <3>2. P[i].event \in Int
        BY <3>1, Elements, ItemFields
      <3>3. ~(q[k] < i) /\ ~(i < q[k])
        BY <3>1, <3>2 DEF Rises
      <3>. QED BY <1>5, <3>1, <3>3
    <2>2. n <= Len(list) /\ \A k \in 1 .. Len(list) : P[i].event < list[k].event
      BY <2>1 DEF Shows
    <2>. QED BY <1>1, <1>3, <2>2
  <1>6. IsPlaces(q, P, list, L, n)
    BY <1>1, <1>2, <1>4, <1>5 DEF IsPlaces
  <1>. QED BY <1>6

(* The k-th of them is the k-th greatest of all.                           *)
LEMMA PlacesCount ==
    ASSUME NEW P, NEW L, \A i \in L : i \in Int, NEW list \in Seq(Items), NEW n, NEW q,
           IsPlaces(q, P, list, L, n)
    PROVE  \A k \in 1 .. Len(list) :
               IsFiniteSet(Upto(L, q[k])) /\ Cardinality(Upto(L, q[k])) = k
  <1>. SUFFICES ASSUME NEW k \in 1 .. Len(list)
                PROVE  IsFiniteSet(Upto(L, q[k])) /\ Cardinality(Upto(L, q[k])) = k
    OBVIOUS
  <1>. DEFINE U == Upto(L, q[k])
              f == [l \in 1 .. k |-> q[l]]
  <1>1. Len(list) \in Nat /\ k \in Nat /\ \A l \in 1 .. k : l \in 1 .. Len(list)
    BY Elements
  <1>2. \A l \in 1 .. Len(list) : q[l] \in L /\ q[l] \in Int
    BY DEF IsPlaces
  <1>3. \A l, j \in 1 .. Len(list) : q[l] = q[j] => l = j
    BY <1>2 DEF IsPlaces
  <1>4. \A l \in 1 .. k : q[l] \in U
    <2>. SUFFICES ASSUME NEW l \in 1 .. k PROVE q[l] >= q[k]
      BY <1>1, <1>2 DEF Upto
    <2>1. l = k \/ l < k
      BY <1>1
    <2>2. l < k => q[k] < q[l]
      BY <1>1 DEF IsPlaces
    <2>. QED BY <1>1, <1>2, <2>1, <2>2
  <1>5. ASSUME NEW u \in U PROVE \E l \in 1 .. k : q[l] = u
    <2>1. u \in L /\ u >= q[k] /\ u \in Int
      BY DEF Upto
    <2>2. PICK l \in 1 .. Len(list) : q[l] = u
      <3>1. ~(u < q[k])
        BY <1>2, <2>1
      <3>. QED BY <2>1, <3>1 DEF IsPlaces
    <2>3. ~(k < l)
      <3>1. k < l => q[l] < q[k]
        BY DEF IsPlaces
      <3>. QED BY <1>2, <2>1, <2>2, <3>1
    <2>. QED BY <1>1, <2>2, <2>3
  <1>. HIDE DEF U
  <1>6. f \in [1 .. k -> U]
    BY <1>4
  <1>7. \A l, j \in 1 .. k : f[l] = f[j] => l = j
    BY <1>1, <1>3
  <1>8. \A u \in U : \E l \in 1 .. k : f[l] = u
    BY <1>5
  <1>. HIDE DEF f
  <1>9. IsFiniteSet(U) /\ Cardinality(U) = k
    BY <1>1, <1>6, <1>7, <1>8, Counted
  <1>. QED BY <1>9 DEF U

(* Only one place has so many that are as great.                           *)
LEMMA PlaceByCount ==
    ASSUME NEW L, L \subseteq Int, NEW i \in L, NEW j \in L,
           IsFiniteSet(Upto(L, i)), IsFiniteSet(Upto(L, j)),
           Cardinality(Upto(L, i)) = Cardinality(Upto(L, j))
    PROVE  i = j
  <1>1. i \in Int /\ j \in Int
    OBVIOUS
  <1>2. \A x, y \in L : x <= y => Upto(L, y) \subseteq Upto(L, x)
    <2>. SUFFICES ASSUME NEW x \in L, NEW y \in L, x <= y, NEW u \in L, u >= y PROVE u >= x
      BY DEF Upto
    <2>1. x \in Int /\ y \in Int /\ u \in Int
      OBVIOUS
    <2>. QED BY <2>1
  <1>3. Upto(L, i) = Upto(L, j)
    <2>1. CASE i <= j
      <3>1. Upto(L, j) \in SUBSET Upto(L, i)
        BY <1>2, <2>1
      <3>. QED BY <3>1, FS_Subset
    <2>2. CASE j <= i
      <3>1. Upto(L, i) \in SUBSET Upto(L, j)
        BY <1>2, <2>2
      <3>. QED BY <3>1, FS_Subset
    <2>. QED BY <1>1, <2>1, <2>2
  <1>4. i \in Upto(L, i) /\ j \in Upto(L, j)
    BY <1>1 DEF Upto
  <1>5. i >= j /\ j >= i
    BY <1>3, <1>4 DEF Upto
  <1>. QED BY <1>1, <1>5

(* So the list is the first part of what is newest, and all if it is short.*)
LEMMA ListIsNewest ==
    ASSUME presented \in Seq(Items), Rises(presented), NEW S, S \subseteq 1 .. Len(presented),
           NEW list \in Seq(Items), NEW n, Shows(presented, list, LatestIn(presented, S), n)
    PROVE  /\ Len(Newest(S)) \in Nat
           /\ Len(list) <= Len(Newest(S))
           /\ \A k \in 1 .. Len(list) : list[k] = Newest(S)[k]
           /\ n <= Len(list) \/ Len(list) = Len(Newest(S))
  <1>. DEFINE P == presented
              L == LatestIn(P, S)
              C == Cardinality(L)
              place(k) == CHOOSE i \in L : Cardinality(Upto(L, i)) = k
  <1>1. Latest(S) = L
    BY DEF Latest, LatestIn
  <1>2. Newest(S) = [k \in 1 .. C |-> P[place(k)]]
    BY <1>1 DEF Newest, Upto
  <1>3. Len(P) \in Nat /\ S \subseteq Int
    BY Elements
  <1>4. L \subseteq S /\ L \subseteq 1 .. Len(P) /\ L \subseteq Int
    BY <1>3, LatestOneEach
  <1>. HIDE DEF L
  <1>5. IsFiniteSet(L) /\ C \in Nat
    <2>1. IsFiniteSet(1 .. Len(P))
      BY <1>3, FS_Interval
    <2>2. L \in SUBSET (1 .. Len(P))
      BY <1>4
    <2>. QED BY <2>1, <2>2, FS_Subset, FS_CardinalityType
  <1>6. \A i \in L : IsFiniteSet(Upto(L, i)) /\ Cardinality(Upto(L, i)) <= C
    <2>1. \A i \in L : Upto(L, i) \in SUBSET L
      BY DEF Upto
    <2>. QED BY <1>5, <2>1, FS_Subset
  <1>7. PICK q : IsPlaces(q, P, list, L, n)
    <2>1. Shows(P, list, L, n)
      BY DEF L
    <2>. QED BY <1>4, <2>1, PlacesExist
  <1>8. Len(list) \in Nat
    BY Elements
  <1>9. \A k \in 1 .. Len(list) : q[k] \in L /\ Cardinality(Upto(L, q[k])) = k
    <2>1. \A k \in 1 .. Len(list) : Cardinality(Upto(L, q[k])) = k
      <3>. HIDE DEF P, C, place
      <3>1. \A i \in L : i \in Int
        BY <1>4
      <3>. QED BY <1>7, <3>1, PlacesCount
    <2>2. \A k \in 1 .. Len(list) : q[k] \in L
      BY <1>7 DEF IsPlaces
    <2>. QED BY <2>1, <2>2
  <1>10. \A k \in 1 .. Len(list) : place(k) = q[k]
    <2>. SUFFICES ASSUME NEW k \in 1 .. Len(list) PROVE place(k) = q[k]
      OBVIOUS
    <2>1. place(k) \in L /\ Cardinality(Upto(L, place(k))) = k
      BY <1>9
    <2>. HIDE DEF place
    <2>. QED BY <1>4, <1>6, <1>9, <2>1, PlaceByCount
  <1>11. ASSUME ~(n <= Len(list)) PROVE Len(list) = C
    <2>1. \A i \in L : \E k \in 1 .. Len(list) : q[k] = i
      BY <1>7, <1>11 DEF IsPlaces
    <2>2. \A k, l \in 1 .. Len(list) : q[k] = q[l] => k = l
      BY <1>9
    <2>3. q \in [1 .. Len(list) -> L]
      BY <1>7 DEF IsPlaces
    <2>. QED BY <1>8, <2>1, <2>2, <2>3, Counted
  <1>12. Len(list) <= C
    <2>1. CASE Len(list) = 0
      BY <1>5, <2>1
    <2>2. CASE Len(list) # 0
      <3>1. Len(list) \in 1 .. Len(list)
        BY <1>8, <2>2
      <3>. QED BY <1>6, <1>9, <3>1
    <2>. QED BY <2>1, <2>2
  <1>13. Len(Newest(S)) = C
    <2>. DEFINE T == {P[place(k)] : k \in 1 .. C}
    <2>1. Newest(S) \in [1 .. C -> T]
      BY <1>2
    <2>. HIDE DEF T
    <2>. QED BY <1>5, <2>1
  <1>14. \A k \in 1 .. Len(list) : list[k] = Newest(S)[k]
    <2>1. \A k \in 1 .. Len(list) : k \in 1 .. C
      BY <1>5, <1>8, <1>12
    <2>2. \A k \in 1 .. Len(list) : list[k] = P[q[k]]
      BY <1>7 DEF IsPlaces
    <2>. HIDE DEF place
    <2>. QED BY <1>2, <1>10, <2>1, <2>2
  <1>. QED BY <1>5, <1>11, <1>12, <1>13, <1>14

LEMMA ListIsFirst ==
    ASSUME presented \in Seq(Items), Rises(presented), NEW S, S \subseteq 1 .. Len(presented),
           NEW list \in Seq(Items), NEW n \in Nat,
           Shows(presented, list, LatestIn(presented, S), n)
    PROVE  /\ Len(list) <= n => list = FirstOf(Newest(S), n)
           /\ IsPrefix(list, Newest(S))
  <1>. DEFINE newest == Newest(S)
  <1>1. /\ Len(newest) \in Nat
        /\ Len(list) <= Len(newest)
        /\ \A k \in 1 .. Len(list) : list[k] = newest[k]
        /\ n <= Len(list) \/ Len(list) = Len(newest)
    BY ListIsNewest
  <1>. HIDE DEF newest
  <1>2. Len(list) \in Nat /\ \A k \in 1 .. Len(list) : list[k] \in Items
    BY Elements
  <1>3. SubSeq(list, 1, Len(list)) = list /\ SubSeq(newest, 1, Len(list)) = list
    <2>. DEFINE whole == SubSeq(list, 1, Len(list))
                first == SubSeq(newest, 1, Len(list))
    <2>1. whole \in Seq(Items) /\ Len(whole) = Len(list)
          /\ \A k \in 1 .. Len(list) : whole[k] = list[k]
      BY <1>2, FirstFew
    <2>2. /\ first \in Seq(Items)
          /\ Len(first) = IF 1 <= Len(list) THEN Len(list) - 1 + 1 ELSE 0
          /\ \A k \in 1 .. Len(list) - 1 + 1 : first[k] = newest[1 + k - 1]
      <3>1. \A k \in 1 .. Len(list) : newest[k] \in Items
        BY <1>1, <1>2
      <3>2. \A a, b \in Int : (\A i \in a .. b : newest[i] \in Items) =>
                /\ SubSeq(newest, a, b) \in Seq(Items)
                /\ Len(SubSeq(newest, a, b)) = IF a <= b THEN b - a + 1 ELSE 0
                /\ \A i \in 1 .. b - a + 1 : SubSeq(newest, a, b)[i] = newest[a + i - 1]
        BY SubSeqProperties
      <3>3. 1 \in Int /\ Len(list) \in Int
        BY <1>2
      <3>. QED BY <3>1, <3>2, <3>3
    <2>. HIDE DEF whole, first
    <2>3. whole = list
      BY <2>1, SeqEqual
    <2>4. Len(first) = Len(list)
      BY <1>2, <2>2
    <2>5. \A k \in 1 .. Len(list) : first[k] = list[k]
      <3>1. \A k \in 1 .. Len(list) : k \in 1 .. Len(list) - 1 + 1 /\ 1 + k - 1 = k
        BY <1>2
      <3>. QED BY <1>1, <2>2, <3>1
    <2>6. first = list
      BY <2>2, <2>4, <2>5, SeqEqual
    <2>. QED BY <2>3, <2>6 DEF whole, first
  <1>4. IsPrefix(list, newest)
    BY <1>1, <1>3 DEF IsPrefix
  <1>5. ASSUME Len(list) <= n PROVE list = FirstOf(newest, n)
    <2>1. Fitting(newest, n) = Len(list)
      BY <1>1, <1>2, <1>5 DEF Fitting
    <2>. QED BY <1>3, <2>1 DEF FirstOf
  <1>. QED BY <1>4, <1>5 DEF newest

-----------------------------------------------------------------------------
(* The edges                                                               *)

Once(s) == \A i, j \in 1 .. Len(s) : s[i] = s[j] => i = j

LEMMA RangeIs ==
    ASSUME NEW T, NEW s \in Seq(T)
    PROVE  Range(s) = {s[i] : i \in 1 .. Len(s)} /\ Range(s) \subseteq T /\ s \in Seq(Range(s))
  <1>1. DOMAIN s = 1 .. Len(s) /\ Len(s) \in Nat /\ \A i \in 1 .. Len(s) : s[i] \in T
    BY LenProperties, ElementOfSeq
  <1>2. Range(s) = {s[i] : i \in 1 .. Len(s)}
    BY <1>1 DEF Range
  <1>3. s \in [1 .. Len(s) -> Range(s)]
    BY <1>2, LenProperties
  <1>4. s \in Seq(Range(s))
    BY <1>1, <1>3, SeqDef
  <1>. QED BY <1>1, <1>2, <1>4

LEMMA RangeOfMore ==
    ASSUME NEW T, NEW s \in Seq(T), NEW e \in T
    PROVE  /\ Range(Append(s, e)) = Range(s) \cup {e}
           /\ Once(s) /\ e \notin Range(s) => Once(Append(s, e))
  <1>. DEFINE t == Append(s, e)
  <1>1. /\ t \in Seq(T) /\ Len(t) = Len(s) + 1
        /\ \A i \in 1 .. Len(s) : t[i] = s[i]
        /\ t[Len(s) + 1] = e
    BY AppendProperties
  <1>. HIDE DEF t
  <1>2. Len(s) \in Nat /\ \A i \in 1 .. Len(t) : i = Len(s) + 1 \/ i \in 1 .. Len(s)
    BY <1>1
  <1>3. /\ Range(s) = {s[i] : i \in 1 .. Len(s)}
        /\ Range(t) = {t[i] : i \in 1 .. Len(t)}
    BY <1>1, RangeIs
  <1>4. Range(t) = Range(s) \cup {e}
    <2>1. \A i \in 1 .. Len(s) : i \in 1 .. Len(t)
      BY <1>1, <1>2
    <2>2. Len(s) + 1 \in 1 .. Len(t)
      BY <1>1, <1>2
    <2>3. Range(t) \subseteq Range(s) \cup {e}
      BY <1>1, <1>2, <1>3
    <2>4. Range(s) \cup {e} \subseteq Range(t)
      BY <1>1, <1>3, <2>1, <2>2
    <2>. QED BY <2>3, <2>4
  <1>5. ASSUME Once(s), e \notin Range(s) PROVE Once(t)
    <2>1. \A i \in 1 .. Len(s) : s[i] # e
      BY <1>3, <1>5
    <2>. QED BY <1>1, <1>2, <1>5, <2>1 DEF Once
  <1>. QED BY <1>4, <1>5 DEF t

LEMMA RangeOfBoth ==
    ASSUME NEW T, NEW s \in Seq(T), NEW t \in Seq(T)
    PROVE  /\ s \o t \in Seq(T) /\ Len(s \o t) = Len(s) + Len(t)
           /\ Range(s \o t) = Range(s) \cup Range(t)
           /\ Once(s) /\ Once(t) /\ Range(s) \cap Range(t) = {} => Once(s \o t)
  <1>. DEFINE u == s \o t
  <1>1. /\ u \in Seq(T) /\ Len(u) = Len(s) + Len(t)
        /\ \A i \in 1 .. Len(s) + Len(t) : u[i] = IF i <= Len(s) THEN s[i] ELSE t[i - Len(s)]
    BY ConcatProperties
  <1>. HIDE DEF u
  <1>2. Len(s) \in Nat /\ Len(t) \in Nat
    BY Elements
  <1>3. /\ Range(s) = {s[i] : i \in 1 .. Len(s)}
        /\ Range(t) = {t[i] : i \in 1 .. Len(t)}
        /\ Range(u) = {u[i] : i \in 1 .. Len(u)}
    BY <1>1, RangeIs
  <1>4. \A i \in 1 .. Len(u) : \/ i \in 1 .. Len(s) /\ u[i] = s[i]
                               \/ i \notin 1 .. Len(s) /\ i - Len(s) \in 1 .. Len(t) /\ u[i] = t[i - Len(s)]
    BY <1>1, <1>2
  <1>5. \A i \in 1 .. Len(s) : i \in 1 .. Len(u) /\ u[i] = s[i]
    BY <1>1, <1>2
  <1>6. \A i \in 1 .. Len(t) : i + Len(s) \in 1 .. Len(u) /\ u[i + Len(s)] = t[i]
    <2>. SUFFICES ASSUME NEW i \in 1 .. Len(t)
                  PROVE  i + Len(s) \in 1 .. Len(u) /\ u[i + Len(s)] = t[i]
      OBVIOUS
    <2>1. i + Len(s) \in 1 .. Len(s) + Len(t) /\ ~(i + Len(s) <= Len(s)) /\ (i + Len(s)) - Len(s) = i
      BY <1>2
    <2>. QED BY <1>1, <2>1
  <1>7. Range(u) = Range(s) \cup Range(t)
    <2>1. Range(u) \subseteq Range(s) \cup Range(t)
      BY <1>3, <1>4
    <2>2. Range(s) \subseteq Range(u)
      BY <1>3, <1>5
    <2>3. Range(t) \subseteq Range(u)
      BY <1>3, <1>6
    <2>. QED BY <2>1, <2>2, <2>3
  <1>8. ASSUME Once(s), Once(t), Range(s) \cap Range(t) = {} PROVE Once(u)
    <2>. SUFFICES ASSUME NEW i \in 1 .. Len(u), NEW j \in 1 .. Len(u), u[i] = u[j] PROVE i = j
      BY DEF Once
    <2>1. \A k \in 1 .. Len(s), l \in 1 .. Len(t) : s[k] # t[l]
      BY <1>3, <1>8
    <2>2. CASE i \in 1 .. Len(s) /\ j \in 1 .. Len(s)
      BY <1>5, <1>8, <2>2 DEF Once
    <2>3. CASE i \notin 1 .. Len(s) /\ j \notin 1 .. Len(s)
      <3>1. /\ i - Len(s) \in 1 .. Len(t) /\ u[i] = t[i - Len(s)]
            /\ j - Len(s) \in 1 .. Len(t) /\ u[j] = t[j - Len(s)]
        BY <1>4, <2>3
      <3>2. i - Len(s) = j - Len(s)
        BY <1>8, <3>1 DEF Once
      <3>. QED BY <1>2, <3>2
    <2>4. CASE i \in 1 .. Len(s) /\ j \notin 1 .. Len(s)
      BY <1>4, <1>5, <2>1, <2>4
    <2>5. CASE i \notin 1 .. Len(s) /\ j \in 1 .. Len(s)
      BY <1>4, <1>5, <2>1, <2>5
    <2>. QED BY <2>2, <2>3, <2>4, <2>5
  <1>. QED BY <1>1, <1>7, <1>8 DEF u

(* What is cut off a sequence of which each is once.                       *)
LEMMA RangeOfFirst ==
    ASSUME NEW T, NEW s \in Seq(T), Once(s), NEW n \in Nat, n <= Len(s)
    PROVE  /\ Once(SubSeq(s, 1, n))
           /\ Range(SubSeq(s, 1, n)) = Range(s) \ {s[i] : i \in n + 1 .. Len(s)}
           /\ n = Len(s) => Range(SubSeq(s, 1, n)) = Range(s)
  <1>. DEFINE t == SubSeq(s, 1, n)
              gone == {s[i] : i \in n + 1 .. Len(s)}
  <1>1. t \in Seq(T) /\ Len(t) = n /\ \A i \in 1 .. n : t[i] = s[i]
    BY FirstFew
  <1>. HIDE DEF t
  <1>2. /\ Range(s) = {s[i] : i \in 1 .. Len(s)}
        /\ Range(t) = {t[i] : i \in 1 .. n}
    BY <1>1, RangeIs
  <1>3. Len(s) \in Nat /\ \A i \in 1 .. n : i \in 1 .. Len(s)
    OBVIOUS
  <1>4. \A i \in 1 .. Len(s) : i \in 1 .. n \/ i \in n + 1 .. Len(s)
    BY <1>3
  <1>5. \A i \in 1 .. n, j \in n + 1 .. Len(s) : j \in 1 .. Len(s) /\ i # j
    BY <1>3
  <1>6. \A i \in 1 .. n : s[i] \notin gone
    BY <1>3, <1>5 DEF Once
  <1>7. Range(t) = Range(s) \ gone
    <2>1. Range(t) \subseteq Range(s) \ gone
      BY <1>1, <1>2, <1>3, <1>6
    <2>2. Range(s) \ gone \subseteq Range(t)
      BY <1>1, <1>2, <1>4
    <2>. QED BY <2>1, <2>2
  <1>8. Once(t)
    BY <1>1, <1>3 DEF Once
  <1>9. ASSUME n = Len(s) PROVE Range(t) = Range(s)
    <2>1. n + 1 .. Len(s) = {}
      BY <1>3, <1>9
    <2>2. gone = {}
      BY <2>1
    <2>. QED BY <1>7, <2>2
  <1>. QED BY <1>7, <1>8, <1>9 DEF t

(* Added is the function it says it is,                                    *)
IsAdding(h, N, known, keys) ==
    h = [n \in 0 .. N |-> IF n = 0 THEN <<>>
                          ELSE IF keys[n] \in known \cup Range(h[n - 1]) THEN h[n - 1]
                          ELSE Append(h[n - 1], keys[n])]

LEMMA AddingSteps ==
    ASSUME NEW h, NEW N \in Nat, NEW known, NEW keys, IsAdding(h, N, known, keys)
    PROVE  /\ h[0] = <<>>
           /\ \A n \in 1 .. N : h[n] = IF keys[n] \in known \cup Range(h[n - 1]) THEN h[n - 1]
                                       ELSE Append(h[n - 1], keys[n])
  <1>1. h = [n \in 0 .. N |-> IF n = 0 THEN <<>>
                              ELSE IF keys[n] \in known \cup Range(h[n - 1]) THEN h[n - 1]
                              ELSE Append(h[n - 1], keys[n])]
    BY DEF IsAdding
  <1>2. \A n \in 0 .. N : h[n] = IF n = 0 THEN <<>>
                                 ELSE IF keys[n] \in known \cup Range(h[n - 1]) THEN h[n - 1]
                                 ELSE Append(h[n - 1], keys[n])
    BY <1>1, Zenon
  <1>3. 0 \in 0 .. N /\ \A n \in 1 .. N : n \in 0 .. N /\ n # 0
    OBVIOUS
  <1>. QED BY <1>2, <1>3

LEMMA AddingExists ==
    ASSUME NEW known, NEW keys
    PROVE  \A N \in Nat : \E h : IsAdding(h, N, known, keys)
  <1>. DEFINE T == {N \in Nat : \E h : IsAdding(h, N, known, keys)}
  <1>1. 0 \in T
    <2>1. IsAdding([n \in 0 .. 0 |-> <<>>], 0, known, keys)
      BY DEF IsAdding
    <2>. QED BY <2>1
  <1>2. ASSUME NEW N \in Nat, N \in T PROVE N + 1 \in T
    <2>1. PICK h : IsAdding(h, N, known, keys)
      BY <1>2
    <2>. DEFINE next == IF keys[N + 1] \in known \cup Range(h[N]) THEN h[N]
                        ELSE Append(h[N], keys[N + 1])
                k == [n \in 0 .. N + 1 |-> IF n <= N THEN h[n] ELSE next]
    <2>2. IsAdding(k, N + 1, known, keys)
      <3>1. ASSUME NEW n \in 0 .. N + 1
            PROVE  k[n] = IF n = 0 THEN <<>>
                          ELSE IF keys[n] \in known \cup Range(k[n - 1]) THEN k[n - 1]
                          ELSE Append(k[n - 1], keys[n])
        <4>1. CASE n = 0
          <5>1. k[0] = h[0] /\ h[0] = <<>>
            BY <2>1, AddingSteps
          <5>. QED BY <4>1, <5>1
        <4>2. CASE n \in 1 .. N
          <5>1. k[n] = h[n] /\ k[n - 1] = h[n - 1]
            BY <4>2
          <5>2. n # 0 /\ h[n] = IF keys[n] \in known \cup Range(h[n - 1]) THEN h[n - 1]
                                ELSE Append(h[n - 1], keys[n])
            BY <2>1, <4>2, AddingSteps
          <5>. HIDE DEF k
          <5>. QED BY <5>1, <5>2
        <4>3. CASE n = N + 1
          <5>1. k[n] = next /\ k[n - 1] = h[N] /\ n # 0
            BY <4>3
          <5>. HIDE DEF k
          <5>. QED BY <4>3, <5>1
        <4>. QED BY <4>1, <4>2, <4>3
      <3>2. k = [n \in 0 .. N + 1 |-> k[n]]
        OBVIOUS
      <3>. HIDE DEF k
      <3>. QED BY <3>1, <3>2 DEF IsAdding
    <2>. HIDE DEF k
    <2>. QED BY <2>2
  <1>. HIDE DEF T
  <1>3. \A N \in Nat : N \in T
    BY <1>1, <1>2, NumbersByInduction
  <1>. QED BY <1>3 DEF T

(* and adds each of the keys that are not known, once.                     *)
LEMMA AddedNew ==
    ASSUME NEW T, NEW keys \in Seq(T), NEW known
    PROVE  /\ Added(known, keys) \in Seq(T) /\ Once(Added(known, keys))
           /\ Range(Added(known, keys)) = Range(keys) \ known
  <1>. DEFINE N == Len(keys)
              new == CHOOSE h : IsAdding(h, N, known, keys)
              keyed(n) == {keys[i] : i \in 1 .. n}
              OK(n) == new[n] \in Seq(T) /\ Once(new[n]) /\ Range(new[n]) = keyed(n) \ known
              G == {n \in Nat : n <= N => OK(n)}
  <1>1. N \in Nat /\ Range(keys) = keyed(N)
    BY RangeIs
  <1>2. IsAdding(new, N, known, keys)
    BY <1>1, AddingExists
  <1>3. Added(known, keys) = new[N]
    BY DEF Added, IsAdding
  <1>. HIDE DEF new
  <1>4. /\ new[0] = <<>>
        /\ \A n \in 1 .. N : new[n] = IF keys[n] \in known \cup Range(new[n - 1]) THEN new[n - 1]
                                      ELSE Append(new[n - 1], keys[n])
    BY <1>1, <1>2, AddingSteps
  <1>5. 0 \in G
    <2>1. <<>> \in Seq(T) /\ Len(<<>>) = 0 /\ Range(<<>>) = {} /\ 1 .. 0 = {}
      BY NoElements
    <2>2. Once(<<>>) /\ keyed(0) = {}
      BY <2>1 DEF Once
    <2>. QED BY <1>4, <2>1, <2>2
  <1>6. ASSUME NEW n \in Nat, n \in G PROVE n + 1 \in G
    <2>. SUFFICES ASSUME n + 1 <= N PROVE OK(n + 1)
      OBVIOUS
    <2>1. n + 1 \in 1 .. N /\ (n + 1) - 1 = n /\ n <= N
      BY <1>1
    <2>2. OK(n)
      BY <1>6, <2>1
    <2>3. keys[n + 1] \in T
      BY <2>1, Elements
    <2>4. keyed(n + 1) = keyed(n) \cup {keys[n + 1]}
      <3>1. 1 .. n + 1 = (1 .. n) \cup {n + 1}
        OBVIOUS
      <3>. QED BY <3>1
    <2>5. new[n + 1] = IF keys[n + 1] \in known \cup Range(new[n]) THEN new[n]
                       ELSE Append(new[n], keys[n + 1])
      BY <1>4, <2>1
    <2>. HIDE DEF keyed
    <2>6. CASE keys[n + 1] \in known \cup Range(new[n])
      BY <2>2, <2>4, <2>5, <2>6
    <2>7. CASE keys[n + 1] \notin known \cup Range(new[n])
      <3>1. new[n + 1] = Append(new[n], keys[n + 1])
        BY <2>5, <2>7
      <3>2. new[n + 1] \in Seq(T)
        BY <2>2, <2>3, <3>1, AppendProperties
      <3>3. Range(new[n + 1]) = Range(new[n]) \cup {keys[n + 1]} /\ Once(new[n + 1])
        BY <2>2, <2>3, <2>7, <3>1, RangeOfMore
      <3>. QED BY <2>2, <2>4, <2>7, <3>2, <3>3
    <2>. QED BY <2>6, <2>7
  <1>. HIDE DEF OK, G
  <1>7. \A n \in Nat : n \in G
    BY <1>5, <1>6, NumbersByInduction
  <1>8. OK(N)
    BY <1>1, <1>7 DEF G
  <1>. QED BY <1>1, <1>3, <1>8 DEF OK

KeysOf(P, n) == UNION {Range(EdgeKeys(P[i])) : i \in 1 .. n}

(* The list of edges and the ref of their keys: all there are, until it is *)
(* full.                                                                   *)
EdgesOK(P, view, n) ==
    /\ view.list \in Seq(view.ids) /\ Once(view.list)
    /\ Range(view.list) = view.ids
    /\ view.ids \subseteq KeysOf(P, n)
    /\ Len(view.list) <= MaxGraphEdges
    /\ Len(view.list) < MaxGraphEdges => KeysOf(P, n) \subseteq view.ids

LEMMA KeysOfItem ==
    ASSUME NEW item \in Items
    PROVE  EdgeKeys(item) \in Seq(Range(EdgeKeys(item)))
  <1>1. PICK content \in Contents : item.neighbors = content.neighbors
    BY ItemFields
  <1>2. item.neighbors \in Seq(Range(item.neighbors))
    BY <1>1, NeighborsAssumption
  <1>3. Len(item.neighbors) \in Nat /\ DOMAIN item.neighbors = 1 .. Len(item.neighbors)
    BY <1>2, LenProperties
  <1>4. EdgeKeys(item) \in [1 .. Len(item.neighbors) -> Range(EdgeKeys(item))]
    BY <1>3 DEF EdgeKeys, Range
  <1>. QED BY <1>3, <1>4, SeqDef

LEMMA LinkedShows ==
    ASSUME NEW P \in Seq(Items), NEW n \in Nat, n + 1 \in 1 .. Len(P), NEW view, EdgesOK(P, view, n)
    PROVE  EdgesOK(P, Linked(view, P[n + 1]), n + 1)
  <1>. DEFINE item   == P[n + 1]
              keys   == EdgeKeys(item)
              added  == Added(view.ids, keys)
              longer == added \o view.list
              length == Fitting(longer, MaxGraphEdges)
              new    == Linked(view, item)
              T      == view.ids \cup Range(keys)
  <1>1. /\ new.list = SubSeq(longer, 1, length)
        /\ new.ids = (view.ids \cup Range(added)) \ {longer[i] : i \in length + 1 .. Len(longer)}
    BY DEF Linked
  <1>2. keys \in Seq(Range(keys))
    <2>1. item \in Items
      BY Elements
    <2>. HIDE DEF item
    <2>. QED BY <2>1, KeysOfItem
  <1>. HIDE DEF keys, new
  <1>3. added \in Seq(Range(keys)) /\ Once(added) /\ Range(added) = Range(keys) \ view.ids
    BY <1>2, AddedNew
  <1>. HIDE DEF added
  <1>4. added \in Seq(T) /\ view.list \in Seq(T)
    <2>1. \A A, s : s \in Seq(A) /\ A \subseteq T => s \in Seq(T)
      OBVIOUS
    <2>. QED BY <1>3, <2>1 DEF EdgesOK
  <1>. HIDE DEF T
  <1>5. /\ longer \in Seq(T) /\ Len(longer) = Len(added) + Len(view.list) /\ Once(longer)
        /\ Range(longer) = view.ids \cup Range(keys)
    <2>1. Once(view.list) /\ Range(view.list) = view.ids
      BY DEF EdgesOK
    <2>2. Range(added) \cap Range(view.list) = {}
      BY <1>3, <2>1
    <2>3. /\ longer \in Seq(T) /\ Len(longer) = Len(added) + Len(view.list) /\ Once(longer)
          /\ Range(longer) = Range(added) \cup Range(view.list)
      BY <1>3, <1>4, <2>1, <2>2, RangeOfBoth
    <2>. QED BY <1>3, <2>1, <2>3
  <1>. HIDE DEF longer
  <1>6. MaxGraphEdges \in Nat /\ Len(added) \in Nat /\ Len(view.list) \in Nat /\ Len(longer) \in Nat
    BY <1>4, <1>5, LimitsAssumption, Elements
  <1>7. /\ length \in Nat /\ length <= Len(longer) /\ length <= MaxGraphEdges
        /\ length = Len(longer) \/ length = MaxGraphEdges
    BY <1>5, <1>6, FittingIs
  <1>. HIDE DEF length
  <1>8. /\ new.list \in Seq(T) /\ Len(new.list) = length /\ Once(new.list)
        /\ Range(new.list) = Range(longer) \ {longer[i] : i \in length + 1 .. Len(longer)}
        /\ length = Len(longer) => Range(new.list) = Range(longer)
    BY <1>1, <1>5, <1>7, FirstFew, RangeOfFirst
  <1>9. new.ids = Range(new.list)
    BY <1>1, <1>3, <1>5, <1>8
  <1>10. KeysOf(P, n + 1) = KeysOf(P, n) \cup Range(keys)
    <2>1. 1 .. n + 1 = (1 .. n) \cup {n + 1}
      OBVIOUS
    <2>. QED BY <2>1 DEF KeysOf, keys
  <1>11. new.ids \subseteq KeysOf(P, n + 1)
    <2>1. view.ids \subseteq KeysOf(P, n)
      BY DEF EdgesOK
    <2>. QED BY <1>5, <1>8, <1>9, <1>10, <2>1
  <1>12. ASSUME Len(new.list) < MaxGraphEdges PROVE KeysOf(P, n + 1) \subseteq new.ids
    <2>1. length = Len(longer) /\ Len(view.list) < MaxGraphEdges
      BY <1>5, <1>6, <1>7, <1>8, <1>12
    <2>2. KeysOf(P, n) \subseteq view.ids
      BY <2>1 DEF EdgesOK
    <2>. QED BY <1>5, <1>8, <1>9, <1>10, <2>1, <2>2
  <1>13. new.list \in Seq(new.ids)
    BY <1>8, <1>9, RangeIs
  <1>14. EdgesOK(P, new, n + 1)
    BY <1>7, <1>8, <1>9, <1>11, <1>12, <1>13 DEF EdgesOK
  <1>. QED BY <1>14 DEF new

-----------------------------------------------------------------------------
(* What the page shows, for any limits: the lists are those of the events  *)
(* that are rendered, and the updates lead from there to all of them.      *)

(* No clear of the alerts after the first n updates.                       *)
Settled(U, n) == \A i \in n + 1 .. Len(U) : U[i] # Clearing

(* Of the events P, the first g[n] are those before and in the n first of  *)
(* the updates U, and c of them were there when the alerts were cleared.   *)
Placed(g, P, U, c) ==
    /\ g \in [0 .. Len(U) -> 0 .. Len(P)]
    /\ g[Len(U)] = Len(P)
    /\ \A n \in 1 .. Len(U) : IF U[n] = Clearing THEN g[n] = g[n - 1]
                              ELSE g[n] = g[n - 1] + 1 /\ U[n] = P[g[n]]
    /\ \A n \in 0 .. Len(U) : Settled(U, n) => c <= g[n]
    /\ \A n \in 1 .. Len(U) : U[n] = Clearing /\ Settled(U, n) => g[n] = c

(* Unless the alerts were cleared with one on its way (r), none was.       *)
NoneOnItsWay(U, r) ==
    ~r => \A i \in 1 .. Len(U) : ~Settled(U, i) /\ U[i] # Clearing => ~U[i].flagged

FlaggedIn(P, lo, hi) == {i \in lo .. hi : P[i].flagged}

(* The alerts after n updates, which are k events: those since the clear,  *)
(* or, before it, anything, and nothing in the ref.                        *)
AlertsOK(P, U, c, r, n, k, view) ==
    /\ view \in Views
    /\ Settled(U, n) => ViewOK(P, view, FlaggedIn(P, c + 1, k), ~r)
    /\ ~Settled(U, n) /\ ~r => view.ids = {}

PageOK(P, U, c, r, n, k, views) ==
    /\ views.transactions \in Views /\ ViewOK(P, views.transactions, 1 .. k, TRUE)
    /\ views.graphNodes = views.transactions
    /\ AlertsOK(P, U, c, r, n, k, views.alerts)
    /\ EdgesOK(P, views.graphEdges, k)

Page == [transactions |-> transactions, alerts |-> alerts,
         graphNodes |-> graphNodes, graphEdges |-> graphEdges]

ListTypesOK(P, U, c, r) ==
    /\ P \in Seq(Items) /\ Rises(P)
    /\ U \in Seq(Items \cup {Clearing})
    /\ c \in 0 .. Len(P)
    /\ r \in BOOLEAN
    /\ NoneOnItsWay(U, r)

ListsInv ==
    /\ ListTypesOK(presented, updates, cleared, raced)
    /\ \E g : /\ Placed(g, presented, updates, cleared)
              /\ PageOK(presented, updates, cleared, raced, 0, g[0], Page)

-----------------------------------------------------------------------------
(* A render                                                                *)

(* Without alerts, and where nothing is shown yet.                         *)
LEMMA NothingShown ==
    ASSUME NEW P, NEW ids, NEW exact, exact => ids = {}
    PROVE  ViewOK(P, [list |-> <<>>, ids |-> ids], {}, exact)
  <1>1. Len(<<>>) = 0 /\ 1 .. 0 = {} /\ TxsIn(<<>>) = {} /\ LatestIn(P, {}) = {}
    BY NoElements DEF TxsIn, LatestIn
  <1>2. Shows(P, <<>>, {}, MaxVisible)
    BY <1>1 DEF Shows
  <1>. DEFINE view == [list |-> <<>>, ids |-> ids]
  <1>3. view.list = <<>> /\ view.ids = ids
    OBVIOUS
  <1>. HIDE DEF view
  <1>4. ViewOK(P, view, {}, exact)
    <2>1. Shows(P, view.list, LatestIn(P, {}), MaxVisible)
      BY <1>1, <1>2, <1>3
    <2>2. TxsIn(view.list) = {} /\ Len(view.list) <= MaxVisible
      BY <1>1, <1>3, VisibleLimit
    <2>3. exact => view.ids = {}
      BY <1>3
    <2>. QED BY <2>1, <2>2, <2>3, Zenon DEF ViewOK
  <1>. QED BY <1>4 DEF view

LEMMA SettledNext ==
    ASSUME NEW U, Len(U) \in Nat, NEW n \in Nat, n + 1 \in 1 .. Len(U)
    PROVE  Settled(U, n) <=> U[n + 1] # Clearing /\ Settled(U, n + 1)
  <1>1. n + 1 .. Len(U) = {n + 1} \cup (n + 1 + 1 .. Len(U))
    OBVIOUS
  <1>. QED BY <1>1 DEF Settled

(* The alerts, from one update to the next.                                *)
LEMMA AlertedShows ==
    ASSUME NEW P, NEW U, NEW c, NEW r, ListTypesOK(P, U, c, r), NEW g, Placed(g, P, U, c),
           NEW n \in Nat, n + 1 \in 1 .. Len(U), NEW view, AlertsOK(P, U, c, r, n, g[n], view)
    PROVE  AlertsOK(P, U, c, r, n + 1, g[n + 1], Alerted(view, U[n + 1]))
  <1>. DEFINE u   == U[n + 1]
              new == Alerted(view, u)
              k   == g[n]
              k1  == g[n + 1]
  <1>1. /\ P \in Seq(Items) /\ Rises(P) /\ Len(P) \in Nat /\ Len(U) \in Nat
        /\ c \in Nat /\ c <= Len(P) /\ r \in BOOLEAN
        /\ u \in Items \cup {Clearing}
    BY Elements DEF ListTypesOK
  <1>a. AlertsOK(P, U, c, r, n, k, view) /\ new = Alerted(view, u)
    OBVIOUS
  <1>b. u = Clearing => k1 = k
    <2>1. (n + 1) - 1 = n
      OBVIOUS
    <2>. QED BY <2>1 DEF Placed
  <1>c. u # Clearing => k1 = k + 1 /\ u = P[k1]
    <2>1. (n + 1) - 1 = n
      OBVIOUS
    <2>. QED BY <2>1 DEF Placed
  <1>d. /\ u = Clearing /\ Settled(U, n + 1) => k1 = c
        /\ Settled(U, n) => c <= k
    <2>1. n \in 0 .. Len(U)
      BY <1>1
    <2>. QED BY <2>1 DEF Placed
  <1>e. ~r /\ ~Settled(U, n + 1) /\ u # Clearing => ~u.flagged
    BY DEF ListTypesOK, NoneOnItsWay
  <1>2. Settled(U, n) <=> u # Clearing /\ Settled(U, n + 1)
    BY <1>1, SettledNext
  <1>3. /\ n \in 0 .. Len(U) /\ (n + 1) - 1 = n
        /\ k \in 0 .. Len(P) /\ k1 \in 0 .. Len(P)
    <2>1. n \in 0 .. Len(U) /\ n + 1 \in 0 .. Len(U) /\ (n + 1) - 1 = n
      BY <1>1
    <2>. QED BY <2>1 DEF Placed
  <1>4. view \in Views
    BY DEF AlertsOK
  <1>. SUFFICES AlertsOK(P, U, c, r, n + 1, k1, new)
    OBVIOUS
  <1>. HIDE DEF u, new, k, k1
  <1>5. CASE u = Clearing
    <2>1. new = [view EXCEPT !.list = <<>>]
      BY <1>a, <1>5 DEF Alerted
    <2>2. new = [list |-> <<>>, ids |-> view.ids]
      BY <1>4, <2>1, ViewFields, Zenon
    <2>3. new \in Views
      BY <1>4, <2>2, ViewFields, NoElements DEF Views
    <2>4. ~r => view.ids = {}
      BY <1>2, <1>5, <1>a DEF AlertsOK
    <2>5. ASSUME Settled(U, n + 1)
          PROVE  ViewOK(P, new, FlaggedIn(P, c + 1, k1), ~r)
      <3>1. k1 = c
        BY <1>5, <2>5, <1>d
      <3>2. c + 1 .. c = {}
        BY <1>1
      <3>3. FlaggedIn(P, c + 1, k1) = {}
        BY <3>1, <3>2 DEF FlaggedIn
      <3>4. ViewOK(P, [list |-> <<>>, ids |-> view.ids], {}, ~r)
        BY <2>4, NothingShown
      <3>. QED BY <2>2, <3>3, <3>4
    <2>6. new.ids = view.ids
      BY <2>2
    <2>. QED BY <2>3, <2>4, <2>5, <2>6 DEF AlertsOK
  <1>6. CASE u # Clearing
    <2>1. u \in Items /\ k1 = k + 1 /\ u = P[k + 1] /\ k + 1 \in 1 .. Len(P)
      BY <1>1, <1>3, <1>6, <1>c
    <2>2. Settled(U, n) <=> Settled(U, n + 1)
      BY <1>2, <1>6
    <2>3. ASSUME Settled(U, n)
          PROVE  /\ c + 1 .. k + 1 = (c + 1 .. k) \cup {k + 1}
                 /\ ViewOK(P, view, FlaggedIn(P, c + 1, k), ~r)
      <3>1. c <= k
        BY <2>3, <1>d
      <3>2. c + 1 .. k + 1 = (c + 1 .. k) \cup {k + 1}
        BY <1>1, <1>3, <3>1
      <3>. QED BY <2>3, <3>2, <1>a DEF AlertsOK
    <2>4. CASE u.flagged
      <3>1. new = Listed(view, u, MaxVisible)
        BY <1>a, <1>6, <2>4 DEF Alerted
      <3>2. new \in Views
        BY <1>4, <2>1, <3>1, ListedIs
      <3>3. ASSUME Settled(U, n + 1)
            PROVE  ViewOK(P, new, FlaggedIn(P, c + 1, k + 1), ~r)
        <4>. DEFINE S == FlaggedIn(P, c + 1, k)
        <4>1. FlaggedIn(P, c + 1, k + 1) = S \cup {k + 1}
          <5>1. P[k + 1].flagged
            BY <2>1, <2>4
          <5>. QED BY <2>2, <2>3, <3>3, <5>1 DEF FlaggedIn
        <4>2. S \subseteq 1 .. Len(P) /\ \A i \in S : i < k + 1
          BY <1>1, <1>3 DEF FlaggedIn
        <4>3. ViewOK(P, view, S, ~r)
          BY <2>2, <2>3, <3>3
        <4>. HIDE DEF S
        <4>4. ViewOK(P, Listed(view, P[k + 1], MaxVisible), S \cup {k + 1}, ~r)
          BY <1>1, <1>4, <2>1, <4>2, <4>3, ListedShows
        <4>. QED BY <2>1, <3>1, <4>1, <4>4
      <3>4. Settled(U, n + 1) \/ r
        BY <1>1, <1>6, <1>e, <2>4
      <3>. QED BY <2>1, <3>2, <3>3, <3>4 DEF AlertsOK
    <2>5. CASE ~u.flagged
      <3>1. new = view
        BY <1>a, <1>6, <2>5 DEF Alerted
      <3>2. ASSUME Settled(U, n + 1)
            PROVE  FlaggedIn(P, c + 1, k + 1) = FlaggedIn(P, c + 1, k)
        <4>1. ~P[k + 1].flagged
          BY <2>1, <2>5
        <4>. QED BY <2>2, <2>3, <3>2, <4>1 DEF FlaggedIn
      <3>3. ~Settled(U, n) /\ ~r => view.ids = {}
        BY <1>a DEF AlertsOK
      <3>. QED BY <1>4, <2>1, <2>2, <2>3, <3>1, <3>2, <3>3 DEF AlertsOK
    <2>. QED BY <2>4, <2>5
  <1>. QED BY <1>5, <1>6

(* All lists, from one update to the next.                                 *)
LEMMA UpdatedShows ==
    ASSUME NEW P, NEW U, NEW c, NEW r, ListTypesOK(P, U, c, r), NEW g, Placed(g, P, U, c),
           NEW n \in Nat, n + 1 \in 1 .. Len(U), NEW views, PageOK(P, U, c, r, n, g[n], views)
    PROVE  PageOK(P, U, c, r, n + 1, g[n + 1], Updated(views, U[n + 1]))
  <1>. DEFINE u   == U[n + 1]
              new == Updated(views, u)
              k   == g[n]
              k1  == g[n + 1]
  <1>0. /\ new.transactions = IF u = Clearing THEN views.transactions
                              ELSE Listed(views.transactions, u, MaxVisible)
        /\ new.alerts = Alerted(views.alerts, u)
        /\ new.graphNodes = IF u = Clearing THEN views.graphNodes
                            ELSE Listed(views.graphNodes, u, MaxVisible)
        /\ new.graphEdges = IF u = Clearing THEN views.graphEdges
                            ELSE Linked(views.graphEdges, u)
    BY DEF Updated
  <1>a. u = Clearing => k1 = k
    <2>1. (n + 1) - 1 = n
      OBVIOUS
    <2>. QED BY <2>1 DEF Placed
  <1>b. u # Clearing => k1 = k + 1 /\ u = P[k1]
    <2>1. (n + 1) - 1 = n
      OBVIOUS
    <2>. QED BY <2>1 DEF Placed
  <1>c. PageOK(P, U, c, r, n, k, views)
    OBVIOUS
  <1>. HIDE DEF new
  <1>1. /\ P \in Seq(Items) /\ Rises(P) /\ Len(P) \in Nat /\ Len(U) \in Nat
        /\ u \in Items \cup {Clearing}
    BY Elements DEF ListTypesOK
  <1>2. n \in 0 .. Len(U) /\ (n + 1) - 1 = n /\ k \in 0 .. Len(P) /\ k1 \in 0 .. Len(P)
    <2>1. n \in 0 .. Len(U) /\ n + 1 \in 0 .. Len(U) /\ (n + 1) - 1 = n
      BY <1>1
    <2>. QED BY <2>1 DEF Placed
  <1>3. AlertsOK(P, U, c, r, n + 1, k1, new.alerts)
    BY <1>0, AlertedShows DEF PageOK
  <1>. SUFFICES PageOK(P, U, c, r, n + 1, k1, new)
    BY DEF new
  <1>. HIDE DEF u, k, k1
  <1>4. CASE u = Clearing
    <2>1. k1 = k
      BY <1>4, <1>a
    <2>. QED BY <1>0, <1>3, <1>4, <1>c, <2>1 DEF PageOK
  <1>5. CASE u # Clearing
    <2>1. u \in Items /\ k1 = k + 1 /\ u = P[k + 1] /\ k + 1 \in 1 .. Len(P)
      BY <1>1, <1>2, <1>5, <1>b
    <2>2. views.transactions \in Views /\ ViewOK(P, views.transactions, 1 .. k, TRUE)
      BY <1>c DEF PageOK
    <2>3. new.transactions \in Views
      <3>1. Listed(views.transactions, u, MaxVisible) \in Views
        BY <2>1, <2>2, ListedIs
      <3>. QED BY <1>0, <1>5, <3>1
    <2>4. ViewOK(P, new.transactions, 1 .. k + 1, TRUE)
      <3>1. 1 .. k + 1 = (1 .. k) \cup {k + 1}
        BY <1>2
      <3>2. (1 .. k) \subseteq 1 .. Len(P) /\ \A i \in 1 .. k : i < k + 1
        BY <1>1, <1>2
      <3>3. ViewOK(P, Listed(views.transactions, P[k + 1], MaxVisible), (1 .. k) \cup {k + 1}, TRUE)
        <4>. DEFINE S == 1 .. k
        <4>1. S \subseteq 1 .. Len(P) /\ \A i \in S : i < k + 1
          BY <3>2
        <4>. HIDE DEF S
        <4>2. ViewOK(P, views.transactions, S, TRUE)
          BY <2>2 DEF S
        <4>3. ViewOK(P, Listed(views.transactions, P[k + 1], MaxVisible), S \cup {k + 1}, TRUE)
          BY <1>1, <2>1, <2>2, <4>1, <4>2, ListedShows
        <4>. QED BY <4>3 DEF S
      <3>. QED BY <1>0, <1>5, <2>1, <3>1, <3>3
    <2>5. EdgesOK(P, new.graphEdges, k + 1)
      <3>1. EdgesOK(P, views.graphEdges, k) /\ k \in Nat
        BY <1>2, <1>c DEF PageOK
      <3>2. EdgesOK(P, Linked(views.graphEdges, P[k + 1]), k + 1)
        BY <1>1, <2>1, <3>1, LinkedShows
      <3>. QED BY <1>0, <1>5, <2>1, <3>2
    <2>6. new.graphNodes = new.transactions
      BY <1>0, <1>c DEF PageOK
    <2>. QED BY <1>3, <2>1, <2>3, <2>4, <2>5, <2>6 DEF PageOK
  <1>. QED BY <1>4, <1>5

(* Rendered is the function it says it is.                                 *)
IsMade(h, N, U, base) ==
    h = [n \in 0 .. N |-> IF n = 0 THEN {base} ELSE {Updated(views, U[n]) : views \in h[n - 1]}]

LEMMA MadeSteps ==
    ASSUME NEW h, NEW N \in Nat, NEW U, NEW base, IsMade(h, N, U, base)
    PROVE  /\ h[0] = {base}
           /\ \A n \in 1 .. N : h[n] = {Updated(views, U[n]) : views \in h[n - 1]}
  <1>1. h = [n \in 0 .. N |-> IF n = 0 THEN {base}
                              ELSE {Updated(views, U[n]) : views \in h[n - 1]}]
    BY DEF IsMade
  <1>2. \A n \in 0 .. N : h[n] = IF n = 0 THEN {base}
                                 ELSE {Updated(views, U[n]) : views \in h[n - 1]}
    BY <1>1, Zenon
  <1>3. 0 \in 0 .. N /\ \A n \in 1 .. N : n \in 0 .. N /\ n # 0
    OBVIOUS
  <1>. QED BY <1>2, <1>3

LEMMA MadeExists ==
    ASSUME NEW U, NEW base
    PROVE  \A N \in Nat : \E h : IsMade(h, N, U, base)
  <1>. DEFINE T == {N \in Nat : \E h : IsMade(h, N, U, base)}
              Next1(S, n) == {Updated(views, U[n]) : views \in S}
  <1>1. 0 \in T
    <2>1. IsMade([n \in 0 .. 0 |-> {base}], 0, U, base)
      BY DEF IsMade
    <2>. QED BY <2>1
  <1>2. ASSUME NEW N \in Nat, N \in T PROVE N + 1 \in T
    <2>1. PICK h : IsMade(h, N, U, base)
      BY <1>2
    <2>2. h[0] = {base} /\ \A n \in 1 .. N : h[n] = Next1(h[n - 1], n)
      BY <2>1, MadeSteps
    <2>. DEFINE k == [n \in 0 .. N + 1 |-> IF n <= N THEN h[n] ELSE Next1(h[N], N + 1)]
    <2>. HIDE DEF Next1
    <2>3. ASSUME NEW n \in 0 .. N + 1
          PROVE  k[n] = IF n = 0 THEN {base} ELSE Next1(k[n - 1], n)
      <3>1. CASE n = 0
        <4>1. k[0] = h[0]
          OBVIOUS
        <4>. QED BY <2>2, <3>1, <4>1
      <3>2. CASE n \in 1 .. N
        <4>1. k[n] = h[n] /\ k[n - 1] = h[n - 1] /\ n # 0
          BY <3>2
        <4>. HIDE DEF k
        <4>. QED BY <2>2, <3>2, <4>1
      <3>3. CASE n = N + 1
        <4>1. k[n] = Next1(h[N], N + 1) /\ k[n - 1] = h[N] /\ n # 0
          BY <3>3
        <4>. HIDE DEF k
        <4>. QED BY <3>3, <4>1
      <3>. QED BY <3>1, <3>2, <3>3
    <2>4. k = [n \in 0 .. N + 1 |-> k[n]]
      OBVIOUS
    <2>. HIDE DEF k
    <2>5. k = [n \in 0 .. N + 1 |-> IF n = 0 THEN {base} ELSE Next1(k[n - 1], n)]
      BY <2>3, <2>4
    <2>6. IsMade(k, N + 1, U, base)
      BY <2>5 DEF IsMade, Next1
    <2>. QED BY <2>6
  <1>. HIDE DEF T
  <1>3. \A N \in Nat : N \in T
    BY <1>1, <1>2, NumbersByInduction
  <1>. QED BY <1>3 DEF T

LEMMA RenderedShows ==
    ASSUME ListTypesOK(presented, updates, cleared, raced),
           NEW g, Placed(g, presented, updates, cleared),
           PageOK(presented, updates, cleared, raced, 0, g[0], Page)
    PROVE  \A views \in Rendered :
               PageOK(presented, updates, cleared, raced, Len(updates), g[Len(updates)], views)
  <1>. DEFINE N == Len(updates)
              OK(n, views) == PageOK(presented, updates, cleared, raced, n, g[n], views)
              made == CHOOSE h : IsMade(h, N, updates, Page)
              T == {n \in Nat : n <= N => \A views \in made[n] : OK(n, views)}
  <1>1. N \in Nat
    BY Elements DEF ListTypesOK
  <1>2. IsMade(made, N, updates, Page)
    BY <1>1, MadeExists
  <1>3. Rendered = made[N]
    BY DEF Rendered, IsMade, Page
  <1>. HIDE DEF made
  <1>4. /\ made[0] = {Page}
        /\ \A n \in 1 .. N : made[n] = {Updated(views, updates[n]) : views \in made[n - 1]}
    BY <1>1, <1>2, MadeSteps
  <1>5. 0 \in T
    BY <1>4
  <1>6. ASSUME NEW n \in Nat, n \in T PROVE n + 1 \in T
    <2>. SUFFICES ASSUME n + 1 <= N, NEW new \in made[n + 1] PROVE OK(n + 1, new)
      OBVIOUS
    <2>1. n + 1 \in 1 .. N /\ (n + 1) - 1 = n /\ n <= N
      BY <1>1
    <2>2. PICK views \in made[n] : new = Updated(views, updates[n + 1])
      BY <1>4, <2>1
    <2>3. OK(n, views)
      BY <1>6, <2>1
    <2>4. OK(n + 1, Updated(views, updates[n + 1]))
      BY <2>1, <2>3, UpdatedShows
    <2>. QED BY <2>2, <2>4
  <1>. HIDE DEF OK, T
  <1>7. \A n \in Nat : n \in T
    BY <1>5, <1>6, NumbersByInduction
  <1>8. \A views \in made[N] : OK(N, views)
    BY <1>1, <1>7 DEF T
  <1>. QED BY <1>3, <1>8 DEF OK

LEMMA RenderLists ==
    ASSUME ListsInv, Render
    PROVE  ListsInv'
  <1>1. PICK g : /\ Placed(g, presented, updates, cleared)
                 /\ PageOK(presented, updates, cleared, raced, 0, g[0], Page)
    BY DEF ListsInv
  <1>2. ListTypesOK(presented, updates, cleared, raced)
    BY DEF ListsInv
  <1>3. /\ updates' = <<>>
        /\ presented' = presented /\ cleared' = cleared /\ raced' = raced
    BY DEF Render, history
  <1>4. PICK views \in Rendered : /\ transactions' = views.transactions
                                  /\ alerts' = views.alerts
                                  /\ graphNodes' = views.graphNodes
                                  /\ graphEdges' = views.graphEdges
    BY DEF Render
  <1>. DEFINE P == presented
              N == Len(updates)
              n == Len(P)
              h == [i \in 0 .. 0 |-> n]
  <1>5. /\ N \in Nat /\ n \in Nat /\ P \in Seq(Items)
        /\ cleared \in 0 .. n /\ g[N] = n
    BY <1>1, <1>2, Elements DEF ListTypesOK, Placed
  <1>6. PageOK(P, updates, cleared, raced, N, n, views)
    <2>1. PageOK(P, updates, cleared, raced, N, g[N], views)
      BY <1>1, <1>2, <1>4, RenderedShows
    <2>. QED BY <1>5, <2>1
  <1>7. Len(<<>>) = 0 /\ 1 .. 0 = {} /\ Settled(<<>>, 0) /\ <<>> \in Seq(Items \cup {Clearing})
    BY NoElements DEF Settled
  <1>8. ListTypesOK(P, <<>>, cleared, raced)
    BY <1>2, <1>7 DEF ListTypesOK, NoneOnItsWay
  <1>9. Placed(h, P, <<>>, cleared)
    <2>1. h[0] = n
      OBVIOUS
    <2>2. h \in [0 .. 0 -> 0 .. n]
      BY <1>5
    <2>3. \A i \in 0 .. 0 : i = 0
      OBVIOUS
    <2>4. cleared <= n
      BY <1>5
    <2>. HIDE DEF h
    <2>. QED BY <1>5, <1>7, <2>1, <2>2, <2>3, <2>4 DEF Placed
  <1>10. Settled(updates, N)
    <2>1. N + 1 .. N = {}
      BY <1>5
    <2>. QED BY <2>1 DEF Settled
  <1>11. Page' = [transactions |-> views.transactions, alerts |-> views.alerts,
                  graphNodes |-> views.graphNodes, graphEdges |-> views.graphEdges]
    BY <1>4 DEF Page
  <1>12. PageOK(P, <<>>, cleared, raced, 0, n, Page')
    <2>1. /\ Page'.transactions = views.transactions
          /\ Page'.alerts = views.alerts
          /\ Page'.graphNodes = views.graphNodes
          /\ Page'.graphEdges = views.graphEdges
      BY <1>11
    <2>2. AlertsOK(P, <<>>, cleared, raced, 0, n, views.alerts)
      BY <1>6, <1>7, <1>10 DEF PageOK, AlertsOK
    <2>. QED BY <1>6, <2>1, <2>2 DEF PageOK
  <1>13. h[0] = n
    OBVIOUS
  <1>. HIDE DEF h
  <1>14. ListTypesOK(presented', updates', cleared', raced')
    BY <1>3, <1>8
  <1>15. Placed(h, presented', updates', cleared')
    BY <1>3, <1>9
  <1>16. PageOK(presented', updates', cleared', raced', 0, h[0], Page')
    BY <1>3, <1>12, <1>13
  <1>. QED BY <1>14, <1>15, <1>16 DEF ListsInv

-----------------------------------------------------------------------------
(* Events and clears that wait for a render                                *)

(* What is shown of some events does not depend on later ones.             *)
LEMMA SameShows ==
    ASSUME NEW P, NEW Q, NEW S, \A i \in S : Q[i] = P[i], NEW view, NEW exact,
           ViewOK(P, view, S, exact)
    PROVE  ViewOK(Q, view, S, exact)
  <1>1. LatestIn(Q, S) = LatestIn(P, S)
    BY DEF LatestIn
  <1>2. \A i \in LatestIn(P, S) : Q[i] = P[i]
    BY DEF LatestIn
  <1>3. Shows(P, view.list, LatestIn(P, S), MaxVisible)
    BY DEF ViewOK
  <1>4. Shows(Q, view.list, LatestIn(P, S), MaxVisible)
    <2>. DEFINE L == LatestIn(P, S)
    <2>. HIDE DEF L
    <2>. QED BY <1>2, <1>3 DEF Shows, L
  <1>. QED BY <1>1, <1>4 DEF ViewOK

LEMMA SettledMore ==
    ASSUME NEW U \in Seq(Items \cup {Clearing}), NEW u \in Items \cup {Clearing}
    PROVE  /\ Len(Append(U, u)) = Len(U) + 1 /\ Len(U) \in Nat
           /\ Append(U, u) \in Seq(Items \cup {Clearing})
           /\ \A i \in 1 .. Len(U) : Append(U, u)[i] = U[i]
           /\ Append(U, u)[Len(U) + 1] = u
           /\ \A n \in 0 .. Len(U) : Settled(Append(U, u), n) <=> Settled(U, n) /\ u # Clearing
           /\ Settled(Append(U, u), Len(U) + 1)
  <1>. DEFINE V == Append(U, u)
  <1>1. /\ Len(V) = Len(U) + 1 /\ Len(U) \in Nat
        /\ V \in Seq(Items \cup {Clearing})
        /\ \A i \in 1 .. Len(U) : V[i] = U[i]
        /\ V[Len(U) + 1] = u
    BY AppendProperties
  <1>. HIDE DEF V
  <1>2. ASSUME NEW n \in 0 .. Len(U)
        PROVE  Settled(V, n) <=> Settled(U, n) /\ u # Clearing
    <2>1. n + 1 .. Len(V) = (n + 1 .. Len(U)) \cup {Len(U) + 1}
      BY <1>1
    <2>2. \A i \in n + 1 .. Len(U) : V[i] = U[i]
      BY <1>1
    <2>. QED BY <1>1, <2>1, <2>2 DEF Settled
  <1>3. Settled(V, Len(U) + 1)
    <2>1. Len(U) + 1 + 1 .. Len(V) = {}
      BY <1>1
    <2>. QED BY <2>1 DEF Settled
  <1>. QED BY <1>1, <1>2, <1>3 DEF V

(* V has one more update than U: an event, which is the last of Q, or a    *)
(* clear of what there is.                                                 *)
OneMore(P, U, c, u, Q, V, d) ==
    /\ P \in Seq(Items) /\ Q \in Seq(Items)
    /\ U \in Seq(Items \cup {Clearing}) /\ u \in Items \cup {Clearing} /\ V = Append(U, u)
    /\ c \in 0 .. Len(P)
    /\ \A i \in 1 .. Len(P) : Q[i] = P[i]
    /\ u = Clearing => Len(Q) = Len(P) /\ d = Len(P)
    /\ u # Clearing => Len(Q) = Len(P) + 1 /\ u = Q[Len(Q)] /\ d = c

LEMMA PlacedMore ==
    ASSUME NEW P, NEW U, NEW c, NEW u, NEW Q, NEW V, NEW d, NEW g,
           Placed(g, P, U, c), OneMore(P, U, c, u, Q, V, d)
    PROVE  \E h : Placed(h, Q, V, d) /\ h[0] = g[0] /\ g[0] \in 0 .. Len(P)
  <1>. DEFINE N == Len(U)
              h == [i \in 0 .. N + 1 |-> IF i <= N THEN g[i] ELSE Len(Q)]
  <1>0. /\ P \in Seq(Items) /\ Q \in Seq(Items)
        /\ U \in Seq(Items \cup {Clearing}) /\ u \in Items \cup {Clearing} /\ V = Append(U, u)
        /\ c \in 0 .. Len(P)
    BY DEF OneMore
  <1>1. /\ Len(V) = N + 1 /\ N \in Nat
        /\ \A i \in 1 .. N : V[i] = U[i]
        /\ V[N + 1] = u
        /\ \A n \in 0 .. N : Settled(V, n) <=> Settled(U, n) /\ u # Clearing
        /\ Settled(V, N + 1)
    BY <1>0, SettledMore
  <1>a. /\ \A i \in 1 .. Len(P) : Q[i] = P[i]
        /\ u = Clearing => Len(Q) = Len(P) /\ d = Len(P)
        /\ u # Clearing => Len(Q) = Len(P) + 1 /\ u = Q[Len(Q)] /\ d = c
    BY DEF OneMore
  <1>2. Len(P) \in Nat /\ Len(Q) \in Nat /\ Len(P) <= Len(Q) /\ c \in Nat
    <2>1. Len(P) \in Nat /\ Len(Q) \in Nat
      BY <1>0, Elements
    <2>. QED BY <1>0, <1>a, <2>1
  <1>3. g[N] = Len(P) /\ \A i \in 0 .. N : g[i] \in 0 .. Len(P)
    BY DEF Placed
  <1>4. h \in [0 .. N + 1 -> 0 .. Len(Q)]
    BY <1>1, <1>2, <1>3
  <1>5. (\A i \in 0 .. N : h[i] = g[i]) /\ h[N + 1] = Len(Q)
    BY <1>1
  <1>. HIDE DEF h
  <1>6. ASSUME NEW n \in 1 .. N + 1
        PROVE  IF V[n] = Clearing THEN h[n] = h[n - 1]
               ELSE h[n] = h[n - 1] + 1 /\ V[n] = Q[h[n]]
    <2>1. CASE n \in 1 .. N
      <3>1. h[n] = g[n] /\ h[n - 1] = g[n - 1] /\ V[n] = U[n] /\ g[n] \in 0 .. Len(P)
            /\ g[n - 1] \in 0 .. Len(P)
        <4>1. n \in 0 .. N /\ n - 1 \in 0 .. N
          BY <1>1, <2>1
        <4>. QED BY <1>1, <1>3, <1>5, <2>1, <4>1
      <3>2. IF U[n] = Clearing THEN g[n] = g[n - 1] ELSE g[n] = g[n - 1] + 1 /\ U[n] = P[g[n]]
        BY <2>1 DEF Placed
      <3>3. g[n] = g[n - 1] + 1 => g[n] \in 1 .. Len(P)
        BY <3>1
      <3>. QED BY <1>a, <3>1, <3>2, <3>3
    <2>2. CASE n = N + 1
      <3>1. n - 1 = N /\ h[N] = Len(P) /\ h[n] = Len(Q) /\ V[n] = u
        BY <1>1, <1>3, <1>5, <2>2
      <3>. QED BY <1>a, <3>1
    <2>. QED BY <1>1, <2>1, <2>2
  <1>7. ASSUME NEW n \in 0 .. N + 1, Settled(V, n) PROVE d <= h[n]
    <2>1. CASE n \in 0 .. N
      <3>1. Settled(U, n) /\ u # Clearing
        BY <1>1, <1>7, <2>1
      <3>2. c <= g[n]
        BY <2>1, <3>1 DEF Placed
      <3>. QED BY <1>a, <1>5, <2>1, <3>1, <3>2
    <2>2. CASE n = N + 1
      <3>1. d <= Len(Q)
        BY <1>0, <1>2, <1>a
      <3>. QED BY <1>5, <2>2, <3>1
    <2>. QED BY <1>1, <2>1, <2>2
  <1>8. ASSUME NEW n \in 1 .. N + 1, V[n] = Clearing, Settled(V, n) PROVE h[n] = d
    <2>1. CASE n \in 1 .. N
      <3>0. n \in 0 .. N
        BY <1>1, <2>1
      <3>1. Settled(U, n) /\ u # Clearing /\ U[n] = Clearing
        BY <1>1, <1>8, <2>1, <3>0
      <3>2. g[n] = c
        BY <2>1, <3>1 DEF Placed
      <3>. QED BY <1>a, <1>5, <3>0, <3>1, <3>2
    <2>2. CASE n = N + 1
      <3>1. u = Clearing
        BY <1>1, <1>8, <2>2
      <3>. QED BY <1>a, <1>5, <2>2, <3>1
    <2>. QED BY <1>1, <2>1, <2>2
  <1>9. Placed(h, Q, V, d)
    BY <1>1, <1>4, <1>5, <1>6, <1>7, <1>8 DEF Placed
  <1>10. h[0] = g[0] /\ g[0] \in 0 .. Len(P)
    <2>1. 0 \in 0 .. N
      BY <1>1
    <2>. QED BY <1>3, <1>5, <2>1
  <1>. QED BY <1>9, <1>10

(* The page that is shown is not changed by what waits.                    *)
LEMMA ShownStays ==
    ASSUME NEW P \in Seq(Items), NEW Q, \A i \in 1 .. Len(P) : Q[i] = P[i], NEW k \in 0 .. Len(P),
           NEW U, NEW V, NEW c \in Nat, NEW r, NEW views, PageOK(P, U, c, r, 0, k, views),
           Settled(U, 0) <=> Settled(V, 0)
    PROVE  PageOK(Q, V, c, r, 0, k, views)
  <1>0. Len(P) \in Nat
    BY Elements
  <1>1. ViewOK(Q, views.transactions, 1 .. k, TRUE)
    <2>. DEFINE S == 1 .. k
    <2>1. \A i \in S : Q[i] = P[i]
      BY <1>0
    <2>. HIDE DEF S
    <2>2. ViewOK(P, views.transactions, S, TRUE)
      BY DEF PageOK, S
    <2>3. ViewOK(Q, views.transactions, S, TRUE)
      BY <2>1, <2>2, SameShows
    <2>. QED BY <2>3 DEF S
  <1>2. AlertsOK(Q, V, c, r, 0, k, views.alerts)
    <2>. DEFINE S == FlaggedIn(P, c + 1, k)
    <2>1. FlaggedIn(Q, c + 1, k) = S
      BY <1>0 DEF FlaggedIn
    <2>2. \A i \in S : Q[i] = P[i]
      BY <1>0 DEF FlaggedIn
    <2>. HIDE DEF S
    <2>3. AlertsOK(P, U, c, r, 0, k, views.alerts)
      BY DEF PageOK
    <2>4. ASSUME Settled(V, 0) PROVE ViewOK(Q, views.alerts, S, ~r)
      <3>1. ViewOK(P, views.alerts, S, ~r)
        BY <2>3, <2>4 DEF AlertsOK, S
      <3>. QED BY <2>2, <3>1, SameShows
    <2>. QED BY <2>1, <2>3, <2>4 DEF AlertsOK
  <1>3. EdgesOK(Q, views.graphEdges, k)
    <2>1. \A i \in 1 .. k : Q[i] = P[i]
      BY <1>0
    <2>2. KeysOf(Q, k) = KeysOf(P, k)
      BY <2>1 DEF KeysOf
    <2>3. EdgesOK(P, views.graphEdges, k)
      BY DEF PageOK
    <2>. QED BY <2>2, <2>3 DEF EdgesOK
  <1>. QED BY <1>1, <1>2, <1>3 DEF PageOK

LEMMA TickLists ==
    ASSUME BacklogInv, BacklogInv', ListsInv, Tick
    PROVE  ListsInv'
  <1>. DEFINE item == Item(pending[pendingHead + 1])
  <1>1. /\ presented' = Append(presented, item) /\ updates' = Append(updates, item)
        /\ cleared' = cleared /\ raced' = raced
        /\ UNCHANGED lists
    BY DEF Tick
  <1>. HIDE DEF item
  <1>2. PICK g : /\ Placed(g, presented, updates, cleared)
                 /\ PageOK(presented, updates, cleared, raced, 0, g[0], Page)
    BY DEF ListsInv
  <1>3. /\ presented \in Seq(Items) /\ updates \in Seq(Items \cup {Clearing})
        /\ cleared \in 0 .. Len(presented) /\ cleared \in Nat /\ raced \in BOOLEAN
        /\ NoneOnItsWay(updates, raced) /\ Len(presented) \in Nat
    BY Elements DEF ListsInv, ListTypesOK
  <1>4. presented' \in Seq(Items) /\ Rises(presented')
    <2>1. presented' \in Seq(Items)
      BY DEF BacklogInv, ListTypes
    <2>2. DOMAIN presented' = 1 .. Len(presented')
      BY <2>1, Elements
    <2>. QED BY <2>1, <2>2 DEF BacklogInv, PresentedBefore, Rises
  <1>5. /\ Len(presented') = Len(presented) + 1
        /\ \A i \in 1 .. Len(presented) : presented'[i] = presented[i]
        /\ item = presented'[Len(presented')]
        /\ item \in Items /\ item # Clearing
    <2>1. /\ Len(presented') = Len(presented) + 1
          /\ \A i \in 1 .. Len(presented) : presented'[i] = presented[i]
          /\ item = presented'[Len(presented) + 1]
      BY <1>1, <1>3
    <2>2. Len(presented') \in 1 .. Len(presented')
      BY <1>3, <2>1
    <2>3. item \in Items
      BY <1>4, <2>1, <2>2, Elements
    <2>. QED BY <2>1, <2>3, ItemFields
  <1>6. /\ Len(updates') = Len(updates) + 1 /\ Len(updates) \in Nat
        /\ updates' \in Seq(Items \cup {Clearing})
        /\ \A i \in 1 .. Len(updates) : updates'[i] = updates[i]
        /\ \A n \in 0 .. Len(updates) : Settled(updates', n) <=> Settled(updates, n)
        /\ Settled(updates', Len(updates) + 1)
    <2>. DEFINE U == updates
    <2>1. U \in Seq(Items \cup {Clearing}) /\ item \in Items \cup {Clearing}
      BY <1>3, <1>5
    <2>. HIDE DEF U
    <2>2. /\ Len(Append(U, item)) = Len(U) + 1 /\ Len(U) \in Nat
          /\ Append(U, item) \in Seq(Items \cup {Clearing})
          /\ \A i \in 1 .. Len(U) : Append(U, item)[i] = U[i]
          /\ \A n \in 0 .. Len(U) :
                Settled(Append(U, item), n) <=> Settled(U, n) /\ item # Clearing
          /\ Settled(Append(U, item), Len(U) + 1)
      BY <2>1, SettledMore
    <2>. QED BY <1>1, <1>5, <2>2 DEF U
  <1>7. PICK h : /\ Placed(h, presented', updates', cleared)
                 /\ h[0] = g[0] /\ g[0] \in 0 .. Len(presented)
    <2>2. item \in Items \cup {Clearing}
      BY <1>5
    <2>3. \E h : /\ Placed(h, presented', updates', cleared)
                 /\ h[0] = g[0] /\ g[0] \in 0 .. Len(presented)
      <3>1. OneMore(presented, updates, cleared, item, presented', updates', cleared)
        BY <1>1, <1>3, <1>4, <1>5, <2>2 DEF OneMore
      <3>. QED BY <1>2, <3>1, PlacedMore
    <2>. QED BY <2>3
  <1>8. NoneOnItsWay(updates', raced)
    <2>. SUFFICES ASSUME ~raced, NEW i \in 1 .. Len(updates'), ~Settled(updates', i),
                         updates'[i] # Clearing
                  PROVE  ~updates'[i].flagged
      BY DEF NoneOnItsWay
    <2>1. i \in 1 .. Len(updates) /\ i \in 0 .. Len(updates)
      BY <1>6
    <2>. QED BY <1>3, <1>6, <2>1 DEF NoneOnItsWay
  <1>9. ListTypesOK(presented', updates', cleared', raced')
    <2>1. cleared \in 0 .. Len(presented')
      BY <1>3, <1>5
    <2>. QED BY <1>1, <1>3, <1>4, <1>6, <1>8, <2>1 DEF ListTypesOK
  <1>10. Page' = Page
    BY <1>1 DEF Page, lists
  <1>11. Settled(updates, 0) <=> Settled(updates', 0)
    <2>1. 0 \in 0 .. Len(updates)
      BY <1>6
    <2>. QED BY <1>6, <2>1
  <1>12. PageOK(presented', updates', cleared, raced, 0, h[0], Page)
    BY <1>2, <1>3, <1>5, <1>7, <1>11, ShownStays
  <1>13. /\ Placed(h, presented', updates', cleared')
         /\ PageOK(presented', updates', cleared', raced', 0, h[0], Page')
    BY <1>1, <1>7, <1>10, <1>12
  <1>. QED BY <1>9, <1>13 DEF ListsInv

LEMMA ClearLists ==
    ASSUME ListsInv, ClearAlerts
    PROVE  ListsInv'
  <1>1. /\ presented' = presented /\ updates' = Append(updates, Clearing)
        /\ cleared' = Len(presented)
        /\ raced' = (raced \/ \E i \in DOMAIN updates : updates[i] # Clearing /\ updates[i].flagged)
        /\ alerts' = [alerts EXCEPT !.ids = {}]
        /\ transactions' = transactions /\ graphNodes' = graphNodes /\ graphEdges' = graphEdges
    BY DEF ClearAlerts
  <1>2. PICK g : /\ Placed(g, presented, updates, cleared)
                 /\ PageOK(presented, updates, cleared, raced, 0, g[0], Page)
    BY DEF ListsInv
  <1>3. /\ presented \in Seq(Items) /\ updates \in Seq(Items \cup {Clearing})
        /\ cleared \in 0 .. Len(presented) /\ raced \in BOOLEAN
        /\ NoneOnItsWay(updates, raced) /\ Len(presented) \in Nat /\ Rises(presented)
    BY Elements DEF ListsInv, ListTypesOK
  <1>4. /\ Len(updates') = Len(updates) + 1 /\ Len(updates) \in Nat
        /\ updates' \in Seq(Items \cup {Clearing})
        /\ \A i \in 1 .. Len(updates) : updates'[i] = updates[i]
        /\ updates'[Len(updates) + 1] = Clearing
        /\ \A n \in 0 .. Len(updates) : ~Settled(updates', n)
    BY <1>1, <1>3, SettledMore
  <1>5. PICK h : Placed(h, presented, updates', cleared') /\ h[0] = g[0]
    <2>2. Clearing \in Items \cup {Clearing}
      OBVIOUS
    <2>3. \E h : /\ Placed(h, presented, updates', cleared')
                 /\ h[0] = g[0] /\ g[0] \in 0 .. Len(presented)
      <3>1. OneMore(presented, updates, cleared, Clearing, presented, updates', cleared')
        BY <1>1, <1>3, <2>2 DEF OneMore
      <3>. QED BY <1>2, <3>1, PlacedMore
    <2>. QED BY <2>3
  <1>6. NoneOnItsWay(updates', raced')
    <2>. SUFFICES ASSUME ~raced', NEW i \in 1 .. Len(updates'), updates'[i] # Clearing
                  PROVE  ~updates'[i].flagged
      BY DEF NoneOnItsWay
    <2>1. i \in 1 .. Len(updates)
      BY <1>4
    <2>2. DOMAIN updates = 1 .. Len(updates)
      BY <1>3, Elements
    <2>. QED BY <1>1, <1>4, <2>1, <2>2
  <1>7. ListTypesOK(presented', updates', cleared', raced')
    <2>1. raced' \in BOOLEAN
      BY <1>1
    <2>2. cleared' \in 0 .. Len(presented)
      BY <1>1, <1>3
    <2>. QED BY <1>1, <1>3, <1>4, <1>6, <2>1, <2>2 DEF ListTypesOK
  <1>8. /\ Page'.transactions = Page.transactions /\ Page'.graphNodes = Page.graphNodes
        /\ Page'.graphEdges = Page.graphEdges /\ Page'.alerts = alerts' /\ Page.alerts = alerts
    BY <1>1 DEF Page
  <1>9. alerts' \in Views /\ alerts'.ids = {}
    <2>1. alerts \in Views
      BY <1>2, <1>8 DEF PageOK, AlertsOK
    <2>. QED BY <1>1, <2>1 DEF Views
  <1>10. ~Settled(updates', 0)
    <2>1. 0 \in 0 .. Len(updates)
      BY <1>4
    <2>. QED BY <1>4, <2>1
  <1>11. AlertsOK(presented, updates', cleared', raced', 0, g[0], alerts')
    BY <1>9, <1>10 DEF AlertsOK
  <1>12. PageOK(presented, updates', cleared', raced', 0, g[0], Page')
    BY <1>2, <1>8, <1>11 DEF PageOK
  <1>13. /\ Placed(h, presented', updates', cleared')
         /\ PageOK(presented', updates', cleared', raced', 0, h[0], Page')
    BY <1>1, <1>5, <1>12
  <1>. QED BY <1>7, <1>13 DEF ListsInv

LEMMA InitLists == Init => ListsInv
  <1>. SUFFICES ASSUME Init PROVE ListsInv
    OBVIOUS
  <1>1. /\ updates = <<>> /\ presented = <<>> /\ cleared = 0 /\ raced = FALSE
        /\ Page = [transactions |-> Empty, alerts |-> Empty, graphNodes |-> Empty,
                   graphEdges |-> Empty]
    BY DEF Init, Page
  <1>2. /\ <<>> \in Seq(Items) /\ <<>> \in Seq(Items \cup {Clearing}) /\ <<>> \in Seq({})
        /\ Len(<<>>) = 0 /\ 1 .. 0 = {} /\ 0 \in 0 .. 0 /\ Range(<<>>) = {}
    BY NoElements
  <1>3. ListTypesOK(<<>>, <<>>, 0, FALSE)
    BY <1>2 DEF ListTypesOK, Rises, NoneOnItsWay
  <1>. DEFINE g == [i \in 0 .. 0 |-> 0]
  <1>4. g[0] = 0 /\ g \in [0 .. 0 -> 0 .. 0] /\ \A i \in 0 .. 0 : i = 0
    OBVIOUS
  <1>. HIDE DEF g
  <1>5. Placed(g, <<>>, <<>>, 0)
    BY <1>2, <1>4 DEF Placed
  <1>6. Empty \in Views /\ Empty.list = <<>> /\ Empty.ids = {}
    BY <1>2 DEF Empty, Views
  <1>7. \A exact : ViewOK(<<>>, Empty, {}, exact)
    BY NothingShown DEF Empty
  <1>8. AlertsOK(<<>>, <<>>, 0, FALSE, 0, 0, Empty)
    <2>1. FlaggedIn(<<>>, 0 + 1, 0) = {}
      <3>1. 0 + 1 .. 0 = {}
        OBVIOUS
      <3>. QED BY <3>1 DEF FlaggedIn
    <2>. QED BY <1>6, <1>7, <2>1 DEF AlertsOK
  <1>9. EdgesOK(<<>>, Empty, 0)
    <2>1. KeysOf(<<>>, 0) = {}
      BY <1>2 DEF KeysOf
    <2>2. Once(<<>>)
      BY <1>2 DEF Once
    <2>3. 0 <= MaxGraphEdges
      BY LimitsAssumption
    <2>. QED BY <1>2, <1>6, <2>1, <2>2, <2>3 DEF EdgesOK
  <1>10. PageOK(<<>>, <<>>, 0, FALSE, 0, 0, Page)
    <2>1. /\ Page.transactions = Empty /\ Page.alerts = Empty
          /\ Page.graphNodes = Empty /\ Page.graphEdges = Empty
      BY <1>1
    <2>. QED BY <1>2, <1>6, <1>7, <1>8, <1>9, <2>1 DEF PageOK
  <1>. QED BY <1>1, <1>3, <1>4, <1>5, <1>10 DEF ListsInv

LEMMA NextLists == BacklogInv /\ BacklogInv' /\ ListsInv /\ [Next]_vars => ListsInv'
  <1>. SUFFICES ASSUME BacklogInv, BacklogInv', ListsInv, [Next]_vars PROVE ListsInv'
    OBVIOUS
  <1>1. CASE UNCHANGED <<updates, lists, history>>
    <2>1. /\ presented' = presented /\ updates' = updates /\ cleared' = cleared /\ raced' = raced
          /\ Page' = Page
      BY <1>1 DEF lists, history, Page
    <2>. QED BY <2>1 DEF ListsInv
  <1>2. CASE Tick
    BY <1>2, TickLists
  <1>3. CASE Render
    BY <1>3, RenderLists
  <1>4. CASE ClearAlerts
    BY <1>4, ClearLists
  <1>5. CASE (\E content \in Contents : Enqueue(content)) \/ SetPaused \/ SetThreshold
    BY <1>1, <1>5 DEF Enqueue, SetPaused, SetThreshold, history
  <1>6. CASE UNCHANGED vars
    BY <1>1, <1>6 DEF vars
  <1>. QED BY <1>2, <1>3, <1>4, <1>5, <1>6 DEF Next

LEMMA ListsHold == Spec => [](BacklogInv /\ ListsInv)
  <1>1. Init => BacklogInv /\ ListsInv
    BY InitBacklog, InitLists
  <1>2. BacklogInv /\ ListsInv /\ [Next]_vars => (BacklogInv /\ ListsInv)'
    BY NextBacklog, NextLists
  <1>. QED BY <1>1, <1>2, PTL DEF Spec

(* When nothing waits for React, all that was presented is shown.          *)
LEMMA AllRendered ==
    ASSUME ListsInv, updates = <<>>
    PROVE  /\ presented \in Seq(Items) /\ Rises(presented) /\ cleared \in Nat
           /\ Len(presented) \in Nat /\ raced \in BOOLEAN
           /\ PageOK(presented, updates, cleared, raced, 0, Len(presented), Page)
           /\ Settled(updates, 0)
  <1>1. PICK g : /\ Placed(g, presented, updates, cleared)
                 /\ PageOK(presented, updates, cleared, raced, 0, g[0], Page)
    BY DEF ListsInv
  <1>2. Len(updates) = 0
    OBVIOUS
  <1>3. g[0] = Len(presented)
    BY <1>1, <1>2 DEF Placed
  <1>4. Settled(updates, 0)
    <2>1. 0 + 1 .. Len(updates) = {}
      BY <1>2
    <2>. QED BY <2>1 DEF Settled
  <1>5. /\ presented \in Seq(Items) /\ Rises(presented) /\ raced \in BOOLEAN
        /\ cleared \in 0 .. Len(presented)
    BY DEF ListsInv, ListTypesOK
  <1>6. Len(presented) \in Nat /\ cleared \in Nat
    BY <1>5, Elements
  <1>. QED BY <1>1, <1>3, <1>4, <1>5, <1>6

(* What the page lists once all is rendered, read from the invariant.      *)
LEMMA ShowsLatest ==
    ASSUME ListsInv
    PROVE  PageShowsLatest
  <1>. SUFFICES ASSUME updates = <<>>
                PROVE  /\ transactions.list = FirstOf(Newest(DOMAIN presented), MaxVisible)
                       /\ graphNodes.list = transactions.list
                       /\ \/ alerts.list = FirstOf(Newest(FlaggedSinceClear), MaxVisible)
                          \/ raced /\ Len(alerts.list) > MaxVisible
                             /\ IsPrefix(alerts.list, Newest(FlaggedSinceClear))
                       /\ Len(graphEdges.list) = Cardinality(Range(graphEdges.list))
                       /\ Range(graphEdges.list) \subseteq EdgesPresented
                       /\ Len(graphEdges.list) < MaxGraphEdges =>
                              Range(graphEdges.list) = EdgesPresented
                       /\ Len(graphEdges.list) <= MaxGraphEdges
    BY DEF PageShowsLatest
  <1>1. /\ presented \in Seq(Items) /\ Rises(presented) /\ cleared \in Nat
        /\ Len(presented) \in Nat /\ raced \in BOOLEAN
        /\ PageOK(presented, updates, cleared, raced, 0, Len(presented), Page)
        /\ Settled(updates, 0)
    BY AllRendered
  <1>2. /\ Page.transactions = transactions /\ Page.alerts = alerts
        /\ Page.graphNodes = graphNodes /\ Page.graphEdges = graphEdges
    BY DEF Page
  <1>3. DOMAIN presented = 1 .. Len(presented)
    BY <1>1, Elements
  <1>4. /\ transactions \in Views /\ ViewOK(presented, transactions, 1 .. Len(presented), TRUE)
        /\ graphNodes = transactions
        /\ AlertsOK(presented, updates, cleared, raced, 0, Len(presented), alerts)
        /\ EdgesOK(presented, graphEdges, Len(presented))
    BY <1>1, <1>2 DEF PageOK
  <1>5. transactions.list = FirstOf(Newest(DOMAIN presented), MaxVisible)
    <2>. DEFINE S == 1 .. Len(presented)
    <2>1. S \subseteq 1 .. Len(presented)
      OBVIOUS
    <2>2. ViewOK(presented, transactions, S, TRUE)
      BY <1>4
    <2>. HIDE DEF S
    <2>3. transactions.list \in Seq(Items) /\ Len(transactions.list) <= MaxVisible
          /\ Shows(presented, transactions.list, LatestIn(presented, S), MaxVisible)
      BY <1>4, <2>2, ViewFields DEF ViewOK
    <2>4. transactions.list = FirstOf(Newest(S), MaxVisible)
      BY <1>1, <2>1, <2>3, ListIsFirst, VisibleLimit
    <2>. QED BY <1>3, <2>4 DEF S
  <1>6. \/ alerts.list = FirstOf(Newest(FlaggedSinceClear), MaxVisible)
        \/ raced /\ Len(alerts.list) > MaxVisible
           /\ IsPrefix(alerts.list, Newest(FlaggedSinceClear))
    <2>. DEFINE S == FlaggedSinceClear
    <2>1. S \subseteq 1 .. Len(presented) /\ S = FlaggedIn(presented, cleared + 1, Len(presented))
      BY <1>1 DEF FlaggedSinceClear, FlaggedIn
    <2>. HIDE DEF S
    <2>2. alerts \in Views /\ ViewOK(presented, alerts, S, ~raced)
      BY <1>1, <1>4, <2>1 DEF AlertsOK
    <2>3. alerts.list \in Seq(Items) /\ (~raced => Len(alerts.list) <= MaxVisible)
          /\ Shows(presented, alerts.list, LatestIn(presented, S), MaxVisible)
      BY <2>2, ViewFields DEF ViewOK
    <2>4. /\ Len(alerts.list) <= MaxVisible => alerts.list = FirstOf(Newest(S), MaxVisible)
          /\ IsPrefix(alerts.list, Newest(S))
      BY <1>1, <2>1, <2>3, ListIsFirst, VisibleLimit
    <2>5. Len(alerts.list) \in Nat
      BY <2>3, Elements
    <2>6. Len(alerts.list) <= MaxVisible \/ Len(alerts.list) > MaxVisible
      BY <2>5, VisibleLimit
    <2>7. \/ alerts.list = FirstOf(Newest(S), MaxVisible)
          \/ raced /\ Len(alerts.list) > MaxVisible /\ IsPrefix(alerts.list, Newest(S))
      <3>1. CASE Len(alerts.list) <= MaxVisible
        BY <2>4, <3>1
      <3>2. CASE Len(alerts.list) > MaxVisible
        <4>1. ~(Len(alerts.list) <= MaxVisible)
          BY <2>5, <3>2, VisibleLimit
        <4>. QED BY <2>3, <2>4, <3>2, <4>1
      <3>. QED BY <2>6, <3>1, <3>2
    <2>. QED BY <2>7 DEF S
  <1>7. /\ Len(graphEdges.list) = Cardinality(Range(graphEdges.list))
        /\ Range(graphEdges.list) \subseteq EdgesPresented
        /\ Len(graphEdges.list) < MaxGraphEdges => Range(graphEdges.list) = EdgesPresented
        /\ Len(graphEdges.list) <= MaxGraphEdges
    <2>. DEFINE s == graphEdges.list
    <2>1. EdgesPresented = KeysOf(presented, Len(presented))
      BY <1>3 DEF EdgesPresented, KeysOf
    <2>2. /\ s \in Seq(graphEdges.ids) /\ Once(s) /\ Range(s) = graphEdges.ids
          /\ graphEdges.ids \subseteq EdgesPresented
          /\ Len(s) <= MaxGraphEdges
          /\ Len(s) < MaxGraphEdges => EdgesPresented \subseteq graphEdges.ids
      BY <1>4, <2>1 DEF EdgesOK
    <2>. HIDE DEF s
    <2>3. Len(s) = Cardinality(Range(s))
      <3>. DEFINE n == Len(s)
                  U == Range(s)
      <3>1. n \in Nat /\ s \in [1 .. n -> U] /\ \A u \in U : \E k \in 1 .. n : s[k] = u
        <4>1. s \in Seq(Range(s)) /\ Range(s) = {s[i] : i \in 1 .. Len(s)}
          BY <2>2, RangeIs
        <4>. QED BY <4>1, LenProperties
      <3>2. \A k, l \in 1 .. n : s[k] = s[l] => k = l
        BY <2>2 DEF Once
      <3>. HIDE DEF n, U
      <3>3. Cardinality(U) = n
        BY <3>1, <3>2, Counted
      <3>. QED BY <3>3 DEF n, U
    <2>. QED BY <2>2, <2>3 DEF s
  <1>. QED BY <1>4, <1>5, <1>6, <1>7

(* Once React has rendered what it was handed, in however many batches and *)
(* with whatever clears between, the page shows the latest events          *)
(* (WebSocketContext.tsx:191-266, updaters and the refs of their ids).     *)
THEOREM PageShowsWhatIsLatest == Spec => []PageShowsLatest
  <1>1. ListsInv => PageShowsLatest
    BY ShowsLatest
  <1>. QED BY <1>1, ListsHold, PTL

(* What the lists do not need.                                             *)
ControlTypes ==
    /\ pending \in Seq(1 .. MaxEvents)
    /\ isPaused \in BOOLEAN /\ isPausedRef \in BOOLEAN
    /\ threshold \in Thresholds
    /\ clicks \in 0 .. MaxClicks

LEMMA SplicedTypes ==
    ASSUME NEW T, NEW list \in Seq(T), NEW dealt \in 0 .. Len(list)
    PROVE  Spliced(list, dealt).list \in Seq(T)
  <1>1. CASE dealt > Compact /\ dealt * 2 > Len(list)
    <2>1. Spliced(list, dealt).list = SubSeq(list, dealt + 1, Len(list))
      BY <1>1 DEF Spliced
    <2>2. Len(list) \in Nat /\ dealt \in Nat
      BY Elements
    <2>3. \A i \in dealt + 1 .. Len(list) : list[i] \in T
      BY <2>2, Elements
    <2>4. \A m, n \in Int : (\A i \in m .. n : list[i] \in T) => SubSeq(list, m, n) \in Seq(T)
      BY SubSeqProperties
    <2>5. dealt + 1 \in Int /\ Len(list) \in Int
      BY <2>2
    <2>. QED BY <2>1, <2>3, <2>4, <2>5
  <1>2. CASE ~(dealt > Compact /\ dealt * 2 > Len(list))
    BY <1>2 DEF Spliced
  <1>. QED BY <1>1, <1>2

LEMMA NextControl == BacklogInv /\ ControlTypes /\ [Next]_vars => ControlTypes'
  <1>. SUFFICES ASSUME BacklogInv, ControlTypes, [Next]_vars PROVE ControlTypes'
    OBVIOUS
  <1>0. /\ Numbered /\ pending \in Seq(1 .. MaxEvents) /\ MaxEvents \in Nat /\ MaxClicks \in Nat
    BY Counts, BoundsAssumption DEF ControlTypes
  <1>1. ASSUME NEW content \in Contents, Enqueue(content) PROVE ControlTypes'
    <2>. DEFINE dropped == IF PendingLength >= MaxPending THEN PendingLength - MaxPending + 1 ELSE 0
                dealt == pendingHead + dropped
    <2>1. pending' = Append(Spliced(pending, dealt).list, Len(received) + 1)
          /\ Len(received) < MaxEvents
      BY <1>1 DEF Enqueue
    <2>2. dealt \in 0 .. Len(pending)
      BY <1>0 DEF Numbered
    <2>. HIDE DEF dealt
    <2>3. Spliced(pending, dealt).list \in Seq(1 .. MaxEvents)
      BY <1>0, <2>2, SplicedTypes
    <2>4. Len(received) + 1 \in 1 .. MaxEvents
      BY <1>0, <2>1 DEF Numbered
    <2>5. pending' \in Seq(1 .. MaxEvents)
      BY <2>1, <2>3, <2>4, AppendProperties
    <2>. QED BY <1>1, <2>5 DEF Enqueue, ControlTypes
  <1>2. CASE Tick
    <2>1. pending' = Spliced(pending, pendingHead + 1).list
      BY <1>2 DEF Tick
    <2>2. pendingHead + 1 \in 0 .. Len(pending)
      BY <1>0, <1>2 DEF Numbered, Tick
    <2>3. pending' \in Seq(1 .. MaxEvents)
      BY <1>0, <2>1, <2>2, SplicedTypes
    <2>. QED BY <1>2, <2>3 DEF Tick, ControlTypes
  <1>3. CASE Render
    BY <1>3 DEF Render, ControlTypes, backlog
  <1>4. CASE SetPaused
    <2>1. isPaused' \in BOOLEAN /\ isPausedRef' \in BOOLEAN
      BY <1>4 DEF SetPaused, SeenByTimer
    <2>. QED BY <1>0, <1>4, <2>1 DEF SetPaused, Click, ControlTypes, backlog
  <1>5. CASE SetThreshold
    BY <1>0, <1>5 DEF SetThreshold, Click, ControlTypes, backlog
  <1>6. CASE ClearAlerts
    BY <1>0, <1>6 DEF ClearAlerts, Click, ControlTypes, backlog
  <1>7. CASE UNCHANGED vars
    BY <1>7 DEF vars, ControlTypes, backlog
  <1>. QED BY <1>1, <1>2, <1>3, <1>4, <1>5, <1>6, <1>7 DEF Next

LEMMA ControlHolds == Spec => [](BacklogInv /\ ControlTypes)
  <1>1. Init => BacklogInv /\ ControlTypes
    <2>1. Init => ControlTypes
      <3>1. <<>> \in Seq(1 .. MaxEvents) /\ 0 \in 0 .. MaxClicks
        BY NoElements, BoundsAssumption
      <3>. QED BY <3>1, ThresholdAssumption DEF Init, ControlTypes
    <2>. QED BY <2>1, InitBacklog
  <1>2. BacklogInv /\ ControlTypes /\ [Next]_vars => (BacklogInv /\ ControlTypes)'
    BY NextBacklog, NextControl
  <1>. QED BY <1>1, <1>2, PTL DEF Spec

(* The types of the page's state, its bounded pending list among them      *)
(* (WebSocketContext.tsx:84-135): the lists hold what was ingested.        *)
THEOREM PageTypesHold == Spec => []TypeOK
  <1>1. BacklogInv /\ PendingBounded /\ ListsInv /\ ControlTypes => TypeOK
    <2>. SUFFICES ASSUME BacklogInv, PendingBounded, ListsInv, ControlTypes PROVE TypeOK
      OBVIOUS
    <2>1. PICK g : PageOK(presented, updates, cleared, raced, 0, g[0], Page)
      BY DEF ListsInv
    <2>2. /\ transactions \in Views /\ alerts \in Views /\ graphNodes \in Views
          /\ graphEdges.list \in Seq(graphEdges.ids)
      <3>1. /\ Page.transactions = transactions /\ Page.alerts = alerts
            /\ Page.graphNodes = graphNodes /\ Page.graphEdges = graphEdges
        BY DEF Page
      <3>. QED BY <2>1, <3>1 DEF PageOK, AlertsOK, EdgesOK
    <2>3. /\ presented \in Seq(Items) /\ updates \in Seq(Items \cup {Clearing})
          /\ cleared \in 0 .. Len(presented) /\ raced \in BOOLEAN
      BY DEF ListsInv, ListTypesOK
    <2>. QED BY <2>2, <2>3 DEF TypeOK, BacklogInv, ListTypes, ControlTypes
  <1>. QED BY <1>1, PendingIsBounded, ListsHold, ControlHolds, PTL

-----------------------------------------------------------------------------
(* The entity explorer, for every graph, every limit and any number of     *)
(* searches and requests: the page shows what belongs to its query.        *)

(* The variables that the argument looks at.                               *)
seen == <<center, lookup, open, query, entity, active, shown, overlapped>>

PageTypes ==
    /\ query \in Searched \cup {Null}
    /\ entity \in Searched \cup {Null}
    /\ center \in [Fetches -> Searched \cup {Null}]
    /\ lookup \in [Searches -> Searched \cup {Null}]
    /\ open \subseteq {n \in Searches : lookup[n] \in Searched}

(* A search that is open looks up the query, unless a later one overlaps.  *)
OpenOfQuery == \A n \in open : lookup[n] = query \/ overlapped

EntityOfQuery == entity \in {query, Null} \/ overlapped

(* The viewer's effect is for the query, and is the one whose answer is    *)
(* shown; there is neither while no entity is.                             *)
ViewerOfQuery ==
    /\ active # NoOne => active \in Fetches /\ center[active] = query
    /\ shown \in {active, NoOne}
    /\ entity = Null => active = NoOne

PageInv == PageTypes /\ OpenOfQuery /\ EntityOfQuery /\ ViewerOfQuery

LEMMA NullNotSearched == Null \notin Searched
  BY BatchAssumption DEF Null

LEMMA InitPage == ExplorerInit => PageInv
  BY DEF ExplorerInit, PageInv, PageTypes, OpenOfQuery, EntityOfQuery, ViewerOfQuery

(* Steps of the gateway, the materializer and the cache touch none of it.  *)
LEMMA Elsewhere ==
    ASSUME PageInv, UNCHANGED seen
    PROVE  PageInv'
  BY DEF seen, PageInv, PageTypes, OpenOfQuery, EntityOfQuery, ViewerOfQuery

LEMMA ReceivePage ==
    ASSUME PageInv, NEW f \in Fetches, Receive(f)
    PROVE  PageInv'
  <1>1. /\ UNCHANGED <<center, lookup, open, query, entity, active, overlapped>>
        /\ shown' \in {active, shown}
    BY DEF Receive, explorer, past
  <1>. QED
    BY <1>1 DEF PageInv, PageTypes, OpenOfQuery, EntityOfQuery, ViewerOfQuery

LEMMA DoSearchPage ==
    ASSUME PageInv, NEW id \in Searched, DoSearch(id)
    PROVE  PageInv'
  <1>1. PICK n \in Searches :
            /\ lookup' = [lookup EXCEPT ![n] = id]
            /\ open' = open \cup {n}
            /\ query' = id /\ entity' = Null
            /\ active' = NoOne /\ shown' = NoOne
            /\ overlapped' = (overlapped \/ open # {})
            /\ center' = center
    BY DEF DoSearch, request
  <1>2. PageTypes'
    BY <1>1 DEF PageInv, PageTypes
  <1>3. OpenOfQuery'
    <2>1. CASE open = {}
      BY <1>1, <2>1 DEF OpenOfQuery, PageInv, PageTypes
    <2>2. CASE open # {}
      BY <1>1, <2>2 DEF OpenOfQuery
    <2>. QED BY <2>1, <2>2
  <1>4. EntityOfQuery' /\ ViewerOfQuery'
    BY <1>1 DEF EntityOfQuery, ViewerOfQuery
  <1>. QED BY <1>2, <1>3, <1>4 DEF PageInv

LEMMA EntityFoundPage ==
    ASSUME PageInv, NEW n \in Searches, EntityFound(n)
    PROVE  PageInv'
  <1>1. /\ n \in open /\ open' = open \ {n}
        /\ entity' = lookup[n]
        /\ UNCHANGED <<lookup, query, shown, overlapped>>
    BY DEF EntityFound, past
  <1>2. lookup[n] \in Searched /\ entity' # Null
    BY <1>1, NullNotSearched DEF PageInv, PageTypes
  <1>3. OpenOfQuery' /\ EntityOfQuery'
    BY <1>1 DEF PageInv, OpenOfQuery, EntityOfQuery
  <1>4. CASE entity = Null
    <2>1. PICK f \in Fetches : /\ center' = [center EXCEPT ![f] = query]
                               /\ active' = f
      BY <1>4 DEF EntityFound, Mount
    <2>2. active = NoOne /\ shown = NoOne
      BY <1>4 DEF PageInv, ViewerOfQuery
    <2>3. query \in Searched \cup {Null}
      BY DEF PageInv, PageTypes
    <2>. QED BY <1>1, <1>2, <1>3, <2>1, <2>2, <2>3 DEF PageInv, PageTypes, ViewerOfQuery
  <1>5. CASE entity # Null
    <2>1. UNCHANGED <<center, active>>
      BY <1>5 DEF EntityFound, request
    <2>. QED BY <1>1, <1>2, <1>3, <2>1 DEF PageInv, PageTypes, ViewerOfQuery
  <1>. QED BY <1>4, <1>5

LEMMA EntityMissingPage ==
    ASSUME PageInv, NEW n \in Searches, EntityMissing(n)
    PROVE  PageInv'
  <1>1. /\ open' = open \ {n}
        /\ UNCHANGED <<center, lookup, query, entity, active, shown, overlapped>>
    BY DEF EntityMissing, request, viewer, past
  <1>. QED
    BY <1>1 DEF PageInv, PageTypes, OpenOfQuery, EntityOfQuery, ViewerOfQuery

LEMMA NextPage ==
    ASSUME PageInv, [ExplorerNext]_explorerVars
    PROVE  PageInv'
  <1>1. CASE UNCHANGED explorerVars
    <2>. UNCHANGED seen
      BY <1>1 DEF explorerVars, request, page, explorer, viewer, past, seen
    <2>. QED BY Elsewhere
  <1>2. ASSUME NEW b \in Batches, Materialize(b) PROVE PageInv'
    <2>. UNCHANGED seen
      BY <1>2 DEF Materialize, request, page, explorer, viewer, seen
    <2>. QED BY Elsewhere
  <1>3. ASSUME NEW f \in Fetches,
               \/ FetchWatermark(f) \/ CacheHit(f) \/ CacheMiss(f) \/ FindCenter(f)
               \/ Hop(f) \/ Assemble(f) \/ Store(f) \/ FetchFails(f)
        PROVE  PageInv'
    <2>. UNCHANGED seen
      BY <1>3 DEF FetchWatermark, CacheHit, CacheMiss, FindCenter, Hop, Assemble, Store,
                  FetchFails, page, explorer, viewer, past, seen
    <2>. QED BY Elsewhere
  <1>4. ASSUME NEW k \in DOMAIN cache, Expire(k) PROVE PageInv'
    <2>. UNCHANGED seen
      BY <1>4 DEF Expire, request, page, explorer, viewer, past, seen
    <2>. QED BY Elsewhere
  <1>. QED
    BY <1>1, <1>2, <1>3, <1>4, ReceivePage, DoSearchPage, EntityFoundPage,
       EntityMissingPage DEF ExplorerNext

LEMMA PageShows == PageInv => ShownOfQuery
  BY DEF PageInv, EntityOfQuery, ViewerOfQuery, ShownOfQuery

(* The subgraph on the page is that of the query in its title, and so is   *)
(* the entity until searches overlap, for any interleaving of searches,    *)
(* answers, failures and materialized batches.                             *)
THEOREM ShownBelongs == ExplorerSpec => []ShownOfQuery
  <1>1. ExplorerInit => PageInv
    BY InitPage
  <1>2. PageInv /\ [ExplorerNext]_explorerVars => PageInv'
    BY NextPage
  <1>3. PageInv => ShownOfQuery
    BY PageShows
  <1>. QED BY <1>1, <1>2, <1>3, PTL DEF ExplorerSpec

-----------------------------------------------------------------------------
(* What a gateway serves (Investigation), for any graph, any batches and   *)
(* any limits: a subgraph in its limits, and no more and no less than the  *)
(* neighbourhood.  The argument follows the search hop by hop.             *)

(* The edges at the nodes of S.                                            *)
EdgesAt(g, S) == {e \in g.edges : e[1] \in S \/ e[2] \in S}

(* The tables, and the graphs they were.                                   *)
GraphInv ==
    /\ graph.nodes \subseteq Txs
    /\ graph.edges \subseteq graph.nodes \X graph.nodes
    /\ IsFiniteSet(graph.edges)
    /\ \A e \in graph.edges : e[1] # e[2]
    /\ 0 \in DOMAIN asOf /\ checkpoint \in DOMAIN asOf
    /\ \A w \in DOMAIN asOf : asOf[w].edges \subseteq graph.edges

RequestTypes ==
    /\ pc \in [Fetches -> PCs]
    /\ center \in [Fetches -> Searched \cup {Null}]
    /\ watermark \in [Fetches -> DOMAIN asOf]
    /\ DOMAIN search = Fetches /\ DOMAIN result = Fetches
    /\ faults \in 0 .. MaxFaults

(* A search from c is in its limits,                                       *)
SearchInLimits(s, c, g) ==
    /\ s.hop \in 0 .. MaxHops
    /\ s.truncated \in BOOLEAN
    /\ c \in s.visited /\ s.visited \subseteq g.nodes
    /\ IsFiniteSet(s.visited) /\ Cardinality(s.visited) <= MaxNodes
    /\ s.frontier \subseteq s.visited
    /\ s.found \subseteq g.edges

(* has nothing that is not around c,                                       *)
SearchNoMore(s, c, g) ==
    /\ s.visited \subseteq Around(g, c)[s.hop]
    /\ s.found \subseteq EdgesAt(g, Around(g, c)[MaxHops - 1])

(* and unless it was cut has come to everything within its hops in the     *)
(* graph g, with every edge at what is behind its frontier.                *)
SearchNoLess(s, c, g) ==
    /\ Ends(s.found) \subseteq s.visited
    /\ EdgesAt(g, s.visited \ s.frontier) \subseteq s.found
    /\ Around(g, c)[s.hop] \subseteq s.visited
    /\ s.hop > 0 => Around(g, c)[s.hop - 1] \subseteq s.visited \ s.frontier

(* Here g is the graph now and h the one as of the watermark.              *)
SearchOK(s, c, g, h) ==
    /\ SearchInLimits(s, c, g)
    /\ SearchNoMore(s, c, g)
    /\ s.truncated \/ SearchNoLess(s, c, h)

(* A subgraph that answers a request.                                      *)
AnswerOK(r, c, g, h) ==
    /\ Bounded(r, c)
    /\ Within(r, Neighbourhood(g, c))
    /\ r.truncated \/ Within(Neighbourhood(h, c), r)

SearchInv ==
    \A f \in Fetches : pc[f] = "hop" => 
        SearchOK(search[f], center[f], graph, asOf[watermark[f]])

ResultInv ==
    \A f \in Fetches :
        /\ pc[f] \notin {"store", "reply"} => result[f] = NoSubgraph
        /\ pc[f] = "store" \/ (pc[f] = "reply" /\ result[f] # NoSubgraph)
              => AnswerOK(result[f], center[f], graph, asOf[watermark[f]])

CacheInv ==
    \A k \in DOMAIN cache :
        k.watermark \in DOMAIN asOf /\ AnswerOK(cache[k], k.tx, graph, asOf[k.watermark])

ServedInv == GraphInv /\ RequestTypes /\ SearchInv /\ ResultInv /\ CacheInv

(* Around is the function it says it is.                                   *)
Wider(g, S) == S \cup Ends(EdgesAt(g, S))

IsBall(h, N, g, c) == h = [n \in 0 .. N |-> IF n = 0 THEN {c} ELSE Wider(g, h[n - 1])]

LEMMA BallSteps ==
    ASSUME NEW h, NEW N \in Nat, NEW g, NEW c, IsBall(h, N, g, c)
    PROVE  h[0] = {c} /\ \A n \in 1 .. N : h[n] = Wider(g, h[n - 1])
  <1>1. h = [n \in 0 .. N |-> IF n = 0 THEN {c} ELSE Wider(g, h[n - 1])]
    BY DEF IsBall
  <1>2. \A n \in 0 .. N : h[n] = IF n = 0 THEN {c} ELSE Wider(g, h[n - 1])
    BY <1>1, Zenon
  <1>. QED BY <1>2

LEMMA BallExists ==
    ASSUME NEW g, NEW c
    PROVE  \A N \in Nat : \E h : IsBall(h, N, g, c)
  <1>. DEFINE T == {N \in Nat : \E h : IsBall(h, N, g, c)}
  <1>1. 0 \in T
    <2>1. IsBall([n \in 0 .. 0 |-> {c}], 0, g, c)
      BY DEF IsBall
    <2>. QED BY <2>1
  <1>2. ASSUME NEW N \in Nat, N \in T PROVE N + 1 \in T
    <2>1. PICK h : IsBall(h, N, g, c)
      BY <1>2
    <2>. DEFINE k == [n \in 0 .. N + 1 |-> IF n <= N THEN h[n] ELSE Wider(g, h[N])]
    <2>2. IsBall(k, N + 1, g, c)
      <3>1. ASSUME NEW n \in 0 .. N + 1
            PROVE  k[n] = IF n = 0 THEN {c} ELSE Wider(g, k[n - 1])
        <4>1. CASE n = 0
          <5>1. k[0] = h[0] /\ h[0] = {c}
            BY <2>1, BallSteps
          <5>. QED BY <4>1, <5>1
        <4>2. CASE n \in 1 .. N
          <5>1. k[n] = h[n] /\ k[n - 1] = h[n - 1]
            BY <4>2
          <5>2. h[n] = Wider(g, h[n - 1]) /\ n # 0
            BY <2>1, <4>2, BallSteps
          <5>. HIDE DEF k
          <5>. QED BY <5>1, <5>2
        <4>3. CASE n = N + 1
          <5>1. k[n] = Wider(g, h[N]) /\ k[n - 1] = h[N] /\ n # 0
            BY <4>3
          <5>. QED BY <5>1
        <4>. QED BY <4>1, <4>2, <4>3
      <3>2. k = [n \in 0 .. N + 1 |-> k[n]]
        OBVIOUS
      <3>. HIDE DEF k
      <3>. QED BY <3>1, <3>2 DEF IsBall
    <2>. HIDE DEF k
    <2>. QED BY <2>2
  <1>. HIDE DEF T
  <1>3. \A N \in Nat : N \in T
    BY <1>1, <1>2, NumbersByInduction
  <1>. QED BY <1>3 DEF T

LEMMA AroundIs ==
    ASSUME NEW g, NEW c
    PROVE  IsBall(Around(g, c), MaxHops, g, c)
  <1>1. MaxHops \in Nat
    BY LimitAssumption
  <1>2. PICK h : IsBall(h, MaxHops, g, c)
    BY <1>1, BallExists
  <1>. QED BY <1>2 DEF IsBall, Around, Wider, EdgesAt

(* From one number of hops to the next,                                    *)
LEMMA AroundSteps ==
    ASSUME NEW g, NEW c
    PROVE  /\ Around(g, c)[0] = {c}
           /\ \A n \in 0 .. MaxHops - 1 :
                 Around(g, c)[n + 1] = Around(g, c)[n] \cup Ends(EdgesAt(g, Around(g, c)[n]))
  <1>. DEFINE b == Around(g, c)
  <1>1. IsBall(b, MaxHops, g, c) /\ MaxHops \in Nat
    BY AroundIs, LimitAssumption
  <1>. HIDE DEF b
  <1>2. b[0] = {c} /\ \A n \in 1 .. MaxHops : b[n] = Wider(g, b[n - 1])
    BY <1>1, BallSteps
  <1>3. ASSUME NEW n \in 0 .. MaxHops - 1
        PROVE  b[n + 1] = b[n] \cup Ends(EdgesAt(g, b[n]))
    <2>1. n + 1 \in 1 .. MaxHops /\ n + 1 - 1 = n
      BY <1>1
    <2>2. b[n + 1] = Wider(g, b[n + 1 - 1])
      BY <1>2, <2>1
    <2>. QED BY <2>1, <2>2 DEF Wider
  <1>. QED BY <1>2, <1>3 DEF b

(* it only grows with the hops,                                            *)
LEMMA AroundWidens ==
    ASSUME NEW g, NEW c, NEW m \in 0 .. MaxHops
    PROVE  \A n \in m .. MaxHops : Around(g, c)[m] \subseteq Around(g, c)[n]
  <1>. DEFINE b == Around(g, c)
              T == {d \in Nat : m + d \in 0 .. MaxHops => b[m] \subseteq b[m + d]}
  <1>0. m \in Nat /\ MaxHops \in Nat
    BY LimitAssumption
  <1>1. 0 \in T
    BY <1>0
  <1>2. ASSUME NEW d \in Nat, d \in T PROVE d + 1 \in T
    <2>. SUFFICES ASSUME m + (d + 1) \in 0 .. MaxHops PROVE b[m] \subseteq b[m + (d + 1)]
      OBVIOUS
    <2>1. m + d \in 0 .. MaxHops - 1 /\ m + d \in 0 .. MaxHops /\ m + (d + 1) = (m + d) + 1
      BY <1>0
    <2>2. b[m] \subseteq b[m + d]
      BY <1>2, <2>1
    <2>3. b[m + d] \subseteq b[(m + d) + 1]
      BY <2>1, AroundSteps
    <2>. QED BY <2>1, <2>2, <2>3
  <1>3. \A d \in Nat : d \in T
    <2>. HIDE DEF T
    <2>. QED BY <1>1, <1>2, NumbersByInduction
  <1>4. ASSUME NEW n \in m .. MaxHops PROVE b[m] \subseteq b[n]
    <2>1. n - m \in Nat /\ m + (n - m) = n /\ n \in 0 .. MaxHops
      BY <1>0
    <2>. QED BY <1>3, <2>1
  <1>. QED BY <1>4

(* and with the graph.                                                     *)
LEMMA AroundGrows ==
    ASSUME NEW g, NEW h, NEW c, g.edges \subseteq h.edges
    PROVE  \A n \in 0 .. MaxHops : Around(g, c)[n] \subseteq Around(h, c)[n]
  <1>. DEFINE T == {n \in Nat : n <= MaxHops => Around(g, c)[n] \subseteq Around(h, c)[n]}
  <1>0. MaxHops \in Nat
    BY LimitAssumption
  <1>1. 0 \in T
    BY AroundSteps
  <1>2. ASSUME NEW n \in Nat, n \in T PROVE n + 1 \in T
    <2>. SUFFICES ASSUME n + 1 <= MaxHops
                  PROVE  Around(g, c)[n + 1] \subseteq Around(h, c)[n + 1]
      OBVIOUS
    <2>1. n \in 0 .. MaxHops - 1 /\ n <= MaxHops
      BY <1>0
    <2>2. Around(g, c)[n] \subseteq Around(h, c)[n]
      BY <1>2, <2>1
    <2>3. Around(g, c)[n + 1] = Around(g, c)[n] \cup Ends(EdgesAt(g, Around(g, c)[n]))
      BY <2>1, AroundSteps
    <2>4. Around(h, c)[n + 1] = Around(h, c)[n] \cup Ends(EdgesAt(h, Around(h, c)[n]))
      BY <2>1, AroundSteps
    <2>5. EdgesAt(g, Around(g, c)[n]) \subseteq EdgesAt(h, Around(h, c)[n])
      BY <2>2 DEF EdgesAt
    <2>. QED BY <2>2, <2>3, <2>4, <2>5 DEF Ends
  <1>3. \A n \in Nat : n \in T
    <2>. HIDE DEF T
    <2>. QED BY <1>1, <1>2, NumbersByInduction
  <1>. QED BY <1>0, <1>3

(* A set with c that its edges do not leave has everything around c.       *)
LEMMA AroundClosed ==
    ASSUME NEW g, NEW c, NEW S, c \in S, Ends(EdgesAt(g, S)) \subseteq S
    PROVE  \A n \in 0 .. MaxHops : Around(g, c)[n] \subseteq S
  <1>. DEFINE T == {n \in Nat : n <= MaxHops => Around(g, c)[n] \subseteq S}
  <1>0. MaxHops \in Nat
    BY LimitAssumption
  <1>1. 0 \in T
    BY AroundSteps
  <1>2. ASSUME NEW n \in Nat, n \in T PROVE n + 1 \in T
    <2>. SUFFICES ASSUME n + 1 <= MaxHops PROVE Around(g, c)[n + 1] \subseteq S
      OBVIOUS
    <2>1. n \in 0 .. MaxHops - 1 /\ n <= MaxHops
      BY <1>0
    <2>2. Around(g, c)[n] \subseteq S
      BY <1>2, <2>1
    <2>3. Around(g, c)[n + 1] = Around(g, c)[n] \cup Ends(EdgesAt(g, Around(g, c)[n]))
      BY <2>1, AroundSteps
    <2>4. EdgesAt(g, Around(g, c)[n]) \subseteq EdgesAt(g, S)
      BY <2>2 DEF EdgesAt
    <2>. QED BY <2>2, <2>3, <2>4 DEF Ends
  <1>3. \A n \in Nat : n \in T
    <2>. HIDE DEF T
    <2>. QED BY <1>1, <1>2, NumbersByInduction
  <1>. QED BY <1>0, <1>3

(* Of finitely many in an order, those with fewer than n before them are   *)
(* at most n: they come before the one of them that has the most, or are   *)
(* that one.                                                               *)
ComeFirst(S, R, n) == {x \in S : Cardinality({y \in S \ {x} : <<y, x>> \in R}) < n}

LEMMA FewComeFirst ==
    ASSUME NEW S, IsFiniteSet(S), NEW R, NEW n \in Nat,
           \A x, y \in S : x # y => <<x, y>> \in R \/ <<y, x>> \in R,
           \A x, y, z \in S : <<x, y>> \in R /\ <<y, z>> \in R => <<x, z>> \in R
    PROVE  IsFiniteSet(ComeFirst(S, R, n)) /\ Cardinality(ComeFirst(S, R, n)) <= n
  <1>. DEFINE before(x) == {y \in S \ {x} : <<y, x>> \in R}
              p(x) == Cardinality(before(x))
              F == {x \in S : p(x) < n}
              N == {n - p(x) : x \in F}
  <1>. SUFFICES IsFiniteSet(F) /\ Cardinality(F) <= n
    BY DEF ComeFirst
  <1>1. ASSUME NEW x \in S
        PROVE  IsFiniteSet(before(x)) /\ p(x) \in Nat
    <2>1. before(x) \in SUBSET S
      OBVIOUS
    <2>. HIDE DEF before
    <2>. QED BY <2>1, FS_Subset, FS_CardinalityType
  <1>2. IsFiniteSet(F)
    <2>1. F \in SUBSET S
      OBVIOUS
    <2>. HIDE DEF F
    <2>. QED BY <2>1, FS_Subset
  <1>3. CASE F = {}
    <2>. HIDE DEF F
    <2>. QED BY <1>2, <1>3, FS_EmptySet
  <1>4. CASE F # {}
    <2>. HIDE DEF p
    <2>1. N \in SUBSET Nat /\ N # {}
      <3>1. ASSUME NEW x \in F PROVE n - p(x) \in Nat
        <4>1. x \in S /\ p(x) < n
          OBVIOUS
        <4>2. p(x) \in Nat
          BY <1>1, <4>1
        <4>. QED BY <4>1, <4>2
      <3>. HIDE DEF F
      <3>. QED BY <1>4, <3>1
    <2>2. PICK k \in N : \A l \in N : k <= l
      <3>. HIDE DEF N
      <3>. QED BY <2>1, LeastNumber
    <2>3. PICK m \in F : k = n - p(m)
      BY <2>2
    <2>4. \A d \in F : p(d) <= p(m)
      <3>. SUFFICES ASSUME NEW d \in F PROVE p(d) <= p(m)
        OBVIOUS
      <3>1. n - p(d) \in N
        OBVIOUS
      <3>2. n - p(m) <= n - p(d)
        <4>. HIDE DEF N, F
        <4>. QED BY <2>2, <2>3, <3>1
      <3>3. p(d) \in Nat /\ p(m) \in Nat
        BY <1>1
      <3>. QED BY <3>2, <3>3
    <2>5. F \ {m} \subseteq before(m)
      <3>. SUFFICES ASSUME NEW d \in F, d # m, <<d, m>> \notin R PROVE FALSE
        OBVIOUS
      <3>1. d \in S /\ m \in S
        OBVIOUS
      <3>2. <<m, d>> \in R
        BY <3>1
      <3>3. before(m) \cup {m} \subseteq before(d)
        BY <3>1, <3>2
      <3>4. m \notin before(m)
        OBVIOUS
      <3>5. IsFiniteSet(before(m)) /\ IsFiniteSet(before(d)) /\ p(m) \in Nat /\ p(d) \in Nat
        BY <1>1, <3>1
      <3>. HIDE DEF before, F, N
      <3>6. Cardinality(before(m) \cup {m}) = p(m) + 1
        BY <3>4, <3>5, FS_AddElement DEF p
      <3>7. Cardinality(before(m) \cup {m}) <= p(d)
        <4>1. before(m) \cup {m} \in SUBSET before(d)
          BY <3>3
        <4>. QED BY <3>5, <4>1, FS_Subset DEF p
      <3>. QED BY <2>4, <3>5, <3>6, <3>7
    <2>6. p(m) < n /\ m \in S
      OBVIOUS
    <2>. HIDE DEF before, F, N
    <2>7. IsFiniteSet(before(m)) /\ p(m) \in Nat
      BY <1>1, <2>6
    <2>8. Cardinality(F \ {m}) <= p(m) /\ IsFiniteSet(F \ {m})
      <3>1. F \ {m} \in SUBSET before(m)
        BY <2>5
      <3>. QED BY <2>7, <3>1, FS_Subset DEF p
    <2>9. Cardinality((F \ {m}) \cup {m}) = Cardinality(F \ {m}) + 1
      BY <2>8, FS_AddElement
    <2>10. (F \ {m}) \cup {m} = F
      BY <2>3
    <2>11. Cardinality(F \ {m}) \in Nat
      BY <2>8, FS_CardinalityType
    <2>12. Cardinality(F) <= n
      BY <2>6, <2>7, <2>8, <2>9, <2>10, <2>11
    <2>. QED BY <1>2, <2>12
  <1>. QED BY <1>3, <1>4

(* Edges between transactions, in the order of SQL.                        *)
IsEdges(E) == E \subseteq Txs \X Txs /\ IsFiniteSet(E) /\ \A e \in E : e[1] # e[2]

LEMMA TxNumbers == \A E : IsEdges(E) => \A e \in E : e = <<e[1], e[2]>> /\ e[1] \in Nat /\ e[2] \in Nat
  <1>1. Txs \subseteq Nat
    BY BatchAssumption
  <1>2. \A e \in Txs \X Txs : e = <<e[1], e[2]>> /\ e[1] \in Txs /\ e[2] \in Txs
    OBVIOUS
  <1>. QED BY <1>1, <1>2 DEF IsEdges

LEMMA RowsOrdered ==
    ASSUME NEW E, IsEdges(E)
    PROVE  /\ \A d, e \in E : d = e \/ Before(d, e) \/ Before(e, d)
           /\ \A d, e, f \in E : Before(d, e) /\ Before(e, f) => Before(d, f)
           /\ \A e \in E : ~Before(e, e)
  <1>1. \A e \in E : e = <<e[1], e[2]>> /\ e[1] \in Nat /\ e[2] \in Nat
    BY TxNumbers
  <1>. QED BY <1>1 DEF Before

LEMMA FirstRow ==
    ASSUME NEW D, IsEdges(D), NEW E, E \subseteq D, E # {}
    PROVE  \E e \in E : \A f \in E : e = f \/ Before(e, f)
  <1>1. \A e \in E : e = <<e[1], e[2]>> /\ e[1] \in Nat /\ e[2] \in Nat
    BY TxNumbers
  <1>. DEFINE A == {e[1] : e \in E}
  <1>2. PICK a \in A : \A x \in A : a <= x
    <2>1. A \in SUBSET Nat /\ A # {}
      BY <1>1
    <2>. HIDE DEF A
    <2>. QED BY <2>1, LeastNumber
  <1>. DEFINE B == {e[2] : e \in {d \in E : d[1] = a}}
  <1>3. PICK b \in B : \A x \in B : b <= x
    <2>1. B \in SUBSET Nat /\ B # {}
      BY <1>1
    <2>. HIDE DEF B
    <2>. QED BY <2>1, LeastNumber
  <1>4. PICK e \in E : e[1] = a /\ e[2] = b
    BY <1>3
  <1>5. ASSUME NEW f \in E PROVE e = f \/ Before(e, f)
    <2>1. a <= f[1] /\ (f[1] = a => b <= f[2])
      BY <1>2, <1>3
    <2>. QED BY <1>1, <1>4, <2>1 DEF Before
  <1>. QED BY <1>5

LEMMA FirstEdgesFit ==
    ASSUME NEW E, IsEdges(E), NEW n \in Nat
    PROVE  /\ FirstEdges(E, n) \subseteq E
           /\ Cardinality(FirstEdges(E, n)) <= n
  <1>. DEFINE R == {p \in E \X E : Before(p[1], p[2])}
              F == ComeFirst(E, R, n)
  <1>1. FirstEdges(E, n) = F
    <2>1. \A e \in E : {d \in E : Before(d, e)} = {d \in E \ {e} : <<d, e>> \in R}
      BY RowsOrdered
    <2>. HIDE DEF R
    <2>. QED BY <2>1 DEF FirstEdges, ComeFirst
  <1>2. /\ \A x, y \in E : x # y => <<x, y>> \in R \/ <<y, x>> \in R
        /\ \A x, y, z \in E : <<x, y>> \in R /\ <<y, z>> \in R => <<x, z>> \in R
    BY RowsOrdered
  <1>3. IsFiniteSet(E)
    BY DEF IsEdges
  <1>4. Cardinality(F) <= n
    <2>. HIDE DEF R
    <2>. QED BY <1>2, <1>3, FewComeFirst
  <1>5. F \subseteq E
    BY DEF ComeFirst
  <1>. HIDE DEF F
  <1>. QED BY <1>1, <1>4, <1>5

(* The loop over the rows comes to one id after the other.                 *)
LEMMA SoonerOrders ==
    ASSUME NEW rows, IsEdges(rows)
    PROVE  /\ \A c, d \in Ends(rows) : c # d => Sooner(c, d, rows) \/ Sooner(d, c, rows)
           /\ \A c, d, b \in Ends(rows) :
                 Sooner(c, d, rows) /\ Sooner(d, b, rows) => Sooner(c, b, rows)
  <1>1. ASSUME NEW c \in Ends(rows), NEW d \in Ends(rows), c # d
        PROVE  Sooner(c, d, rows) \/ Sooner(d, c, rows)
    <2>1. ASSUME NEW a \in Ends(rows)
          PROVE  \E e \in rows : /\ a \in {e[1], e[2]}
                                 /\ \A f \in rows : a \in {f[1], f[2]} => e = f \/ Before(e, f)
      <3>. DEFINE E == {e \in rows : a \in {e[1], e[2]}}
      <3>1. E \subseteq rows /\ E # {}
        BY DEF Ends
      <3>2. \E e \in E : \A f \in E : e = f \/ Before(e, f)
        <4>. HIDE DEF E
        <4>. QED BY <3>1, FirstRow
      <3>. QED BY <3>2
    <2>2. PICK e \in rows : /\ c \in {e[1], e[2]}
                            /\ \A f \in rows : c \in {f[1], f[2]} => e = f \/ Before(e, f)
      BY <2>1
    <2>3. PICK f \in rows : /\ d \in {f[1], f[2]}
                            /\ \A g \in rows : d \in {g[1], g[2]} => f = g \/ Before(f, g)
      BY <2>1
    <2>4. CASE Before(e, f)
      <3>1. \A g \in rows : d \in {g[1], g[2]} => Before(e, g)
        BY <2>3, <2>4, RowsOrdered
      <3>. QED BY <2>2, <3>1 DEF Sooner
    <2>5. CASE Before(f, e)
      <3>1. \A g \in rows : c \in {g[1], g[2]} => Before(f, g)
        BY <2>2, <2>5, RowsOrdered
      <3>. QED BY <2>3, <3>1 DEF Sooner
    <2>6. CASE e = f
      <3>1. CASE c = e[1]
        BY <2>2, <2>3, <2>6, <3>1 DEF Sooner
      <3>2. CASE d = e[1]
        BY <2>2, <2>3, <2>6, <3>2 DEF Sooner
      <3>. QED BY <1>1, <2>2, <2>3, <2>6, <3>1, <3>2
    <2>. QED BY <2>4, <2>5, <2>6, RowsOrdered
  <1>2. ASSUME NEW c \in Ends(rows), NEW d \in Ends(rows), NEW b \in Ends(rows),
               Sooner(c, d, rows), Sooner(d, b, rows)
        PROVE  Sooner(c, b, rows)
    <2>1. PICK e \in rows :
              /\ c \in {e[1], e[2]}
              /\ \A f \in rows : d \in {f[1], f[2]} => Before(e, f) \/ (e = f /\ c = e[1])
      BY <1>2 DEF Sooner
    <2>2. PICK f \in rows :
              /\ d \in {f[1], f[2]}
              /\ \A g \in rows : b \in {g[1], g[2]} => Before(f, g) \/ (f = g /\ d = f[1])
      BY <1>2 DEF Sooner
    <2>3. Before(e, f) \/ (e = f /\ c = e[1])
      BY <2>1, <2>2
    <2>4. \A g \in rows : b \in {g[1], g[2]} => Before(e, g) \/ (e = g /\ c = e[1])
      BY <2>2, <2>3, RowsOrdered
    <2>. QED BY <2>1, <2>4 DEF Sooner
  <1>. QED BY <1>1, <1>2

LEMMA EndsFinite ==
    ASSUME NEW E, IsFiniteSet(E)
    PROVE  IsFiniteSet(Ends(E))
  <1>. DEFINE A == {e[1] : e \in E}
              B == {e[2] : e \in E}
  <1>1. [e \in E |-> e[1]] \in Surjection(E, A) /\ [e \in E |-> e[2]] \in Surjection(E, B)
    BY DEF Surjection
  <1>2. Ends(E) = A \cup B
    BY DEF Ends
  <1>. HIDE DEF A, B
  <1>3. IsFiniteSet(A) /\ IsFiniteSet(B)
    BY <1>1, FS_Surjection
  <1>. QED BY <1>2, <1>3, FS_Union

(* A subgraph takes no more ids than it has room for.                      *)
LEMMA AdmittedFit ==
    ASSUME NEW s, NEW rows, IsEdges(rows), Room(s) \in Nat
    PROVE  /\ IsFiniteSet(Admitted(s, rows))
           /\ Cardinality(Admitted(s, rows)) <= Room(s)
  <1>. DEFINE S == New(s, rows)
              R == {p \in S \X S : Sooner(p[1], p[2], rows)}
              F == ComeFirst(S, R, Room(s))
  <1>1. S \subseteq Ends(rows)
    BY DEF New
  <1>2. /\ \A x, y \in S : x # y => <<x, y>> \in R \/ <<y, x>> \in R
        /\ \A x, y, z \in S : <<x, y>> \in R /\ <<y, z>> \in R => <<x, z>> \in R
    <2>. HIDE DEF S
    <2>. QED BY <1>1, SoonerOrders
  <1>3. IsFiniteSet(S)
    <2>1. S \in SUBSET Ends(rows) /\ IsFiniteSet(rows)
      BY <1>1 DEF IsEdges
    <2>. HIDE DEF S
    <2>. QED BY <2>1, EndsFinite, FS_Subset
  <1>4. Admitted(s, rows) = F
    <2>1. \A c \in S : {d \in S \ {c} : Sooner(d, c, rows)} = {d \in S \ {c} : <<d, c>> \in R}
      OBVIOUS
    <2>. HIDE DEF R
    <2>. QED BY <2>1 DEF Admitted, ComeFirst
  <1>5. IsFiniteSet(F) /\ Cardinality(F) <= Room(s)
    <2>. HIDE DEF S, R
    <2>. QED BY <1>2, <1>3, FewComeFirst
  <1>. QED BY <1>4, <1>5

(* A hop keeps a search as it should be.                                   *)
LEMMA RowsOfHop ==
    ASSUME GraphInv, NEW s, Searching(s)
    PROVE  LET rows == Rows(s, graph.edges) IN
           /\ IsEdges(rows)
           /\ rows \subseteq EdgesAt(graph, s.frontier)
           /\ Ends(rows) \subseteq graph.nodes
           /\ Incident(s, graph.edges) = EdgesAt(graph, s.frontier)
  <1>. DEFINE incident == Incident(s, graph.edges)
              rows == Rows(s, graph.edges)
  <1>1. graph.edges \subseteq Txs \X Txs /\ IsFiniteSet(graph.edges)
    BY DEF GraphInv
  <1>2. incident \subseteq graph.edges /\ incident = EdgesAt(graph, s.frontier)
    BY DEF Incident, EdgesAt
  <1>3. \A E \in SUBSET graph.edges : IsEdges(E)
    BY <1>1, FS_Subset DEF IsEdges, GraphInv
  <1>4. rows \subseteq incident
    <2>1. IsEdges(incident) /\ MaxEdges \in Nat
      BY <1>2, <1>3, LimitAssumption
    <2>. QED BY <2>1, FirstEdgesFit DEF Rows
  <1>5. \A e \in rows : e[1] \in graph.nodes /\ e[2] \in graph.nodes
    BY <1>2, <1>4 DEF GraphInv
  <1>6. IsEdges(rows)
    BY <1>2, <1>3, <1>4
  <1>. HIDE DEF rows, incident
  <1>7. Ends(rows) \subseteq graph.nodes
    BY <1>5 DEF Ends
  <1>. QED BY <1>2, <1>4, <1>6, <1>7 DEF rows, incident

LEMMA HopInLimits ==
    ASSUME GraphInv, NEW s, NEW c, SearchInLimits(s, c, graph), Searching(s)
    PROVE  SearchInLimits(Expand(s, graph.edges), c, graph)
  <1>. DEFINE rows == Rows(s, graph.edges)
              t == Expand(s, graph.edges)
              new == Admitted(s, rows)
  <1>1. /\ IsEdges(rows) /\ rows \subseteq graph.edges /\ Ends(rows) \subseteq graph.nodes
    BY RowsOfHop DEF EdgesAt
  <1>2. /\ t.visited = s.visited \cup new /\ t.frontier = new
        /\ t.found = s.found \cup rows /\ t.hop = s.hop + 1
        /\ t.truncated \in BOOLEAN
    BY DEF Expand, SearchInLimits
  <1>3. new \subseteq Ends(rows)
    BY DEF Admitted, New
  <1>. HIDE DEF rows, t, new
  <1>4. Cardinality(s.visited) \in Nat /\ MaxNodes \in Nat
    BY LimitAssumption, FS_CardinalityType DEF SearchInLimits
  <1>5. Room(s) \in Nat /\ Room(s) = MaxNodes - Cardinality(s.visited)
    BY <1>4 DEF Room, SearchInLimits
  <1>6. IsFiniteSet(new) /\ Cardinality(new) <= Room(s)
    BY <1>1, <1>5, AdmittedFit DEF new
  <1>7. IsFiniteSet(t.visited) /\ Cardinality(t.visited) <= MaxNodes
    <2>1. IsFiniteSet(s.visited)
      BY DEF SearchInLimits
    <2>2. /\ IsFiniteSet(s.visited \cup new)
          /\ Cardinality(s.visited \cup new)
                = Cardinality(s.visited) + Cardinality(new) - Cardinality(s.visited \cap new)
      BY <1>6, <2>1, FS_Union
    <2>3. Cardinality(new) \in Nat /\ Cardinality(s.visited \cap new) \in Nat
      BY <1>6, <2>1, FS_Intersection, FS_CardinalityType
    <2>4. Cardinality(s.visited \cup new) <= MaxNodes
      BY <1>4, <1>5, <1>6, <2>2, <2>3
    <2>. QED BY <1>2, <2>2, <2>4
  <1>8. t.hop \in 0 .. MaxHops
    BY <1>2, LimitAssumption DEF SearchInLimits, Searching
  <1>. QED BY <1>1, <1>2, <1>3, <1>7, <1>8 DEF SearchInLimits, t

LEMMA HopNoMore ==
    ASSUME GraphInv, NEW s, NEW c, Searching(s),
           SearchInLimits(s, c, graph), SearchNoMore(s, c, graph)
    PROVE  SearchNoMore(Expand(s, graph.edges), c, graph)
  <1>. DEFINE rows == Rows(s, graph.edges)
              t == Expand(s, graph.edges)
              a == Around(graph, c)
  <1>1. rows \subseteq EdgesAt(graph, s.frontier)
    BY RowsOfHop
  <1>2. /\ t.visited \subseteq s.visited \cup Ends(rows)
        /\ t.found = s.found \cup rows /\ t.hop = s.hop + 1
    BY DEF Expand, Admitted, New
  <1>. HIDE DEF rows, t, a
  <1>3. s.hop \in 0 .. MaxHops - 1 /\ MaxHops - 1 \in s.hop .. MaxHops /\ s.hop \in 0 .. MaxHops
    BY LimitAssumption DEF SearchInLimits, Searching
  <1>4. /\ a[s.hop + 1] = a[s.hop] \cup Ends(EdgesAt(graph, a[s.hop]))
        /\ a[s.hop] \subseteq a[MaxHops - 1]
    BY <1>3, AroundSteps, AroundWidens DEF a
  <1>5. s.visited \subseteq a[s.hop] /\ s.found \subseteq EdgesAt(graph, a[MaxHops - 1])
    BY DEF SearchNoMore, a
  <1>6. rows \subseteq EdgesAt(graph, a[s.hop])
    BY <1>1, <1>5 DEF EdgesAt, SearchInLimits
  <1>7. Ends(rows) \subseteq Ends(EdgesAt(graph, a[s.hop]))
    BY <1>6 DEF Ends
  <1>8. EdgesAt(graph, a[s.hop]) \subseteq EdgesAt(graph, a[MaxHops - 1])
    BY <1>4 DEF EdgesAt
  <1>9. t.visited \subseteq a[t.hop]
    BY <1>2, <1>4, <1>5, <1>7
  <1>10. t.found \subseteq EdgesAt(graph, a[MaxHops - 1])
    BY <1>2, <1>5, <1>6, <1>8
  <1>. QED BY <1>9, <1>10 DEF SearchNoMore, a, t

LEMMA HopNoLess ==
    ASSUME GraphInv, NEW s, NEW c, NEW g, g.edges \subseteq graph.edges, Searching(s),
           SearchInLimits(s, c, graph), s.truncated \/ SearchNoLess(s, c, g),
           ~Expand(s, graph.edges).truncated
    PROVE  SearchNoLess(Expand(s, graph.edges), c, g)
  <1>. DEFINE rows == Rows(s, graph.edges)
              t == Expand(s, graph.edges)
              a == Around(g, c)
              new == Ends(rows) \ s.visited
  <1>1. SearchNoLess(s, c, g)
    BY DEF Expand
  <1>2. rows = EdgesAt(graph, s.frontier)
    BY RowsOfHop DEF Expand
  <1>3. /\ t.visited = s.visited \cup new /\ t.frontier = new
        /\ t.found = s.found \cup rows /\ t.hop = s.hop + 1
    BY DEF Expand, New
  <1>. HIDE DEF rows, t, a
  <1>4. s.hop \in 0 .. MaxHops - 1 /\ t.hop > 0 /\ t.hop - 1 = s.hop
    BY <1>3, LimitAssumption DEF SearchInLimits, Searching
  <1>5. a[s.hop + 1] = a[s.hop] \cup Ends(EdgesAt(g, a[s.hop]))
    BY <1>4, AroundSteps DEF a
  <1>6. EdgesAt(g, s.visited) \subseteq t.found
    BY <1>1, <1>2, <1>3 DEF EdgesAt, SearchNoLess
  <1>7. Ends(t.found) \subseteq t.visited
    BY <1>1, <1>3 DEF Ends, SearchNoLess
  <1>8. t.visited \ t.frontier = s.visited
    BY <1>3
  <1>9. a[s.hop] \subseteq s.visited
    BY <1>1 DEF SearchNoLess, a
  <1>10. a[t.hop] \subseteq t.visited
    <2>1. EdgesAt(g, a[s.hop]) \subseteq EdgesAt(g, s.visited)
      BY <1>9 DEF EdgesAt
    <2>2. Ends(EdgesAt(g, a[s.hop])) \subseteq Ends(t.found)
      BY <1>6, <2>1 DEF Ends
    <2>. QED BY <1>3, <1>5, <1>7, <1>9, <2>2
  <1>. QED BY <1>4, <1>6, <1>7, <1>8, <1>9, <1>10 DEF SearchNoLess, a, t

LEMMA HopOK ==
    ASSUME GraphInv, NEW s, NEW c, NEW h, h.edges \subseteq graph.edges,
           SearchOK(s, c, graph, h), Searching(s)
    PROVE  SearchOK(Expand(s, graph.edges), c, graph, h)
  BY HopInLimits, HopNoMore, HopNoLess DEF SearchOK

(* What a finished search gives is an answer.                              *)
LEMMA AnswerInLimits ==
    ASSUME GraphInv, NEW s, NEW c, SearchInLimits(s, c, graph)
    PROVE  /\ Bounded(Subgraph(c, s), c)
           /\ Subgraph(c, s).edges \subseteq s.found
  <1>. DEFINE bounded == {e \in s.found : e[1] \in s.visited /\ e[2] \in s.visited}
              kept == FirstEdges(bounded, MaxEdges)
              r == Subgraph(c, s)
  <1>1. /\ r.center = c /\ r.nodes = s.visited /\ r.edges = kept
        /\ r.truncated = (s.truncated \/ kept # bounded)
    BY DEF Subgraph
  <1>2. bounded \subseteq graph.edges /\ bounded \subseteq s.visited \X s.visited
    <2>1. \A e \in graph.edges : e = <<e[1], e[2]>>
      BY DEF GraphInv
    <2>. QED BY <2>1 DEF SearchInLimits
  <1>3. bounded \subseteq s.found
    OBVIOUS
  <1>. HIDE DEF r, bounded
  <1>4. IsEdges(bounded)
    <2>1. graph.edges \subseteq Txs \X Txs /\ IsFiniteSet(graph.edges)
      BY DEF GraphInv
    <2>. QED BY <1>2, <2>1, FS_Subset DEF IsEdges, GraphInv
  <1>5. kept \subseteq bounded /\ Cardinality(kept) <= MaxEdges
    BY <1>4, LimitAssumption, FirstEdgesFit
  <1>. HIDE DEF kept
  <1>6. /\ c \in s.visited /\ s.visited \subseteq Txs /\ Cardinality(s.visited) <= MaxNodes
        /\ s.truncated \in BOOLEAN
    BY DEF SearchInLimits, GraphInv
  <1>7. r.truncated \in BOOLEAN
    BY <1>1, <1>6
  <1>. QED BY <1>1, <1>2, <1>3, <1>5, <1>6, <1>7 DEF Bounded, r

LEMMA AnswerNoMore ==
    ASSUME GraphInv, NEW s, NEW c, SearchInLimits(s, c, graph), SearchNoMore(s, c, graph)
    PROVE  Within(Subgraph(c, s), Neighbourhood(graph, c))
  <1>. DEFINE a == Around(graph, c)
  <1>1. s.hop \in 0 .. MaxHops /\ MaxHops \in s.hop .. MaxHops
    BY LimitAssumption DEF SearchInLimits
  <1>2. s.visited \subseteq a[MaxHops]
    BY <1>1, AroundWidens DEF SearchNoMore
  <1>3. s.found \subseteq EdgesAt(graph, a[MaxHops - 1])
    BY DEF SearchNoMore
  <1>4. Subgraph(c, s).nodes = s.visited /\ Subgraph(c, s).edges \subseteq s.found
    BY AnswerInLimits DEF Subgraph
  <1>5. /\ Neighbourhood(graph, c).nodes = a[MaxHops]
        /\ Neighbourhood(graph, c).edges = EdgesAt(graph, a[MaxHops - 1])
    BY DEF Neighbourhood, EdgesAt
  <1>. HIDE DEF a
  <1>. QED BY <1>2, <1>3, <1>4, <1>5 DEF Within

LEMMA AnswerNoLess ==
    ASSUME GraphInv, NEW s, NEW c, NEW g, ~Searching(s),
           SearchInLimits(s, c, graph), SearchNoLess(s, c, g),
           ~Subgraph(c, s).truncated
    PROVE  Within(Neighbourhood(g, c), Subgraph(c, s))
  <1>. DEFINE a == Around(g, c)
  <1>1. /\ Neighbourhood(g, c).nodes = a[MaxHops]
        /\ Neighbourhood(g, c).edges = EdgesAt(g, a[MaxHops - 1])
    BY DEF Neighbourhood, EdgesAt
  <1>2. /\ Subgraph(c, s).nodes = s.visited
        /\ Subgraph(c, s).edges = {e \in s.found : e[1] \in s.visited /\ e[2] \in s.visited}
    BY DEF Subgraph
  <1>. HIDE DEF a
  <1>3. \A e \in s.found : e[1] \in s.visited /\ e[2] \in s.visited
    BY DEF Ends, SearchNoLess
  <1>4. Subgraph(c, s).edges = s.found
    BY <1>2, <1>3
  <1>5. MaxHops \in Nat /\ MaxHops > 0 /\ MaxHops - 1 \in 0 .. MaxHops /\ MaxHops \in 0 .. MaxHops
    BY LimitAssumption
  <1>6. a[MaxHops] \subseteq s.visited /\ EdgesAt(g, a[MaxHops - 1]) \subseteq s.found
    <2>1. CASE s.frontier = {}
      <3>1. EdgesAt(g, s.visited) \subseteq s.found
        BY <2>1 DEF SearchNoLess, EdgesAt
      <3>2. Ends(EdgesAt(g, s.visited)) \subseteq s.visited
        BY <3>1 DEF SearchNoLess, Ends
      <3>3. c \in s.visited
        BY DEF SearchInLimits
      <3>4. a[MaxHops] \subseteq s.visited /\ a[MaxHops - 1] \subseteq s.visited
        BY <1>5, <3>2, <3>3, AroundClosed DEF a
      <3>. QED BY <3>1, <3>4 DEF EdgesAt
    <2>2. CASE s.frontier # {}
      <3>1. s.hop = MaxHops
        BY <1>5, <2>2 DEF Searching, SearchInLimits
      <3>2. a[MaxHops] \subseteq s.visited /\ a[MaxHops - 1] \subseteq s.visited \ s.frontier
        BY <1>5, <3>1 DEF SearchNoLess, a
      <3>3. EdgesAt(g, s.visited \ s.frontier) \subseteq s.found
        BY DEF SearchNoLess
      <3>. QED BY <3>2, <3>3 DEF EdgesAt
    <2>. QED BY <2>1, <2>2
  <1>. QED BY <1>1, <1>2, <1>4, <1>6 DEF Within

LEMMA SubgraphAnswers ==
    ASSUME GraphInv, NEW s, NEW c, NEW h, SearchOK(s, c, graph, h), ~Searching(s)
    PROVE  AnswerOK(Subgraph(c, s), c, graph, h)
  <1>1. SearchInLimits(s, c, graph) /\ SearchNoMore(s, c, graph)
    BY DEF SearchOK
  <1>2. ASSUME ~Subgraph(c, s).truncated
        PROVE  Within(Neighbourhood(h, c), Subgraph(c, s))
    <2>1. SearchNoLess(s, c, h)
      BY <1>2 DEF SearchOK, Subgraph
    <2>. QED BY <1>1, <1>2, <2>1, AnswerNoLess
  <1>. QED BY <1>1, <1>2, AnswerInLimits, AnswerNoMore DEF AnswerOK

(* What a batch adds takes nothing from what was found.                    *)
LEMMA NeighbourhoodGrows ==
    ASSUME NEW g, NEW k, NEW c, g.edges \subseteq k.edges
    PROVE  Within(Neighbourhood(g, c), Neighbourhood(k, c))
  <1>1. MaxHops \in 0 .. MaxHops /\ MaxHops - 1 \in 0 .. MaxHops
    BY LimitAssumption
  <1>2. /\ Around(g, c)[MaxHops] \subseteq Around(k, c)[MaxHops]
        /\ Around(g, c)[MaxHops - 1] \subseteq Around(k, c)[MaxHops - 1]
    BY <1>1, AroundGrows
  <1>. QED BY <1>2 DEF Neighbourhood, Within

LEMMA SearchStays ==
    ASSUME NEW s, NEW c, NEW g, NEW h, NEW k,
           g.nodes \subseteq k.nodes, g.edges \subseteq k.edges, SearchOK(s, c, g, h)
    PROVE  SearchOK(s, c, k, h)
  <1>1. SearchInLimits(s, c, k)
    BY DEF SearchOK, SearchInLimits
  <1>2. SearchNoMore(s, c, k)
    <2>1. s.hop \in 0 .. MaxHops /\ MaxHops - 1 \in 0 .. MaxHops
      BY LimitAssumption DEF SearchOK, SearchInLimits
    <2>2. /\ Around(g, c)[s.hop] \subseteq Around(k, c)[s.hop]
          /\ Around(g, c)[MaxHops - 1] \subseteq Around(k, c)[MaxHops - 1]
      BY <2>1, AroundGrows
    <2>. QED BY <2>2 DEF SearchOK, SearchNoMore, EdgesAt
  <1>. QED BY <1>1, <1>2 DEF SearchOK

LEMMA AnswerStays ==
    ASSUME NEW r, NEW c, NEW g, NEW h, NEW k, g.edges \subseteq k.edges, AnswerOK(r, c, g, h)
    PROVE  AnswerOK(r, c, k, h)
  BY NeighbourhoodGrows DEF AnswerOK, Within

-----------------------------------------------------------------------------
LEMMA InitServed == ExplorerInit => ServedInv
  <1>. SUFFICES ASSUME ExplorerInit PROVE ServedInv
    OBVIOUS
  <1>1. GraphInv
    BY FS_EmptySet DEF ExplorerInit, GraphInv, EmptyGraph
  <1>2. RequestTypes
    BY RequestsAssumption DEF ExplorerInit, RequestTypes, PCs
  <1>3. SearchInv /\ ResultInv /\ CacheInv
    BY DEF ExplorerInit, SearchInv, ResultInv, CacheInv
  <1>. QED BY <1>1, <1>2, <1>3 DEF ServedInv

LEMMA MaterializeServed ==
    ASSUME ServedInv, NEW b \in Batches, Materialize(b)
    PROVE  ServedInv'
  <1>1. /\ graph'.nodes = graph.nodes \cup b.nodes
        /\ graph'.edges = graph.edges \cup b.edges
        /\ Ends(b.edges) \subseteq graph'.nodes
        /\ checkpoint' \in {b.step, checkpoint}
        /\ DOMAIN asOf' = DOMAIN asOf \cup {checkpoint'}
        /\ \A w \in DOMAIN asOf' : asOf'[w] = IF w \in DOMAIN asOf THEN asOf[w] ELSE graph'
        /\ UNCHANGED <<cache, pc, center, watermark, search, result, faults>>
    BY DEF Materialize, request
  <1>2. /\ b.nodes \subseteq Txs /\ b.edges \subseteq Txs \X Txs
        /\ IsFiniteSet(b.edges) /\ \A e \in b.edges : e[1] # e[2]
    BY BatchAssumption
  <1>3. GraphInv /\ RequestTypes /\ SearchInv /\ ResultInv /\ CacheInv
    BY DEF ServedInv
  <1>4. \A e \in b.edges : e = <<e[1], e[2]>> /\ e[1] \in graph'.nodes /\ e[2] \in graph'.nodes
    BY <1>1, <1>2 DEF Ends
  <1>5. GraphInv'
    <2>1. IsFiniteSet(graph'.edges)
      <3>1. IsFiniteSet(graph.edges)
        BY <1>3 DEF GraphInv
      <3>2. IsFiniteSet(graph.edges \cup b.edges)
        BY <1>2, <3>1, FS_Union
      <3>. QED BY <1>1, <3>2
    <2>2. graph'.edges \subseteq graph'.nodes \X graph'.nodes
      <3>1. \A e \in b.edges : e \in graph'.nodes \X graph'.nodes
        BY <1>4
      <3>. QED BY <1>1, <1>3, <3>1 DEF GraphInv
    <2>. QED BY <1>1, <1>2, <1>3, <2>1, <2>2 DEF GraphInv
  <1>6. RequestTypes'
    BY <1>1, <1>3 DEF RequestTypes
  <1>7. \A f \in Fetches : asOf'[watermark[f]] = asOf[watermark[f]]
    BY <1>1, <1>3 DEF RequestTypes
  <1>8. graph.nodes \subseteq graph'.nodes /\ graph.edges \subseteq graph'.edges
    BY <1>1
  <1>9. SearchInv'
    BY <1>1, <1>3, <1>7, <1>8, SearchStays DEF SearchInv
  <1>10. ResultInv'
    BY <1>1, <1>3, <1>7, <1>8, AnswerStays DEF ResultInv
  <1>11. CacheInv'
    BY <1>1, <1>3, <1>8, AnswerStays DEF CacheInv
  <1>. QED BY <1>5, <1>6, <1>9, <1>10, <1>11 DEF ServedInv

(* A step of one request, which leaves the tables and the others alone.    *)
Others(f) ==
    \A g \in Fetches \ {f} :
        /\ pc'[g] = pc[g] /\ center'[g] = center[g] /\ watermark'[g] = watermark[g]
        /\ search'[g] = search[g] /\ result'[g] = result[g]

LEMMA RequestMoves ==
    ASSUME ServedInv, NEW f \in Fetches, UNCHANGED <<graph, checkpoint, asOf>>,
           RequestTypes', CacheInv', Others(f),
           pc'[f] = "hop" =>
               SearchOK(search'[f], center'[f], graph, asOf[watermark'[f]]),
           pc'[f] \notin {"store", "reply"} => result'[f] = NoSubgraph,
          pc'[f] = "store" \/ (pc'[f] = "reply" /\ result'[f] # NoSubgraph) =>
               AnswerOK(result'[f], center'[f], graph, asOf[watermark'[f]])
    PROVE  ServedInv'
  <1>1. GraphInv /\ SearchInv /\ ResultInv
    BY DEF ServedInv
  <1>2. GraphInv'
    BY <1>1 DEF GraphInv
  <1>3. SearchInv'
    BY <1>1 DEF SearchInv, Others
  <1>4. ResultInv'
    BY <1>1 DEF ResultInv, Others
  <1>. QED BY <1>2, <1>3, <1>4 DEF ServedInv

LEMMA CacheStays ==
    ASSUME CacheInv, UNCHANGED <<graph, cache, asOf>>
    PROVE  CacheInv'
  BY DEF CacheInv

(* A search begins with the center alone.                                  *)
LEMMA CenterOK ==
    ASSUME NEW c, NEW g, NEW h, c \in g.nodes
    PROVE  SearchOK(AtCenter(c), c, g, h)
  <1>. DEFINE s == AtCenter(c)
  <1>1. /\ s.visited = {c} /\ s.frontier = {c} /\ s.found = {}
        /\ s.truncated = FALSE /\ s.hop = 0
    BY DEF AtCenter
  <1>. HIDE DEF s
  <1>2. MaxHops \in Nat /\ MaxNodes \in Nat \ {0}
    BY LimitAssumption
  <1>3. IsFiniteSet(s.visited) /\ Cardinality(s.visited) = 1
    BY <1>1, FS_Singleton
  <1>4. SearchInLimits(s, c, g)
    <2>1. Cardinality(s.visited) <= MaxNodes /\ s.hop \in 0 .. MaxHops
      BY <1>1, <1>2, <1>3
    <2>. QED BY <1>1, <1>3, <2>1 DEF SearchInLimits
  <1>5. Around(g, c)[0] = {c} /\ Around(h, c)[0] = {c}
    BY AroundSteps
  <1>6. SearchNoMore(s, c, g)
    BY <1>1, <1>5 DEF SearchNoMore
  <1>7. SearchNoLess(s, c, h)
    BY <1>1, <1>5 DEF SearchNoLess, Ends, EdgesAt
  <1>. QED BY <1>4, <1>6, <1>7 DEF SearchOK, s

LEMMA FetchServed ==
    ASSUME ServedInv, NEW f \in Fetches,
           \/ FetchWatermark(f) \/ CacheHit(f) \/ CacheMiss(f) \/ FindCenter(f)
           \/ Hop(f) \/ Assemble(f) \/ FetchFails(f) \/ Receive(f)
    PROVE  ServedInv'
  <1>0. GraphInv /\ RequestTypes /\ SearchInv /\ ResultInv /\ CacheInv
    BY DEF ServedInv
  <1>1. UNCHANGED <<graph, checkpoint, cache, asOf, center>>
    BY DEF FetchWatermark, CacheHit, CacheMiss, FindCenter, Hop, Assemble, FetchFails, Receive,
           database, past
  <1>2. CacheInv'
    BY <1>0, <1>1, CacheStays
  <1>3. CASE FetchWatermark(f)
    <2>1. /\ pc[f] = "watermark" /\ pc' = [pc EXCEPT ![f] = "cached"]
          /\ watermark' = [watermark EXCEPT ![f] = checkpoint]
          /\ UNCHANGED <<search, result, faults>>
      BY <1>3 DEF FetchWatermark
    <2>2. RequestTypes' /\ Others(f) /\ pc'[f] = "cached" /\ result'[f] = NoSubgraph
      BY <1>0, <1>1, <2>1 DEF RequestTypes, GraphInv, ResultInv, Others, PCs
    <2>. QED BY <1>1, <1>2, <2>2, RequestMoves
  <1>4. CASE CacheHit(f)
    <2>1. /\ SubgraphCacheKey(f) \in DOMAIN cache
          /\ pc' = [pc EXCEPT ![f] = "reply"]
          /\ result' = [result EXCEPT ![f] = cache[SubgraphCacheKey(f)]]
          /\ UNCHANGED <<watermark, search, faults>>
      BY <1>4 DEF CacheHit
    <2>2. /\ RequestTypes' /\ Others(f) /\ pc'[f] = "reply"
          /\ result'[f] = cache[SubgraphCacheKey(f)]
      BY <1>0, <1>1, <2>1 DEF RequestTypes, Others, PCs
    <2>3. AnswerOK(cache[SubgraphCacheKey(f)], center[f], graph, asOf[watermark[f]])
      BY <1>0, <2>1 DEF CacheInv, SubgraphCacheKey
    <2>. QED BY <1>1, <1>2, <2>1, <2>2, <2>3, RequestMoves
  <1>5. CASE CacheMiss(f)
    <2>1. /\ pc[f] = "cached" /\ pc' = [pc EXCEPT ![f] = "center"]
          /\ UNCHANGED <<watermark, search, result, faults>>
      BY <1>5 DEF CacheMiss
    <2>2. RequestTypes' /\ Others(f) /\ pc'[f] = "center" /\ result'[f] = NoSubgraph
      BY <1>0, <1>1, <2>1 DEF RequestTypes, ResultInv, Others, PCs
    <2>. QED BY <1>1, <1>2, <2>2, RequestMoves
  <1>6. CASE FindCenter(f)
    <2>1. pc[f] = "center" /\ UNCHANGED <<watermark, result, faults>>
      BY <1>6 DEF FindCenter
    <2>4. result[f] = NoSubgraph
      BY <1>0, <2>1 DEF ResultInv
    <2>2. CASE center[f] \in graph.nodes
      <3>1. /\ pc' = [pc EXCEPT ![f] = "hop"]
            /\ search' = [search EXCEPT ![f] = AtCenter(center[f])]
        BY <1>6, <2>2 DEF FindCenter
      <3>2. /\ RequestTypes' /\ Others(f) /\ pc'[f] = "hop"
            /\ search'[f] = AtCenter(center[f])
        BY <1>0, <1>1, <2>1, <3>1 DEF RequestTypes, Others, PCs
      <3>3. SearchOK(AtCenter(center[f]), center[f], graph, asOf[watermark[f]])
        BY <1>0, <2>2, CenterOK
      <3>. QED BY <1>1, <1>2, <2>1, <2>4, <3>2, <3>3, RequestMoves
    <2>3. CASE center[f] \notin graph.nodes
      <3>1. pc' = [pc EXCEPT ![f] = "reply"] /\ search' = search
        BY <1>6, <2>3 DEF FindCenter
      <3>2. RequestTypes' /\ Others(f) /\ pc'[f] = "reply"
        BY <1>0, <1>1, <2>1, <3>1 DEF RequestTypes, Others, PCs
      <3>. QED BY <1>1, <1>2, <2>1, <2>4, <3>2, RequestMoves
    <2>. QED BY <2>2, <2>3
  <1>7. CASE Hop(f)
    <2>1. /\ pc[f] = "hop" /\ Searching(search[f])
          /\ search' = [search EXCEPT ![f] = Expand(search[f], graph.edges)]
          /\ UNCHANGED <<pc, watermark, result, faults>>
      BY <1>7 DEF Hop
    <2>2. /\ RequestTypes' /\ Others(f) /\ pc'[f] = "hop" /\ result'[f] = NoSubgraph
          /\ search'[f] = Expand(search[f], graph.edges)
      BY <1>0, <1>1, <2>1 DEF RequestTypes, ResultInv, Others
    <2>3. SearchOK(search[f], center[f], graph, asOf[watermark[f]])
      BY <1>0, <2>1 DEF SearchInv
    <2>4. asOf[watermark[f]].edges \subseteq graph.edges
      BY <1>0 DEF GraphInv, RequestTypes
    <2>5. SearchOK(search'[f], center[f], graph, asOf[watermark[f]])
      BY <1>0, <2>1, <2>2, <2>3, <2>4, HopOK
    <2>. QED BY <1>1, <1>2, <2>1, <2>2, <2>5, RequestMoves
  <1>8. CASE Assemble(f)
    <2>1. /\ pc[f] = "hop" /\ ~Searching(search[f])
          /\ pc' = [pc EXCEPT ![f] = "store"]
          /\ search' = [search EXCEPT ![f] = NoSearch]
          /\ result' = [result EXCEPT ![f] = Subgraph(center[f], search[f])]
          /\ UNCHANGED <<watermark, faults>>
      BY <1>8 DEF Assemble
    <2>2. /\ RequestTypes' /\ Others(f) /\ pc'[f] = "store"
          /\ result'[f] = Subgraph(center[f], search[f])
      BY <1>0, <1>1, <2>1 DEF RequestTypes, Others, PCs
    <2>3. SearchOK(search[f], center[f], graph, asOf[watermark[f]])
      BY <1>0, <2>1 DEF SearchInv
    <2>4. AnswerOK(result'[f], center[f], graph, asOf[watermark[f]])
      BY <1>0, <2>1, <2>2, <2>3, SubgraphAnswers
    <2>. QED BY <1>1, <1>2, <2>1, <2>2, <2>4, RequestMoves
  <1>9. CASE FetchFails(f)
    <2>1. /\ pc' = [pc EXCEPT ![f] = "reply"]
          /\ search' = [search EXCEPT ![f] = NoSearch]
          /\ result' = [result EXCEPT ![f] = NoSubgraph]
          /\ faults < MaxFaults /\ faults' = faults + 1
          /\ watermark' = watermark
      BY <1>9 DEF FetchFails
    <2>2. RequestTypes' /\ Others(f) /\ pc'[f] = "reply" /\ result'[f] = NoSubgraph
      BY <1>0, <1>1, <2>1, RequestsAssumption DEF RequestTypes, Others, PCs
    <2>. QED BY <1>1, <1>2, <2>2, RequestMoves
  <1>10. CASE Receive(f)
    <2>1. /\ pc' = [pc EXCEPT ![f] = "done"]
          /\ watermark' = [watermark EXCEPT ![f] = 0]
          /\ result' = [result EXCEPT ![f] = NoSubgraph]
          /\ UNCHANGED <<search, faults>>
      BY <1>10 DEF Receive
    <2>2. RequestTypes' /\ Others(f) /\ pc'[f] = "done" /\ result'[f] = NoSubgraph
      BY <1>0, <1>1, <2>1 DEF RequestTypes, GraphInv, Others, PCs
    <2>. QED BY <1>1, <1>2, <2>2, RequestMoves
  <1>. QED BY <1>3, <1>4, <1>5, <1>6, <1>7, <1>8, <1>9, <1>10

LEMMA StoreServed ==
    ASSUME ServedInv, NEW f \in Fetches, Store(f)
    PROVE  ServedInv'
  <1>0. GraphInv /\ RequestTypes /\ SearchInv /\ ResultInv /\ CacheInv
    BY DEF ServedInv
  <1>1. /\ pc[f] = "store" /\ pc' = [pc EXCEPT ![f] = "reply"]
        /\ UNCHANGED <<graph, checkpoint, asOf, center, watermark, search, result, faults>>
    BY DEF Store, database, past
  <1>2. RequestTypes' /\ Others(f) /\ pc'[f] = "reply"
    BY <1>0, <1>1 DEF RequestTypes, Others, PCs
  <1>3. AnswerOK(result[f], center[f], graph, asOf[watermark[f]])
    BY <1>0, <1>1 DEF ResultInv
  <1>4. CacheInv'
    <2>1. CASE UNCHANGED cache
      BY <1>0, <1>1, <2>1, CacheStays
    <2>2. CASE cache' = [k \in DOMAIN cache \cup {SubgraphCacheKey(f)} |->
                            IF k = SubgraphCacheKey(f) THEN result[f] ELSE cache[k]]
      <3>1. watermark[f] \in DOMAIN asOf
        BY <1>0 DEF RequestTypes
      <3>2. /\ SubgraphCacheKey(f).tx = center[f]
            /\ SubgraphCacheKey(f).watermark = watermark[f]
        BY DEF SubgraphCacheKey
      <3>. QED BY <1>0, <1>1, <1>3, <2>2, <3>1, <3>2 DEF CacheInv
    <2>. QED BY <2>1, <2>2 DEF Store
  <1>. QED BY <1>1, <1>2, <1>3, <1>4, RequestMoves

LEMMA ExpireServed ==
    ASSUME ServedInv, NEW k \in DOMAIN cache, Expire(k)
    PROVE  ServedInv'
  BY DEF Expire, database, request, past, ServedInv, GraphInv, RequestTypes, SearchInv, ResultInv,
         CacheInv

LEMMA DoSearchServed ==
    ASSUME ServedInv, NEW id \in Searched, DoSearch(id)
    PROVE  ServedInv'
  BY DEF DoSearch, database, request, ServedInv, GraphInv, RequestTypes, SearchInv, ResultInv,
         CacheInv

LEMMA EntityMissingServed ==
    ASSUME ServedInv, NEW n \in Searches, EntityMissing(n)
    PROVE  ServedInv'
  <1>1. /\ UNCHANGED <<graph, checkpoint, cache, pc, center, watermark, search, result, asOf>>
        /\ faults' = faults \/ (faults < MaxFaults /\ faults' = faults + 1)
    BY DEF EntityMissing, database, request, past
  <1>2. RequestTypes'
    BY <1>1, RequestsAssumption DEF ServedInv, RequestTypes
  <1>. QED BY <1>1, <1>2 DEF ServedInv, GraphInv, SearchInv, ResultInv, CacheInv

LEMMA EntityFoundServed ==
    ASSUME ServedInv, PageInv, NEW n \in Searches, EntityFound(n)
    PROVE  ServedInv'
  <1>1. UNCHANGED <<graph, checkpoint, cache, watermark, search, result, asOf, faults>>
    BY DEF EntityFound, database, request, past
  <1>2. CacheInv'
    BY <1>1, CacheStays DEF ServedInv
  <1>3. CASE entity = Null
    <2>1. PICK f \in Fetches : /\ pc[f] = "unused"
                               /\ pc' = [pc EXCEPT ![f] = "watermark"]
                               /\ center' = [center EXCEPT ![f] = query]
      BY <1>3 DEF EntityFound, Mount
    <2>2. query \in Searched \cup {Null}
      BY DEF PageInv, PageTypes
    <2>3. RequestTypes' /\ Others(f) /\ pc'[f] = "watermark" /\ result'[f] = NoSubgraph
      BY <1>1, <2>1, <2>2 DEF ServedInv, RequestTypes, ResultInv, Others, PCs
    <2>. QED BY <1>1, <1>2, <2>3, RequestMoves
  <1>4. CASE entity # Null
    <2>1. UNCHANGED <<pc, center>>
      BY <1>4 DEF EntityFound, request
    <2>. QED BY <1>1, <1>2, <2>1 DEF ServedInv, GraphInv, RequestTypes, SearchInv, ResultInv
  <1>. QED BY <1>3, <1>4

LEMMA NextServed ==
    ASSUME ServedInv, PageInv, [ExplorerNext]_explorerVars
    PROVE  ServedInv'
  <1>1. CASE UNCHANGED explorerVars
    BY <1>1 DEF explorerVars, database, request, past, ServedInv, GraphInv, RequestTypes,
                SearchInv, ResultInv, CacheInv
  <1>2. CASE ExplorerNext
    BY <1>2, MaterializeServed, FetchServed, StoreServed, ExpireServed, DoSearchServed,
       EntityMissingServed, EntityFoundServed DEF ExplorerNext
  <1>. QED BY <1>1, <1>2

LEMMA ServedHolds == ExplorerSpec => [](ServedInv /\ PageInv)
  <1>. DEFINE I == ServedInv /\ PageInv
  <1>1. ExplorerInit => I
    BY InitServed, InitPage
  <1>2. I /\ [ExplorerNext]_explorerVars => I'
    BY NextServed, NextPage
  <1>. HIDE DEF I
  <1>3. ExplorerSpec => []I
    BY <1>1, <1>2, PTL DEF ExplorerSpec
  <1>. QED BY <1>3 DEF I

(* A subgraph that is not marked truncated lacks nothing of the            *)
(* neighbourhood as of its watermark, and none has more than there is,     *)
(* although it is read hop by hop while batches commit, cut at two limits  *)
(* and cached for others (queries.py get_bounded_subgraph, main.py         *)
(* subgraph).                                                              *)
THEOREM ServesTheNeighbourhood == ExplorerSpec => []ServedBetween
  <1>1. ServedInv => ServedBetween
    BY DEF ServedInv, ResultInv, AnswerOK, ServedBetween
  <1>. QED BY <1>1, ServedHolds, PTL

(* No subgraph that is served or cached is beyond the limits of its nodes  *)
(* and edges, none has an edge without its ends, and the explorer's        *)
(* variables have their types.                                             *)
THEOREM ExplorerTypes == ExplorerSpec => []ExplorerTypeOK
  <1>1. ServedInv /\ PageInv => ExplorerTypeOK
    <2>. SUFFICES ASSUME ServedInv, PageInv PROVE ExplorerTypeOK
      OBVIOUS
    <2>1. GraphInv /\ RequestTypes /\ SearchInv /\ ResultInv /\ CacheInv
      BY DEF ServedInv
    <2>2. /\ graph.nodes \subseteq Txs /\ graph.edges \subseteq graph.nodes \X graph.nodes
          /\ checkpoint \in DOMAIN asOf
      BY <2>1 DEF GraphInv
    <2>3. \A k \in DOMAIN cache : Bounded(cache[k], k.tx)
      BY <2>1 DEF CacheInv, AnswerOK
    <2>4. pc \in [Fetches -> PCs] /\ center \in [Fetches -> Searched \cup {Null}]
          /\ faults \in 0 .. MaxFaults
      BY <2>1 DEF RequestTypes
    <2>5. ASSUME NEW f \in Fetches
          PROVE  /\ pc[f] = "hop" => /\ search[f].visited \subseteq graph.nodes
                                     /\ search[f].hop <= MaxHops
                 /\ pc[f] \in {"store", "reply"} /\ result[f] # NoSubgraph
                       => Bounded(result[f], center[f])
      <3>1. pc[f] = "hop" => /\ search[f].visited \subseteq graph.nodes
                             /\ search[f].hop <= MaxHops
        BY <2>1, LimitAssumption DEF SearchInv, SearchOK, SearchInLimits
      <3>2. pc[f] \in {"store", "reply"} /\ result[f] # NoSubgraph
                => Bounded(result[f], center[f])
        BY <2>1 DEF ResultInv, AnswerOK
      <3>. QED BY <3>1, <3>2
    <2>6. /\ lookup \in [Searches -> Searched \cup {Null}]
          /\ open \subseteq {n \in Searches : lookup[n] # Null}
          /\ query \in Searched \cup {Null} /\ entity \in Searched \cup {Null}
          /\ active \in Fetches \cup {NoOne} /\ shown \in Fetches \cup {NoOne}
      BY NullNotSearched DEF PageInv, PageTypes, ViewerOfQuery
    <2>. QED BY <2>2, <2>3, <2>4, <2>5, <2>6 DEF ExplorerTypeOK
  <1>. QED BY <1>1, ServedHolds, PTL

-----------------------------------------------------------------------------
(* Sequences of entries                                                    *)

LEMMA FirstOfMany ==
    ASSUME NEW S, NEW s \in Seq(S), s # <<>>
    PROVE  Len(s) > 0 /\ 1 \in DOMAIN s
  BY Elements, EmptySeq

LEMMA IntervalIs ==
    ASSUME NEW lo \in Int, NEW hi \in Int
    PROVE  /\ DOMAIN Interval(lo, hi) = 1 .. (hi - lo + 1)
           /\ \A i \in DOMAIN Interval(lo, hi) : Interval(lo, hi)[i] = lo + i - 1
           /\ Interval(lo, hi) \in Seq(lo .. hi)
           /\ Len(Interval(lo, hi)) = IF lo <= hi THEN hi - lo + 1 ELSE 0
           /\ Range(Interval(lo, hi)) = lo .. hi
           /\ Rising(Interval(lo, hi))
  <1>1. /\ DOMAIN Interval(lo, hi) = 1 .. (hi - lo + 1)
        /\ \A i \in DOMAIN Interval(lo, hi) : Interval(lo, hi)[i] = lo + i - 1
    BY DEF Interval
  <1>2. PICK n \in Nat : n = IF lo <= hi THEN hi - lo + 1 ELSE 0
    <2>1. (IF lo <= hi THEN hi - lo + 1 ELSE 0) \in Nat
      OBVIOUS
    <2>. QED BY <2>1
  <1>3. 1 .. (hi - lo + 1) = 1 .. n
    BY <1>2
  <1>4. Interval(lo, hi) \in [1 .. n -> lo .. hi]
    <2>1. \A i \in 1 .. n : lo + i - 1 \in lo .. hi
      BY <1>2
    <2>. QED BY <1>3, <2>1 DEF Interval
  <1>5. Interval(lo, hi) \in Seq(lo .. hi)
    BY <1>4, SeqDef
  <1>6. Len(Interval(lo, hi)) = n
    <2>1. DOMAIN Interval(lo, hi) = 1 .. Len(Interval(lo, hi)) /\ Len(Interval(lo, hi)) \in Nat
      BY <1>5, Elements
    <2>2. 1 .. n = 1 .. Len(Interval(lo, hi))
      BY <1>1, <1>3, <2>1
    <2>3. \A k, l \in Nat : 1 .. k = 1 .. l => k = l
      <3>. SUFFICES ASSUME NEW k \in Nat, NEW l \in Nat, 1 .. k = 1 .. l PROVE k = l
        OBVIOUS
      <3>1. k = 0 \/ k \in 1 .. l
        OBVIOUS
      <3>2. l = 0 \/ l \in 1 .. k
        OBVIOUS
      <3>3. (k = 0 => ~(1 \in 1 .. l)) /\ (l = 0 => ~(1 \in 1 .. k))
        OBVIOUS
      <3>. QED BY <3>1, <3>2, <3>3
    <2>. QED BY <2>1, <2>2, <2>3
  <1>7. Range(Interval(lo, hi)) = lo .. hi
    <2>1. Range(Interval(lo, hi)) \subseteq lo .. hi
      BY <1>5, Elements
    <2>2. ASSUME NEW m \in lo .. hi PROVE m \in Range(Interval(lo, hi))
      <3>1. m - lo + 1 \in DOMAIN Interval(lo, hi) /\ Interval(lo, hi)[m - lo + 1] = m
        BY <1>1
      <3>. QED BY <3>1, <1>5, Elements
    <2>. QED BY <2>1, <2>2
  <1>8. Rising(Interval(lo, hi))
    BY <1>1 DEF Rising
  <1>. QED BY <1>1, <1>2, <1>5, <1>6, <1>7, <1>8

(* Taking the first of a rising sequence.                                  *)
LEMMA WithoutHead ==
    ASSUME NEW s \in Seq(Nat), s # <<>>
    PROVE  /\ Head(s) = s[1] /\ Head(s) \in Range(s) /\ Head(s) \in Nat
           /\ Tail(s) \in Seq(Nat) /\ Len(Tail(s)) = Len(s) - 1
           /\ \A i \in DOMAIN Tail(s) : i + 1 \in DOMAIN s /\ Tail(s)[i] = s[i + 1]
           /\ Range(s) = {Head(s)} \cup Range(Tail(s))
           /\ Rising(s) => /\ Rising(Tail(s))
                           /\ \A i \in DOMAIN Tail(s) : Head(s) < Tail(s)[i]
                           /\ \A n \in Range(Tail(s)) : Head(s) < n
                           /\ \A i \in DOMAIN s : Head(s) <= s[i]
  <1>1. /\ Len(s) \in Nat /\ DOMAIN s = 1 .. Len(s) /\ 1 \in DOMAIN s
        /\ \A i \in DOMAIN s : s[i] \in Nat
    BY Elements, FirstOfMany
  <1>2. /\ Head(s) = s[1]
        /\ Tail(s) \in Seq(Nat) /\ Len(Tail(s)) = Len(s) - 1
        /\ \A i \in 1 .. Len(Tail(s)) : Tail(s)[i] = s[i + 1]
    BY HeadTailProperties
  <1>3. DOMAIN Tail(s) = 1 .. Len(s) - 1
    BY <1>2, Elements
  <1>4. \A i \in DOMAIN Tail(s) : i \in Nat /\ i + 1 \in DOMAIN s /\ Tail(s)[i] = s[i + 1]
    BY <1>1, <1>2, <1>3
  <1>5. Range(s) = {Head(s)} \cup Range(Tail(s))
    <2>1. ASSUME NEW i \in DOMAIN s PROVE s[i] \in {Head(s)} \cup Range(Tail(s))
      <3>1. CASE i = 1
        BY <1>2, <3>1
      <3>2. CASE i # 1
        <4>1. i - 1 \in DOMAIN Tail(s) /\ (i - 1) + 1 = i
          BY <1>1, <1>3, <3>2
        <4>2. Tail(s)[i - 1] = s[i]
          BY <1>4, <4>1
        <4>. QED BY <4>1, <4>2 DEF Range
      <3>. QED BY <3>1, <3>2
    <2>. QED BY <1>1, <1>2, <1>4, <2>1 DEF Range
  <1>6. ASSUME Rising(s)
        PROVE  /\ Rising(Tail(s))
               /\ \A i \in DOMAIN Tail(s) : Head(s) < Tail(s)[i]
               /\ \A n \in Range(Tail(s)) : Head(s) < n
               /\ \A i \in DOMAIN s : Head(s) <= s[i]
    <2>1. Rising(Tail(s))
      BY <1>4, <1>6 DEF Rising
    <2>2. \A i \in DOMAIN Tail(s) : Head(s) < Tail(s)[i]
      <3>1. \A i \in DOMAIN Tail(s) : 1 < i + 1
        BY <1>3
      <3>. QED BY <1>1, <1>2, <1>4, <1>6, <3>1 DEF Rising
    <2>3. \A i \in DOMAIN s : Head(s) <= s[i]
      <3>1. \A i \in DOMAIN s : i = 1 \/ 1 < i
        BY <1>1
      <3>. QED BY <1>1, <1>2, <1>6, <3>1 DEF Rising
    <2>. QED BY <2>1, <2>2, <2>3 DEF Range
  <1>. QED BY <1>1, <1>2, <1>4, <1>5, <1>6, Elements

-----------------------------------------------------------------------------
(* Steps                                                                   *)

Taken == Range(ingested)

Waiting == Taken \cup Range(replay) \cup Range(queue)

LEMMA Sizes ==
    /\ MaxLen \in Nat /\ MaxLen > 0 /\ ReplayLimit \in Nat /\ ReplayLimit > 0
    /\ ReadCount \in Nat /\ ReadCount > 0 /\ QueueSize \in Nat /\ QueueSize > 0
    /\ MaxClients \in Nat /\ MaxClients > 0 /\ Remembered \in Nat /\ Remembered > 0
    /\ MaxEntries \in Nat /\ MaxBreaks \in Nat
    /\ Fresh = -1 /\ NoCursor = 0
  BY SettingAssumption, DeliveryBounds DEF Fresh, NoCursor

LEMMA EntryNumbers ==
    ASSUME DeliveryTypeOK
    PROVE  /\ last \in Nat /\ oldest \in Nat /\ oldest >= 1
           /\ oldest <= last \/ oldest = 1
           /\ Entries \subseteq Nat /\ Entries = 1 .. last
           /\ \A g \in Gateways : /\ tailCursor[g] \in Entries \cup {Fresh}
                                  /\ tailCursor[g] \in Int /\ tailCursor[g] <= last
                                  /\ from[g] \in Nat /\ from[g] <= last
                                  /\ upto[g] \in Nat /\ upto[g] <= last
           /\ queue \in Seq(Nat) /\ replay \in Seq(Nat) /\ ingested \in Seq(Nat)
           /\ sent \in Nat /\ cursor \in Nat /\ breaks \in Nat
  <1>1. last \in Nat /\ Entries = 1 .. last /\ Entries \subseteq Nat
    BY Sizes DEF DeliveryTypeOK, Entries
  <1>2. oldest \in Nat /\ oldest >= 1 /\ (oldest <= last \/ oldest = 1)
    BY <1>1 DEF DeliveryTypeOK, Greatest
  <1>3. \A g \in Gateways : /\ tailCursor[g] \in Entries \cup {Fresh}
                            /\ tailCursor[g] \in Int /\ tailCursor[g] <= last
                            /\ from[g] \in Nat /\ from[g] <= last
                            /\ upto[g] \in Nat /\ upto[g] <= last
    BY <1>1, Sizes DEF DeliveryTypeOK
  <1>4. queue \in Seq(Nat) /\ replay \in Seq(Nat) /\ ingested \in Seq(Nat)
    BY <1>1, SeqMonotonic DEF DeliveryTypeOK
  <1>. QED BY <1>1, <1>2, <1>3, <1>4, Sizes DEF DeliveryTypeOK

LEMMA PassesOver ==
    ASSUME NEW g, NEW S, PassOver(g, S)
    PROVE  /\ skipped \subseteq skipped' /\ skipped' \subseteq skipped \cup S
           /\ gateway = g /\ phase \in {"replaying", "live"} => S \subseteq Waiting \cup skipped'
  BY DEF PassOver, Waiting, Taken

LEMMA TakesIn ==
    ASSUME DeliveryTypeOK, NEW n \in Entries, NEW c, TakeIn(n, c)
    PROVE  /\ cursor' = c
           /\ ingested' \in Seq(Entries)
           /\ Taken' = Taken \cup {n}
           /\ \A i \in DOMAIN ingested : i \in DOMAIN ingested' /\ ingested'[i] = ingested[i]
           /\ \/ ingested' = ingested
              \/ /\ ingested' = Append(ingested, n)
                 /\ DOMAIN ingested' = DOMAIN ingested \cup {Len(ingested) + 1}
                 /\ ingested'[Len(ingested) + 1] = n
                 /\ \A i \in DOMAIN ingested :
                       i > Len(ingested) - Remembered => ingested[i] # n
  <1>1. ingested \in Seq(Entries)
    BY DEF DeliveryTypeOK
  <1>2. CASE ingested' = ingested /\ \E i \in DOMAIN ingested : ingested[i] = n
    BY <1>1, <1>2 DEF TakeIn, Taken, Range
  <1>3. CASE /\ ingested' = Append(ingested, n)
             /\ \A i \in DOMAIN ingested : i > Len(ingested) - Remembered => ingested[i] # n
    <2>1. /\ ingested' \in Seq(Entries)
          /\ Len(ingested') = Len(ingested) + 1
          /\ \A i \in 1 .. Len(ingested) : ingested'[i] = ingested[i]
          /\ ingested'[Len(ingested) + 1] = n
      BY <1>1, <1>3, AppendProperties
    <2>2. /\ DOMAIN ingested = 1 .. Len(ingested) /\ Len(ingested) \in Nat
          /\ DOMAIN ingested' = 1 .. Len(ingested')
      BY <1>1, <2>1, Elements
    <2>3. DOMAIN ingested' = DOMAIN ingested \cup {Len(ingested) + 1}
      BY <2>1, <2>2
    <2>4. Taken' = Taken \cup {n}
      BY <2>1, <2>2, <2>3 DEF Taken, Range
    <2>. QED BY <1>3, <2>1, <2>2, <2>3, <2>4 DEF TakeIn
  <1>. QED BY <1>2, <1>3 DEF TakeIn

(* What the tail of a gateway does but for broadcasting.                   *)
LEMMA XReadReads ==
    ASSUME DeliveryTypeOK, NEW g \in Gateways, XRead(g)
    PROVE  /\ from'[g] = IF tailCursor[g] = Fresh THEN last ELSE Greatest(tailCursor[g], oldest - 1)
           /\ from'[g] \in 0 .. last /\ tailCursor[g] <= from'[g]
           /\ upto'[g] = Least(last, from'[g] + ReadCount)
           /\ upto'[g] \in 0 .. last /\ from'[g] <= upto'[g]
           /\ upto'[g] = from'[g] => from'[g] = last
           /\ tailPc' = [tailPc EXCEPT ![g] = "reading"]
           /\ from' = [from EXCEPT ![g] = from'[g]] /\ upto' = [upto EXCEPT ![g] = upto'[g]]
           /\ skipped \subseteq skipped' /\ skipped' \subseteq skipped \cup (1 .. last)
           /\ gateway = g /\ phase \in {"replaying", "live"} /\ tailCursor[g] # Fresh =>
                  (tailCursor[g] + 1) .. from'[g] \subseteq Waiting \cup skipped'
           /\ UNCHANGED <<stream, tailCursor, session, browser, breaks, left>>
  <1>1. /\ last \in Nat /\ oldest \in Nat /\ oldest >= 1 /\ (oldest <= last \/ oldest = 1)
        /\ tailCursor[g] \in (1 .. last) \cup {Fresh} /\ Fresh = -1
        /\ from \in [Gateways -> 0 .. last] /\ upto \in [Gateways -> 0 .. last]
        /\ ReadCount \in Nat /\ ReadCount > 0
    BY EntryNumbers, Sizes DEF DeliveryTypeOK
  <1>2. /\ tailPc' = [tailPc EXCEPT ![g] = "reading"]
        /\ from' = [from EXCEPT ![g] = IF tailCursor[g] = Fresh THEN last
                                       ELSE Greatest(tailCursor[g], oldest - 1)]
        /\ upto' = [upto EXCEPT ![g] = Least(last, from'[g] + ReadCount)]
        /\ IF tailCursor[g] = Fresh THEN UNCHANGED skipped
           ELSE PassOver(g, (tailCursor[g] + 1) .. from'[g])
        /\ UNCHANGED <<stream, tailCursor, session, browser, breaks, left>>
    BY DEF XRead
  <1>3. /\ from'[g] = IF tailCursor[g] = Fresh THEN last ELSE Greatest(tailCursor[g], oldest - 1)
        /\ upto'[g] = Least(last, from'[g] + ReadCount)
    BY <1>1, <1>2
  <1>4. /\ from'[g] \in 0 .. last /\ tailCursor[g] <= from'[g]
        /\ upto'[g] \in 0 .. last /\ from'[g] <= upto'[g]
        /\ upto'[g] = from'[g] => from'[g] = last
    BY <1>1, <1>3 DEF Greatest, Least
  <1>5. /\ skipped \subseteq skipped' /\ skipped' \subseteq skipped \cup (1 .. last)
        /\ gateway = g /\ phase \in {"replaying", "live"} /\ tailCursor[g] # Fresh =>
               (tailCursor[g] + 1) .. from'[g] \subseteq Waiting \cup skipped'
    <2>1. CASE tailCursor[g] = Fresh
      BY <1>2, <2>1
    <2>2. CASE tailCursor[g] # Fresh
      <3>1. PassOver(g, (tailCursor[g] + 1) .. from'[g])
        BY <1>2, <2>2
      <3>2. (tailCursor[g] + 1) .. from'[g] \subseteq 1 .. last
        BY <1>1, <1>4, <2>2
      <3>. QED BY <2>2, <3>1, <3>2, PassesOver
    <2>. QED BY <2>1, <2>2
  <1>. QED BY <1>2, <1>3, <1>4, <1>5

-----------------------------------------------------------------------------
(* The inductive invariant                                                 *)

EarlyInv == \A g \in Gateways : early[g] <= breaks

(* A gateway reads what follows its cursor; a read without an answer is at *)
(* the end of the stream.                                                  *)
TailsInv == \A g \in Gateways : tailPc[g] = "reading" =>
    /\ tailCursor[g] <= from[g] /\ from[g] <= upto[g]
    /\ upto[g] = from[g] => from[g] = last

(* The queue rises, up to what its gateway has broadcast; a client that is *)
(* registered has a place.                                                 *)
QueueInv ==
    /\ phase = "away" => queue = <<>> /\ replay = <<>> /\ sent = NoCursor /\ closed = "clear"
    /\ Rising(queue)
    /\ phase # "away" =>
          /\ gateway \in Gateways /\ tailPc[gateway] # "down"
          /\ \A i \in DOMAIN queue : queue[i] <= tailCursor[gateway]
          /\ closed = "clear" => HasRoom(gateway)

Lengths == UNION {[C -> 0 .. QueueSize] : C \in SUBSET Places}

LEMMA SomeLeave ==
    ASSUME NEW f \in Lengths, NEW n \in Nat,
           NEW h, h = [c \in {d \in DOMAIN f : f[d] + n <= QueueSize} |-> f[c] + n]
    PROVE  h \in Lengths /\ (DOMAIN f # Places => DOMAIN h # Places)
  <1>1. PICK C \in SUBSET Places : f \in [C -> 0 .. QueueSize]
    BY DEF Lengths
  <1>2. PICK D \in SUBSET Places : D = {d \in DOMAIN f : f[d] + n <= QueueSize}
    BY <1>1
  <1>3. h \in [D -> 0 .. QueueSize] /\ DOMAIN h = D
    BY <1>1, <1>2, Sizes
  <1>. QED BY <1>1, <1>2, <1>3 DEF Lengths

(* A rising queue, with what follows it, cut to its size.                  *)
LEMMA CutQueue ==
    ASSUME NEW S \in SUBSET Nat, NEW old \in Seq(S), NEW new \in Seq(S), NEW size \in Nat,
           Rising(old), Rising(new),
           \A i \in DOMAIN old, j \in DOMAIN new : old[i] < new[j]
    PROVE  LET all == old \o new
               cut == SubSeq(all, 1, Least(Len(all), size))
           IN  /\ cut \in Seq(S) /\ Len(cut) <= size /\ Rising(cut)
               /\ \A i \in DOMAIN cut : cut[i] \in Range(old) \cup Range(new)
               /\ Len(all) <= size => Range(cut) = Range(old) \cup Range(new)
               /\ Len(all) \in Nat
  <1>. DEFINE all == old \o new
              n   == Least(Len(all), size)
              cut == SubSeq(all, 1, n)
  <1>1. /\ Len(old) \in Nat /\ DOMAIN old = 1 .. Len(old)
        /\ Len(new) \in Nat /\ DOMAIN new = 1 .. Len(new)
        /\ \A i \in DOMAIN old : old[i] \in Nat
        /\ \A i \in DOMAIN new : new[i] \in Nat
    BY Elements
  <1>2. /\ all \in Seq(S) /\ Len(all) = Len(old) + Len(new)
        /\ \A i \in 1 .. Len(old) + Len(new) :
              all[i] = IF i <= Len(old) THEN old[i] ELSE new[i - Len(old)]
    BY ConcatProperties
  <1>3. Len(all) \in Nat /\ DOMAIN all = 1 .. Len(old) + Len(new)
    BY <1>1, <1>2, Elements
  <1>. HIDE DEF all
  <1>4. n \in Nat /\ n <= Len(all) /\ n <= size /\ (Len(all) <= size => n = Len(all))
    BY <1>3 DEF Least
  <1>. HIDE DEF n
  <1>5. \A i \in 1 .. n : all[i] \in S
    BY <1>2, <1>3, <1>4, Elements
  <1>6. /\ cut \in Seq(S) /\ Len(cut) = n /\ DOMAIN cut = 1 .. n
        /\ \A i \in 1 .. n : cut[i] = all[i]
    <2>1. /\ cut \in Seq(S) /\ Len(cut) = IF 1 <= n THEN n - 1 + 1 ELSE 0
          /\ \A i \in 1 .. n - 1 + 1 : cut[i] = all[1 + i - 1]
      BY <1>4, <1>5, SubSeqProperties
    <2>2. Len(cut) = n
      BY <1>4, <2>1
    <2>3. \A i \in 1 .. n : cut[i] = all[i]
      BY <1>4, <2>1
    <2>. QED BY <2>1, <2>2, <2>3, Elements
  <1>. HIDE DEF cut
  <1>7. \A i, j \in 1 .. Len(old) + Len(new) : i < j => all[i] < all[j]
    <2>. SUFFICES ASSUME NEW i \in 1 .. Len(old) + Len(new), NEW j \in 1 .. Len(old) + Len(new),
                         i < j
                  PROVE  all[i] < all[j]
      OBVIOUS
    <2>1. CASE j <= Len(old)
      BY <1>1, <1>2, <2>1 DEF Rising
    <2>2. CASE i <= Len(old) /\ j > Len(old)
      <3>1. i \in DOMAIN old /\ j - Len(old) \in DOMAIN new
        BY <1>1, <2>2
      <3>. QED BY <1>2, <2>2, <3>1
    <2>3. CASE i > Len(old)
      <3>1. i - Len(old) \in DOMAIN new /\ j - Len(old) \in DOMAIN new /\ j > Len(old)
            /\ i - Len(old) < j - Len(old)
        BY <1>1, <2>3
      <3>2. new[i - Len(old)] < new[j - Len(old)]
        BY <3>1 DEF Rising
      <3>. QED BY <1>1, <1>2, <2>3, <3>1, <3>2
    <2>. QED BY <1>1, <2>1, <2>2, <2>3
  <1>8. Rising(cut)
    BY <1>2, <1>3, <1>4, <1>6, <1>7 DEF Rising
  <1>9. \A i \in 1 .. Len(old) + Len(new) : all[i] \in Range(old) \cup Range(new)
    <2>. SUFFICES ASSUME NEW i \in 1 .. Len(old) + Len(new)
                  PROVE  all[i] \in Range(old) \cup Range(new)
      OBVIOUS
    <2>1. CASE i <= Len(old)
      BY <1>1, <1>2, <2>1 DEF Range
    <2>2. CASE i > Len(old)
      <3>1. i - Len(old) \in DOMAIN new
        BY <1>1, <2>2
      <3>. QED BY <1>1, <1>2, <2>2, <3>1 DEF Range
    <2>. QED BY <1>1, <2>1, <2>2
  <1>10. ASSUME Len(all) <= size PROVE Range(cut) = Range(old) \cup Range(new)
    <2>1. n = Len(old) + Len(new)
      BY <1>2, <1>4, <1>10
    <2>2. Range(cut) \subseteq Range(old) \cup Range(new)
      BY <1>6, <1>9, <2>1 DEF Range
    <2>3. ASSUME NEW i \in DOMAIN old PROVE old[i] \in Range(cut)
      <3>1. i \in 1 .. n /\ cut[i] = old[i]
        BY <1>1, <1>2, <1>6, <2>1
      <3>. QED BY <1>6, <3>1 DEF Range
    <2>4. ASSUME NEW i \in DOMAIN new PROVE new[i] \in Range(cut)
      <3>1. Len(old) + i \in 1 .. n /\ ~(Len(old) + i <= Len(old)) /\ (Len(old) + i) - Len(old) = i
        BY <1>1, <2>1
      <3>2. cut[Len(old) + i] = new[i]
        BY <1>1, <1>2, <1>6, <2>1, <3>1
      <3>. QED BY <1>6, <3>1, <3>2 DEF Range
    <2>. QED BY <2>2, <2>3, <2>4 DEF Range
  <1>11. \A i \in DOMAIN cut : cut[i] \in Range(old) \cup Range(new)
    BY <1>2, <1>3, <1>4, <1>6, <1>9
  <1>. QED BY <1>3, <1>4, <1>6, <1>8, <1>10, <1>11 DEF cut, all, n

(* A reply of Redis reaches the clients of its gateway.                    *)
LEMMA Broadcasts ==
    ASSUME DeliveryTypeOK, TailsInv, QueueInv, NEW g \in Gateways, XReadReturns(g)
    PROVE  /\ leaked' \in [Gateways -> Lengths]
           /\ \A h \in Gateways : HasRoom(h) => HasRoom(h)'
           /\ closed' \in {"clear", "set"}
           /\ queue' \in Seq(Entries) /\ Len(queue') <= QueueSize /\ Rising(queue')
           /\ \/ ~Listening(g) /\ queue' = queue /\ closed' = closed
              \/ /\ Listening(g)
                 /\ \A i \in DOMAIN queue' : queue'[i] <= upto[g]
                 /\ \A i \in DOMAIN queue' : queue'[i] \in Range(queue) \/ from[g] < queue'[i]
                 /\ closed' = "clear" =>
                        Range(queue') = Range(queue) \cup ((from[g] + 1) .. upto[g])
           /\ tailPc[g] = "reading" /\ from[g] < upto[g]
           /\ tailCursor' = [tailCursor EXCEPT ![g] = upto[g]]
           /\ tailPc' = [tailPc EXCEPT ![g] = "idle"]
           /\ from' = [from EXCEPT ![g] = 0] /\ upto' = [upto EXCEPT ![g] = 0]
           /\ UNCHANGED <<stream, phase, gateway, replay, sent, browser, breaks, skipped, early>>
  <1>. DEFINE entries == Interval(from[g] + 1, upto[g])
  <1>1. /\ from[g] \in Nat /\ upto[g] \in Nat /\ upto[g] <= last /\ last \in Nat
        /\ Entries = 1 .. last /\ Entries \in SUBSET Nat
        /\ QueueSize \in Nat
    BY EntryNumbers, Sizes
  <1>2. /\ tailPc[g] = "reading" /\ from[g] < upto[g] /\ Broadcast(g, entries)
        /\ tailCursor' = [tailCursor EXCEPT ![g] = upto[g]]
        /\ tailPc' = [tailPc EXCEPT ![g] = "idle"]
        /\ from' = [from EXCEPT ![g] = 0] /\ upto' = [upto EXCEPT ![g] = 0]
        /\ UNCHANGED <<stream, phase, gateway, replay, sent, browser, breaks, skipped, early>>
    BY DEF XReadReturns, EndRead
  <1>3. /\ entries \in Seq((from[g] + 1) .. upto[g]) /\ Rising(entries)
        /\ Range(entries) = (from[g] + 1) .. upto[g]
        /\ Len(entries) \in Nat
    <2>1. from[g] + 1 \in Int /\ upto[g] \in Int
      BY <1>1
    <2>2. /\ entries \in Seq((from[g] + 1) .. upto[g]) /\ Rising(entries)
          /\ Range(entries) = (from[g] + 1) .. upto[g]
      BY <2>1, IntervalIs
    <2>. QED BY <2>2, Elements
  <1>4. entries \in Seq(Entries)
    <2>1. (from[g] + 1) .. upto[g] \subseteq Entries
      BY <1>1
    <2>. QED BY <1>3, <2>1, SeqMonotonic
  <1>. HIDE DEF entries
  <1>5. /\ leaked' = [leaked EXCEPT ![g] =
                        [c \in {d \in DOMAIN leaked[g] : leaked[g][d] + Len(entries) <= QueueSize}
                            |-> leaked[g][c] + Len(entries)]]
        /\ IF Listening(g)
           THEN /\ queue' = SubSeq(queue \o entries, 1, Least(Len(queue \o entries), QueueSize))
                /\ closed' = IF Len(queue \o entries) > QueueSize THEN "set" ELSE "clear"
           ELSE UNCHANGED <<queue, closed>>
    BY <1>2 DEF Broadcast
  <1>6. leaked' \in [Gateways -> Lengths] /\ \A h \in Gateways : HasRoom(h) => HasRoom(h)'
    <2>1. leaked \in [Gateways -> Lengths]
      BY DEF DeliveryTypeOK, Lengths
    <2>2. PICK shorter : shorter =
              [c \in {d \in DOMAIN leaked[g] : leaked[g][d] + Len(entries) <= QueueSize}
                  |-> leaked[g][c] + Len(entries)]
      OBVIOUS
    <2>3. shorter \in Lengths /\ (DOMAIN leaked[g] # Places => DOMAIN shorter # Places)
      BY <1>3, <2>1, <2>2, SomeLeave
    <2>4. leaked' = [leaked EXCEPT ![g] = shorter]
      BY <1>5, <2>2
    <2>. QED BY <2>1, <2>3, <2>4 DEF HasRoom
  <1>7. CASE ~Listening(g)
    BY <1>2, <1>5, <1>6, <1>7 DEF DeliveryTypeOK, QueueInv
  <1>8. CASE Listening(g)
    <2>1. /\ queue \in Seq(Entries) /\ Rising(queue)
          /\ \A i \in DOMAIN queue : queue[i] <= from[g]
      <3>1. gateway = g /\ tailCursor[g] <= from[g] /\ phase # "away"
        BY <1>2, <1>8 DEF Listening, TailsInv
      <3>2. \A i \in DOMAIN queue : queue[i] \in Nat /\ queue[i] <= tailCursor[g]
        BY <3>1, EntryNumbers, Elements DEF QueueInv
      <3>3. tailCursor[g] \in Int
        BY EntryNumbers
      <3>4. \A i \in DOMAIN queue : queue[i] <= from[g]
        BY <1>1, <3>1, <3>2, <3>3
      <3>. QED BY <3>4 DEF DeliveryTypeOK, QueueInv
    <2>2. \A i \in DOMAIN queue, j \in DOMAIN entries : queue[i] < entries[j]
      <3>1. \A i \in DOMAIN queue : queue[i] \in Nat
        BY <1>1, <2>1, Elements
      <3>2. \A j \in DOMAIN entries : entries[j] \in (from[g] + 1) .. upto[g]
        BY <1>3, Elements
      <3>. QED BY <1>1, <2>1, <3>1, <3>2
    <2>3. /\ queue' \in Seq(Entries) /\ Len(queue') <= QueueSize /\ Rising(queue')
          /\ \A i \in DOMAIN queue' : queue'[i] \in Range(queue) \cup Range(entries)
          /\ Len(queue \o entries) <= QueueSize => Range(queue') = Range(queue) \cup Range(entries)
          /\ Len(queue \o entries) \in Nat
      <3>1. LET all == queue \o entries
                cut == SubSeq(all, 1, Least(Len(all), QueueSize))
            IN  /\ cut \in Seq(Entries) /\ Len(cut) <= QueueSize /\ Rising(cut)
                /\ \A i \in DOMAIN cut : cut[i] \in Range(queue) \cup Range(entries)
                /\ Len(all) <= QueueSize => Range(cut) = Range(queue) \cup Range(entries)
                /\ Len(all) \in Nat
        <4>1. Rising(queue) /\ Rising(entries) /\ queue \in Seq(Entries) /\ QueueSize \in Nat
              /\ Entries \in SUBSET Nat
          BY <1>1, <1>3, <2>1
        <4>. QED BY <1>4, <2>2, <4>1, CutQueue
      <3>2. queue' = SubSeq(queue \o entries, 1, Least(Len(queue \o entries), QueueSize))
        BY <1>5, <1>8
      <3>. QED BY <3>1, <3>2
    <2>4. closed' \in {"clear", "set"} /\ (closed' = "clear" => Len(queue \o entries) <= QueueSize)
      BY <1>1, <1>5, <1>8, <2>3
    <2>5. \A i \in DOMAIN queue' : queue'[i] \in Range(queue) \/ from[g] < queue'[i]
      BY <1>1, <1>3, <2>3
    <2>6. \A n \in Range(queue) : n <= upto[g]
      <3>1. \A n \in Range(queue) : n \in Nat /\ n <= from[g]
        BY <1>1, <2>1, Elements
      <3>. QED BY <1>1, <1>2, <3>1
    <2>7. \A i \in DOMAIN queue' : queue'[i] <= upto[g]
      BY <1>1, <1>3, <2>3, <2>6
    <2>. QED BY <1>2, <1>3, <1>6, <1>8, <2>3, <2>4, <2>5, <2>7
  <1>. QED BY <1>7, <1>8

(* How a connection ends.                                                  *)
LEMMA SessionEnds ==
    ASSUME CloseSlow \/ Disconnect \/ BreakEarly
           \/ \E g \in Gateways : StopGateway(g) /\ gateway = g
    PROVE  /\ phase' = "away" /\ queue' = <<>> /\ closed' = "clear" /\ replay' = <<>>
           /\ sent' = NoCursor /\ gateway' = None
           /\ UNCHANGED <<stream, browser, skipped>>
  BY DEF CloseSlow, Disconnect, BreakEarly, StopGateway, EndSession

(* The rows of a replay are what follows the cursor, up to a limit, or the *)
(* last ones, without gaps.                                                *)
LEMMA RowsFetched ==
    ASSUME DeliveryTypeOK
    PROVE  /\ ReplayRows \in Seq(Entries) /\ Len(ReplayRows) <= ReplayLimit
           /\ Rising(ReplayRows)
           /\ \A n \in Range(ReplayRows) : cursor < n
           /\ \A n \in Entries, m \in Range(ReplayRows) :
                 n <= m => n \in Range(ReplayRows) \/ n < Head(ReplayRows)
  <1>1. /\ last \in Nat /\ oldest \in Nat /\ oldest >= 1 /\ cursor \in Nat
        /\ ReplayLimit \in Nat /\ ReplayLimit > 0 /\ NoCursor = 0
        /\ Entries = 1 .. last
    BY EntryNumbers, Sizes
  <1>2. PICK lo \in Nat, hi \in Nat : /\ ReplayRows = Interval(lo, hi)
                                      /\ cursor < lo /\ hi <= last /\ hi - lo + 1 <= ReplayLimit
    <2>1. CASE cursor # NoCursor
      <3>. DEFINE lo == Greatest(oldest, cursor + 1)
                  hi == Least(last, lo + ReplayLimit - 1)
      <3>1. ReplayRows = Interval(lo, hi)
        BY <2>1 DEF ReplayRows
      <3>2. lo \in Nat /\ cursor < lo
        BY <1>1 DEF Greatest
      <3>. HIDE DEF lo
      <3>3. hi \in Nat /\ hi <= last /\ hi - lo + 1 <= ReplayLimit
        BY <1>1, <3>2 DEF Least
      <3>. QED BY <3>1, <3>2, <3>3
    <2>2. CASE cursor = NoCursor
      <3>. DEFINE lo == Greatest(oldest, last - ReplayLimit + 1)
      <3>1. ReplayRows = Interval(lo, last)
        BY <2>2 DEF ReplayRows
      <3>2. lo \in Nat /\ cursor < lo /\ last - lo + 1 <= ReplayLimit
        BY <1>1, <2>2 DEF Greatest
      <3>. QED BY <1>1, <3>1, <3>2
    <2>. QED BY <2>1, <2>2
  <1>3. /\ Interval(lo, hi) \in Seq(lo .. hi) /\ Rising(Interval(lo, hi))
        /\ Range(Interval(lo, hi)) = lo .. hi
        /\ Len(Interval(lo, hi)) = IF lo <= hi THEN hi - lo + 1 ELSE 0
        /\ DOMAIN Interval(lo, hi) = 1 .. (hi - lo + 1)
        /\ \A i \in DOMAIN Interval(lo, hi) : Interval(lo, hi)[i] = lo + i - 1
    <2>1. lo \in Int /\ hi \in Int
      OBVIOUS
    <2>. QED BY <2>1, IntervalIs
  <1>4. lo .. hi \subseteq Entries
    BY <1>1, <1>2
  <1>5. ReplayRows \in Seq(Entries)
    BY <1>2, <1>3, <1>4, SeqMonotonic
  <1>6. Len(ReplayRows) <= ReplayLimit
    BY <1>1, <1>2, <1>3
  <1>7. \A n \in Range(ReplayRows) : cursor < n
    BY <1>1, <1>2, <1>3
  <1>8. ASSUME NEW n \in Entries, NEW m \in Range(ReplayRows), n <= m
        PROVE  n \in Range(ReplayRows) \/ n < Head(ReplayRows)
    <2>1. m \in lo .. hi /\ lo <= hi /\ n \in Nat
      BY <1>1, <1>2, <1>3, <1>8
    <2>2. Interval(lo, hi) # <<>>
      BY <1>3, <2>1, NoElements
    <2>3. Head(Interval(lo, hi)) = Interval(lo, hi)[1]
      BY <1>3, <2>2, HeadTailProperties
    <2>4. 1 \in 1 .. (hi - lo + 1) /\ lo + 1 - 1 = lo
      BY <2>1
    <2>5. Interval(lo, hi)[1] = lo
      BY <1>3, <2>4
    <2>6. Head(ReplayRows) = lo
      BY <1>2, <2>3, <2>5
    <2>. QED BY <1>2, <1>3, <1>8, <2>1, <2>6
  <1>. QED BY <1>2, <1>3, <1>5, <1>6, <1>7, <1>8

(* What the next message takes off its list.                               *)
LEMMA HeadsAre ==
    ASSUME DeliveryTypeOK
    PROVE  /\ queue # <<>> => /\ Head(queue) \in Entries
                              /\ Tail(queue) \in Seq(Entries) /\ Len(Tail(queue)) <= QueueSize
           /\ replay # <<>> => /\ Head(replay) \in Entries
                               /\ Tail(replay) \in Seq(Entries)
                               /\ Len(Tail(replay)) <= ReplayLimit
  <1>1. /\ queue \in Seq(Entries) /\ Len(queue) <= QueueSize /\ Len(queue) \in Nat
        /\ replay \in Seq(Entries) /\ Len(replay) <= ReplayLimit /\ Len(replay) \in Nat
        /\ QueueSize \in Nat /\ ReplayLimit \in Nat
    BY Sizes, Elements DEF DeliveryTypeOK
  <1>2. queue # <<>> => /\ Head(queue) \in Entries
                        /\ Tail(queue) \in Seq(Entries) /\ Len(Tail(queue)) <= QueueSize
    <2>. SUFFICES ASSUME queue # <<>>
                  PROVE  /\ Head(queue) \in Entries
                         /\ Tail(queue) \in Seq(Entries) /\ Len(Tail(queue)) <= QueueSize
      OBVIOUS
    <2>1. /\ Head(queue) \in Entries /\ Tail(queue) \in Seq(Entries)
          /\ Len(Tail(queue)) = Len(queue) - 1
      BY <1>1, HeadTailProperties
    <2>. QED BY <1>1, <2>1
  <1>3. replay # <<>> => /\ Head(replay) \in Entries
                         /\ Tail(replay) \in Seq(Entries)
                         /\ Len(Tail(replay)) <= ReplayLimit
    <2>. SUFFICES ASSUME replay # <<>>
                  PROVE  /\ Head(replay) \in Entries /\ Tail(replay) \in Seq(Entries)
                         /\ Len(Tail(replay)) <= ReplayLimit
      OBVIOUS
    <2>1. /\ Head(replay) \in Entries /\ Tail(replay) \in Seq(Entries)
          /\ Len(Tail(replay)) = Len(replay) - 1
      BY <1>1, HeadTailProperties
    <2>. QED BY <1>1, <2>1
  <1>. QED BY <1>2, <1>3

-----------------------------------------------------------------------------
(* Types                                                                   *)

LEMMA TypesAre ==
    ASSUME DeliveryTypeOK
    PROVE  leaked \in [Gateways -> Lengths] /\ early \in [Gateways -> Nat]
  BY Sizes DEF DeliveryTypeOK, Lengths

LEMMA InitTypes == DeliveryInit => DeliveryTypeOK /\ EarlyInv
  <1>. SUFFICES ASSUME DeliveryInit PROVE DeliveryTypeOK /\ EarlyInv
    OBVIOUS
  <1>1. /\ last = 0 /\ oldest = 1 /\ breaks = 0 /\ skipped = {}
        /\ tailPc = [g \in Gateways |-> "down"] /\ tailCursor = [g \in Gateways |-> Fresh]
        /\ from = [g \in Gateways |-> 0] /\ upto = [g \in Gateways |-> 0]
        /\ phase = "away" /\ gateway = None /\ queue = <<>> /\ closed = "clear"
        /\ replay = <<>> /\ sent = 0 /\ cursor = 0 /\ ingested = <<>>
        /\ early = [g \in Gateways |-> 0]
    BY Sizes DEF DeliveryInit
  <1>2. leaked \in [Gateways -> Lengths]
    <2>1. Nobody \in [{} -> 0 .. QueueSize]
      BY DEF Nobody
    <2>. QED BY <2>1 DEF DeliveryInit, Lengths
  <1>. QED BY <1>1, <1>2, Sizes, NoElements
           DEF DeliveryTypeOK, EarlyInv, Entries, Greatest, Lengths

LEMMA PublishTypes ==
    ASSUME DeliveryTypeOK, Publish
    PROVE  DeliveryTypeOK'
  <1>1. /\ last \in Nat /\ Entries = 1 .. last /\ last' = last + 1 /\ last < MaxEntries
        /\ MaxEntries \in Nat /\ MaxLen \in Nat /\ MaxLen > 0
        /\ oldest \in Nat /\ oldest >= 1 /\ (oldest <= last \/ oldest = 1)
    BY EntryNumbers, Sizes DEF Publish
  <1>2. /\ Entries' = 1 .. last' /\ Entries \subseteq Entries' /\ last' \in Entries'
        /\ last' \in 0 .. MaxEntries /\ 0 .. last \subseteq 0 .. last'
    BY <1>1 DEF Entries
  <1>3. oldest' \in 1 .. Greatest(last', 1)
    BY <1>1 DEF Publish, Greatest
  <1>4. skipped' \subseteq Entries'
    <2>1. skipped' \subseteq skipped \cup {last'}
      BY PassesOver DEF Publish
    <2>. QED BY <1>2, <2>1 DEF DeliveryTypeOK
  <1>5. /\ queue' \in Seq(Entries') /\ replay' \in Seq(Entries') /\ ingested' \in Seq(Entries')
        /\ UNCHANGED <<tailPc, tailCursor, from, session, browser, breaks, left>>
    BY <1>2, SeqMonotonic DEF DeliveryTypeOK, Publish, session, browser
  <1>6. upto' \in [Gateways -> 0 .. last']
    BY <1>1, <1>2 DEF DeliveryTypeOK, Publish
  <1>7. /\ tailCursor' \in [Gateways -> Entries' \cup {Fresh}]
        /\ from' \in [Gateways -> 0 .. last']
        /\ sent' \in 0 .. last' /\ cursor' \in 0 .. last'
    BY <1>2, <1>5 DEF DeliveryTypeOK, session, browser
  <1>. QED BY <1>2, <1>3, <1>4, <1>5, <1>6, <1>7 DEF DeliveryTypeOK, session, browser, left

LEMMA TailTypes ==
    ASSUME DeliveryTypeOK, TailsInv, QueueInv, NEW g \in Gateways,
           TailStep(g) \/ XReadFails(g)
    PROVE  DeliveryTypeOK'
  <1>1. Entries' = Entries /\ last' = last /\ oldest' = oldest
    BY DEF TailStep, StartGateway, XRead, XReadReturns, XReadEmpty, XReadFails, stream, Entries
  <1>2. CASE StartGateway(g)
    BY <1>1, <1>2 DEF StartGateway, DeliveryTypeOK, session, browser, left
  <1>3. CASE XRead(g)
    <2>1. skipped' \subseteq Entries
      BY <1>3, XReadReads, EntryNumbers DEF DeliveryTypeOK
    <2>2. from' \in [Gateways -> 0 .. last] /\ upto' \in [Gateways -> 0 .. last]
      BY <1>3, XReadReads DEF DeliveryTypeOK
    <2>3. tailPc' \in [Gateways -> {"down", "idle", "reading"}]
      BY <1>3, XReadReads DEF DeliveryTypeOK
    <2>. QED BY <1>1, <1>3, <2>1, <2>2, <2>3, XReadReads DEF DeliveryTypeOK, session, browser, left
  <1>4. CASE XReadReturns(g)
    <2>1. /\ leaked' \in [Gateways -> Lengths] /\ closed' \in {"clear", "set"}
          /\ queue' \in Seq(Entries) /\ Len(queue') <= QueueSize
          /\ from[g] < upto[g]
          /\ tailCursor' = [tailCursor EXCEPT ![g] = upto[g]]
          /\ tailPc' = [tailPc EXCEPT ![g] = "idle"]
          /\ from' = [from EXCEPT ![g] = 0] /\ upto' = [upto EXCEPT ![g] = 0]
          /\ UNCHANGED <<stream, phase, gateway, replay, sent, browser, breaks, skipped, early>>
      BY <1>4, Broadcasts
    <2>2. upto[g] \in Entries
      BY <2>1, EntryNumbers
    <2>3. /\ tailCursor' \in [Gateways -> Entries \cup {Fresh}]
          /\ from' \in [Gateways -> 0 .. last] /\ upto' \in [Gateways -> 0 .. last]
          /\ tailPc' \in [Gateways -> {"down", "idle", "reading"}]
      BY <2>1, <2>2, EntryNumbers DEF DeliveryTypeOK
    <2>. QED BY <1>1, <2>1, <2>3 DEF DeliveryTypeOK, browser, Lengths
  <1>5. CASE XReadEmpty(g) \/ XReadFails(g)
    <2>1. /\ from' \in [Gateways -> 0 .. last] /\ upto' \in [Gateways -> 0 .. last]
          /\ tailPc' \in [Gateways -> {"down", "idle", "reading"}]
      <3>1. /\ tailPc' = [tailPc EXCEPT ![g] = "idle"]
            /\ from' = [from EXCEPT ![g] = 0] /\ upto' = [upto EXCEPT ![g] = 0]
        BY <1>5 DEF EndRead, XReadEmpty, XReadFails
      <3>2. 0 \in 0 .. last
        BY EntryNumbers
      <3>. QED BY <3>1, <3>2 DEF DeliveryTypeOK
    <2>2. skipped' \subseteq Entries
      <3>1. (from[g] + 1) .. last \subseteq Entries
        BY EntryNumbers
      <3>2. skipped \subseteq Entries
        BY DEF DeliveryTypeOK
      <3>3. skipped' = skipped \/ PassOver(g, (from[g] + 1) .. last)
        BY <1>5 DEF XReadEmpty, XReadFails
      <3>. QED BY <3>1, <3>2, <3>3, PassesOver
    <2>3. breaks' \in 0 .. MaxBreaks
      <3>1. breaks \in 0 .. MaxBreaks /\ MaxBreaks \in Nat
        BY Sizes DEF DeliveryTypeOK
      <3>2. breaks' = breaks \/ (breaks < MaxBreaks /\ breaks' = breaks + 1)
        BY <1>5 DEF XReadEmpty, XReadFails
      <3>. QED BY <3>1, <3>2
    <2>4. UNCHANGED <<stream, tailCursor, session, browser, left>>
      BY <1>5 DEF XReadEmpty, XReadFails
    <2>. QED BY <1>1, <2>1, <2>2, <2>3, <2>4 DEF DeliveryTypeOK, session, browser, left
  <1>. QED BY <1>2, <1>3, <1>4, <1>5 DEF TailStep

LEMMA MessageTypes ==
    ASSUME DeliveryTypeOK, SendReplayed \/ SendQueued \/ SendTimesOut
    PROVE  DeliveryTypeOK'
  <1>1. /\ Entries' = Entries /\ UNCHANGED <<stream, tail, phase, gateway, closed, skipped, left>>
    BY DEF SendReplayed, SendQueued, SendTimesOut, stream, Entries
  <1>2. /\ last \in Nat /\ Entries = 1 .. last /\ sent \in 0 .. last /\ cursor \in 0 .. last
        /\ ingested \in Seq(Entries) /\ Entries \subseteq 0 .. last
    BY EntryNumbers DEF DeliveryTypeOK
  <1>3. /\ queue' \in Seq(Entries) /\ Len(queue') <= QueueSize
        /\ replay' \in Seq(Entries) /\ Len(replay') <= ReplayLimit
    BY HeadsAre DEF DeliveryTypeOK, SendReplayed, SendQueued, SendTimesOut
  <1>4. ingested' \in Seq(Entries) /\ cursor' \in 0 .. last /\ sent' \in 0 .. last
    <2>1. CASE SendReplayed
      BY <1>2, <2>1, HeadsAre, TakesIn DEF SendReplayed
    <2>2. CASE SendQueued
      BY <1>2, <2>2, HeadsAre, TakesIn DEF SendQueued, browser
    <2>3. CASE SendTimesOut
      <3>1. Head(queue) \in Entries /\ TakeIn(Head(queue), IF sent = NoCursor THEN Head(queue) ELSE sent)
        BY <2>3, HeadsAre DEF SendTimesOut
      <3>. QED BY <1>2, <2>3, <3>1, TakesIn DEF SendTimesOut
    <2>. QED BY <2>1, <2>2, <2>3
  <1>5. breaks' \in 0 .. MaxBreaks
    <2>1. breaks \in 0 .. MaxBreaks /\ MaxBreaks \in Nat
      BY Sizes DEF DeliveryTypeOK
    <2>2. breaks' = breaks \/ (breaks < MaxBreaks /\ breaks' = breaks + 1)
      BY DEF SendReplayed, SendQueued, SendTimesOut
    <2>. QED BY <2>1, <2>2
  <1>. QED BY <1>1, <1>2, <1>3, <1>4, <1>5 DEF DeliveryTypeOK, stream, tail, left

LEMMA LeavesBehind ==
    ASSUME DeliveryTypeOK, QueueInv, NEW g \in Gateways, HasRoom(g), LeaveBehind(g)
    PROVE  leaked' \in [Gateways -> Lengths]
  <1>1. PICK C \in SUBSET Places : leaked[g] \in [C -> 0 .. QueueSize] /\ C # Places
    BY DEF DeliveryTypeOK, HasRoom
  <1>2. PICK place \in Places : place = CHOOSE c \in Places : c \notin DOMAIN leaked[g]
    BY <1>1
  <1>3. Len(queue) \in 0 .. QueueSize
    BY Sizes, Elements DEF DeliveryTypeOK
  <1>4. PICK longer : longer = [c \in DOMAIN leaked[g] \cup {place} |->
                                   IF c = place THEN Len(queue) ELSE leaked[g][c]]
    OBVIOUS
  <1>5. longer \in [C \cup {place} -> 0 .. QueueSize] /\ C \cup {place} \in SUBSET Places
    BY <1>1, <1>3, <1>4
  <1>6. longer \in Lengths
    BY <1>5 DEF Lengths
  <1>7. leaked' = [leaked EXCEPT ![g] = longer]
    BY <1>2, <1>4 DEF LeaveBehind
  <1>. QED BY <1>6, <1>7, TypesAre

LEMMA SessionTypes ==
    ASSUME DeliveryTypeOK, EarlyInv, QueueInv,
           (\E g \in Gateways : Connect(g) \/ StopGateway(g)) \/ Fetch \/ StartSender
              \/ CloseSlow \/ Disconnect \/ BreakEarly
    PROVE  DeliveryTypeOK'
  <1>1. Entries' = Entries /\ UNCHANGED <<stream, browser>>
    BY DEF Connect, StopGateway, Fetch, StartSender, CloseSlow, Disconnect, BreakEarly, stream,
           Entries
  <1>2. ASSUME NEW g \in Gateways, Connect(g) PROVE DeliveryTypeOK'
    BY <1>1, <1>2 DEF Connect, DeliveryTypeOK, stream, tail, browser, left
  <1>3. CASE Fetch
    <2>1. replay' \in Seq(Entries) /\ Len(replay') <= ReplayLimit
      BY <1>3, RowsFetched DEF Fetch
    <2>2. skipped' \subseteq Entries
      <3>1. (cursor + 1) .. last \subseteq Entries
        BY EntryNumbers
      <3>. QED BY <1>3, <3>1 DEF Fetch, DeliveryTypeOK
    <2>. QED BY <1>1, <1>3, <2>1, <2>2 DEF Fetch, DeliveryTypeOK, stream, tail, browser, left
  <1>4. CASE StartSender
    BY <1>1, <1>4 DEF StartSender, DeliveryTypeOK, stream, tail, browser, left
  <1>5. ASSUME phase' = "away", gateway' = None, queue' = <<>>, closed' = "clear",
               replay' = <<>>, sent' = NoCursor
        PROVE  /\ phase' \in {"away", "registered", "replaying", "live"}
               /\ gateway' \in Gateways \cup {None}
               /\ queue' \in Seq(Entries) /\ Len(queue') <= QueueSize
               /\ closed' \in {"clear", "set"}
               /\ replay' \in Seq(Entries) /\ Len(replay') <= ReplayLimit
               /\ sent' \in 0 .. last
    BY <1>5, Sizes, NoElements, EntryNumbers
  <1>6. CASE CloseSlow
    BY <1>1, <1>5, <1>6, SessionEnds DEF CloseSlow, DeliveryTypeOK, stream, tail, browser, left
  <1>7. CASE Disconnect
    <2>1. breaks' \in 0 .. MaxBreaks
      <3>1. breaks \in 0 .. MaxBreaks /\ MaxBreaks \in Nat
        BY Sizes DEF DeliveryTypeOK
      <3>2. breaks < MaxBreaks /\ breaks' = breaks + 1
        BY <1>7 DEF Disconnect
      <3>. QED BY <3>1, <3>2
    <2>2. UNCHANGED <<tail, skipped, left>>
      BY <1>7 DEF Disconnect, Unregister, left
    <2>. QED BY <1>1, <1>5, <1>7, <2>1, <2>2, SessionEnds
             DEF DeliveryTypeOK, stream, tail, browser, left
  <1>8. CASE BreakEarly
    <2>1. breaks' \in 0 .. MaxBreaks /\ early' \in [Gateways -> 0 .. MaxBreaks]
      <3>1. breaks \in Nat /\ breaks < MaxBreaks /\ breaks' = breaks + 1 /\ MaxBreaks \in Nat
            /\ early' = [early EXCEPT ![gateway] = early[gateway] + 1]
        BY <1>8, Sizes, EntryNumbers DEF BreakEarly
      <3>2. gateway \in Gateways /\ early[gateway] \in Nat /\ early[gateway] <= breaks
        BY <1>8, TypesAre DEF BreakEarly, QueueInv, EarlyInv
      <3>3. breaks + 1 \in 0 .. MaxBreaks /\ early[gateway] + 1 \in 0 .. MaxBreaks
        BY <3>1, <3>2
      <3>4. early \in [Gateways -> 0 .. MaxBreaks]
        BY DEF DeliveryTypeOK
      <3>. QED BY <3>1, <3>2, <3>3, <3>4
    <2>2. UNCHANGED <<tail, skipped>>
      BY <1>8 DEF BreakEarly
    <2>3. leaked' \in [Gateways -> Lengths]
      <3>1. CASE Listening(gateway)
        <4>1. gateway \in Gateways /\ HasRoom(gateway)
          BY <1>8, <3>1 DEF BreakEarly, QueueInv, Listening
        <4>. QED BY <1>8, <3>1, <4>1, LeavesBehind DEF BreakEarly
      <3>2. CASE ~Listening(gateway)
        BY <1>8, <3>2, TypesAre DEF BreakEarly
      <3>. QED BY <3>1, <3>2
    <2>. QED BY <1>1, <1>5, <1>8, <2>1, <2>2, <2>3, SessionEnds
             DEF DeliveryTypeOK, stream, tail, browser, Lengths
  <1>9. ASSUME NEW g \in Gateways, StopGateway(g) PROVE DeliveryTypeOK'
    <2>1. breaks' \in 0 .. MaxBreaks
      <3>1. breaks \in 0 .. MaxBreaks /\ MaxBreaks \in Nat
        BY Sizes DEF DeliveryTypeOK
      <3>2. breaks < MaxBreaks /\ breaks' = breaks + 1
        BY <1>9 DEF StopGateway
      <3>. QED BY <3>1, <3>2
    <2>2. /\ tailPc' \in [Gateways -> {"down", "idle", "reading"}]
          /\ tailCursor' \in [Gateways -> Entries \cup {Fresh}]
          /\ from' \in [Gateways -> 0 .. last] /\ upto' \in [Gateways -> 0 .. last]
          /\ early' \in [Gateways -> 0 .. MaxBreaks]
      <3>1. /\ tailPc' = [tailPc EXCEPT ![g] = "down"]
            /\ tailCursor' = [tailCursor EXCEPT ![g] = Fresh]
            /\ from' = [from EXCEPT ![g] = 0] /\ upto' = [upto EXCEPT ![g] = 0]
            /\ early' = [early EXCEPT ![g] = 0]
        BY <1>9 DEF StopGateway
      <3>2. 0 \in 0 .. last /\ 0 \in 0 .. MaxBreaks
        BY EntryNumbers, Sizes
      <3>. QED BY <3>1, <3>2 DEF DeliveryTypeOK
    <2>3. leaked' \in [Gateways -> Lengths]
      <3>1. Nobody \in [{} -> 0 .. QueueSize]
        BY DEF Nobody
      <3>2. Nobody \in Lengths
        BY <3>1 DEF Lengths
      <3>. QED BY <1>9, <3>2, TypesAre DEF StopGateway
    <2>4. skipped' = skipped
      BY <1>9 DEF StopGateway
    <2>5. CASE gateway = g
      BY <1>1, <1>5, <1>9, <2>1, <2>2, <2>3, <2>4, <2>5, SessionEnds
         DEF DeliveryTypeOK, stream, browser, Lengths
    <2>6. CASE gateway # g
      BY <1>1, <1>9, <2>1, <2>2, <2>3, <2>4, <2>6
         DEF StopGateway, DeliveryTypeOK, stream, session, browser, Lengths
    <2>. QED BY <2>5, <2>6
  <1>. QED BY <1>2, <1>3, <1>4, <1>6, <1>7, <1>8, <1>9

LEMMA NextTypes ==
    ASSUME DeliveryTypeOK, EarlyInv, TailsInv, QueueInv, [DeliveryNext]_deliveryVars
    PROVE  DeliveryTypeOK'
  <1>1. CASE UNCHANGED deliveryVars
    BY <1>1 DEF deliveryVars, stream, tail, left, session, browser, DeliveryTypeOK, Entries
  <1>. QED BY <1>1, PublishTypes, TailTypes, MessageTypes, SessionTypes
           DEF DeliveryNext, SessionStep

LEMMA NextEarly ==
    ASSUME DeliveryTypeOK, EarlyInv, QueueInv, [DeliveryNext]_deliveryVars
    PROVE  EarlyInv' /\ breaks <= breaks'
  <1>1. early \in [Gateways -> Nat] /\ breaks \in Nat
    BY TypesAre, EntryNumbers
  <1>2. CASE BreakEarly
    <2>1. gateway \in Gateways /\ early' = [early EXCEPT ![gateway] = early[gateway] + 1]
          /\ breaks' = breaks + 1
      BY <1>2 DEF BreakEarly, QueueInv
    <2>. QED BY <1>1, <2>1 DEF EarlyInv
  <1>3. ASSUME NEW g \in Gateways, StopGateway(g) PROVE EarlyInv' /\ breaks <= breaks'
    <2>1. early' = [early EXCEPT ![g] = 0] /\ breaks' = breaks + 1
      BY <1>3 DEF StopGateway
    <2>. QED BY <1>1, <2>1 DEF EarlyInv
  <1>4. CASE early' = early /\ breaks' \in {breaks, breaks + 1}
    BY <1>1, <1>4 DEF EarlyInv
  <1>. QED BY <1>2, <1>3, <1>4
           DEF DeliveryNext, SessionStep, Publish, TailStep, StartGateway, XRead, XReadReturns,
               XReadEmpty, XReadFails, Connect, Fetch, SendReplayed, StartSender, SendQueued,
               CloseSlow, SendTimesOut, Disconnect, deliveryVars, left

-----------------------------------------------------------------------------
(* What each kind of step leaves alone                                     *)

Grows == skipped \subseteq skipped' /\ breaks <= breaks'

LEMMA Publishes ==
    ASSUME DeliveryTypeOK, Publish
    PROVE  /\ last' = last + 1 /\ Grows
           /\ UNCHANGED <<tailPc, tailCursor, from, phase, gateway, queue, closed, replay, sent,
                          cursor, ingested, breaks, leaked, early>>
           /\ \A g \in Gateways :
                 upto'[g] = IF tailPc[g] = "reading" /\ upto[g] = from[g] THEN last' ELSE upto[g]
           /\ /\ gateway \in Gateways /\ phase \in {"replaying", "live"}
              /\ tailPc[gateway] = "idle" /\ tailCursor[gateway] = Fresh
              => last' \in Waiting \cup skipped'
  <1>1. /\ last' = last + 1
        /\ UNCHANGED <<tailPc, tailCursor, from, phase, gateway, queue, closed, replay, sent,
                       cursor, ingested, breaks, leaked, early>>
        /\ \A g \in Gateways :
              upto'[g] = IF tailPc[g] = "reading" /\ upto[g] = from[g] THEN last' ELSE upto[g]
    BY DEF Publish, session, browser, left
  <1>2. skipped \subseteq skipped'
    BY PassesOver DEF Publish
  <1>3. ASSUME gateway \in Gateways, phase \in {"replaying", "live"},
               tailPc[gateway] = "idle", tailCursor[gateway] = Fresh
        PROVE  last' \in Waiting \cup skipped'
    <2>1. PassOver(gateway, {last'})
      BY <1>3 DEF Publish
    <2>. QED BY <1>3, <2>1, PassesOver
  <1>. QED BY <1>1, <1>2, <1>3, EntryNumbers DEF Grows

LEMMA TailFrames ==
    ASSUME DeliveryTypeOK, TailsInv, QueueInv, NEW g \in Gateways, TailStep(g) \/ XReadFails(g)
    PROVE  /\ UNCHANGED <<last, phase, gateway, replay, sent, cursor, ingested>> /\ Grows
           /\ \A h \in Gateways : h # g =>
                 /\ tailPc'[h] = tailPc[h] /\ tailCursor'[h] = tailCursor[h]
                 /\ from'[h] = from[h] /\ upto'[h] = upto[h]
           /\ tailPc'[g] \in {"idle", "reading"}
           /\ \A h \in Gateways : HasRoom(h) => HasRoom(h)'
           /\ ~XReadReturns(g) => UNCHANGED <<queue, closed, tailCursor>>
  <1>1. /\ tailPc \in [Gateways -> {"down", "idle", "reading"}]
        /\ tailCursor \in [Gateways -> Entries \cup {Fresh}]
        /\ from \in [Gateways -> 0 .. last] /\ upto \in [Gateways -> 0 .. last]
        /\ breaks \in Nat
    BY EntryNumbers DEF DeliveryTypeOK
  <1>2. CASE StartGateway(g)
    BY <1>1, <1>2 DEF StartGateway, session, browser, left, stream, Grows, HasRoom
  <1>3. CASE XRead(g)
    <2>1. /\ tailPc' = [tailPc EXCEPT ![g] = "reading"]
          /\ from' = [from EXCEPT ![g] = from'[g]] /\ upto' = [upto EXCEPT ![g] = upto'[g]]
          /\ skipped \subseteq skipped'
          /\ UNCHANGED <<stream, tailCursor, session, browser, breaks, left>>
      BY <1>3, XReadReads
    <2>. QED BY <1>1, <2>1 DEF session, browser, left, stream, Grows, HasRoom
  <1>4. CASE XReadReturns(g)
    <2>1. /\ \A h \in Gateways : HasRoom(h) => HasRoom(h)'
          /\ tailCursor' = [tailCursor EXCEPT ![g] = upto[g]]
          /\ tailPc' = [tailPc EXCEPT ![g] = "idle"]
          /\ from' = [from EXCEPT ![g] = 0] /\ upto' = [upto EXCEPT ![g] = 0]
          /\ UNCHANGED <<stream, phase, gateway, replay, sent, browser, breaks, skipped>>
      BY <1>4, Broadcasts
    <2>. QED BY <1>1, <1>4, <2>1 DEF browser, stream, Grows
  <1>5. CASE XReadEmpty(g) \/ XReadFails(g)
    <2>1. /\ tailPc' = [tailPc EXCEPT ![g] = "idle"]
          /\ from' = [from EXCEPT ![g] = 0] /\ upto' = [upto EXCEPT ![g] = 0]
          /\ UNCHANGED <<stream, tailCursor, session, browser, left>>
      BY <1>5 DEF EndRead, XReadEmpty, XReadFails
    <2>2. Grows
      BY <1>1, <1>5, PassesOver DEF XReadEmpty, XReadFails, Grows
    <2>. QED BY <1>1, <2>1, <2>2 DEF session, browser, left, stream, HasRoom
  <1>. QED BY <1>2, <1>3, <1>4, <1>5 DEF TailStep

LEMMA StopsElsewhere ==
    ASSUME DeliveryTypeOK, NEW g \in Gateways, StopGateway(g), gateway # g
    PROVE  /\ UNCHANGED <<last, phase, gateway, queue, closed, replay, sent, cursor, ingested,
                          skipped>>
           /\ Grows
           /\ tailPc'[g] = "down"
           /\ \A h \in Gateways : h # g =>
                 /\ tailPc'[h] = tailPc[h] /\ tailCursor'[h] = tailCursor[h]
                 /\ from'[h] = from[h] /\ upto'[h] = upto[h]
                 /\ HasRoom(h) => HasRoom(h)'
  <1>1. /\ tailPc \in [Gateways -> {"down", "idle", "reading"}]
        /\ tailCursor \in [Gateways -> Entries \cup {Fresh}]
        /\ from \in [Gateways -> 0 .. last] /\ upto \in [Gateways -> 0 .. last]
        /\ breaks \in Nat /\ leaked \in [Gateways -> Lengths]
    BY EntryNumbers, TypesAre DEF DeliveryTypeOK
  <1>2. UNCHANGED <<last, phase, gateway, queue, closed, replay, sent, cursor, ingested, skipped>>
    BY DEF StopGateway, session, browser, stream
  <1>3. /\ breaks' = breaks + 1 /\ tailPc' = [tailPc EXCEPT ![g] = "down"]
        /\ tailCursor' = [tailCursor EXCEPT ![g] = Fresh]
        /\ from' = [from EXCEPT ![g] = 0] /\ upto' = [upto EXCEPT ![g] = 0]
        /\ leaked' = [leaked EXCEPT ![g] = Nobody]
    BY DEF StopGateway
  <1>. QED BY <1>1, <1>2, <1>3 DEF Grows, HasRoom

(* A connection that ends, by its sender, its network or its gateway.      *)
ConnectionEnds ==
    \/ CloseSlow \/ Disconnect \/ BreakEarly
    \/ \E g \in Gateways : StopGateway(g) /\ gateway = g

LEMMA EndFrames ==
    ASSUME DeliveryTypeOK, ConnectionEnds
    PROVE  /\ phase' = "away" /\ queue' = <<>> /\ closed' = "clear" /\ replay' = <<>>
           /\ sent' = NoCursor /\ gateway' = None
           /\ UNCHANGED <<last, cursor, ingested, skipped>> /\ Grows
           /\ \A g \in Gateways : tailPc'[g] = "reading" =>
                 /\ tailPc[g] = "reading" /\ tailCursor'[g] = tailCursor[g]
                 /\ from'[g] = from[g] /\ upto'[g] = upto[g]
  <1>1. /\ phase' = "away" /\ queue' = <<>> /\ closed' = "clear" /\ replay' = <<>>
        /\ sent' = NoCursor /\ gateway' = None
        /\ UNCHANGED <<last, cursor, ingested, skipped>>
    BY SessionEnds DEF ConnectionEnds, stream, browser
  <1>2. breaks \in Nat /\ breaks' \in {breaks, breaks + 1}
    BY EntryNumbers DEF ConnectionEnds, CloseSlow, Disconnect, BreakEarly, StopGateway
  <1>3. CASE CloseSlow \/ Disconnect \/ BreakEarly
    <2>1. UNCHANGED <<tailPc, tailCursor, from, upto>>
      BY <1>3 DEF CloseSlow, Disconnect, BreakEarly, tail
    <2>. QED BY <1>1, <1>2, <2>1 DEF Grows
  <1>4. ASSUME NEW g \in Gateways, StopGateway(g)
        PROVE  \A h \in Gateways : tailPc'[h] = "reading" =>
                 /\ tailPc[h] = "reading" /\ tailCursor'[h] = tailCursor[h]
                 /\ from'[h] = from[h] /\ upto'[h] = upto[h]
    <2>1. /\ tailPc' = [tailPc EXCEPT ![g] = "down"]
          /\ tailCursor' = [tailCursor EXCEPT ![g] = Fresh]
          /\ from' = [from EXCEPT ![g] = 0] /\ upto' = [upto EXCEPT ![g] = 0]
      BY <1>4 DEF StopGateway
    <2>. QED BY <2>1 DEF DeliveryTypeOK
  <1>. QED BY <1>1, <1>2, <1>3, <1>4 DEF ConnectionEnds, Grows

(* Every other step of a connection leaves the gateways alone.             *)
LEMMA SessionFrames ==
    ASSUME (\E g \in Gateways : Connect(g)) \/ Fetch \/ StartSender
              \/ SendReplayed \/ SendQueued \/ SendTimesOut
    PROVE  UNCHANGED <<last, oldest, tailPc, tailCursor, from, upto, leaked, early>>
  BY DEF Connect, Fetch, StartSender, SendReplayed, SendQueued, SendTimesOut, stream, tail, left

LEMMA StepKinds ==
    ASSUME [DeliveryNext]_deliveryVars
    PROVE  \/ Publish
           \/ \E g \in Gateways : TailStep(g) \/ XReadFails(g)
           \/ \E g \in Gateways : Connect(g)
           \/ Fetch \/ StartSender
           \/ SendReplayed \/ SendQueued \/ SendTimesOut
           \/ ConnectionEnds
           \/ \E g \in Gateways : StopGateway(g) /\ gateway # g
           \/ UNCHANGED deliveryVars
  BY DEF DeliveryNext, SessionStep, ConnectionEnds

-----------------------------------------------------------------------------
(* What the tails and the queue keep                                       *)

LEMMA NextTails ==
    ASSUME DeliveryTypeOK, TailsInv, QueueInv, [DeliveryNext]_deliveryVars
    PROVE  TailsInv'
  <1>0. \A g \in Gateways : /\ tailCursor[g] \in Int /\ tailCursor[g] <= last
                            /\ from[g] \in Nat /\ upto[g] \in Nat /\ upto[g] <= last /\ last \in Nat
    BY EntryNumbers
  <1>1. CASE Publish
    BY <1>0, <1>1, Publishes DEF TailsInv
  <1>2. ASSUME NEW g \in Gateways, TailStep(g) \/ XReadFails(g) PROVE TailsInv'
    <2>1. /\ last' = last
          /\ \A h \in Gateways : h # g =>
                 /\ tailPc'[h] = tailPc[h] /\ tailCursor'[h] = tailCursor[h]
                 /\ from'[h] = from[h] /\ upto'[h] = upto[h]
          /\ ~XReadReturns(g) => tailCursor' = tailCursor
      BY <1>2, TailFrames
    <2>2. tailPc'[g] = "reading" =>
             /\ tailCursor'[g] <= from'[g] /\ from'[g] <= upto'[g]
             /\ upto'[g] = from'[g] => from'[g] = last'
      <3>1. CASE XRead(g)
        <4>1. /\ tailCursor[g] <= from'[g] /\ from'[g] <= upto'[g]
              /\ upto'[g] = from'[g] => from'[g] = last
          BY <3>1, XReadReads
        <4>2. tailCursor' = tailCursor
          BY <3>1 DEF XRead
        <4>. QED BY <2>1, <4>1, <4>2
      <3>2. CASE ~XRead(g)
        BY <1>2, <3>2
           DEF TailStep, StartGateway, XReadReturns, XReadEmpty, XReadFails, EndRead, DeliveryTypeOK
      <3>. QED BY <3>1, <3>2
    <2>. QED BY <2>1, <2>2 DEF TailsInv
  <1>3. CASE ConnectionEnds
    BY <1>3, EndFrames DEF TailsInv
  <1>4. ASSUME NEW g \in Gateways, StopGateway(g), gateway # g PROVE TailsInv'
    BY <1>4, StopsElsewhere DEF TailsInv
  <1>5. CASE UNCHANGED <<last, tailPc, tailCursor, from, upto>>
    BY <1>5 DEF TailsInv
  <1>6. CASE UNCHANGED deliveryVars
    BY <1>5, <1>6 DEF deliveryVars, stream, tail
  <1>. QED BY <1>1, <1>2, <1>3, <1>4, <1>5, <1>6, StepKinds, SessionFrames

(* A message takes the head of the replay or of the queue.                 *)
LEMMA QueueShortens ==
    ASSUME DeliveryTypeOK, QueueInv, SendReplayed \/ SendQueued \/ SendTimesOut
    PROVE  /\ Rising(queue') /\ UNCHANGED <<phase, gateway, closed>> /\ phase # "away"
           /\ \A i \in DOMAIN queue' : queue'[i] \in Range(queue)
  <1>1. /\ queue' = queue \/ (queue # <<>> /\ queue' = Tail(queue))
        /\ UNCHANGED <<phase, gateway, closed>> /\ phase # "away"
    BY DEF SendReplayed, SendQueued, SendTimesOut
  <1>2. queue \in Seq(Nat) /\ Rising(queue)
    BY EntryNumbers DEF QueueInv
  <1>3. \A i \in DOMAIN queue : queue[i] \in Range(queue)
    BY <1>2, Elements
  <1>4. ASSUME queue # <<>>
        PROVE  Rising(Tail(queue)) /\ \A i \in DOMAIN Tail(queue) : Tail(queue)[i] \in Range(queue)
    <2>1. /\ Rising(Tail(queue))
          /\ \A i \in DOMAIN Tail(queue) : i + 1 \in DOMAIN queue /\ Tail(queue)[i] = queue[i + 1]
      BY <1>2, <1>4, WithoutHead
    <2>. QED BY <1>3, <2>1
  <1>. QED BY <1>1, <1>2, <1>3, <1>4

LEMMA NextQueue ==
    ASSUME DeliveryTypeOK, TailsInv, QueueInv, [DeliveryNext]_deliveryVars
    PROVE  QueueInv'
  <1>1. CASE Publish
    BY <1>1, Publishes DEF QueueInv, HasRoom
  <1>2. ASSUME NEW g \in Gateways, TailStep(g) \/ XReadFails(g) PROVE QueueInv'
    <2>1. /\ UNCHANGED <<phase, gateway, replay, sent>>
          /\ \A h \in Gateways : h # g => tailPc'[h] = tailPc[h] /\ tailCursor'[h] = tailCursor[h]
          /\ tailPc'[g] \in {"idle", "reading"}
          /\ \A h \in Gateways : HasRoom(h) => HasRoom(h)'
          /\ ~XReadReturns(g) => UNCHANGED <<queue, closed, tailCursor>>
      BY <1>2, TailFrames
    <2>2. CASE ~XReadReturns(g)
      BY <2>1, <2>2 DEF QueueInv
    <2>3. CASE XReadReturns(g)
      <3>1. /\ Rising(queue')
            /\ \/ ~Listening(g) /\ queue' = queue /\ closed' = closed
               \/ /\ Listening(g)
                  /\ \A i \in DOMAIN queue' : queue'[i] <= upto[g]
            /\ tailPc[g] = "reading" /\ from[g] < upto[g]
            /\ tailCursor' = [tailCursor EXCEPT ![g] = upto[g]]
        BY <2>3, Broadcasts
      <3>2. tailCursor'[g] = upto[g] /\ tailCursor[g] <= upto[g]
        <4>1. tailCursor[g] <= from[g] /\ tailCursor[g] \in Int /\ from[g] \in Nat /\ upto[g] \in Nat
          BY <3>1, EntryNumbers DEF TailsInv
        <4>. QED BY <3>1, <4>1 DEF DeliveryTypeOK
      <3>3. ASSUME gateway \in Gateways, phase # "away"
            PROVE  \A i \in DOMAIN queue' : queue'[i] <= tailCursor'[gateway]
        <4>1. CASE Listening(g)
          BY <3>1, <3>2, <4>1 DEF Listening
        <4>2. CASE ~Listening(g) /\ gateway = g
          <5>1. \A i \in DOMAIN queue : queue[i] \in Nat /\ queue[i] <= tailCursor[g]
            BY <3>3, <4>2, EntryNumbers, Elements DEF QueueInv
          <5>2. tailCursor[g] \in Int /\ upto[g] \in Int
            BY EntryNumbers
          <5>. QED BY <3>1, <3>2, <4>2, <5>1, <5>2
        <4>3. CASE gateway # g
          BY <2>1, <3>1, <3>3, <4>3 DEF QueueInv, Listening
        <4>. QED BY <4>1, <4>2, <4>3
      <3>4. phase = "away" => queue' = <<>> /\ closed' = "clear"
        BY <3>1 DEF QueueInv, Listening
      <3>5. closed' = "clear" /\ phase # "away" => closed = "clear"
        BY <3>1 DEF Listening
      <3>. QED BY <2>1, <3>1, <3>3, <3>4, <3>5 DEF QueueInv
    <2>. QED BY <2>2, <2>3
  <1>3. ASSUME NEW g \in Gateways, Connect(g) PROVE QueueInv'
    BY <1>3, NoElements DEF Connect, QueueInv, HasRoom, tail, left
  <1>4. CASE Fetch \/ StartSender
    BY <1>4 DEF Fetch, StartSender, QueueInv, HasRoom, tail, left
  <1>5. CASE SendReplayed \/ SendQueued \/ SendTimesOut
    <2>1. /\ Rising(queue') /\ UNCHANGED <<phase, gateway, closed, tailPc, tailCursor, leaked>>
          /\ phase # "away" /\ \A i \in DOMAIN queue' : queue'[i] \in Range(queue)
      BY <1>5, QueueShortens, SessionFrames
    <2>2. \A n \in Range(queue) : n <= tailCursor[gateway]
      BY <2>1, EntryNumbers, Elements DEF QueueInv
    <2>. QED BY <2>1, <2>2 DEF QueueInv, HasRoom
  <1>6. CASE ConnectionEnds
    BY <1>6, EndFrames, NoElements DEF QueueInv
  <1>7. ASSUME NEW g \in Gateways, StopGateway(g), gateway # g PROVE QueueInv'
    BY <1>7, StopsElsewhere DEF QueueInv
  <1>8. CASE UNCHANGED deliveryVars
    BY <1>8 DEF QueueInv, deliveryVars, tail, left, session, HasRoom
  <1>. QED BY <1>1, <1>2, <1>3, <1>4, <1>5, <1>6, <1>7, <1>8, StepKinds

-----------------------------------------------------------------------------
(* The replay, the cursors and what has been passed on                     *)

(* The replay rises, after what was sent.                                  *)
ReplayInv ==
    /\ replay # <<>> => phase = "replaying"
    /\ Rising(replay)
    /\ \A i \in DOMAIN replay : sent < replay[i]

(* The cursor of the page is an event it has.  The gateway knows it, but   *)
(* after a send that timed out before anything else was sent.              *)
CursorInv ==
    /\ cursor # NoCursor => cursor \in Taken
    /\ cursor = NoCursor => ingested = <<>>
    /\ phase \in {"registered", "replaying"} => sent = cursor
    /\ phase = "live" =>
          \/ sent = cursor
          \/ /\ sent = NoCursor /\ cursor <= tailCursor[gateway]
             /\ \A i \in DOMAIN queue : cursor < queue[i]

(* What precedes an event of the page, of its replay, or the position of   *)
(* its gateway, is taken, under way or passed over.                        *)
TakenCovered ==
    \A n \in Entries, m \in Taken : n <= m => n \in Taken \cup skipped

ReplayCovered ==
    \A n \in Entries, m \in Range(replay) :
        n <= m => n \in Taken \cup Range(replay) \cup skipped

TailCovered ==
    phase \in {"replaying", "live"} /\ closed = "clear" =>
        \A n \in Entries : n <= TailPosition(gateway) => n \in Waiting \cup skipped

(* The page takes in an event after its cursor.  The cursor becomes that   *)
(* event, or stays, once for each send that times out.                     *)
Messages(n, c) ==
    /\ n \in Entries /\ TakeIn(n, c) /\ cursor < n /\ c \in {n, cursor} /\ c # NoCursor
    /\ c = n \/ breaks' = breaks + 1
    /\ \/ /\ phase = "replaying" /\ replay # <<>> /\ n = Head(replay)
          /\ replay' = Tail(replay) /\ queue' = queue /\ sent' = n /\ c = n
       \/ /\ phase = "live" /\ closed = "clear" /\ queue # <<>> /\ n = Head(queue)
          /\ queue' = Tail(queue) /\ replay' = replay /\ sent < n
          /\ \/ sent' = n /\ c = n
             \/ sent' = sent /\ c = (IF sent = NoCursor THEN n ELSE cursor)

LEMMA MessagesTaken ==
    ASSUME DeliveryTypeOK, QueueInv, ReplayInv, CursorInv,
           SendReplayed \/ SendQueued \/ SendTimesOut
    PROVE  /\ UNCHANGED <<skipped, last, phase, gateway, closed, tailPc, tailCursor, from>>
           /\ breaks' \in {breaks, breaks + 1}
           /\ \/ /\ phase = "live" /\ closed = "clear" /\ queue # <<>> /\ Head(queue) <= sent
                 /\ queue' = Tail(queue)
                 /\ UNCHANGED <<sent, replay, cursor, ingested, breaks>>
              \/ \E n, c : Messages(n, c)
  <1>1. /\ UNCHANGED <<skipped, last, phase, gateway, closed, tailPc, tailCursor, from>>
        /\ breaks' \in {breaks, breaks + 1}
    BY SessionFrames DEF SendReplayed, SendQueued, SendTimesOut
  <1>2. /\ sent \in Nat /\ cursor \in Nat /\ NoCursor = 0
        /\ queue \in Seq(Nat) /\ replay \in Seq(Nat) /\ Entries \subseteq Nat
        /\ 0 \notin Entries
    BY EntryNumbers, Sizes
  <1>3. CASE SendReplayed
    <2>1. Head(replay) \in Entries /\ replay # <<>> /\ phase = "replaying"
      BY <1>3, HeadsAre DEF SendReplayed
    <2>2. cursor < Head(replay)
      <3>1. 1 \in DOMAIN replay /\ Head(replay) = replay[1]
        BY <1>2, <2>1, FirstOfMany, WithoutHead
      <3>. QED BY <2>1, <3>1 DEF ReplayInv, CursorInv
    <2>3. Messages(Head(replay), Head(replay))
      BY <1>2, <1>3, <2>1, <2>2 DEF SendReplayed, Messages
    <2>. QED BY <1>1, <2>3
  <1>4. ASSUME queue # <<>>, phase = "live", Head(queue) > sent
        PROVE  Head(queue) \in Entries /\ cursor < Head(queue) /\ Head(queue) \in Nat
    <2>1. 1 \in DOMAIN queue /\ Head(queue) = queue[1] /\ Head(queue) \in Entries
      BY <1>2, <1>4, FirstOfMany, WithoutHead, HeadsAre
    <2>. QED BY <1>2, <1>4, <2>1 DEF CursorInv
  <1>5. CASE SendQueued
    <2>1. CASE Head(queue) <= sent /\ UNCHANGED <<sent, browser>>
      BY <1>1, <1>5, <2>1 DEF SendQueued, browser
    <2>2. CASE Head(queue) > sent /\ TakeIn(Head(queue), Head(queue)) /\ sent' = Head(queue)
      <3>1. Head(queue) \in Entries /\ cursor < Head(queue)
        BY <1>4, <1>5, <2>2 DEF SendQueued
      <3>2. Messages(Head(queue), Head(queue))
        BY <1>2, <1>5, <2>2, <3>1 DEF SendQueued, Messages
      <3>. QED BY <1>1, <3>2
    <2>. QED BY <1>5, <2>1, <2>2 DEF SendQueued
  <1>6. CASE SendTimesOut
    <2>. DEFINE c == IF sent = NoCursor THEN Head(queue) ELSE sent
    <2>1. /\ Head(queue) \in Entries /\ cursor < Head(queue) /\ TakeIn(Head(queue), c)
          /\ breaks' = breaks + 1
      BY <1>4, <1>6 DEF SendTimesOut
    <2>2. c = (IF sent = NoCursor THEN Head(queue) ELSE cursor)
      BY <1>6 DEF SendTimesOut, CursorInv
    <2>3. Messages(Head(queue), c)
      BY <1>2, <1>6, <2>1, <2>2 DEF SendTimesOut, Messages
    <2>. QED BY <1>1, <2>3
  <1>. QED BY <1>3, <1>5, <1>6

LEMMA NextReplay ==
    ASSUME DeliveryTypeOK, TailsInv, QueueInv, ReplayInv, CursorInv, [DeliveryNext]_deliveryVars
    PROVE  ReplayInv'
  <1>1. CASE UNCHANGED <<phase, replay, sent>>
    BY <1>1 DEF ReplayInv
  <1>2. CASE Publish
    BY <1>1, <1>2, Publishes
  <1>3. ASSUME NEW g \in Gateways, TailStep(g) \/ XReadFails(g) PROVE ReplayInv'
    BY <1>1, <1>3, TailFrames
  <1>4. CASE replay' = <<>>
    BY <1>4, NoElements DEF ReplayInv
  <1>5. ASSUME NEW g \in Gateways, Connect(g) PROVE ReplayInv'
    BY <1>4, <1>5 DEF Connect, QueueInv
  <1>6. CASE Fetch
    <2>1. /\ replay' = ReplayRows /\ sent' = cursor /\ phase' = "replaying"
      BY <1>6 DEF Fetch, CursorInv
    <2>2. ReplayRows \in Seq(Nat) /\ Rising(ReplayRows) /\ \A n \in Range(ReplayRows) : cursor < n
      BY RowsFetched, EntryNumbers, SeqMonotonic
    <2>. QED BY <2>1, <2>2, Elements DEF ReplayInv
  <1>7. CASE StartSender
    BY <1>4, <1>7 DEF StartSender
  <1>8. CASE SendReplayed \/ SendQueued \/ SendTimesOut
    <2>1. CASE phase = "live"
      <3>1. replay = <<>>
        BY <2>1 DEF ReplayInv
      <3>2. replay' = replay
        BY <1>8, <3>1 DEF SendReplayed, SendQueued, SendTimesOut
      <3>. QED BY <1>4, <3>1, <3>2
    <2>2. CASE phase # "live"
      <3>1. /\ phase = "replaying" /\ phase' = phase /\ replay # <<>>
            /\ replay' = Tail(replay) /\ sent' = Head(replay)
        BY <1>8, <2>2 DEF SendReplayed, SendQueued, SendTimesOut
      <3>2. replay \in Seq(Nat) /\ Rising(replay)
        BY EntryNumbers DEF ReplayInv
      <3>3. Rising(Tail(replay)) /\ \A i \in DOMAIN Tail(replay) : Head(replay) < Tail(replay)[i]
        BY <3>1, <3>2, WithoutHead
      <3>. QED BY <3>1, <3>3 DEF ReplayInv
    <2>. QED BY <2>1, <2>2
  <1>9. CASE ConnectionEnds
    BY <1>4, <1>9, EndFrames
  <1>10. ASSUME NEW g \in Gateways, StopGateway(g), gateway # g PROVE ReplayInv'
    BY <1>1, <1>10, StopsElsewhere
  <1>11. CASE UNCHANGED deliveryVars
    BY <1>1, <1>11 DEF deliveryVars, session
  <1>. QED BY <1>2, <1>3, <1>5, <1>6, <1>7, <1>8, <1>9, <1>10, <1>11, StepKinds

LEMMA NextCursor ==
    ASSUME DeliveryTypeOK, TailsInv, QueueInv, ReplayInv, CursorInv, [DeliveryNext]_deliveryVars
    PROVE  CursorInv'
  <1>0. /\ sent \in Nat /\ cursor \in Nat /\ NoCursor = 0 /\ Fresh = -1
        /\ \A g \in Gateways : /\ tailCursor[g] \in Int /\ from[g] \in Nat /\ upto[g] \in Nat
        /\ queue \in Seq(Nat)
    BY EntryNumbers, Sizes
  <1>1. CASE /\ UNCHANGED <<phase, gateway, queue, sent, cursor, ingested>>
             /\ phase = "live" => tailCursor'[gateway] = tailCursor[gateway]
    BY <1>1 DEF CursorInv, Taken
  <1>2. CASE Publish
    BY <1>1, <1>2, Publishes
  <1>3. ASSUME NEW g \in Gateways, TailStep(g) \/ XReadFails(g) PROVE CursorInv'
    <2>1. /\ UNCHANGED <<phase, gateway, sent, cursor, ingested>>
          /\ \A h \in Gateways : h # g => tailCursor'[h] = tailCursor[h]
          /\ ~XReadReturns(g) => UNCHANGED <<queue, tailCursor>>
      BY <1>3, TailFrames
    <2>2. CASE ~XReadReturns(g)
      BY <1>1, <2>1, <2>2
    <2>3. CASE XReadReturns(g)
      <3>1. /\ tailPc[g] = "reading" /\ from[g] < upto[g]
            /\ tailCursor' = [tailCursor EXCEPT ![g] = upto[g]]
            /\ \/ queue' = queue /\ ~Listening(g)
               \/ /\ Listening(g)
                  /\ \A i \in DOMAIN queue' : queue'[i] \in Range(queue) \/ from[g] < queue'[i]
        BY <2>3, Broadcasts
      <3>2. tailCursor'[g] = upto[g] /\ tailCursor[g] <= from[g]
        BY <3>1 DEF DeliveryTypeOK, TailsInv
      <3>3. CASE phase = "live" /\ gateway = g /\ sent # cursor
        <4>1. /\ sent = NoCursor /\ cursor <= tailCursor[g]
              /\ \A i \in DOMAIN queue : cursor < queue[i]
          BY <3>3 DEF CursorInv
        <4>2. \A n \in Range(queue) : cursor < n
          BY <1>0, <4>1, Elements
        <4>3. cursor <= tailCursor'[g] /\ cursor <= from[g]
          BY <1>0, <3>1, <3>2, <4>1
        <4>4. queue' \in Seq(Nat) /\ \A i \in DOMAIN queue' : queue'[i] \in Nat
          <5>1. queue' \in Seq(Entries) /\ Entries \subseteq Nat
            BY <2>3, Broadcasts, EntryNumbers
          <5>. QED BY <5>1, SeqMonotonic, Elements
        <4>5. \A i \in DOMAIN queue' : cursor < queue'[i]
          BY <1>0, <3>1, <4>1, <4>2, <4>3, <4>4
        <4>. QED BY <2>1, <3>3, <4>1, <4>3, <4>5 DEF CursorInv, Taken
      <3>4. CASE phase = "live" /\ gateway # g /\ sent # cursor
        <4>1. queue' = queue /\ gateway \in Gateways
          BY <3>1, <3>4 DEF Listening, QueueInv
        <4>. QED BY <1>1, <2>1, <3>4, <4>1
      <3>5. CASE phase # "live" \/ sent = cursor
        BY <2>1, <3>5 DEF CursorInv, Taken
      <3>. QED BY <3>3, <3>4, <3>5
    <2>. QED BY <2>2, <2>3
  <1>4. ASSUME NEW g \in Gateways, Connect(g) PROVE CursorInv'
    BY <1>4 DEF Connect, CursorInv, Taken, browser
  <1>5. CASE Fetch \/ StartSender
    BY <1>5 DEF Fetch, StartSender, CursorInv, Taken, browser
  <1>6. CASE SendReplayed \/ SendQueued \/ SendTimesOut
    <2>1. UNCHANGED <<phase, gateway, tailCursor>> /\ phase \in {"replaying", "live"}
      BY <1>6, MessagesTaken DEF SendReplayed, SendQueued, SendTimesOut
    <2>2. ASSUME queue # <<>>
          PROVE  /\ Head(queue) = queue[1] /\ 1 \in DOMAIN queue
                 /\ \A i \in DOMAIN Tail(queue) :
                       /\ i + 1 \in DOMAIN queue /\ Tail(queue)[i] = queue[i + 1]
                       /\ Head(queue) < Tail(queue)[i]
      <3>1. Rising(queue)
        BY DEF QueueInv
      <3>. QED BY <1>0, <2>2, <3>1, WithoutHead, FirstOfMany
    <2>3. CASE /\ phase = "live" /\ queue # <<>> /\ queue' = Tail(queue)
               /\ UNCHANGED <<sent, replay, cursor, ingested>>
      BY <2>1, <2>2, <2>3 DEF CursorInv, Taken
    <2>4. ASSUME NEW n, NEW c, Messages(n, c) PROVE CursorInv'
      <3>1. n \in Entries /\ TakeIn(n, c) /\ c \in {n, cursor} /\ c # NoCursor
        BY <2>4 DEF Messages
      <3>2. cursor' = c /\ Taken' = Taken \cup {n}
        BY <3>1, TakesIn
      <3>3. cursor' # NoCursor /\ cursor' \in Taken'
        BY <3>1, <3>2 DEF CursorInv
      <3>4. CASE phase = "replaying"
        BY <2>1, <2>4, <3>2, <3>3, <3>4 DEF Messages, CursorInv
      <3>5. CASE phase = "live"
        <4>1. CASE sent' = c
          BY <2>1, <3>2, <3>3, <3>5, <4>1 DEF CursorInv
        <4>2. CASE sent' # c
          <5>1. /\ queue # <<>> /\ n = Head(queue) /\ queue' = Tail(queue) /\ sent' = sent
                /\ c = (IF sent = NoCursor THEN n ELSE cursor)
            BY <2>4, <3>5, <4>2 DEF Messages
          <5>2. sent = NoCursor /\ c = n
            BY <3>5, <4>2, <5>1 DEF CursorInv
          <5>3. n <= tailCursor[gateway]
            BY <2>2, <3>5, <5>1 DEF QueueInv
          <5>4. \A i \in DOMAIN queue' : n < queue'[i]
            BY <2>2, <5>1
          <5>. QED BY <2>1, <3>2, <3>3, <3>5, <5>1, <5>2, <5>3, <5>4 DEF CursorInv
        <4>. QED BY <4>1, <4>2
      <3>. QED BY <2>1, <3>4, <3>5
    <2>. QED BY <1>6, <2>3, <2>4, MessagesTaken
  <1>7. CASE ConnectionEnds
    BY <1>7, EndFrames DEF CursorInv, Taken
  <1>8. ASSUME NEW g \in Gateways, StopGateway(g), gateway # g PROVE CursorInv'
    <2>1. /\ UNCHANGED <<phase, gateway, queue, sent, cursor, ingested>>
          /\ \A h \in Gateways : h # g => tailCursor'[h] = tailCursor[h]
      BY <1>8, StopsElsewhere
    <2>2. phase = "live" => gateway \in Gateways
      BY DEF QueueInv
    <2>. QED BY <1>1, <1>8, <2>1, <2>2
  <1>9. CASE UNCHANGED deliveryVars
    BY <1>1, <1>9 DEF deliveryVars, session, browser, tail
  <1>. QED BY <1>2, <1>3, <1>4, <1>5, <1>6, <1>7, <1>8, <1>9, StepKinds

(* The steps that are not messages leave what the page has.                *)
LEMMA PageStays ==
    ASSUME DeliveryTypeOK, TailsInv, QueueInv, [DeliveryNext]_deliveryVars,
           ~(SendReplayed \/ SendQueued \/ SendTimesOut)
    PROVE  UNCHANGED <<cursor, ingested>> /\ Grows
  <1>1. CASE UNCHANGED <<browser, skipped, breaks>>
    BY <1>1, EntryNumbers DEF browser, Grows
  <1>2. ASSUME NEW g \in Gateways, Connect(g) PROVE UNCHANGED <<cursor, ingested>> /\ Grows
    BY <1>1, <1>2 DEF Connect
  <1>3. CASE Fetch
    BY <1>3, EntryNumbers DEF Fetch, browser, Grows
  <1>4. CASE StartSender \/ UNCHANGED deliveryVars
    BY <1>1, <1>4 DEF StartSender, deliveryVars
  <1>. QED BY <1>2, <1>3, <1>4, StepKinds, Publishes, TailFrames, EndFrames, StopsElsewhere

LEMMA NextTakenCovered ==
    ASSUME DeliveryTypeOK, TailsInv, QueueInv, ReplayInv, CursorInv,
           TakenCovered, ReplayCovered, TailCovered, [DeliveryNext]_deliveryVars
    PROVE  TakenCovered'
  <1>1. /\ \A n \in Taken : n \in Entries
        /\ last \in Nat /\ Entries = 1 .. last /\ Entries' = 1 .. last'
    BY EntryNumbers, Elements DEF DeliveryTypeOK, Taken, Entries
  <1>2. CASE ~(SendReplayed \/ SendQueued \/ SendTimesOut)
    <2>1. Taken' = Taken /\ skipped \subseteq skipped'
      BY <1>2, PageStays DEF Taken, Grows
    <2>2. \A n \in Entries', m \in Taken : n <= m => n \in Entries
      BY <1>1
    <2>. QED BY <2>1, <2>2 DEF TakenCovered
  <1>3. CASE SendReplayed \/ SendQueued \/ SendTimesOut
    <2>1. skipped' = skipped /\ Entries' = Entries
      BY <1>1, <1>3, MessagesTaken
    <2>2. CASE UNCHANGED ingested
      BY <2>1, <2>2 DEF TakenCovered, Taken
    <2>3. ASSUME NEW n, NEW c, Messages(n, c) PROVE TakenCovered'
      <3>1. n \in Entries /\ TakeIn(n, c)
        BY <2>3 DEF Messages
      <3>2. Taken' = Taken \cup {n}
        BY <3>1, TakesIn
      <3>3. ASSUME NEW m \in Entries, m <= n PROVE m \in Taken \cup {n} \cup skipped
        <4>1. CASE phase = "replaying"
          <5>1. replay \in Seq(Nat) /\ replay # <<>> /\ n = Head(replay) /\ Rising(replay)
            BY <2>3, <4>1, EntryNumbers DEF Messages, ReplayInv
          <5>2. n \in Range(replay) /\ \A k \in Range(replay) : k = n \/ n < k
            BY <5>1, WithoutHead
          <5>3. m \in Taken \cup Range(replay) \cup skipped
            BY <3>1, <3>3, <5>2 DEF ReplayCovered
          <5>. QED BY <1>1, <3>1, <3>3, <5>2, <5>3
        <4>2. CASE phase = "live"
          <5>1. /\ queue \in Seq(Nat) /\ queue # <<>> /\ n = Head(queue) /\ Rising(queue)
                /\ closed = "clear" /\ gateway \in Gateways /\ replay = <<>>
            BY <2>3, <4>2, EntryNumbers DEF Messages, ReplayInv, QueueInv
          <5>2. /\ n = queue[1] /\ 1 \in DOMAIN queue
                /\ \A k \in Range(queue) : k = n \/ n < k
            BY <5>1, WithoutHead, FirstOfMany
          <5>3. n <= TailPosition(gateway) /\ TailPosition(gateway) \in Int
            <6>1. n <= tailCursor[gateway] /\ n \in Nat /\ n > 0
              BY <1>1, <3>1, <4>2, <5>1, <5>2 DEF QueueInv
            <6>2. /\ tailCursor[gateway] \in Int /\ from[gateway] \in Nat
                  /\ tailPc[gateway] = "reading" => tailCursor[gateway] <= from[gateway]
              BY <5>1, EntryNumbers DEF TailsInv
            <6>. QED BY <6>1, <6>2, Sizes DEF TailPosition
          <5>4. m <= TailPosition(gateway)
            BY <1>1, <3>1, <3>3, <5>3
          <5>5. m \in Waiting \cup skipped
            BY <3>3, <4>2, <5>1, <5>4 DEF TailCovered
          <5>6. m \in Taken \cup Range(queue) \cup skipped
            BY <5>1, <5>5, NoElements DEF Waiting
          <5>. QED BY <1>1, <3>1, <3>3, <5>2, <5>6
        <4>. QED BY <2>3, <4>1, <4>2 DEF Messages
      <3>. QED BY <2>1, <3>2, <3>3 DEF TakenCovered
    <2>. QED BY <1>3, <2>2, <2>3, MessagesTaken
  <1>. QED BY <1>2, <1>3

LEMMA NextReplayCovered ==
    ASSUME DeliveryTypeOK, TailsInv, QueueInv, ReplayInv, CursorInv,
           TakenCovered, ReplayCovered, [DeliveryNext]_deliveryVars
    PROVE  ReplayCovered'
  <1>1. /\ \A m \in Range(replay) : m \in Entries
        /\ last \in Nat /\ Entries = 1 .. last /\ Entries' = 1 .. last'
    BY EntryNumbers, Elements DEF DeliveryTypeOK, Entries
  <1>2. CASE replay' = <<>>
    BY <1>2, NoElements DEF ReplayCovered
  <1>3. CASE replay' = replay /\ ~(SendReplayed \/ SendQueued \/ SendTimesOut)
    <2>1. Taken' = Taken /\ skipped \subseteq skipped'
      BY <1>3, PageStays DEF Taken, Grows
    <2>2. \A n \in Entries', m \in Range(replay) : n <= m => n \in Entries
      BY <1>1
    <2>. QED BY <1>3, <2>1, <2>2 DEF ReplayCovered
  <1>4. CASE SendReplayed \/ SendQueued \/ SendTimesOut
    <2>1. skipped' = skipped /\ Entries' = Entries
      BY <1>1, <1>4, MessagesTaken
    <2>2. CASE phase = "live"
      <3>1. replay = <<>>
        BY <2>2 DEF ReplayInv
      <3>2. replay' = <<>>
        BY <1>4, <3>1 DEF SendReplayed, SendQueued, SendTimesOut
      <3>. QED BY <1>2, <3>2
    <2>3. ASSUME NEW n, NEW c, Messages(n, c), phase = "replaying" PROVE ReplayCovered'
      <3>1. /\ n \in Entries /\ TakeIn(n, c) /\ replay # <<>> /\ n = Head(replay)
            /\ replay' = Tail(replay) /\ replay \in Seq(Nat)
        BY <2>3, EntryNumbers DEF Messages
      <3>2. Taken' = Taken \cup {n}
        BY <3>1, TakesIn
      <3>3. Range(replay) = {n} \cup Range(replay')
        BY <3>1, WithoutHead
      <3>. QED BY <2>1, <3>2, <3>3 DEF ReplayCovered
    <2>. QED BY <1>4, <2>2, <2>3, MessagesTaken DEF Messages
  <1>5. CASE Fetch
    <2>1. /\ Taken' = Taken /\ Entries' = Entries /\ replay' = ReplayRows
          /\ skipped' = skipped \cup
                {n \in (cursor + 1) .. last :
                    \/ replay' # <<>> /\ n < Head(replay')
                    \/ n <= TailPosition(gateway) /\ n \notin Range(replay') \cup Range(queue)}
      BY <1>5 DEF Fetch, Taken, browser, stream, Entries
    <2>2. ASSUME NEW n \in Entries, NEW m \in Range(ReplayRows), n <= m
          PROVE  n \in Taken \cup Range(ReplayRows) \cup skipped'
      <3>1. n \in Range(ReplayRows) \/ n < Head(ReplayRows)
        BY <2>2, RowsFetched
      <3>2. cursor \in Nat /\ NoCursor = 0 /\ n \in Nat /\ n > 0
        <4>1. n \in 1 .. last
          BY <1>1
        <4>2. cursor \in Nat /\ NoCursor = 0
          BY Sizes, EntryNumbers
        <4>. QED BY <1>1, <4>1, <4>2
      <3>3. CASE n < Head(ReplayRows) /\ n > cursor
        <4>1. ReplayRows # <<>>
          BY <2>2, NoElements
        <4>2. n \in (cursor + 1) .. last
          BY <1>1, <3>2, <3>3
        <4>. QED BY <2>1, <3>3, <4>1, <4>2
      <3>4. CASE n <= cursor
        <4>1. cursor \in Taken
          BY <3>2, <3>4 DEF CursorInv
        <4>. QED BY <2>1, <3>4, <4>1 DEF TakenCovered
      <3>. QED BY <1>1, <3>1, <3>2, <3>3, <3>4
    <2>. QED BY <2>1, <2>2 DEF ReplayCovered
  <1>6. ASSUME NEW g \in Gateways, Connect(g) PROVE ReplayCovered'
    BY <1>2, <1>6 DEF Connect, QueueInv
  <1>7. CASE StartSender
    BY <1>2, <1>7 DEF StartSender
  <1>8. CASE Publish \/ UNCHANGED deliveryVars
    BY <1>3, <1>4, <1>8, Publishes DEF deliveryVars, session
  <1>. QED BY <1>2, <1>3, <1>4, <1>5, <1>6, <1>7, <1>8, StepKinds, TailFrames, EndFrames,
              StopsElsewhere

LEMMA NextTailCovered ==
    ASSUME DeliveryTypeOK, TailsInv, QueueInv, ReplayInv, CursorInv,
           TakenCovered, ReplayCovered, TailCovered, [DeliveryNext]_deliveryVars
    PROVE  TailCovered'
  <1>1. /\ last \in Nat /\ Entries = 1 .. last /\ Entries' = 1 .. last' /\ Fresh = -1
        /\ tailPc \in [Gateways -> {"down", "idle", "reading"}]
        /\ tailCursor \in [Gateways -> Entries \cup {Fresh}]
        /\ from \in [Gateways -> 0 .. last] /\ upto \in [Gateways -> 0 .. last]
        /\ phase # "away" => gateway \in Gateways /\ tailPc[gateway] # "down"
    BY EntryNumbers, Sizes DEF DeliveryTypeOK, Entries, QueueInv
  (* The position advances at most over what is under way or passed over.  *)
  <1>2. ASSUME UNCHANGED <<phase, gateway>>, closed' = "clear" => closed = "clear",
               Waiting \cup skipped \subseteq Waiting' \cup skipped',
               gateway \in Gateways /\ phase \in {"replaying", "live"} /\ closed' = "clear" =>
                   \A n \in Entries' : n <= TailPosition(gateway)' =>
                      \/ n \in Entries /\ n <= TailPosition(gateway)
                      \/ n \in Waiting' \cup skipped'
        PROVE  TailCovered'
    <2>. SUFFICES ASSUME phase \in {"replaying", "live"}, closed' = "clear", NEW n \in Entries',
                         n <= TailPosition(gateway)'
                  PROVE  n \in Waiting' \cup skipped'
      BY <1>2 DEF TailCovered
    <2>1. gateway \in Gateways
      BY <1>1
    <2>. QED BY <1>2, <2>1 DEF TailCovered
  <1>3. CASE Publish
    <2>1. /\ last' = last + 1 /\ Grows
          /\ UNCHANGED <<tailPc, tailCursor, from, phase, gateway, queue, closed, replay, ingested>>
          /\ /\ gateway \in Gateways /\ phase \in {"replaying", "live"}
             /\ tailPc[gateway] = "idle" /\ tailCursor[gateway] = Fresh
             => last' \in Waiting \cup skipped'
      BY <1>3, Publishes
    <2>2. Waiting' = Waiting /\ skipped \subseteq skipped'
      BY <2>1 DEF Waiting, Taken, Grows
    <2>3. ASSUME gateway \in Gateways, phase \in {"replaying", "live"}, NEW n \in Entries',
                 n <= TailPosition(gateway)'
          PROVE  (n \in Entries /\ n <= TailPosition(gateway)) \/ n \in Waiting \cup skipped'
      <3>1. CASE tailPc[gateway] = "idle" /\ tailCursor[gateway] = Fresh
        <4>1. n \in Entries \/ n = last'
          BY <1>1, <2>1
        <4>2. TailPosition(gateway) = last
          BY <3>1 DEF TailPosition
        <4>. QED BY <1>1, <2>1, <2>3, <3>1, <4>1, <4>2
      <3>2. CASE ~(tailPc[gateway] = "idle" /\ tailCursor[gateway] = Fresh)
        <4>1. /\ TailPosition(gateway)' = TailPosition(gateway)
              /\ TailPosition(gateway) \in Int /\ TailPosition(gateway) <= last
          BY <1>1, <2>1, <2>3, <3>2 DEF TailPosition
        <4>. QED BY <1>1, <2>1, <2>3, <4>1
      <3>. QED BY <3>1, <3>2
    <2>. QED BY <1>2, <2>1, <2>2, <2>3
  <1>4. ASSUME NEW g \in Gateways, TailStep(g) \/ XReadFails(g) PROVE TailCovered'
    <2>1. /\ UNCHANGED <<last, phase, gateway, replay, ingested>> /\ Grows
          /\ \A h \in Gateways : h # g =>
                 tailPc'[h] = tailPc[h] /\ tailCursor'[h] = tailCursor[h] /\ from'[h] = from[h]
          /\ ~XReadReturns(g) => UNCHANGED <<queue, closed, tailCursor>>
      BY <1>4, TailFrames
    <2>2. Entries' = Entries
      BY <1>1, <2>1
    <2>3. gateway \in Gateways /\ gateway # g => TailPosition(gateway)' = TailPosition(gateway)
      BY <2>1 DEF TailPosition
    <2>4. CASE XReadReturns(g)
      <3>1. /\ \/ ~Listening(g) /\ queue' = queue /\ closed' = closed
               \/ /\ Listening(g)
                  /\ closed' = "clear" =>
                         Range(queue') = Range(queue) \cup ((from[g] + 1) .. upto[g])
            /\ tailPc[g] = "reading" /\ from[g] < upto[g]
            /\ tailCursor' = [tailCursor EXCEPT ![g] = upto[g]]
            /\ tailPc' = [tailPc EXCEPT ![g] = "idle"]
            /\ skipped' = skipped
        BY <2>4, Broadcasts
      <3>2. CASE gateway # g \/ phase \notin {"replaying", "live"} \/ closed' # "clear"
        <4>1. closed' = "clear" => Range(queue) \subseteq Range(queue')
          BY <3>1
        <4>2. closed' = "clear" => closed = "clear"
          BY <3>1 DEF Listening
        <4>3. closed' = "clear" => Waiting \cup skipped \subseteq Waiting' \cup skipped'
          BY <2>1, <3>1, <4>1 DEF Waiting, Taken
        <4>. QED BY <1>1, <2>1, <2>2, <2>3, <3>2, <4>2, <4>3 DEF TailCovered
      <3>3. CASE gateway = g /\ phase \in {"replaying", "live"} /\ closed' = "clear"
        <4>1. closed = "clear" /\ Range(queue') = Range(queue) \cup ((from[g] + 1) .. upto[g])
          BY <3>1, <3>3 DEF Listening
        <4>2. Waiting' = Waiting \cup ((from[g] + 1) .. upto[g])
          BY <2>1, <4>1 DEF Waiting, Taken
        <4>3. /\ TailPosition(gateway)' = upto[g] /\ TailPosition(gateway) = from[g]
          <5>1. /\ tailCursor'[g] = upto[g] /\ tailPc'[g] = "idle" /\ gateway' = g
                /\ upto[g] \in Nat
            BY <1>1, <2>1, <3>1, <3>3, EntryNumbers
          <5>. QED BY <1>1, <3>1, <3>3, <5>1 DEF TailPosition
        <4>4. \A n \in Entries : n <= upto[g] => n <= from[g] \/ n \in (from[g] + 1) .. upto[g]
          BY <1>1
        <4>. QED BY <1>2, <2>1, <2>2, <3>1, <3>3, <4>1, <4>2, <4>3, <4>4
      <3>. QED BY <3>2, <3>3
    <2>5. CASE ~XReadReturns(g)
      <3>1. Waiting' = Waiting /\ skipped \subseteq skipped' /\ UNCHANGED <<closed, tailCursor>>
        BY <2>1, <2>5 DEF Waiting, Taken, Grows
      <3>2. ASSUME gateway = g, phase \in {"replaying", "live"}, NEW n \in Entries,
                   n <= TailPosition(g)'
            PROVE  n <= TailPosition(g) \/ n \in Waiting \cup skipped'
        <4>1. CASE XRead(g)
          <5>1. /\ tailPc' = [tailPc EXCEPT ![g] = "reading"]
                /\ from'[g] = IF tailCursor[g] = Fresh THEN last
                              ELSE Greatest(tailCursor[g], oldest - 1)
                /\ from'[g] \in 0 .. last
                /\ tailCursor[g] # Fresh =>
                      (tailCursor[g] + 1) .. from'[g] \subseteq Waiting \cup skipped'
            BY <3>2, <4>1, XReadReads
          <5>2. TailPosition(g)' = from'[g] /\ tailPc[g] = "idle"
            BY <1>1, <4>1, <5>1 DEF TailPosition, XRead
          <5>3. TailPosition(g) = IF tailCursor[g] = Fresh THEN last ELSE tailCursor[g]
            BY <5>2 DEF TailPosition
          <5>4. tailCursor[g] # Fresh => n <= tailCursor[g] \/ n \in (tailCursor[g] + 1) .. from'[g]
            BY <1>1, <3>2, <5>1, <5>2
          <5>. QED BY <3>2, <5>1, <5>2, <5>3, <5>4
        <4>2. CASE XReadEmpty(g) \/ XReadFails(g)
          <5>1. /\ tailPc[g] = "reading" /\ tailPc' = [tailPc EXCEPT ![g] = "idle"]
                /\ tailCursor[g] <= from[g]
            BY <4>2 DEF XReadEmpty, XReadFails, EndRead, TailsInv
          <5>2. TailPosition(g) = from[g]
            BY <5>1 DEF TailPosition
          <5>3. CASE tailCursor[g] # Fresh
            <6>1. TailPosition(g)' = tailCursor[g]
              BY <1>1, <3>1, <5>1, <5>3 DEF TailPosition
            <6>2. n \in Nat /\ tailCursor[g] \in Int /\ from[g] \in Nat
              BY <1>1, EntryNumbers
            <6>. QED BY <3>2, <5>1, <5>2, <6>1, <6>2
          <5>4. CASE tailCursor[g] = Fresh /\ XReadEmpty(g)
            <6>1. from[g] = last
              BY <5>1, <5>4 DEF XReadEmpty, TailsInv
            <6>. QED BY <1>1, <5>2, <6>1
          <5>5. CASE tailCursor[g] = Fresh /\ XReadFails(g)
            <6>1. (from[g] + 1) .. last \subseteq Waiting \cup skipped'
              BY <3>2, <5>5, PassesOver DEF XReadFails
            <6>2. n <= from[g] \/ n \in (from[g] + 1) .. last
              BY <1>1
            <6>. QED BY <5>2, <6>1, <6>2
          <5>. QED BY <4>2, <5>3, <5>4, <5>5
        <4>3. ~StartGateway(g)
          BY <1>1, <3>2 DEF StartGateway
        <4>. QED BY <1>4, <2>5, <4>1, <4>2, <4>3 DEF TailStep
      <3>. QED BY <1>2, <2>1, <2>2, <2>3, <3>1, <3>2
    <2>. QED BY <2>4, <2>5
  <1>5. ASSUME NEW g \in Gateways, Connect(g) PROVE TailCovered'
    BY <1>5 DEF Connect, TailCovered
  <1>6. CASE Fetch
    <2>1. /\ Taken' = Taken /\ Entries' = Entries /\ UNCHANGED <<queue, cursor, tail, last, gateway>>
          /\ skipped' = skipped \cup
                {n \in (cursor + 1) .. last :
                    \/ replay' # <<>> /\ n < Head(replay')
                    \/ n <= TailPosition(gateway) /\ n \notin Range(replay') \cup Range(queue)}
      BY <1>6 DEF Fetch, Taken, browser, stream, Entries
    <2>2. TailPosition(gateway)' = TailPosition(gateway)
      BY <2>1 DEF TailPosition, tail
    <2>3. ASSUME NEW n \in Entries, n <= TailPosition(gateway) PROVE n \in Waiting' \cup skipped'
      <3>1. cursor \in Nat /\ NoCursor = 0 /\ n \in Nat /\ n > 0
        <4>1. n \in 1 .. last
          BY <1>1
        <4>2. cursor \in Nat /\ NoCursor = 0
          BY Sizes, EntryNumbers
        <4>. QED BY <1>1, <4>1, <4>2
      <3>2. CASE n > cursor
        <4>1. n \in (cursor + 1) .. last
          BY <1>1, <3>1, <3>2
        <4>. QED BY <2>1, <2>3, <4>1 DEF Waiting
      <3>3. CASE n <= cursor
        <4>1. cursor \in Taken
          BY <3>1, <3>3 DEF CursorInv
        <4>. QED BY <2>1, <3>3, <4>1 DEF TakenCovered, Waiting
      <3>. QED BY <3>1, <3>2, <3>3
    <2>. QED BY <2>1, <2>2, <2>3 DEF TailCovered
  <1>7. CASE StartSender
    BY <1>7 DEF StartSender, TailCovered, TailPosition, Waiting, Taken, stream, tail, browser, Entries
  <1>8. CASE SendReplayed \/ SendQueued \/ SendTimesOut
    <2>1. /\ UNCHANGED <<skipped, last, phase, gateway, closed, tailPc, tailCursor, from>>
          /\ queue \in Seq(Nat) /\ replay \in Seq(Nat)
      BY <1>8, MessagesTaken, EntryNumbers
    <2>2. TailPosition(gateway)' = TailPosition(gateway) /\ Entries' = Entries
      BY <1>1, <2>1 DEF TailPosition
    <2>3. Waiting \cup skipped \subseteq Waiting' \cup skipped'
      <3>1. CASE /\ queue # <<>> /\ Head(queue) <= sent
                 /\ queue' = Tail(queue) /\ phase = "live"
                 /\ UNCHANGED <<sent, replay, cursor, ingested, breaks>>
        <4>1. Range(queue) = {Head(queue)} \cup Range(queue') /\ Head(queue) \in Entries
          BY <2>1, <3>1, WithoutHead, HeadsAre
        <4>2. sent # NoCursor
          BY <1>1, <3>1, <4>1, Sizes, EntryNumbers
        <4>3. sent \in Taken
          BY <3>1, <4>2 DEF CursorInv
        <4>4. Head(queue) \in Taken \cup skipped
          BY <3>1, <4>1, <4>3 DEF TakenCovered
        <4>. QED BY <2>1, <3>1, <4>1, <4>4 DEF Waiting, Taken
      <3>2. ASSUME NEW n, NEW c, Messages(n, c)
            PROVE  Waiting \cup skipped \subseteq Waiting' \cup skipped'
        <4>1. Taken' = Taken \cup {n}
          BY <3>2, TakesIn DEF Messages
        <4>2. /\ Range(replay) \subseteq {n} \cup Range(replay')
              /\ Range(queue) \subseteq {n} \cup Range(queue')
          <5>1. replay # <<>> => Range(replay) = {Head(replay)} \cup Range(Tail(replay))
            BY <2>1, WithoutHead
          <5>2. queue # <<>> => Range(queue) = {Head(queue)} \cup Range(Tail(queue))
            BY <2>1, WithoutHead
          <5>. QED BY <3>2, <5>1, <5>2 DEF Messages
        <4>. QED BY <2>1, <4>1, <4>2 DEF Waiting
      <3>. QED BY <1>8, <3>1, <3>2, MessagesTaken
    <2>. QED BY <1>2, <2>1, <2>2, <2>3
  <1>9. CASE ConnectionEnds
    BY <1>9, EndFrames DEF TailCovered
  <1>10. ASSUME NEW g \in Gateways, StopGateway(g), gateway # g PROVE TailCovered'
    <2>1. /\ UNCHANGED <<last, phase, gateway, queue, closed, replay, ingested, skipped>>
          /\ \A h \in Gateways : h # g =>
                 tailPc'[h] = tailPc[h] /\ tailCursor'[h] = tailCursor[h] /\ from'[h] = from[h]
      BY <1>10, StopsElsewhere
    <2>2. gateway \in Gateways => TailPosition(gateway)' = TailPosition(gateway)
      BY <1>10, <2>1 DEF TailPosition
    <2>3. Entries' = Entries /\ Waiting' = Waiting
      BY <1>1, <2>1 DEF Waiting, Taken
    <2>. QED BY <1>2, <2>1, <2>2, <2>3
  <1>11. CASE UNCHANGED deliveryVars
    BY <1>11 DEF TailCovered, TailPosition, Waiting, Taken, Entries, deliveryVars, stream, tail,
                 session, browser
  <1>. QED BY <1>3, <1>4, <1>5, <1>6, <1>7, <1>8, <1>9, <1>10, <1>11, StepKinds

-----------------------------------------------------------------------------
(* The order                                                               *)

(* The page is ahead of its cursor by one event for each late send, at     *)
(* most.                                                                   *)
Ahead == {i \in DOMAIN ingested : ingested[i] > cursor}

AheadInv == Cardinality(Ahead) <= breaks

LEMMA SomePlaces ==
    ASSUME DeliveryTypeOK, NEW S \in SUBSET (DOMAIN ingested)
    PROVE  IsFiniteSet(S) /\ Cardinality(S) \in Nat
  <1>1. IsFiniteSet(DOMAIN ingested)
    BY EntryNumbers, Elements, FS_Interval
  <1>. QED BY <1>1, FS_Subset, FS_CardinalityType

LEMMA NextAhead ==
    ASSUME DeliveryTypeOK, TailsInv, QueueInv, ReplayInv, CursorInv, AheadInv,
           [DeliveryNext]_deliveryVars
    PROVE  AheadInv'
  <1>1. Cardinality(Ahead) \in Nat /\ IsFiniteSet(Ahead) /\ breaks \in Nat
    BY SomePlaces, EntryNumbers DEF Ahead
  <1>2. CASE UNCHANGED <<cursor, ingested>> /\ breaks <= breaks' /\ breaks' \in Nat
    BY <1>1, <1>2 DEF AheadInv, Ahead
  <1>3. CASE ~(SendReplayed \/ SendQueued \/ SendTimesOut)
    <2>1. breaks' \in Nat \/ breaks' = breaks + 1 \/ breaks' = breaks
      BY <1>3, StepKinds DEF Publish, TailStep, StartGateway, XRead, XReadReturns, XReadEmpty,
         XReadFails, Connect, Fetch, StartSender, ConnectionEnds, CloseSlow, Disconnect,
         BreakEarly, StopGateway, deliveryVars
    <2>. QED BY <1>1, <1>2, <1>3, <2>1, PageStays DEF Grows
  <1>4. CASE SendReplayed \/ SendQueued \/ SendTimesOut
    <2>1. breaks' \in {breaks, breaks + 1}
      BY <1>4, MessagesTaken
    <2>2. ASSUME NEW n, NEW c, Messages(n, c) PROVE AheadInv'
      <3>1. /\ n \in Entries /\ TakeIn(n, c) /\ cursor < n /\ c \in {n, cursor}
            /\ c = n \/ breaks' = breaks + 1
        BY <2>2 DEF Messages
      <3>2. /\ cursor' = c
            /\ \A i \in DOMAIN ingested : ingested'[i] = ingested[i]
            /\ \/ ingested' = ingested
               \/ /\ DOMAIN ingested' = DOMAIN ingested \cup {Len(ingested) + 1}
                  /\ ingested'[Len(ingested) + 1] = n
        BY <3>1, TakesIn
      <3>3. n \in Nat /\ cursor \in Nat /\ \A i \in DOMAIN ingested : ingested[i] \in Nat
        BY <3>1, EntryNumbers, Elements
      <3>4. CASE c = n
        <4>1. Ahead' \subseteq Ahead
          BY <3>1, <3>2, <3>3, <3>4 DEF Ahead
        <4>. QED BY <1>1, <2>1, <4>1, FS_Subset, FS_CardinalityType DEF AheadInv
      <3>5. CASE c = cursor /\ breaks' = breaks + 1
        <4>1. Ahead' \subseteq Ahead \cup {Len(ingested) + 1}
          BY <3>1, <3>2, <3>3, <3>5 DEF Ahead
        <4>2. /\ IsFiniteSet(Ahead \cup {Len(ingested) + 1})
              /\ Cardinality(Ahead \cup {Len(ingested) + 1}) \in
                    {Cardinality(Ahead), Cardinality(Ahead) + 1}
          BY <1>1, FS_AddElement
        <4>3. Cardinality(Ahead') <= Cardinality(Ahead \cup {Len(ingested) + 1})
              /\ IsFiniteSet(Ahead')
          BY <4>1, <4>2, FS_Subset
        <4>. QED BY <1>1, <3>5, <4>2, <4>3, FS_CardinalityType DEF AheadInv
      <3>. QED BY <3>1, <3>4, <3>5
    <2>3. CASE UNCHANGED <<cursor, ingested, breaks>>
      BY <1>1, <1>2, <2>3
    <2>. QED BY <1>4, <2>2, <2>3, MessagesTaken
  <1>. QED BY <1>3, <1>4

(* The events that the page may forget are few: an event it gets again is  *)
(* still among those it remembers.                                         *)
LEMMA StillRemembered ==
    ASSUME DeliveryTypeOK, AheadInv, IngestedInOrder,
           breaks + Cardinality(Late) <= Remembered,
           NEW k \in DOMAIN ingested, cursor < ingested[k]
    PROVE  k > Len(ingested) - Remembered
  <1>1. /\ Len(ingested) \in Nat /\ DOMAIN ingested = 1 .. Len(ingested)
        /\ \A i \in DOMAIN ingested : ingested[i] \in Nat
        /\ cursor \in Nat /\ breaks \in Nat /\ Remembered \in Nat
    BY EntryNumbers, Elements, Sizes
  <1>2. k .. Len(ingested) \subseteq Ahead \cup Late
    <2>. SUFFICES ASSUME NEW i \in k .. Len(ingested) PROVE i \in Ahead \cup Late
      OBVIOUS
    <2>1. i \in DOMAIN ingested /\ (i = k \/ k < i)
      BY <1>1
    <2>2. i = k \/ ingested[k] < ingested[i] \/ ingested[i] \in skipped
      BY <2>1 DEF IngestedInOrder
    <2>. QED BY <1>1, <2>1, <2>2 DEF Ahead, Late
  <1>3. /\ IsFiniteSet(Ahead) /\ Cardinality(Ahead) \in Nat
        /\ IsFiniteSet(Late) /\ Cardinality(Late) \in Nat
    BY SomePlaces DEF Ahead, Late
  <1>4. /\ IsFiniteSet(Ahead \cup Late)
        /\ Cardinality(Ahead \cup Late) <= Cardinality(Ahead) + Cardinality(Late)
        /\ Cardinality(Ahead \cup Late) \in Nat
    <2>1. /\ IsFiniteSet(Ahead \cup Late)
          /\ Cardinality(Ahead \cup Late)
               = Cardinality(Ahead) + Cardinality(Late) - Cardinality(Ahead \cap Late)
      BY <1>3, FS_Union
    <2>2. Cardinality(Ahead \cap Late) \in Nat
      BY <1>3, FS_Intersection, FS_CardinalityType
    <2>. QED BY <1>3, <2>1, <2>2, FS_CardinalityType
  <1>5. Cardinality(k .. Len(ingested)) = Len(ingested) - k + 1
    BY <1>1, FS_Interval
  <1>6. Cardinality(k .. Len(ingested)) <= Cardinality(Ahead \cup Late)
    BY <1>2, <1>4, FS_Subset
  <1>. QED BY <1>1, <1>3, <1>4, <1>5, <1>6 DEF AheadInv

LEMMA NextOrder ==
    ASSUME DeliveryTypeOK, TailsInv, QueueInv, ReplayInv, CursorInv, TakenCovered, AheadInv,
           IngestedInOrder, DeliveryTypeOK', [DeliveryNext]_deliveryVars
    PROVE  IngestedInOrder'
  <1>. SUFFICES ASSUME breaks' + Cardinality(Late') <= Remembered,
                       NEW i \in DOMAIN ingested', NEW j \in DOMAIN ingested', i < j
                PROVE  \/ ingested'[i] < ingested'[j]
                       \/ ingested'[j] \in skipped' /\ ingested'[i] # ingested'[j]
    BY DEF IngestedInOrder
  <1>1. /\ Len(ingested) \in Nat /\ DOMAIN ingested = 1 .. Len(ingested)
        /\ \A p \in DOMAIN ingested : ingested[p] \in Nat
        /\ breaks \in Nat /\ breaks' \in Nat /\ Remembered \in Nat
    <2>1. breaks' \in Nat
      BY Sizes DEF DeliveryTypeOK
    <2>. QED BY <2>1, EntryNumbers, Elements, Sizes
  <1>2. ASSUME Grows, \A p \in DOMAIN ingested : p \in DOMAIN ingested' /\ ingested'[p] = ingested[p]
        PROVE  breaks + Cardinality(Late) <= Remembered
    <2>1. Late \subseteq Late'
      BY <1>2 DEF Late, Grows
    <2>2. IsFiniteSet(Late') /\ Cardinality(Late') \in Nat
      <3>1. ingested' \in Seq(Entries')
        BY DEF DeliveryTypeOK
      <3>2. IsFiniteSet(DOMAIN ingested')
        BY <3>1, Elements, FS_Interval
      <3>. QED BY <3>2, FS_Subset, FS_CardinalityType DEF Late
    <2>3. Cardinality(Late) <= Cardinality(Late') /\ Cardinality(Late) \in Nat
      BY <2>1, <2>2, FS_Subset, FS_CardinalityType
    <2>. QED BY <1>1, <1>2, <2>2, <2>3 DEF Grows
  <1>3. CASE ingested' = ingested /\ Grows
    BY <1>2, <1>3 DEF IngestedInOrder, Grows
  <1>4. ASSUME NEW n, NEW c, Messages(n, c), Grows, skipped' = skipped,
               ingested' # ingested
        PROVE  \/ ingested'[i] < ingested'[j]
               \/ ingested'[j] \in skipped' /\ ingested'[i] # ingested'[j]
    <2>1. n \in Entries /\ TakeIn(n, c) /\ cursor < n
      BY <1>4 DEF Messages
    <2>2. /\ \A p \in DOMAIN ingested : p \in DOMAIN ingested' /\ ingested'[p] = ingested[p]
          /\ DOMAIN ingested' = DOMAIN ingested \cup {Len(ingested) + 1}
          /\ ingested'[Len(ingested) + 1] = n
          /\ \A p \in DOMAIN ingested : p > Len(ingested) - Remembered => ingested[p] # n
      BY <1>4, <2>1, TakesIn
    <2>3. breaks + Cardinality(Late) <= Remembered
      BY <1>2, <1>4, <2>2
    <2>4. \A p \in DOMAIN ingested : ingested[p] # n
      BY <2>1, <2>2, <2>3, StillRemembered
    <2>5. CASE j \in DOMAIN ingested
      <3>1. i \in DOMAIN ingested
        BY <1>1, <2>2, <2>5
      <3>. QED BY <1>4, <2>2, <2>3, <2>5, <3>1 DEF IngestedInOrder
    <2>6. CASE j = Len(ingested) + 1
      <3>1. i \in DOMAIN ingested /\ ingested'[j] = n /\ ingested'[i] = ingested[i]
        BY <1>1, <2>2, <2>6
      <3>2. ingested[i] # n /\ n \notin Taken
        BY <2>4, <3>1 DEF Taken, Range
      <3>3. ingested[i] \in Taken /\ ingested[i] \in Nat /\ n \in Nat
        BY <1>1, <2>1, <3>1, EntryNumbers DEF Taken, Range
      <3>4. n < ingested[i] => n \in skipped
        BY <2>1, <3>2, <3>3 DEF TakenCovered
      <3>. QED BY <1>4, <3>1, <3>2, <3>3, <3>4
    <2>. QED BY <2>2, <2>5, <2>6
  <1>5. CASE ~(SendReplayed \/ SendQueued \/ SendTimesOut)
    BY <1>3, <1>5, PageStays
  <1>6. CASE SendReplayed \/ SendQueued \/ SendTimesOut
    <2>1. Grows /\ skipped' = skipped
      BY <1>1, <1>6, MessagesTaken DEF Grows
    <2>. QED BY <1>3, <1>4, <1>6, <2>1, MessagesTaken
  <1>. QED BY <1>5, <1>6

-----------------------------------------------------------------------------
(* The theorems                                                            *)

DeliveryInv ==
    /\ DeliveryTypeOK /\ EarlyInv /\ TailsInv /\ QueueInv /\ ReplayInv /\ CursorInv
    /\ TakenCovered /\ ReplayCovered /\ TailCovered
    /\ AheadInv /\ IngestedInOrder

LEMMA InitDelivery == DeliveryInit => DeliveryInv
  <1>. SUFFICES ASSUME DeliveryInit PROVE DeliveryInv
    OBVIOUS
  <1>1. DeliveryTypeOK /\ EarlyInv
    BY InitTypes
  <1>2. /\ \A g \in Gateways : tailPc[g] = "down"
        /\ phase = "away" /\ queue = <<>> /\ replay = <<>> /\ sent = NoCursor
        /\ closed = "clear" /\ cursor = NoCursor /\ ingested = <<>> /\ breaks = 0
    BY DEF DeliveryInit
  <1>3. TailsInv /\ QueueInv /\ ReplayInv /\ CursorInv
    BY <1>2, NoElements DEF TailsInv, QueueInv, ReplayInv, CursorInv
  <1>4. TakenCovered /\ ReplayCovered /\ TailCovered /\ IngestedInOrder
    BY <1>2, NoElements DEF TakenCovered, ReplayCovered, TailCovered, IngestedInOrder, Taken
  <1>5. AheadInv
    <2>1. Ahead = {}
      BY <1>2, NoElements DEF Ahead
    <2>. QED BY <1>2, <2>1, FS_EmptySet DEF AheadInv
  <1>. QED BY <1>1, <1>3, <1>4, <1>5 DEF DeliveryInv

LEMMA NextDelivery == DeliveryInv /\ [DeliveryNext]_deliveryVars => DeliveryInv'
  <1>. SUFFICES ASSUME DeliveryInv, [DeliveryNext]_deliveryVars PROVE DeliveryInv'
    OBVIOUS
  <1>. USE DEF DeliveryInv
  <1>1. DeliveryTypeOK'
    BY NextTypes
  <1>2. EarlyInv'
    BY NextEarly
  <1>3. TailsInv'
    BY NextTails
  <1>4. QueueInv'
    BY NextQueue
  <1>5. ReplayInv'
    BY NextReplay
  <1>6. CursorInv'
    BY NextCursor
  <1>7. TakenCovered' /\ ReplayCovered' /\ TailCovered'
    BY NextTakenCovered, NextReplayCovered, NextTailCovered
  <1>8. AheadInv'
    BY NextAhead
  <1>9. IngestedInOrder'
    BY <1>1, NextOrder
  <1>. QED BY <1>1, <1>2, <1>3, <1>4, <1>5, <1>6, <1>7, <1>8, <1>9

LEMMA DeliveryHolds == DeliverySpec => []DeliveryInv
  BY InitDelivery, NextDelivery, PTL DEF DeliverySpec

(* Every variable of the delivery keeps to its type, however many gateways *)
(* and entries there are: the queue of a client is never longer than       *)
(* websocket_client_queue_size, a replay never longer than                 *)
(* redis_replay_limit, and the clients left behind never more than         *)
(* websocket_max_clients (put_nowait and register in broadcaster.py).      *)
THEOREM DeliveryTypes == DeliverySpec => []DeliveryTypeOK
  BY DeliveryHolds, PTL DEF DeliveryInv

(* The page takes in every event once and in the order of the stream, over *)
(* any number of connections, but for events an earlier connection passed  *)
(* over, until breaks and late events are more than what it remembers      *)
(* (rememberEvent, onmessage and the heartbeat in WebSocketContext.tsx).   *)
THEOREM IngestsInOrder == DeliverySpec => []IngestedInOrder
  BY DeliveryHolds, PTL DEF DeliveryInv

(* What the page lacks before an event it has was passed over: by the      *)
(* limit of a replay, by trimming, or by a gateway that read from "$" and  *)
(* was between two reads.  Registering before replaying, dropping what the *)
(* replay has sent, and closing slow clients lose nothing.                 *)
THEOREM HolesAreExplained == DeliverySpec => []HolesExplained
  <1>1. DeliveryInv => HolesExplained
    <2>. SUFFICES ASSUME DeliveryInv, NEW n \in Entries, Missing(n) PROVE n \in skipped
      BY DEF HolesExplained
    <2>1. PICK j \in DOMAIN ingested : n < ingested[j]
      BY DEF Missing
    <2>2. n \in Nat /\ ingested[j] \in Nat /\ ingested[j] \in Taken
      BY EntryNumbers, Elements DEF DeliveryInv, Taken
    <2>3. n \in Taken \cup skipped
      BY <2>1, <2>2 DEF DeliveryInv, TakenCovered
    <2>. QED BY <2>3 DEF Missing, Taken
  <1>. QED BY <1>1, DeliveryHolds, PTL

=============================================================================
