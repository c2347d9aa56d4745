------------------------ MODULE WaitForMessageProof ------------------------
(***************************************************************************)
(* The safety properties of WaitForMessage hold for any number of messages. *)
(* A message is in one place at a time: the queue, the hand of the work     *)
(* queue's thread, the entry of the map, handled, or dropped.               *)
(***************************************************************************)
EXTENDS WaitForMessage, SequenceTheorems, TLAPS

(* The map has an entry for the awaited kind while the client waits.         *)
EntryWhileWaiting == entry = Absent <=> waiter \in {"idle", "insert"}

(* The queue is in order of arrival, and what is about to be enqueued came   *)
(* last.                                                                     *)
QueueInOrder ==
    /\ \A i \in DOMAIN incoming : incoming[i].serial <= arrived
    /\ \A i, j \in DOMAIN incoming : i < j => incoming[i].serial < incoming[j].serial
    /\ inHand.serial <= arrived
    /\ inHand # NoMessage => \A i \in DOMAIN incoming : incoming[i].serial < inHand.serial

(* A deposited message is nowhere else.                                      *)
DepositApart ==
    /\ entry.serial <= arrived
    /\ entry.serial # 0 => entry.awaited /\ entry.serial # inHand.serial
    /\ \A i \in DOMAIN incoming : incoming[i].serial # entry.serial

(* Nor is one that was freed,                                                *)
DroppedApart ==
    /\ \A d \in dropped : d > 0 /\ d <= arrived /\ d # inHand.serial /\ d # entry.serial
    /\ \A i \in DOMAIN incoming : incoming[i].serial \notin dropped

(* or one that was handled.                                                  *)
HandledApart ==
    \A k \in DOMAIN handled :
        /\ handled[k].msg.serial <= arrived
        /\ handled[k].msg.serial # inHand.serial
        /\ handled[k].msg.serial # entry.serial
        /\ \A i \in DOMAIN incoming : handled[k].msg.serial # incoming[i].serial

(* A message of another kind is handled only from the front of the queue.    *)
OthersFromFront ==
    \A k \in DOMAIN handled : ~handled[k].msg.awaited =>
        /\ \A i \in DOMAIN incoming : handled[k].msg.serial < incoming[i].serial
        /\ inHand # NoMessage => handled[k].msg.serial < inHand.serial

Apart == EntryWhileWaiting /\ QueueInOrder /\ DepositApart /\ DroppedApart /\ HandledApart /\ OthersFromFront

Inv == TypeOK /\ FunctionsCoverQueue /\ Apart /\ HandledOnce /\ OthersInOrder
-----------------------------------------------------------------------------
(* Sequences.                                                                *)

(* RemoveAt closes the gap and keeps everything else.                        *)
LEMMA RemoveAtFacts ==
  ASSUME NEW S, NEW s \in Seq(S), NEW i \in 1 .. Len(s)
  PROVE  /\ RemoveAt(s, i) \in Seq(S)
         /\ Len(RemoveAt(s, i)) = Len(s) - 1
         /\ \A k \in 1 .. Len(s) - 1 : RemoveAt(s, i)[k] = s[IF k < i THEN k ELSE k + 1]
<1> DEFINE left == SubSeq(s, 1, i - 1)
           right == SubSeq(s, i + 1, Len(s))
<1>0. Len(s) \in Nat /\ \A k \in 1 .. Len(s) : s[k] \in S
  BY LenProperties, ElementOfSeq
<1>1. left \in Seq(S) /\ Len(left) = i - 1 /\ \A k \in 1 .. i - 1 : left[k] = s[k]
  <2>1. \A k \in 1 .. i - 1 : s[k] \in S
    BY <1>0
  <2>2. /\ left \in Seq(S)
        /\ Len(left) = IF 1 <= i - 1 THEN i - 1 - 1 + 1 ELSE 0
        /\ \A k \in 1 .. i - 1 - 1 + 1 : left[k] = s[1 + k - 1]
    BY <1>0, <2>1, SubSeqProperties
  <2>. HIDE DEF left
  <2> QED BY <1>0, <2>2
<1>2. right \in Seq(S) /\ Len(right) = Len(s) - i /\ \A k \in 1 .. Len(s) - i : right[k] = s[i + k]
  <2>1. \A k \in i + 1 .. Len(s) : s[k] \in S
    BY <1>0
  <2>2. /\ right \in Seq(S)
        /\ Len(right) = IF i + 1 <= Len(s) THEN Len(s) - (i + 1) + 1 ELSE 0
        /\ \A k \in 1 .. Len(s) - (i + 1) + 1 : right[k] = s[(i + 1) + k - 1]
    BY <1>0, <2>1, SubSeqProperties
  <2>. HIDE DEF right
  <2> QED BY <1>0, <2>2
<1>3. /\ left \o right \in Seq(S)
      /\ Len(left \o right) = Len(left) + Len(right)
      /\ \A k \in 1 .. Len(left) + Len(right) :
             (left \o right)[k] = IF k <= Len(left) THEN left[k] ELSE right[k - Len(left)]
  BY <1>1, <1>2, ConcatProperties
<1>4. RemoveAt(s, i) = left \o right
  BY DEF RemoveAt
<1> HIDE DEF left, right
<1>5. Len(left \o right) = Len(s) - 1
  BY <1>0, <1>1, <1>2, <1>3
<1>6. ASSUME NEW k \in 1 .. Len(s) - 1
      PROVE  (left \o right)[k] = s[IF k < i THEN k ELSE k + 1]
  <2>1. k \in 1 .. Len(left) + Len(right) /\ Len(left) = i - 1
    BY <1>0, <1>1, <1>2
  <2>2. (left \o right)[k] = IF k <= i - 1 THEN left[k] ELSE right[k - (i - 1)]
    BY <1>3, <2>1
  <2>3. CASE k < i
    BY <1>0, <1>1, <2>2, <2>3
  <2>4. CASE ~(k < i)
    <3>1. k - (i - 1) \in 1 .. Len(s) - i /\ i + (k - (i - 1)) = k + 1 /\ ~(k <= i - 1)
      BY <1>0, <2>4
    <3>2. (left \o right)[k] = right[k - (i - 1)]
      BY <2>2, <3>1
    <3>3. right[k - (i - 1)] = s[i + (k - (i - 1))]
      BY <1>2, <3>1
    <3>4. s[i + (k - (i - 1))] = s[k + 1]
      BY <3>1
    <3> QED BY <2>4, <3>2, <3>3, <3>4
  <2> QED BY <2>3, <2>4
<1> QED BY <1>3, <1>4, <1>5, <1>6

(* What TypeOK says of the elements and the domains of the two sequences.    *)
LEMMA SequenceTypes ==
  ASSUME TypeOK
  PROVE  /\ Len(incoming) \in Nat /\ DOMAIN incoming = 1 .. Len(incoming)
         /\ \A i \in 1 .. Len(incoming) : incoming[i] \in Message
         /\ Len(handled) \in Nat /\ DOMAIN handled = 1 .. Len(handled)
         /\ \A i \in 1 .. Len(handled) : handled[i] \in [msg : Message, waited : BOOLEAN]
<1>1. incoming \in Seq(Message) /\ handled \in Seq([msg : Message, waited : BOOLEAN])
  BY DEF TypeOK
<1> QED BY <1>1, LenProperties, ElementOfSeq

(* The numbers that are compared are natural numbers.                        *)
LEMMA ScalarTypes ==
  ASSUME TypeOK
  PROVE  /\ entry.serial \in Nat /\ inHand.serial \in Nat /\ arrived \in Nat /\ dropped \subseteq Nat
         /\ functions \in Nat
         /\ \A k \in 1 .. Len(incoming) : incoming[k].serial \in Nat \ {0} /\ incoming[k].awaited \in BOOLEAN
         /\ \A k \in 1 .. Len(handled) : handled[k].msg.serial \in Nat \ {0}
<1>1. /\ entry \in Message \cup {NoMessage, Absent} /\ inHand \in Message \cup {NoMessage}
      /\ arrived \in 0 .. MaxMessages /\ dropped \subseteq Nat /\ functions \in Nat
  BY DEF TypeOK
<1>2. entry.serial \in Nat /\ inHand.serial \in Nat
  BY <1>1 DEF Message, NoMessage, Absent
<1>3. arrived \in Nat
  BY <1>1, MaxMessagesAssumption
<1> QED BY <1>1, <1>2, <1>3, SequenceTypes DEF Message

(* Handles(m, w) adds one record at the end.                                 *)
LEMMA HandlesFacts ==
  ASSUME TypeOK, NEW m \in Message, NEW w \in BOOLEAN, Handles(m, w)
  PROVE  /\ handled' \in Seq([msg : Message, waited : BOOLEAN])
         /\ DOMAIN handled' = 1 .. Len(handled) + 1
         /\ \A k \in 1 .. Len(handled) : handled'[k] = handled[k]
         /\ handled'[Len(handled) + 1].msg = m
<1>1. handled \in Seq([msg : Message, waited : BOOLEAN])
  BY DEF TypeOK
<1>2. [msg |-> m, waited |-> w] \in [msg : Message, waited : BOOLEAN]
  OBVIOUS
<1>3. handled' = Append(handled, [msg |-> m, waited |-> w])
  BY DEF Handles
<1> QED BY <1>1, <1>2, <1>3, AppendProperties, LenProperties

-----------------------------------------------------------------------------
(* Handling one more message, new among those handled and freed, and newer    *)
(* than the others if it is of another kind.                                 *)
LEMMA HandledMore ==
  ASSUME Inv, NEW x \in Message, NEW w \in BOOLEAN, Handles(x, w), UNCHANGED dropped,
         x.serial \notin dropped,
         \A k \in DOMAIN handled : handled[k].msg.serial # x.serial,
         x.awaited \/ \A k \in DOMAIN handled : ~handled[k].msg.awaited => handled[k].msg.serial < x.serial
  PROVE  HandledOnce' /\ OthersInOrder'
<1> DEFINE h == Len(handled)
<1>1. h \in Nat /\ DOMAIN handled = 1 .. h
  BY SequenceTypes DEF Inv
<1>2. /\ DOMAIN handled' = 1 .. h + 1
      /\ \A k \in 1 .. h : handled'[k] = handled[k]
      /\ handled'[h + 1].msg = x
  BY HandlesFacts DEF Inv
<1> HIDE DEF h
<1>3. \A k \in 1 .. h + 1 : k \in 1 .. h \/ k = h + 1
  BY <1>1
<1>4. HandledOnce /\ OthersInOrder
  BY DEF Inv
<1>5. \A k \in 1 .. h + 1 : handled'[k].msg.serial \notin dropped
  BY <1>1, <1>2, <1>3, <1>4 DEF HandledOnce
<1>6. ASSUME NEW k \in 1 .. h + 1, NEW m \in 1 .. h + 1, k # m
      PROVE  handled'[k].msg.serial # handled'[m].msg.serial
  <2>1. CASE k \in 1 .. h /\ m \in 1 .. h
    BY <1>1, <1>2, <1>4, <1>6, <2>1 DEF HandledOnce
  <2>2. CASE k \in 1 .. h /\ m = h + 1
    BY <1>1, <1>2, <2>2
  <2>3. CASE k = h + 1 /\ m \in 1 .. h
    BY <1>1, <1>2, <2>3
  <2> QED BY <1>3, <1>6, <2>1, <2>2, <2>3
<1>7. HandledOnce'
  BY <1>2, <1>5, <1>6 DEF HandledOnce
<1>8. ASSUME NEW k \in 1 .. h + 1, NEW m \in 1 .. h + 1, k < m,
             ~handled'[k].msg.awaited, ~handled'[m].msg.awaited
      PROVE  handled'[k].msg.serial < handled'[m].msg.serial
  <2>1. k \in DOMAIN handled /\ handled'[k] = handled[k] /\ (m \in 1 .. h \/ m = h + 1)
    BY <1>1, <1>2, <1>8
  <2>2. CASE m \in 1 .. h
    BY <1>1, <1>2, <1>4, <1>8, <2>1, <2>2 DEF OthersInOrder
  <2>3. CASE m = h + 1
    BY <1>2, <1>8, <2>1, <2>3
  <2> QED BY <2>1, <2>2, <2>3
<1>9. OthersInOrder'
  BY <1>2, <1>8 DEF OthersInOrder
<1> QED BY <1>7, <1>9

(* Removing one element of the queue: the facts about the new queue that the *)
(* step uses, whichever way the element went.                                *)
RemovedFromQueue(i) ==
    /\ incoming' \in Seq(Message)
    /\ Len(incoming') = Len(incoming) - 1
    /\ DOMAIN incoming' = 1 .. Len(incoming) - 1
    /\ \A k \in 1 .. Len(incoming) - 1 : incoming'[k] = incoming[IF k < i THEN k ELSE k + 1]

(* A step that handles element i of the queue, from the front unless it is   *)
(* awaited, keeps everything apart.                                          *)
LEMMA HandledFromQueue ==
  ASSUME Inv, NEW i \in 1 .. Len(incoming), RemovedFromQueue(i),
         NEW w \in BOOLEAN, Handles(incoming[i], w),
         incoming[i].awaited \/ i = 1,
         UNCHANGED <<waiter, entry, inHand, arrived, dropped>>
  PROVE  Apart' /\ HandledOnce' /\ OthersInOrder'
<1> DEFINE n == Len(incoming)
           h == Len(handled)
           old(k) == IF k < i THEN k ELSE k + 1
<1>1. /\ n \in Nat /\ DOMAIN incoming = 1 .. n /\ i \in 1 .. n
      /\ \A k \in 1 .. n : incoming[k].serial \in Nat /\ incoming[k].awaited \in BOOLEAN
      /\ h \in Nat /\ DOMAIN handled = 1 .. h
      /\ \A k \in 1 .. h : handled[k].msg.serial \in Nat
      /\ entry.serial \in Nat /\ inHand.serial \in Nat /\ arrived \in Nat
      /\ incoming[i] \in Message /\ incoming[i].serial # 0
  BY SequenceTypes, ScalarTypes DEF Inv, Message
<1>2. /\ DOMAIN handled' = 1 .. h + 1
      /\ \A k \in 1 .. h : handled'[k] = handled[k]
      /\ handled'[h + 1].msg = incoming[i]
  BY <1>1, HandlesFacts DEF Inv
<1>3. /\ DOMAIN incoming' = 1 .. n - 1
      /\ \A k \in 1 .. n - 1 : incoming'[k] = incoming[old(k)]
  BY DEF RemovedFromQueue
<1>4. /\ \A k \in 1 .. n - 1 : old(k) \in 1 .. n /\ old(k) # i /\ (i = 1 => old(k) > i)
      /\ \A k, m \in 1 .. n - 1 : k < m => old(k) < old(m)
  BY <1>1
<1>5. UNCHANGED <<waiter, entry, inHand, arrived, dropped>>
  OBVIOUS
<1>6. EntryWhileWaiting'
  BY <1>5 DEF Inv, Apart, EntryWhileWaiting, Absent
<1> HIDE DEF n, h, old
<1>7. QueueInOrder'
  <2>1. QueueInOrder
    BY DEF Inv, Apart
  <2> QED BY <1>1, <1>3, <1>4, <1>5, <2>1 DEF QueueInOrder, NoMessage
<1>8. DepositApart'
  <2>1. DepositApart
    BY DEF Inv, Apart
  <2> QED BY <1>1, <1>3, <1>4, <1>5, <2>1 DEF DepositApart
<1>9. DroppedApart'
  <2>1. DroppedApart
    BY DEF Inv, Apart
  <2> QED BY <1>1, <1>3, <1>4, <1>5, <2>1 DEF DroppedApart
<1>10. HandledApart'
  <2>1. HandledApart /\ QueueInOrder /\ DepositApart
    BY DEF Inv, Apart
  <2> SUFFICES ASSUME NEW k \in 1 .. h + 1
               PROVE  /\ handled'[k].msg.serial <= arrived
                      /\ handled'[k].msg.serial # inHand.serial
                      /\ handled'[k].msg.serial # entry.serial
                      /\ \A j \in 1 .. n - 1 : handled'[k].msg.serial # incoming'[j].serial
    BY <1>2, <1>3, <1>5 DEF HandledApart
  <2>2. CASE k \in 1 .. h
    <3>1. handled'[k] = handled[k] /\ k \in DOMAIN handled
      BY <1>1, <1>2, <2>2
    <3>2. \A j \in 1 .. n - 1 : incoming'[j] = incoming[old(j)] /\ old(j) \in DOMAIN incoming
      BY <1>1, <1>3, <1>4
    <3>3. /\ handled[k].msg.serial <= arrived
          /\ handled[k].msg.serial # inHand.serial
          /\ handled[k].msg.serial # entry.serial
          /\ \A j \in DOMAIN incoming : handled[k].msg.serial # incoming[j].serial
      BY <2>1, <3>1 DEF HandledApart
    <3> QED BY <3>1, <3>2, <3>3
  <2>3. CASE k = h + 1
    <3>1. incoming[i].serial <= arrived /\ incoming[i].serial # entry.serial
      BY <1>1, <2>1 DEF QueueInOrder, DepositApart
    <3>2. incoming[i].serial # inHand.serial
      <4>1. CASE inHand = NoMessage
        BY <1>1, <4>1 DEF NoMessage
      <4>2. CASE inHand # NoMessage
        <5>1. incoming[i].serial < inHand.serial
          BY <1>1, <2>1, <4>2 DEF QueueInOrder
        <5> QED BY <1>1, <5>1
      <4> QED BY <4>1, <4>2
    <3>3. ASSUME NEW j \in 1 .. n - 1 PROVE incoming[i].serial # incoming[old(j)].serial
      <4>1. old(j) \in DOMAIN incoming /\ i \in DOMAIN incoming /\ (old(j) < i \/ i < old(j))
        BY <1>1, <1>4
      <4>2. incoming[old(j)].serial < incoming[i].serial \/ incoming[i].serial < incoming[old(j)].serial
        BY <2>1, <4>1 DEF QueueInOrder
      <4> QED BY <1>1, <4>1, <4>2
    <3> QED BY <1>2, <1>3, <2>3, <3>1, <3>2, <3>3
  <2> QED BY <1>1, <2>2, <2>3
<1>11. OthersFromFront'
  <2>1. OthersFromFront /\ QueueInOrder
    BY DEF Inv, Apart
  <2> SUFFICES ASSUME NEW k \in 1 .. h + 1, ~handled'[k].msg.awaited
               PROVE  /\ \A j \in 1 .. n - 1 : handled'[k].msg.serial < incoming'[j].serial
                      /\ inHand # NoMessage => handled'[k].msg.serial < inHand.serial
    BY <1>2, <1>3, <1>5 DEF OthersFromFront
  <2>2. CASE k \in 1 .. h
    BY <1>1, <1>2, <1>3, <1>4, <2>1, <2>2 DEF OthersFromFront
  <2>3. CASE k = h + 1
    <3>1. i = 1
      BY <1>2, <2>3
    <3>2. ASSUME NEW j \in 1 .. n - 1 PROVE incoming[i].serial < incoming'[j].serial
      <4>1. incoming'[j] = incoming[old(j)] /\ old(j) \in DOMAIN incoming /\ i \in DOMAIN incoming /\ i < old(j)
        BY <1>1, <1>3, <1>4, <3>1
      <4> QED BY <2>1, <4>1 DEF QueueInOrder
    <3>3. inHand # NoMessage => incoming[i].serial < inHand.serial
      BY <1>1, <2>1 DEF QueueInOrder
    <3> QED BY <1>2, <2>3, <3>2, <3>3
  <2> QED BY <1>1, <2>2, <2>3
<1>12. HandledOnce' /\ OthersInOrder'
  <2>1. HandledApart /\ DroppedApart /\ OthersFromFront
    BY DEF Inv, Apart
  <2>2. \A k \in DOMAIN handled : handled[k].msg.serial # incoming[i].serial
    BY <1>1, <2>1 DEF HandledApart
  <2>3. incoming[i].serial \notin dropped
    BY <1>1, <2>1 DEF DroppedApart
  <2>4. \A k \in DOMAIN handled : ~handled[k].msg.awaited => handled[k].msg.serial < incoming[i].serial
    BY <1>1, <2>1 DEF OthersFromFront
  <2> QED BY <1>1, <1>5, <2>2, <2>3, <2>4, HandledMore
<1> QED BY <1>6, <1>7, <1>8, <1>9, <1>10, <1>11, <1>12 DEF Apart

-----------------------------------------------------------------------------
(* The invariant.                                                            *)

(* Nothing has arrived yet.                                                  *)
LEMMA InitInv == Init => Inv
<1> SUFFICES ASSUME Init PROVE Inv
  OBVIOUS
<1>1. /\ incoming = <<>> /\ handled = <<>> /\ DOMAIN incoming = {} /\ DOMAIN handled = {}
  BY DEF Init
<1>2. TypeOK
  BY MaxMessagesAssumption DEF Init, TypeOK, Message, NoMessage, Absent
<1>3. FunctionsCoverQueue
  BY DEF Init, FunctionsCoverQueue
<1>4. EntryWhileWaiting /\ QueueInOrder /\ DepositApart /\ DroppedApart /\ HandledApart /\ OthersFromFront
  BY <1>1 DEF Init, NoMessage, Absent, EntryWhileWaiting, QueueInOrder, DepositApart, DroppedApart, HandledApart,
     OthersFromFront
<1>5. HandledOnce /\ OthersInOrder
  BY <1>1 DEF HandledOnce, OthersInOrder
<1> QED BY <1>2, <1>3, <1>4, <1>5 DEF Inv, Apart

(* Every step of either thread keeps the invariant.                          *)
LEMMA InvStep == Inv /\ [Next]_vars => Inv'
<1> SUFFICES ASSUME Inv, [Next]_vars PROVE Inv'
  OBVIOUS
<1> USE MaxMessagesAssumption
<1>0. /\ TypeOK
      /\ Len(incoming) \in Nat /\ DOMAIN incoming = 1 .. Len(incoming)
      /\ \A k \in 1 .. Len(incoming) : incoming[k] \in Message
      /\ Len(handled) \in Nat /\ DOMAIN handled = 1 .. Len(handled)
      /\ \A k \in 1 .. Len(handled) : handled[k] \in [msg : Message, waited : BOOLEAN]
  BY SequenceTypes DEF Inv
<1>1. ASSUME Deposit PROVE Inv'
  <2> USE DEF Inv, Apart, TypeOK, Message, NoMessage, Absent
  <2>1. TypeOK'
    <3>1. dropped' \subseteq Nat
      BY <1>0, <1>1, ScalarTypes DEF Deposit
    <3>2. entry' \in Message \cup {Absent} /\ arrived' \in 0 .. MaxMessages
      BY <1>0, <1>1 DEF Deposit
    <3> QED BY <1>0, <1>1, <3>1, <3>2 DEF Deposit
  <2>2. FunctionsCoverQueue'
    BY <1>1 DEF Deposit, FunctionsCoverQueue
  <2>3. EntryWhileWaiting' /\ QueueInOrder' /\ DepositApart'
    BY <1>0, <1>1 DEF Deposit, EntryWhileWaiting, QueueInOrder, DepositApart
  <2>4. DroppedApart'
    BY <1>0, <1>1 DEF Deposit, QueueInOrder, DepositApart, DroppedApart
  <2>5. HandledApart' /\ OthersFromFront'
    BY <1>0, <1>1 DEF Deposit, QueueInOrder, HandledApart, OthersFromFront
  <2>6. HandledOnce' /\ OthersInOrder'
    BY <1>0, <1>1 DEF Deposit, HandledOnce, OthersInOrder, HandledApart
  <2> QED BY <2>1, <2>2, <2>3, <2>4, <2>5, <2>6
<1>2. ASSUME NEW awaited \in BOOLEAN, FindNoWaiter(awaited) PROVE Inv'
  <2> USE DEF Inv, Apart, TypeOK, Message, NoMessage, Absent
  <2>1. TypeOK'
    BY <1>0, <1>2 DEF FindNoWaiter
  <2>2. FunctionsCoverQueue'
    BY <1>2 DEF FindNoWaiter, FunctionsCoverQueue
  <2>3. EntryWhileWaiting' /\ QueueInOrder' /\ DepositApart'
    BY <1>0, <1>2 DEF FindNoWaiter, EntryWhileWaiting, QueueInOrder, DepositApart
  <2>4. DroppedApart'
    BY <1>0, <1>2 DEF FindNoWaiter, QueueInOrder, DepositApart, DroppedApart
  <2>5. HandledApart' /\ OthersFromFront'
    BY <1>0, <1>2 DEF FindNoWaiter, QueueInOrder, HandledApart, OthersFromFront
  <2>6. HandledOnce' /\ OthersInOrder'
    BY <1>0, <1>2 DEF FindNoWaiter, HandledOnce, OthersInOrder, HandledApart
  <2> QED BY <2>1, <2>2, <2>3, <2>4, <2>5, <2>6
<1>3. ASSUME NotInQueue PROVE Inv'
  <2> USE DEF Inv, Apart, TypeOK, Message, NoMessage, Absent
  <2>1. TypeOK'
    BY <1>0, <1>3 DEF NotInQueue
  <2>2. FunctionsCoverQueue'
    BY <1>3 DEF NotInQueue, FunctionsCoverQueue
  <2>3. EntryWhileWaiting' /\ QueueInOrder' /\ DepositApart'
    BY <1>0, <1>3 DEF NotInQueue, EntryWhileWaiting, QueueInOrder, DepositApart
  <2>4. DroppedApart'
    BY <1>0, <1>3 DEF NotInQueue, QueueInOrder, DepositApart, DroppedApart
  <2>5. HandledApart' /\ OthersFromFront'
    BY <1>0, <1>3 DEF NotInQueue, QueueInOrder, HandledApart, OthersFromFront
  <2>6. HandledOnce' /\ OthersInOrder'
    BY <1>0, <1>3 DEF NotInQueue, HandledOnce, OthersInOrder, HandledApart
  <2> QED BY <2>1, <2>2, <2>3, <2>4, <2>5, <2>6
<1>4. ASSUME InsertWait PROVE Inv'
  <2> USE DEF Inv, Apart, TypeOK, Message, NoMessage, Absent
  <2>1. TypeOK'
    BY <1>0, <1>4 DEF InsertWait
  <2>2. FunctionsCoverQueue'
    BY <1>4 DEF InsertWait, FunctionsCoverQueue
  <2>3. EntryWhileWaiting' /\ QueueInOrder' /\ DepositApart'
    BY <1>0, <1>4 DEF InsertWait, EntryWhileWaiting, QueueInOrder, DepositApart
  <2>4. DroppedApart'
    BY <1>0, <1>4 DEF InsertWait, QueueInOrder, DepositApart, DroppedApart
  <2>5. HandledApart' /\ OthersFromFront'
    BY <1>0, <1>4 DEF InsertWait, QueueInOrder, HandledApart, OthersFromFront
  <2>6. HandledOnce' /\ OthersInOrder'
    BY <1>0, <1>4 DEF InsertWait, HandledOnce, OthersInOrder, HandledApart
  <2> QED BY <2>1, <2>2, <2>3, <2>4, <2>5, <2>6
<1>5. ASSUME Block PROVE Inv'
  <2> USE DEF Inv, Apart, TypeOK, Message, NoMessage, Absent
  <2>1. TypeOK'
    BY <1>0, <1>5 DEF Block
  <2>2. FunctionsCoverQueue'
    BY <1>5 DEF Block, FunctionsCoverQueue
  <2>3. EntryWhileWaiting' /\ QueueInOrder' /\ DepositApart'
    BY <1>0, <1>5 DEF Block, EntryWhileWaiting, QueueInOrder, DepositApart
  <2>4. DroppedApart'
    BY <1>0, <1>5 DEF Block, QueueInOrder, DepositApart, DroppedApart
  <2>5. HandledApart' /\ OthersFromFront'
    BY <1>0, <1>5 DEF Block, QueueInOrder, HandledApart, OthersFromFront
  <2>6. HandledOnce' /\ OthersInOrder'
    BY <1>0, <1>5 DEF Block, HandledOnce, OthersInOrder, HandledApart
  <2> QED BY <2>1, <2>2, <2>3, <2>4, <2>5, <2>6
<1>6. ASSUME WakeUp PROVE Inv'
  <2> USE DEF Inv, Apart, TypeOK, Message, NoMessage, Absent
  <2>1. TypeOK'
    BY <1>0, <1>6 DEF WakeUp
  <2>2. FunctionsCoverQueue'
    BY <1>6 DEF WakeUp, FunctionsCoverQueue
  <2>3. EntryWhileWaiting' /\ QueueInOrder' /\ DepositApart'
    BY <1>0, <1>6 DEF WakeUp, EntryWhileWaiting, QueueInOrder, DepositApart
  <2>4. DroppedApart'
    BY <1>0, <1>6 DEF WakeUp, QueueInOrder, DepositApart, DroppedApart
  <2>5. HandledApart' /\ OthersFromFront'
    BY <1>0, <1>6 DEF WakeUp, QueueInOrder, HandledApart, OthersFromFront
  <2>6. HandledOnce' /\ OthersInOrder'
    BY <1>0, <1>6 DEF WakeUp, HandledOnce, OthersInOrder, HandledApart
  <2> QED BY <2>1, <2>2, <2>3, <2>4, <2>5, <2>6
<1>7. ASSUME TimeOut PROVE Inv'
  <2> USE DEF Inv, Apart, TypeOK, Message, NoMessage, Absent
  <2>1. TypeOK'
    <3>1. dropped' \subseteq Nat
      BY <1>0, <1>7, ScalarTypes DEF TimeOut
    <3>2. entry' \in Message \cup {Absent} /\ arrived' \in 0 .. MaxMessages
      BY <1>0, <1>7 DEF TimeOut
    <3> QED BY <1>0, <1>7, <3>1, <3>2 DEF TimeOut
  <2>2. FunctionsCoverQueue'
    BY <1>7 DEF TimeOut, FunctionsCoverQueue
  <2>3. EntryWhileWaiting' /\ QueueInOrder' /\ DepositApart'
    BY <1>0, <1>7 DEF TimeOut, EntryWhileWaiting, QueueInOrder, DepositApart
  <2>4. DroppedApart'
    BY <1>0, <1>7 DEF TimeOut, QueueInOrder, DepositApart, DroppedApart
  <2>5. HandledApart' /\ OthersFromFront'
    BY <1>0, <1>7 DEF TimeOut, QueueInOrder, HandledApart, OthersFromFront
  <2>6. HandledOnce' /\ OthersInOrder'
    BY <1>0, <1>7 DEF TimeOut, HandledOnce, OthersInOrder, HandledApart
  <2> QED BY <2>1, <2>2, <2>3, <2>4, <2>5, <2>6
<1>8. ASSUME enqueueIncomingMessage PROVE Inv'
  <2>1. inHand \in Message /\ incoming \in Seq(Message)
    BY <1>0, <1>8 DEF TypeOK, enqueueIncomingMessage
  <2>2. incoming' = Append(incoming, inHand) /\ functions' = functions + 1
    BY <1>8 DEF enqueueIncomingMessage
  <2>3. /\ incoming' \in Seq(Message)
        /\ Len(incoming') = Len(incoming) + 1
        /\ DOMAIN incoming' = 1 .. Len(incoming) + 1
        /\ \A k \in 1 .. Len(incoming) : incoming'[k] = incoming[k]
        /\ incoming'[Len(incoming) + 1] = inHand
    BY <2>1, <2>2, AppendProperties, LenProperties
  <2>4. inHand' = NoMessage /\ UNCHANGED <<waiter, entry, arrived, handled, dropped>>
    BY <1>8 DEF enqueueIncomingMessage
  <2>5. inHand # NoMessage
    BY <1>8 DEF enqueueIncomingMessage
  <2> USE DEF Inv, Apart
  <2>6. TypeOK'
    BY <1>0, <2>2, <2>3, <2>4 DEF TypeOK
  <2>7. FunctionsCoverQueue'
    BY <1>0, <2>2, <2>3 DEF FunctionsCoverQueue, TypeOK
  <2>0. /\ \A k \in 1 .. Len(incoming) + 1 : k \in DOMAIN incoming \/ k = Len(incoming) + 1
        /\ \A k \in 1 .. Len(incoming) : incoming[k].serial \in Nat
        /\ inHand.serial \in Nat \ {0} /\ NoMessage.serial = 0
        /\ \A k \in DOMAIN handled : handled[k].msg.serial \in Nat \ {0}
        /\ \A k \in DOMAIN incoming : incoming'[k] = incoming[k]
    BY <1>0, <2>1, <2>3, ScalarTypes DEF Message, NoMessage
  <2>8. EntryWhileWaiting' /\ QueueInOrder'
    <3>1. EntryWhileWaiting /\ QueueInOrder
      OBVIOUS
    <3>2. EntryWhileWaiting'
      BY <2>4, <3>1 DEF EntryWhileWaiting, Absent
    <3>3. \A k \in 1 .. Len(incoming) + 1 : incoming'[k].serial <= arrived
      BY <2>0, <2>3, <3>1 DEF QueueInOrder
    <3>4. ASSUME NEW k \in 1 .. Len(incoming) + 1, NEW m \in 1 .. Len(incoming) + 1, k < m
          PROVE  incoming'[k].serial < incoming'[m].serial
      <4>1. k \in DOMAIN incoming
        BY <1>0, <3>4
      <4>2. CASE m \in DOMAIN incoming
        BY <2>0, <3>1, <3>4, <4>1, <4>2 DEF QueueInOrder
      <4>3. CASE m = Len(incoming) + 1
        BY <2>0, <2>3, <2>5, <3>1, <4>1, <4>3 DEF QueueInOrder
      <4> QED BY <2>0, <4>2, <4>3
    <3>5. arrived \in Nat
      BY <1>0, ScalarTypes
    <3> QED BY <2>0, <2>3, <2>4, <3>2, <3>3, <3>4, <3>5 DEF QueueInOrder
  <2>9. DepositApart'
    <3>1. DepositApart
      OBVIOUS
    <3>2. inHand.serial # entry.serial
      BY <2>0, <3>1 DEF DepositApart
    <3>3. \A k \in 1 .. Len(incoming) + 1 : incoming'[k].serial # entry.serial
      BY <2>0, <2>3, <3>1, <3>2 DEF DepositApart
    <3> QED BY <2>0, <2>3, <2>4, <3>1, <3>3 DEF DepositApart
  <2>10. DroppedApart'
    <3>1. DroppedApart
      OBVIOUS
    <3>2. \A k \in 1 .. Len(incoming) + 1 : incoming'[k].serial \notin dropped
      BY <2>0, <2>3, <3>1 DEF DroppedApart
    <3>3. \A d \in dropped : d # 0
      BY <1>0, <3>1, ScalarTypes DEF DroppedApart
    <3> QED BY <2>0, <2>3, <2>4, <3>1, <3>2, <3>3 DEF DroppedApart
  <2>11. HandledApart' /\ OthersFromFront'
    <3>1. HandledApart /\ OthersFromFront
      OBVIOUS
    <3>2. ASSUME NEW k \in DOMAIN handled, NEW m \in 1 .. Len(incoming) + 1
          PROVE  /\ handled[k].msg.serial # incoming'[m].serial
                 /\ ~handled[k].msg.awaited => handled[k].msg.serial < incoming'[m].serial
      <4>1. CASE m \in DOMAIN incoming
        BY <2>0, <3>1, <4>1 DEF HandledApart, OthersFromFront
      <4>2. CASE m = Len(incoming) + 1
        BY <2>3, <2>5, <3>1, <4>2 DEF HandledApart, OthersFromFront
      <4> QED BY <2>0, <4>1, <4>2
    <3>3. HandledApart'
      BY <2>0, <2>3, <2>4, <3>1, <3>2 DEF HandledApart
    <3>4. OthersFromFront'
      BY <2>3, <2>4, <3>2 DEF OthersFromFront
    <3> QED BY <3>3, <3>4
  <2>12. HandledOnce' /\ OthersInOrder'
    BY <2>4 DEF HandledOnce, OthersInOrder
  <2> QED BY <2>6, <2>7, <2>8, <2>9, <2>10, <2>11, <2>12
<1>9. ASSUME FindInQueue PROVE Inv'
  <2>1. PICK i \in DOMAIN incoming :
           incoming[i].awaited /\ incoming' = RemoveAt(incoming, i) /\ Handles(incoming[i], TRUE)
    BY <1>9 DEF FindInQueue
  <2>2. i \in 1 .. Len(incoming) /\ incoming[i] \in Message /\ incoming \in Seq(Message)
    BY <1>0 DEF TypeOK
  <2>3. RemovedFromQueue(i)
    <3>1. /\ incoming' \in Seq(Message)
          /\ Len(incoming') = Len(incoming) - 1
          /\ \A k \in 1 .. Len(incoming) - 1 : incoming'[k] = incoming[IF k < i THEN k ELSE k + 1]
      BY <2>1, <2>2, RemoveAtFacts
    <3>2. DOMAIN incoming' = 1 .. Len(incoming')
      BY <3>1, LenProperties
    <3> QED BY <3>1, <3>2 DEF RemovedFromQueue
  <2>4. UNCHANGED <<waiter, entry, functions, inHand, arrived, dropped>>
    BY <1>9 DEF FindInQueue
  <2>5. Apart' /\ HandledOnce' /\ OthersInOrder'
    BY <2>1, <2>2, <2>3, <2>4, HandledFromQueue
  <2>6. TypeOK'
    BY <1>0, <2>1, <2>2, <2>3, <2>4, HandlesFacts DEF TypeOK, RemovedFromQueue
  <2>7. FunctionsCoverQueue'
    BY <1>0, <2>3, <2>4 DEF RemovedFromQueue, FunctionsCoverQueue, Inv, TypeOK
  <2> QED BY <2>5, <2>6, <2>7 DEF Inv
<1>10. ASSUME dispatchOneMessage PROVE Inv'
  <2>0. /\ functions \in Nat /\ functions > 0 /\ functions' = functions - 1
        /\ UNCHANGED <<waiter, entry, inHand, arrived, dropped>>
    BY <1>0, <1>10 DEF dispatchOneMessage, TypeOK
  <2>1. CASE incoming = <<>> /\ UNCHANGED <<incoming, handled>>
    <3>1. TypeOK' /\ FunctionsCoverQueue'
      BY <1>0, <2>0, <2>1 DEF TypeOK, FunctionsCoverQueue
    <3>2. Apart' /\ HandledOnce' /\ OthersInOrder'
      BY <2>0, <2>1 DEF Inv, Apart, EntryWhileWaiting, QueueInOrder, DepositApart, DroppedApart, HandledApart,
         OthersFromFront, HandledOnce, OthersInOrder
    <3> QED BY <3>1, <3>2 DEF Inv
  <2>2. CASE incoming # <<>> /\ incoming' = Tail(incoming) /\ Handles(Head(incoming), FALSE)
    <3>1. incoming \in Seq(Message) /\ incoming # <<>>
      BY <1>0, <2>2 DEF TypeOK
    <3>2. Len(incoming) > 0 /\ Head(incoming) = incoming[1]
      BY <1>0, <3>1, EmptySeq
    <3>3. RemovedFromQueue(1)
      BY <1>0, <2>2, <3>1, <3>2, HeadTailProperties, LenProperties DEF RemovedFromQueue
    <3>4. Handles(incoming[1], FALSE) /\ incoming[1] \in Message /\ 1 \in 1 .. Len(incoming)
      <4>1. Handles(incoming[1], FALSE)
        BY <2>2, <3>2
      <4>2. 1 \in 1 .. Len(incoming)
        BY <1>0, <3>2
      <4> QED BY <1>0, <4>1, <4>2
    <3>5. Apart' /\ HandledOnce' /\ OthersInOrder'
      BY <2>0, <3>3, <3>4, HandledFromQueue
    <3>6. TypeOK'
      <4>1. incoming' \in Seq(Message) /\ functions' \in Nat
        BY <2>0, <3>3 DEF RemovedFromQueue
      <4>2. handled' \in Seq([msg : Message, waited : BOOLEAN])
        BY <1>0, <3>4, HandlesFacts
      <4> QED BY <1>0, <2>0, <4>1, <4>2 DEF TypeOK
    <3>7. FunctionsCoverQueue'
      BY <1>0, <2>0, <3>3 DEF RemovedFromQueue, FunctionsCoverQueue, Inv
    <3> QED BY <3>5, <3>6, <3>7 DEF Inv
  <2> QED BY <1>10, <2>1, <2>2 DEF dispatchOneMessage
<1>11. ASSUME TakeDeposit PROVE Inv'
  <2>1. entry \in Message /\ entry.serial # 0
    BY <1>0, <1>11 DEF TakeDeposit, Inv, Apart, EntryWhileWaiting, TypeOK, Message
  <2>2. Handles(entry, TRUE)
    BY <1>11 DEF TakeDeposit
  <2>3. /\ handled' \in Seq([msg : Message, waited : BOOLEAN])
        /\ DOMAIN handled' = 1 .. Len(handled) + 1
        /\ \A k \in 1 .. Len(handled) : handled'[k] = handled[k]
        /\ handled'[Len(handled) + 1].msg = entry
    BY <1>0, <2>1, <2>2, HandlesFacts
  <2>4. entry' = Absent /\ waiter' = "idle" /\ UNCHANGED <<incoming, functions, inHand, arrived, dropped>>
    BY <1>11 DEF TakeDeposit
  <2> USE DEF Inv, Apart
  <2>5. TypeOK' /\ FunctionsCoverQueue'
    BY <1>0, <2>3, <2>4 DEF TypeOK, FunctionsCoverQueue
  <2>6. EntryWhileWaiting' /\ QueueInOrder'
    BY <2>4 DEF EntryWhileWaiting, QueueInOrder, Absent, NoMessage
  <2>7. DepositApart' /\ DroppedApart'
    BY <1>0, <2>4, ScalarTypes DEF DepositApart, DroppedApart, Absent
  <2>8. /\ \A k \in 1 .. Len(handled) + 1 : k \in DOMAIN handled \/ k = Len(handled) + 1
        /\ \A k \in DOMAIN handled : handled'[k] = handled[k] /\ handled[k].msg.serial \in Nat \ {0}
        /\ Absent.serial = 0 /\ entry.awaited
    BY <1>0, <2>1, <2>3, ScalarTypes DEF Absent, DepositApart
  <2>9. HandledApart'
    <3>1. HandledApart /\ DepositApart
      OBVIOUS
    <3>2. ASSUME NEW k \in 1 .. Len(handled) + 1
          PROVE  /\ handled'[k].msg.serial <= arrived
                 /\ handled'[k].msg.serial # inHand.serial
                 /\ handled'[k].msg.serial # 0
                 /\ \A j \in DOMAIN incoming : handled'[k].msg.serial # incoming[j].serial
      <4>1. CASE k \in DOMAIN handled
        BY <2>8, <3>1, <4>1 DEF HandledApart
      <4>2. CASE k = Len(handled) + 1
        BY <2>1, <2>3, <3>1, <4>2 DEF DepositApart
      <4> QED BY <2>8, <4>1, <4>2
    <3> QED BY <2>3, <2>4, <2>8, <3>2 DEF HandledApart
  <2>10. OthersFromFront'
    <3>1. OthersFromFront
      OBVIOUS
    <3>2. ASSUME NEW k \in 1 .. Len(handled) + 1, ~handled'[k].msg.awaited
          PROVE  k \in DOMAIN handled
      BY <2>3, <2>8, <3>2
    <3> QED BY <2>3, <2>4, <2>8, <3>1, <3>2 DEF OthersFromFront
  <2>11. HandledOnce' /\ OthersInOrder'
    <3>1. entry.serial \notin dropped
      BY DEF DroppedApart
    <3>2. \A k \in DOMAIN handled : handled[k].msg.serial # entry.serial
      BY DEF HandledApart
    <3> HIDE DEF Inv, Apart
    <3> QED BY <2>1, <2>2, <2>4, <2>8, <3>1, <3>2, HandledMore
  <2> QED BY <2>5, <2>6, <2>7, <2>9, <2>10, <2>11
<1>12. CASE UNCHANGED vars
  BY <1>12 DEF vars, Inv, Apart, TypeOK, FunctionsCoverQueue, EntryWhileWaiting, QueueInOrder, DepositApart,
     DroppedApart, HandledApart, OthersFromFront, HandledOnce, OthersInOrder
<1> QED BY <1>1, <1>2, <1>3, <1>4, <1>5, <1>6, <1>7, <1>8, <1>9, <1>10, <1>11, <1>12 DEF Next, ConnectionQueue, waitForMessage, Waiting

-----------------------------------------------------------------------------
(* Theorems.                                                                 *)

(* The invariant holds in every reachable state.                             *)
THEOREM Invariance == Spec => []Inv
<1>1. Init => Inv
  BY InitInv
<1>2. Inv /\ [Next]_vars => Inv'
  BY InvStep
<1> QED BY <1>1, <1>2, PTL DEF Spec

(* Every variable keeps its type, for any number of messages: in particular  *)
(* no empty entry of the map is ever handled as a message.                   *)
THEOREM TypeCorrect == Spec => []TypeOK
<1>1. Inv => TypeOK
  BY DEF Inv
<1> QED BY <1>1, Invariance, PTL

(* Whatever waitForMessage() takes out of the queue, the run loop has a      *)
(* function for every message left in it.                                    *)
THEOREM QueueCovered == Spec => []FunctionsCoverQueue
<1>1. Inv => FunctionsCoverQueue
  BY DEF Inv
<1> QED BY <1>1, Invariance, PTL

(* No message is handled twice or after being freed, whichever of the three  *)
(* ways it goes.                                                             *)
THEOREM NeverHandledTwice == Spec => []HandledOnce
<1>1. Inv => HandledOnce
  BY DEF Inv
<1> QED BY <1>1, Invariance, PTL

(* Messages of other kinds are handled in the order they arrived in.         *)
THEOREM OthersKeepOrder == Spec => []OthersInOrder
<1>1. Inv => OthersInOrder
  BY DEF Inv
<1> QED BY <1>1, Invariance, PTL
=============================================================================
