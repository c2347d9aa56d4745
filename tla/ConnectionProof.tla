-------------------------- MODULE ConnectionProof --------------------------
(***************************************************************************)
(* Proofs about Connection, for any processes, connections and bounds: the *)
(* type invariant, that the counter of marked messages counts the handlers *)
(* on the stack, and that the last pending reply of a connection is the    *)
(* one of its innermost wait.                                              *)
(***************************************************************************)
EXTENDS Connection, SequenceTheorems, FiniteSetTheorems, TLAPS

(* The values the variables take.                                            *)
PendingReply == [id : Nat, reply : Nat]
Wait == [phase : {"idle", "registered", "waiting"}, id : Nat, serial : Nat,
         reply : Nat, signalled : BOOLEAN]
Handled == [serial : Nat, flagged : BOOLEAN]
Queued == {"sendOutgoingMessages", "platformInvalidate"}

(* TypeOK in parts.  That marked is not negative takes more than types.      *)
FlagTypes ==
    /\ client \in [Ends -> BOOLEAN] /\ connected \in [Ends -> BOOLEAN]
    /\ shouldWait \in [Ends -> BOOLEAN] /\ waking \in [Ends -> BOOLEAN]
    /\ semaphore \in [RunLoops -> BOOLEAN] /\ alive \in [RunLoops -> BOOLEAN]
CountTypes ==
    /\ syncRequestID \in [Ends -> Nat] /\ serial \in [Ends -> Nat]
    /\ marked \in [Ends -> Int]
QueueTypes ==
    /\ pending \in [Ends -> Seq(PendingReply)]
    /\ incoming \in [Ends -> Seq(Message)]
    /\ outgoing \in [Ends -> Seq(Message)]
    /\ wire \in [Ends -> Seq(Message)]
    /\ queue \in [Ends -> Seq(Queued)]
LoopTypes ==
    /\ toDispatch \in [RunLoops -> Seq(ConnectionAndMessage)]
    /\ scheduled \in [RunLoops -> SUBSET Ends]
    /\ functions \in [RunLoops -> Seq(Function)]
    /\ stack \in [RunLoops -> Seq(Frame)]
HistoryTypes ==
    /\ secondary \in [SecondaryThreads -> Wait]
    /\ handled \in [Ends -> Seq(Handled)]
Types == FlagTypes /\ CountTypes /\ QueueTypes /\ LoopTypes /\ HistoryTypes

-----------------------------------------------------------------------------
(* Sequences: what Append, Tail and Front leave of one.                      *)
LEMMA AppendFacts ==
  ASSUME NEW S, NEW s \in Seq(S), NEW x \in S
  PROVE  /\ Append(s, x) \in Seq(S)
         /\ Len(Append(s, x)) = Len(s) + 1
         /\ DOMAIN Append(s, x) = 1 .. Len(s) + 1
         /\ DOMAIN s = 1 .. Len(s) /\ Len(s) \in Nat
         /\ \A i \in 1 .. Len(s) : Append(s, x)[i] = s[i]
         /\ Append(s, x)[Len(s) + 1] = x
  OBVIOUS

(* The empty sequence.                                                       *)
LEMMA EmptyFacts ==
  ASSUME NEW S
  PROVE  <<>> \in Seq(S) /\ DOMAIN <<>> = {} /\ Len(<<>>) = 0
  OBVIOUS

(* Tail shifts every element down by one.                                    *)
LEMMA TailFacts ==
  ASSUME NEW S, NEW s \in Seq(S), s # <<>>
  PROVE  /\ Tail(s) \in Seq(S) /\ Head(s) \in S /\ Head(s) = s[1]
         /\ Len(Tail(s)) = Len(s) - 1
         /\ DOMAIN Tail(s) = 1 .. Len(s) - 1
         /\ DOMAIN s = 1 .. Len(s) /\ Len(s) \in Nat /\ Len(s) > 0
         /\ \A i \in 1 .. Len(s) - 1 : Tail(s)[i] = s[i + 1]
  OBVIOUS

(* Front leaves all elements but the last where they are.                    *)
LEMMA FrontFacts ==
  ASSUME NEW S, NEW s \in Seq(S), s # <<>>
  PROVE  /\ Front(s) \in Seq(S)
         /\ Last(s) = s[Len(s)] /\ Last(s) \in S
         /\ Len(Front(s)) = Len(s) - 1
         /\ DOMAIN Front(s) = 1 .. Len(s) - 1
         /\ DOMAIN s = 1 .. Len(s) /\ Len(s) \in Nat /\ Len(s) > 0
         /\ \A i \in 1 .. Len(s) - 1 : Front(s)[i] = s[i]
<1>1. Len(s) \in Nat /\ Len(s) > 0 /\ DOMAIN s = 1 .. Len(s)
  OBVIOUS
<1>2. Front(s) = SubSeq(s, 1, Len(s) - 1) /\ Last(s) = s[Len(s)]
  BY DEF Front, Last
<1>3. QED
  BY <1>1, <1>2, SubSeqProperties

(* The front of any sequence is a sequence.                                  *)
LEMMA FrontType ==
  ASSUME NEW S, NEW s \in Seq(S)
  PROVE  Front(s) \in Seq(S)
<1>1. CASE s = <<>>
  BY <1>1, SubSeqEmpty DEF Front
<1>2. CASE s # <<>>
  BY <1>2, FrontFacts
<1>3. QED BY <1>1, <1>2

(* Concatenation.                                                            *)
LEMMA ConcatFacts ==
  ASSUME NEW S, NEW s \in Seq(S), NEW t \in Seq(S)
  PROVE  /\ s \o t \in Seq(S)
         /\ Len(s \o t) = Len(s) + Len(t)
         /\ DOMAIN (s \o t) = 1 .. Len(s) + Len(t)
         /\ DOMAIN s = 1 .. Len(s) /\ Len(s) \in Nat
         /\ DOMAIN t = 1 .. Len(t) /\ Len(t) \in Nat
         /\ \A i \in 1 .. Len(s) : (s \o t)[i] = s[i]
         /\ \A i \in 1 .. Len(t) : (s \o t)[Len(s) + i] = t[i]
  BY ConcatProperties

-----------------------------------------------------------------------------
(* Types.                                                                    *)

(* The fields of a frame.                                                    *)
LEMMA FrameTypes ==
  ASSUME LoopTypes, NEW l \in RunLoops, stack[l] # <<>>
  PROVE  /\ stack[l] \in Seq(Frame) /\ Front(stack[l]) \in Seq(Frame)
         /\ Top(l) \in Frame /\ Top(l).conn \in Ends \cup {NoEnd} /\ Top(l).msg \in Message
         /\ Top(l).todo \in Seq(ConnectionAndMessage)
         /\ Top(l).putBack \in Seq(ConnectionAndMessage)
<1>1. stack[l] \in Seq(Frame)
  BY DEF LoopTypes
<1>2. Top(l) \in Frame /\ Front(stack[l]) \in Seq(Frame)
  BY <1>1, FrontFacts DEF Top
<1>3. QED
  BY <1>1, <1>2 DEF Frame

(* NewFrame makes a frame.                                                   *)
LEMMA NewFrameType ==
  ASSUME NEW at \in {"handle", "swap", "dispatch", "check", "sleep", "nested"},
         NEW e \in Ends \cup {NoEnd}, NEW m \in Message
  PROVE  NewFrame(at, e, m) \in Frame
BY DEF NewFrame, Frame

(* NoMessage is a message.                                                   *)
LEMMA NoMessageType == NoMessage \in Message
BY DEF NoMessage, Message

(* The parts of types that only some actions touch.                          *)
LEMMA ExitTypes ==
  ASSUME Types, NEW l \in RunLoops, ProcessExits(l)
  PROVE  Types'
<1> USE DEF Types, ProcessExits
<1>1. FlagTypes'
  BY DEF FlagTypes
<1>2. CountTypes'
  BY DEF CountTypes
<1>3. QueueTypes'
  BY DEF QueueTypes
<1>4. LoopTypes'
  BY DEF LoopTypes
<1>5. HistoryTypes'
  BY DEF HistoryTypes, Idle, Wait
<1>6. QED
  BY <1>1, <1>2, <1>3, <1>4, <1>5

(* sendMessage() keeps the types of the queues it appends to.                *)
LEMMA SendTypes ==
  ASSUME Types, NEW e \in Ends \cup {NoEnd}, NEW m \in Message, sendMessage(e, m)
  PROVE  outgoing' \in [Ends -> Seq(Message)] /\ queue' \in [Ends -> Seq(Queued)]
<1>1. outgoing \in [Ends -> Seq(Message)] /\ queue \in [Ends -> Seq(Queued)]
  BY DEF Types, QueueTypes
<1>2. e \in Ends => /\ Append(outgoing[e], m) \in Seq(Message)
                   /\ Append(queue[e], "sendOutgoingMessages") \in Seq(Queued)
  BY <1>1, AppendFacts DEF Queued
<1>3. QED
  BY <1>1, <1>2 DEF sendMessage

(* dispatchMessage() keeps the types of what it changes.                     *)
LEMMA DispatchTypes ==
  ASSUME Types, NEW l \in RunLoops, NEW e \in Ends, NEW m \in Message, NEW below \in Seq(Frame),
         dispatchMessage(l, e, m, below)
  PROVE  /\ stack' \in [RunLoops -> Seq(Frame)]
         /\ marked' \in [Ends -> Int] /\ handled' \in [Ends -> Seq(Handled)]
<1>1. Append(below, NewFrame("handle", e, m)) \in Seq(Frame)
  BY NewFrameType, AppendFacts
<1>2. [serial |-> m.serial, flagged |-> m.flagged] \in Handled
  BY DEF Message, Handled
<1>3. CASE client[e]
  <2>1. Append(handled[e], [serial |-> m.serial, flagged |-> m.flagged]) \in Seq(Handled)
    BY <1>2, AppendFacts DEF Types, HistoryTypes
  <2>2. stack' \in [RunLoops -> Seq(Frame)]
    BY <1>1, <1>3 DEF Types, LoopTypes, dispatchMessage
  <2>3. handled' \in [Ends -> Seq(Handled)]
    BY <2>1, <1>3 DEF Types, HistoryTypes, dispatchMessage
  <2>4. marked' \in [Ends -> Int]
    BY <1>3 DEF Types, CountTypes, dispatchMessage, EnterMarked
  <2>5. QED BY <2>2, <2>3, <2>4
<1>4. CASE ~client[e]
  BY <1>4 DEF Types, LoopTypes, CountTypes, HistoryTypes, dispatchMessage
<1>5. QED BY <1>3, <1>4

(* Every step keeps the types.                                               *)
LEMMA TypesStep == Types /\ [Next]_vars => Types'
<1> SUFFICES ASSUME Types, [Next]_vars PROVE Types'
  OBVIOUS
<1> USE DEF endVars, queueVars, loopVars
<1>1. ASSUME NEW e \in Ends, NEW ask \in BOOLEAN, SendAsync(e, ask) PROVE Types'
  <2>1. serial[e] + 1 \in Nat
    BY DEF Types, CountTypes
  <2>2. [type |-> "async", id |-> 0, serial |-> serial[e] + 1, flagged |-> ask /\ Flagged(e)] \in Message
    BY <2>1 DEF Message
  <2>3. outgoing' \in [Ends -> Seq(Message)] /\ queue' \in [Ends -> Seq(Queued)]
    BY <1>1, <2>2, SendTypes DEF SendAsync
  <2>4. serial' \in [Ends -> Nat]
    BY <1>1, <2>1 DEF SendAsync, Types, CountTypes
  <2>5. QED
    BY <1>1, <2>3, <2>4 DEF SendAsync, Types, FlagTypes, CountTypes, QueueTypes, LoopTypes, HistoryTypes
<1>2. ASSUME NEW e \in Ends, SendSync(e) PROVE Types'
  <2> DEFINE m == [type |-> "sync", id |-> syncRequestID[e] + 1,
                   serial |-> serial[e] + 1, flagged |-> Flagged(e)]
             l == LoopOf[e]
  <2>1. serial[e] + 1 \in Nat /\ syncRequestID[e] + 1 \in Nat
    BY DEF Types, CountTypes
  <2>2. m \in Message
    BY <2>1 DEF Message, Flagged
  <2>3. outgoing' \in [Ends -> Seq(Message)] /\ queue' \in [Ends -> Seq(Queued)]
    BY <1>2, <2>2, SendTypes DEF SendSync
  <2>4. serial' \in [Ends -> Nat] /\ syncRequestID' \in [Ends -> Nat]
    BY <1>2, <2>1 DEF SendSync, Types, CountTypes
  <2>5. l \in RunLoops /\ stack[l] \in Seq(Frame)
    BY LoopAssumption DEF Types, LoopTypes
  <2>6. Append(Append(stack[l], NewFrame("check", e, m)), NewFrame("swap", NoEnd, NoMessage)) \in Seq(Frame)
    BY <2>2, <2>5, NewFrameType, NoMessageType, AppendFacts
  <2>7. stack' \in [RunLoops -> Seq(Frame)]
    BY <1>2, <2>6 DEF SendSync, Types, LoopTypes
  <2>8. pending' \in [Ends -> Seq(PendingReply)]
    <3>1. [id |-> m.id, reply |-> 0] \in PendingReply
      BY <2>1 DEF PendingReply
    <3>2. Append(pending[e], [id |-> m.id, reply |-> 0]) \in Seq(PendingReply)
      BY <3>1, AppendFacts DEF Types, QueueTypes
    <3>3. QED BY <1>2, <3>2 DEF SendSync, Types, QueueTypes
  <2>9. QED
    BY <1>2, <2>3, <2>4, <2>7, <2>8
       DEF SendSync, Types, FlagTypes, CountTypes, QueueTypes, LoopTypes, HistoryTypes
<1>3. ASSUME NEW e \in Ends, SendSyncFails(e) PROVE Types'
  BY <1>3, ExitTypes, LoopAssumption DEF SendSyncFails
<1>4. ASSUME NEW e \in Ends, Invalidate(e) PROVE Types'
  <2>1. queue' \in [Ends -> Seq(Queued)]
    BY <1>4 DEF Invalidate, Types, QueueTypes, Queued
  <2>2. QED
    BY <1>4, <2>1 DEF Invalidate, Types, FlagTypes, CountTypes, QueueTypes, LoopTypes, HistoryTypes
<1>5. ASSUME NEW l \in RunLoops, HandlerReturns(l) PROVE Types'
  <2> DEFINE e == Top(l).conn
             m == Top(l).msg
  <2>1. /\ e \in Ends \cup {NoEnd} /\ m \in Message /\ Front(stack[l]) \in Seq(Frame)
        /\ [m EXCEPT !.type = "reply", !.flagged = FALSE] \in Message
    <3>1. e \in Ends \cup {NoEnd} /\ m \in Message /\ Front(stack[l]) \in Seq(Frame)
      BY <1>5, FrameTypes DEF HandlerReturns, At, Types
    <3>2. QED BY <3>1 DEF Message
  <2>2. outgoing' \in [Ends -> Seq(Message)] /\ queue' \in [Ends -> Seq(Queued)]
    <3>1. CASE m.type = "sync" /\ client[e]
      BY <1>5, <2>1, <3>1, SendTypes DEF HandlerReturns
    <3>2. CASE ~(m.type = "sync" /\ client[e])
      BY <1>5, <3>2 DEF HandlerReturns, Types, QueueTypes
    <3>3. QED BY <3>1, <3>2
  <2>3. marked' \in [Ends -> Int] /\ stack' \in [RunLoops -> Seq(Frame)]
    <3>1. marked' = [marked EXCEPT ![e] = IF m.flagged THEN @ - 1 ELSE @]
      BY <1>5 DEF HandlerReturns, LeaveMarked
    <3>2. marked \in [Ends -> Int]
      BY DEF Types, CountTypes
    <3>3. marked' \in [Ends -> Int]
      <4>1. e \in Ends => marked[e] - 1 \in Int
        BY <3>2
      <4> HIDE DEF e, m
      <4>2. CASE m.flagged
        BY <3>1, <3>2, <4>1, <4>2
      <4>3. CASE ~m.flagged
        BY <3>1, <3>2, <4>3
      <4> QED BY <4>2, <4>3
    <3>4. stack' \in [RunLoops -> Seq(Frame)]
      BY <1>5, <2>1 DEF HandlerReturns, Types, LoopTypes
    <3>5. QED BY <3>3, <3>4
  <2>4. QED
    BY <1>5, <2>2, <2>3
       DEF HandlerReturns, Types, FlagTypes, CountTypes, QueueTypes, LoopTypes, HistoryTypes
<1>6. ASSUME NEW l \in RunLoops, EnterNestedLoop(l) PROVE Types'
  <2>1. Append(stack[l], NewFrame("nested", NoEnd, NoMessage)) \in Seq(Frame)
    BY NewFrameType, NoMessageType, AppendFacts DEF Types, LoopTypes
  <2>2. QED
    BY <1>6, <2>1
       DEF EnterNestedLoop, Types, FlagTypes, CountTypes, QueueTypes, LoopTypes, HistoryTypes
<1>7. ASSUME NEW l \in RunLoops, ExitNestedLoop(l) PROVE Types'
  <2>1. Front(stack[l]) \in Seq(Frame)
    BY <1>7, FrameTypes DEF ExitNestedLoop, At, Types
  <2>2. QED
    BY <1>7, <2>1
       DEF ExitNestedLoop, Types, FlagTypes, CountTypes, QueueTypes, LoopTypes, HistoryTypes
<1>8. ASSUME NEW l \in RunLoops, NEW fn, NextFunction(l, fn)
      PROVE  /\ functions' \in [RunLoops -> Seq(Function)]
             /\ Head(functions[l]) \in Function /\ Head(functions[l]).conn \in Ends
  <2>1. functions[l] \in Seq(Function) /\ functions[l] # <<>>
    BY <1>8 DEF NextFunction, Types, LoopTypes
  <2>2. Tail(functions[l]) \in Seq(Function) /\ Head(functions[l]) \in Function
    BY <2>1, TailFacts
  <2>3. QED
    BY <1>8, <2>2 DEF NextFunction, Types, LoopTypes, Function
<1>9. ASSUME NEW l \in RunLoops, dispatchOneMessage(l) PROVE Types'
  <2> DEFINE e == Head(functions[l]).conn
  <2>1. e \in Ends /\ functions' \in [RunLoops -> Seq(Function)]
    BY <1>8, <1>9 DEF dispatchOneMessage
  <2>2. CASE incoming[e] = <<>>
    BY <1>9, <2>1, <2>2 DEF dispatchOneMessage, Types, FlagTypes, CountTypes, QueueTypes, LoopTypes, HistoryTypes
  <2>3. CASE incoming[e] # <<>>
    <3>1. Head(incoming[e]) \in Message /\ Tail(incoming[e]) \in Seq(Message) /\ stack[l] \in Seq(Frame)
      BY <2>1, <2>3, TailFacts DEF Types, QueueTypes, LoopTypes
    <3>2. incoming' \in [Ends -> Seq(Message)]
      BY <1>9, <2>3, <3>1 DEF dispatchOneMessage, Types, QueueTypes
    <3>3. dispatchMessage(l, e, Head(incoming[e]), stack[l])
      BY <1>9, <2>3 DEF dispatchOneMessage
    <3>4. /\ stack' \in [RunLoops -> Seq(Frame)]
          /\ marked' \in [Ends -> Int] /\ handled' \in [Ends -> Seq(Handled)]
      BY <2>1, <3>1, <3>3, DispatchTypes
    <3>5. QED
      BY <1>9, <2>1, <3>2, <3>4
         DEF dispatchOneMessage, Types, FlagTypes, CountTypes, QueueTypes, LoopTypes, HistoryTypes
  <2>4. QED BY <2>2, <2>3
<1>10. ASSUME NEW l \in RunLoops, dispatchMessagesForConnection(l) PROVE Types'
  <2> DEFINE e == Head(functions[l]).conn
  <2>1. e \in Ends /\ functions' \in [RunLoops -> Seq(Function)]
    BY <1>8, <1>10 DEF dispatchMessagesForConnection
  <2>2. Append(stack[l], NewFrame("swap", e, NoMessage)) \in Seq(Frame)
    BY <2>1, NewFrameType, NoMessageType, AppendFacts DEF Types, LoopTypes
  <2>3. stack' \in [RunLoops -> Seq(Frame)]
    BY <1>10, <2>2 DEF dispatchMessagesForConnection, Types, LoopTypes
  <2>4. scheduled' \in [RunLoops -> SUBSET Ends]
    BY <1>10 DEF dispatchMessagesForConnection, Unschedule, Types, LoopTypes
  <2>5. QED
    BY <1>10, <2>1, <2>3, <2>4
       DEF dispatchMessagesForConnection, Types, FlagTypes, CountTypes, QueueTypes, LoopTypes, HistoryTypes
<1>11. ASSUME NEW l \in RunLoops, dispatchConnectionDidClose(l) PROVE Types'
  <2>1. functions' \in [RunLoops -> Seq(Function)]
    BY <1>8, <1>11 DEF dispatchConnectionDidClose
  <2>2. QED
    BY <1>11, <2>1
       DEF dispatchConnectionDidClose, Types, FlagTypes, CountTypes, QueueTypes, LoopTypes, HistoryTypes
<1>12. ASSUME NEW l \in RunLoops, SwapMessages(l) PROVE Types'
  <2>1. Top(l) \in Frame /\ Front(stack[l]) \in Seq(Frame) /\ toDispatch[l] \in Seq(ConnectionAndMessage)
    BY <1>12, FrameTypes DEF SwapMessages, At, Types, LoopTypes
  <2>2. [Top(l) EXCEPT !.at = "dispatch", !.todo = toDispatch[l]] \in Frame
    BY <2>1 DEF Frame
  <2>3. Append(Front(stack[l]), [Top(l) EXCEPT !.at = "dispatch", !.todo = toDispatch[l]]) \in Seq(Frame)
    BY <2>1, <2>2, AppendFacts
  <2>4. stack' \in [RunLoops -> Seq(Frame)] /\ toDispatch' \in [RunLoops -> Seq(ConnectionAndMessage)]
    BY <1>12, <2>3 DEF SwapMessages, Types, LoopTypes
  <2>5. QED
    BY <1>12, <2>4 DEF SwapMessages, Types, FlagTypes, CountTypes, QueueTypes, LoopTypes, HistoryTypes
<1>13. ASSUME NEW l \in RunLoops, DispatchNext(l) PROVE Types'
  <2> DEFINE f == Top(l)
             next == Head(f.todo)
  <2>1. /\ f \in Frame /\ Front(stack[l]) \in Seq(Frame) /\ f.todo \in Seq(ConnectionAndMessage)
        /\ f.todo # <<>> /\ f.putBack \in Seq(ConnectionAndMessage)
    BY <1>13, FrameTypes DEF DispatchNext, At, Types
  <2>2. next \in ConnectionAndMessage /\ Tail(f.todo) \in Seq(ConnectionAndMessage)
    BY <2>1, TailFacts
  <2>3. Append(f.putBack, next) \in Seq(ConnectionAndMessage)
    BY <2>1, <2>2, AppendFacts
  <2>4. /\ [f EXCEPT !.todo = Tail(@), !.putBack = Append(@, next)] \in Frame
        /\ [f EXCEPT !.todo = Tail(@)] \in Frame
    BY <2>1, <2>2, <2>3 DEF Frame
  <2>5. /\ Append(Front(stack[l]), [f EXCEPT !.todo = Tail(@), !.putBack = Append(@, next)]) \in Seq(Frame)
        /\ Append(Front(stack[l]), [f EXCEPT !.todo = Tail(@)]) \in Seq(Frame)
    BY <2>1, <2>4, AppendFacts
  <2>6. next.conn \in Ends /\ next.msg \in Message
    BY <2>2 DEF ConnectionAndMessage
  <2>7. /\ stack' \in [RunLoops -> Seq(Frame)]
        /\ marked' \in [Ends -> Int] /\ handled' \in [Ends -> Seq(Handled)]
    <3>1. CASE f.conn \notin {NoEnd, next.conn}
      BY <1>13, <2>5, <3>1 DEF DispatchNext, Types, CountTypes, LoopTypes, HistoryTypes
    <3>2. CASE f.conn \in {NoEnd, next.conn}
      <4>1. dispatchMessage(l, next.conn, next.msg, Append(Front(stack[l]), [f EXCEPT !.todo = Tail(@)]))
        BY <1>13, <3>2 DEF DispatchNext
      <4>2. QED BY <2>5, <2>6, <4>1, DispatchTypes
    <3>3. QED BY <3>1, <3>2
  <2>8. QED
    BY <1>13, <2>7 DEF DispatchNext, Types, FlagTypes, CountTypes, QueueTypes, LoopTypes, HistoryTypes
<1>14. ASSUME NEW l \in RunLoops, EndDispatchMessages(l) PROVE Types'
  <2>1. /\ Front(stack[l]) \in Seq(Frame) /\ toDispatch[l] \in Seq(ConnectionAndMessage)
        /\ Top(l).putBack \in Seq(ConnectionAndMessage)
    BY <1>14, FrameTypes DEF EndDispatchMessages, At, Types, LoopTypes
  <2>2. toDispatch[l] \o Top(l).putBack \in Seq(ConnectionAndMessage)
    BY <2>1, ConcatFacts
  <2>3. stack' \in [RunLoops -> Seq(Frame)] /\ toDispatch' \in [RunLoops -> Seq(ConnectionAndMessage)]
    BY <1>14, <2>1, <2>2 DEF EndDispatchMessages, Types, LoopTypes
  <2>4. QED
    BY <1>14, <2>3 DEF EndDispatchMessages, Types, FlagTypes, CountTypes, QueueTypes, LoopTypes, HistoryTypes
<1>15. ASSUME NEW l \in RunLoops, NEW e, PopPendingReply(l, e) PROVE Types'
  <2>1. Front(stack[l]) \in Seq(Frame)
    BY FrontType DEF Types, LoopTypes
  <2>2. e \in Ends => Front(pending[e]) \in Seq(PendingReply)
    BY FrontType DEF Types, QueueTypes
  <2>3. stack' \in [RunLoops -> Seq(Frame)] /\ pending' \in [Ends -> Seq(PendingReply)]
    BY <1>15, <2>1, <2>2 DEF PopPendingReply, removeLastPendingReply, Types, LoopTypes, QueueTypes
  <2>4. QED
    BY <1>15, <2>3 DEF PopPendingReply, Types, FlagTypes, CountTypes, QueueTypes, LoopTypes, HistoryTypes
<1>16. ASSUME NEW l \in RunLoops, ReturnReply(l) \/ GiveUp(l) \/ TimeOut(l) PROVE Types'
  BY <1>15, <1>16, ExitTypes DEF ReturnReply, GiveUp, TimeOut, SyncSendFails
<1>17. ASSUME NEW l \in RunLoops, Sleep(l) PROVE Types'
  <2>1. Top(l) \in Frame /\ Front(stack[l]) \in Seq(Frame)
    BY <1>17, FrameTypes DEF Sleep, At, Types
  <2>2. [Top(l) EXCEPT !.at = "sleep"] \in Frame
    BY <2>1 DEF Frame
  <2>3. Append(Front(stack[l]), [Top(l) EXCEPT !.at = "sleep"]) \in Seq(Frame)
    BY <2>1, <2>2, AppendFacts
  <2>4. stack' \in [RunLoops -> Seq(Frame)]
    BY <1>17, <2>3 DEF Sleep, Types, LoopTypes
  <2>5. QED
    BY <1>17, <2>4 DEF Sleep, Types, FlagTypes, CountTypes, QueueTypes, LoopTypes, HistoryTypes
<1>18. ASSUME NEW l \in RunLoops, WakeUp(l) PROVE Types'
  <2>1. Top(l) \in Frame /\ Front(stack[l]) \in Seq(Frame)
    BY <1>18, FrameTypes DEF WakeUp, At, Types
  <2>2. [Top(l) EXCEPT !.at = "check"] \in Frame /\ NewFrame("swap", NoEnd, NoMessage) \in Frame
    BY <2>1, NewFrameType, NoMessageType DEF Frame
  <2>3. Append(Append(Front(stack[l]), [Top(l) EXCEPT !.at = "check"]),
               NewFrame("swap", NoEnd, NoMessage)) \in Seq(Frame)
    BY <2>1, <2>2, AppendFacts
  <2>4. stack' \in [RunLoops -> Seq(Frame)] /\ semaphore' \in [RunLoops -> BOOLEAN]
    BY <1>18, <2>3 DEF WakeUp, Types, LoopTypes, FlagTypes
  <2>5. QED
    BY <1>18, <2>4 DEF WakeUp, Types, FlagTypes, CountTypes, QueueTypes, LoopTypes, HistoryTypes
<1>19. ASSUME NEW e \in Ends, sendOutgoingMessages(e) PROVE Types'
  <2> DEFINE p == PeerOf[e]
             sends == connected[e] /\ outgoing[e] # <<>>
             sent == sends /\ SocketTakes(p)
  <2>1. /\ p \in Ends /\ outgoing \in [Ends -> Seq(Message)] /\ wire \in [Ends -> Seq(Message)]
        /\ queue \in [Ends -> Seq(Queued)]
    BY PeerAssumption DEF Types, QueueTypes
  <2>2. outgoing[e] # <<>> => Tail(outgoing[e]) \in Seq(Message) /\ Head(outgoing[e]) \in Message
    BY <2>1, TailFacts
  <2>3. outgoing[e] # <<>> => Append(wire[p], Head(outgoing[e])) \in Seq(Message)
    BY <2>1, <2>2, AppendFacts
  <2>4. queue[e] # <<>> /\ Tail(queue[e]) \in Seq(Queued)
    BY <1>19, <2>1, TailFacts DEF sendOutgoingMessages, NextQueued
  <2>5. outgoing' \in [Ends -> Seq(Message)]
    BY <1>19, <2>1, <2>2 DEF sendOutgoingMessages
  <2>6. wire' \in [Ends -> Seq(Message)]
    BY <1>19, <2>1, <2>3 DEF sendOutgoingMessages
  <2>7. queue' \in [Ends -> Seq(Queued)]
    BY <1>19, <2>1, <2>4 DEF sendOutgoingMessages
  <2>8. QED
    BY <1>19, <2>5, <2>6, <2>7
       DEF sendOutgoingMessages, Types, FlagTypes, CountTypes, QueueTypes, LoopTypes, HistoryTypes
<1>20. ASSUME NEW e \in Ends, PlatformInvalidate(e) PROVE Types'
  <2>1. queue[e] # <<>> /\ Tail(queue[e]) \in Seq(Queued)
    BY <1>20, TailFacts DEF PlatformInvalidate, NextQueued, Types, QueueTypes
  <2>2. queue' \in [Ends -> Seq(Queued)] /\ wire' \in [Ends -> Seq(Message)]
    BY <1>20, <2>1 DEF PlatformInvalidate, Types, QueueTypes
  <2>3. QED
    BY <1>20, <2>2
       DEF PlatformInvalidate, Types, FlagTypes, CountTypes, QueueTypes, LoopTypes, HistoryTypes
<1>21. ASSUME NEW e \in Ends, Receive(e)
       PROVE  wire' \in [Ends -> Seq(Message)] /\ Head(wire[e]) \in Message
  <2>1. Tail(wire[e]) \in Seq(Message) /\ Head(wire[e]) \in Message
    BY <1>21, TailFacts DEF Receive, Types, QueueTypes
  <2>2. QED
    BY <1>21, <2>1 DEF Receive, Types, QueueTypes
<1>22. ASSUME NEW e \in Ends, ReceiveReply(e) PROVE Types'
  <2>1. wire' \in [Ends -> Seq(Message)] /\ Head(wire[e]) \in Message
    BY <1>21, <1>22 DEF ReceiveReply
  <2>2. PICK i \in DOMAIN pending[e] : SetReply(e, i, Head(wire[e]))
    BY <1>22 DEF ReceiveReply
  <2>3. pending' \in [Ends -> Seq(PendingReply)]
    <3>1. pending[e] \in Seq(PendingReply) /\ Head(wire[e]).serial \in Nat
      BY <2>1 DEF Types, QueueTypes, Message
    <3>0. pending[e][i] \in PendingReply
      BY <3>1
    <3>2. [pending[e][i] EXCEPT !.reply = Head(wire[e]).serial] \in PendingReply
      BY <3>0, <3>1 DEF PendingReply
    <3>3. [pending[e] EXCEPT ![i] = [pending[e][i] EXCEPT !.reply = Head(wire[e]).serial]] \in Seq(PendingReply)
      BY <3>1, <3>2, ExceptSeq
    <3>4. pending' = [pending EXCEPT ![e] = [pending[e] EXCEPT ![i] = [pending[e][i] EXCEPT !.reply = Head(wire[e]).serial]]]
      BY <2>2 DEF SetReply, Types, QueueTypes
    <3>5. QED BY <3>3, <3>4 DEF Types, QueueTypes
  <2>4. semaphore' \in [RunLoops -> BOOLEAN]
    BY <1>22 DEF ReceiveReply, WakesClient, Types, FlagTypes
  <2>5. QED
    BY <1>22, <2>1, <2>3, <2>4
       DEF ReceiveReply, Types, FlagTypes, CountTypes, QueueTypes, LoopTypes, HistoryTypes
<1>23. ASSUME NEW e \in Ends, ReceiveOtherReply(e) PROVE Types'
  <2>1. wire' \in [Ends -> Seq(Message)] /\ Head(wire[e]).serial \in Nat
    BY <1>21, <1>23 DEF ReceiveOtherReply, Message
  <2>2. secondary' \in [SecondaryThreads -> Wait]
    <3>1. ASSUME NEW t \in SecondaryThreads PROVE WithReply(secondary[t], Head(wire[e])) \in Wait
      BY <2>1 DEF WithReply, Types, HistoryTypes, Wait
    <3>2. QED BY <1>23, <3>1 DEF ReceiveOtherReply, Types, HistoryTypes
  <2>3. QED
    BY <1>23, <2>1, <2>2
       DEF ReceiveOtherReply, Receive, Types, FlagTypes, CountTypes, QueueTypes, LoopTypes, HistoryTypes
<1>24. ASSUME NEW e \in Ends, ReceiveFlagged(e) PROVE Types'
  <2> DEFINE l == LoopOf[e]
  <2>1. wire' \in [Ends -> Seq(Message)] /\ Head(wire[e]) \in Message /\ l \in RunLoops
    BY <1>21, <1>24, LoopAssumption DEF ReceiveFlagged
  <2>2. functions' \in [RunLoops -> Seq(Function)]
    <3>1. [fn |-> "dispatchMessagesForConnection", conn |-> e] \in Function
      BY DEF Function
    <3>2. WithDispatch(l, e) \in Seq(Function)
      BY <2>1, <3>1, AppendFacts DEF WithDispatch, Types, LoopTypes
    <3>3. QED BY <1>24, <3>2 DEF ReceiveFlagged, Types, LoopTypes
  <2>3. toDispatch' \in [RunLoops -> Seq(ConnectionAndMessage)]
    <3>1. [conn |-> e, msg |-> Head(wire[e])] \in ConnectionAndMessage
      BY <2>1 DEF ConnectionAndMessage
    <3>2. Append(toDispatch[l], [conn |-> e, msg |-> Head(wire[e])]) \in Seq(ConnectionAndMessage)
      BY <2>1, <3>1, AppendFacts DEF Types, LoopTypes
    <3>3. QED BY <1>24, <3>2 DEF ReceiveFlagged, Types, LoopTypes
  <2>4. scheduled' \in [RunLoops -> SUBSET Ends] /\ waking' \in [Ends -> BOOLEAN]
    BY <1>24 DEF ReceiveFlagged, Types, LoopTypes, FlagTypes
  <2>5. QED
    BY <1>24, <2>1, <2>2, <2>3, <2>4
       DEF ReceiveFlagged, Types, FlagTypes, CountTypes, QueueTypes, LoopTypes, HistoryTypes
<1>25. ASSUME NEW e \in Ends, wakeUpClientRunLoop(e) PROVE Types'
  BY <1>25 DEF wakeUpClientRunLoop, Types, FlagTypes, CountTypes, QueueTypes, LoopTypes, HistoryTypes
<1>26. ASSUME NEW e \in Ends, ReceiveUnflagged(e) PROVE Types'
  <2> DEFINE l == LoopOf[e]
  <2>1. wire' \in [Ends -> Seq(Message)] /\ Head(wire[e]) \in Message /\ l \in RunLoops
    BY <1>21, <1>26, LoopAssumption DEF ReceiveUnflagged
  <2>2. incoming' \in [Ends -> Seq(Message)]
    <3>1. Append(incoming[e], Head(wire[e])) \in Seq(Message)
      BY <2>1, AppendFacts DEF Types, QueueTypes
    <3>2. QED BY <1>26, <3>1 DEF ReceiveUnflagged, AppendIncoming, Types, QueueTypes
  <2>3. functions' \in [RunLoops -> Seq(Function)]
    <3>1. [fn |-> "dispatchOneMessage", conn |-> e] \in Function
      BY DEF Function
    <3>2. Append(functions[l], [fn |-> "dispatchOneMessage", conn |-> e]) \in Seq(Function)
      BY <2>1, <3>1, AppendFacts DEF Types, LoopTypes
    <3>3. QED BY <1>26, <3>2 DEF ReceiveUnflagged, Types, LoopTypes
  <2>4. QED
    BY <1>26, <2>1, <2>2, <2>3
       DEF ReceiveUnflagged, Types, FlagTypes, CountTypes, QueueTypes, LoopTypes, HistoryTypes
<1>27. ASSUME NEW e \in Ends, connectionDidClose(e) PROVE Types'
  <2> DEFINE l == LoopOf[e]
  <2>1. functions' \in [RunLoops -> Seq(Function)]
    <3>1. [fn |-> "dispatchConnectionDidClose", conn |-> e] \in Function /\ l \in RunLoops
      BY LoopAssumption DEF Function
    <3>2. WithClose(functions[l], e) \in Seq(Function)
      BY <3>1, AppendFacts DEF WithClose, Types, LoopTypes
    <3>3. QED BY <1>27, <3>2 DEF connectionDidClose, Types, LoopTypes
  <2>2. secondary' \in [SecondaryThreads -> Wait]
    <3>1. ASSUME NEW t \in SecondaryThreads PROVE [secondary[t] EXCEPT !.signalled = TRUE] \in Wait
      BY DEF Types, HistoryTypes, Wait
    <3>2. QED BY <1>27, <3>1 DEF connectionDidClose, Types, HistoryTypes
  <2>3. semaphore' \in [RunLoops -> BOOLEAN] /\ wire' \in [Ends -> Seq(Message)]
    <3>1. wire' \in [Ends -> Seq(Message)]
      BY <1>27 DEF connectionDidClose, Types, QueueTypes
    <3>2. (semaphore[l] \/ SomeoneWaits(e)) \in BOOLEAN
      BY DEF SomeoneWaits
    <3>3. semaphore' = [semaphore EXCEPT ![l] = semaphore[l] \/ SomeoneWaits(e)]
      BY <1>27 DEF connectionDidClose
    <3>4. semaphore \in [RunLoops -> BOOLEAN]
      BY DEF Types, FlagTypes
    <3>5. semaphore' \in [RunLoops -> BOOLEAN]
      <4> DEFINE b == semaphore[l] \/ SomeoneWaits(e)
      <4>1. b \in BOOLEAN /\ semaphore' = [semaphore EXCEPT ![l] = b]
        BY <3>2, <3>3
      <4> HIDE DEF b
      <4>2. QED BY <3>4, <4>1
    <3>6. QED BY <3>1, <3>5
  <2>4. QED
    BY <1>27, <2>1, <2>2, <2>3
       DEF connectionDidClose, Types, FlagTypes, CountTypes, QueueTypes, LoopTypes, HistoryTypes
<1>28. ASSUME NEW t \in SecondaryThreads, SecondaryRegister(t) PROVE Types'
  <2> DEFINE e == SecondaryEnd[t]
  <2>1. e \in Ends /\ syncRequestID[e] + 1 \in Nat
    BY SecondaryAssumption DEF Types, CountTypes
  <2>2. [Idle EXCEPT !.phase = "registered", !.id = syncRequestID[e] + 1] \in Wait
    BY <2>1 DEF Idle, Wait
  <2>3. secondary' \in [SecondaryThreads -> Wait] /\ syncRequestID' \in [Ends -> Nat]
    BY <1>28, <2>1, <2>2 DEF SecondaryRegister, Types, HistoryTypes, CountTypes
  <2>4. QED
    BY <1>28, <2>3
       DEF SecondaryRegister, Types, FlagTypes, CountTypes, QueueTypes, LoopTypes, HistoryTypes
<1>29. ASSUME NEW t \in SecondaryThreads, SecondarySend(t) PROVE Types'
  <2> DEFINE e == SecondaryEnd[t]
             m == [type |-> "sync", id |-> secondary[t].id, serial |-> serial[e] + 1, flagged |-> FALSE]
  <2>1. e \in Ends /\ serial[e] + 1 \in Nat /\ secondary[t] \in Wait
    BY SecondaryAssumption DEF Types, CountTypes, HistoryTypes
  <2>2. m \in Message
    BY <2>1 DEF Message, Wait
  <2>3. CASE ~client[e]
    <3>1. [secondary[t] EXCEPT !.phase = "waiting"] \in Wait
      BY <2>1 DEF Wait
    <3>2. secondary' = [secondary EXCEPT ![t] = [secondary[t] EXCEPT !.phase = "waiting"]]
      BY <1>29, <2>3 DEF SecondarySend, Types, HistoryTypes
    <3>3. secondary' \in [SecondaryThreads -> Wait]
      BY <3>1, <3>2 DEF Types, HistoryTypes
    <3>4. QED
      BY <1>29, <2>3, <3>3
         DEF SecondarySend, Types, FlagTypes, CountTypes, QueueTypes, LoopTypes, HistoryTypes
  <2>4. CASE client[e]
    <3>1. [secondary[t] EXCEPT !.phase = "waiting", !.serial = serial[e] + 1] \in Wait
      BY <2>1 DEF Wait
    <3>2. secondary' = [secondary EXCEPT ![t] = [secondary[t] EXCEPT !.phase = "waiting", !.serial = serial[e] + 1]]
      BY <1>29, <2>4 DEF SecondarySend, Types, HistoryTypes
    <3>3. secondary' \in [SecondaryThreads -> Wait]
      BY <3>1, <3>2 DEF Types, HistoryTypes
    <3>4. outgoing' \in [Ends -> Seq(Message)] /\ queue' \in [Ends -> Seq(Queued)]
      BY <1>29, <2>1, <2>2, <2>4, SendTypes DEF SecondarySend
    <3>5. serial' \in [Ends -> Nat]
      BY <1>29, <2>1, <2>4 DEF SecondarySend, Types, CountTypes
    <3>6. QED
      BY <1>29, <3>3, <3>4, <3>5
         DEF SecondarySend, Types, FlagTypes, CountTypes, QueueTypes, LoopTypes, HistoryTypes
  <2>5. QED BY <2>3, <2>4
<1>30. ASSUME NEW t \in SecondaryThreads, SecondaryReturn(t) PROVE Types'
  <2>1. secondary' \in [SecondaryThreads -> Wait]
    BY <1>30 DEF SecondaryReturn, Idle, Wait, Types, HistoryTypes
  <2>2. QED
    BY <1>30, <2>1
       DEF SecondaryReturn, Types, FlagTypes, CountTypes, QueueTypes, LoopTypes, HistoryTypes
<1>31. CASE UNCHANGED vars
  BY <1>31 DEF vars, Types, FlagTypes, CountTypes, QueueTypes, LoopTypes, HistoryTypes
<1>32. QED
  BY <1>1, <1>2, <1>3, <1>4, <1>5, <1>6, <1>7, <1>9, <1>10, <1>11, <1>12, <1>13, <1>14, <1>16,
     <1>17, <1>18, <1>19, <1>20, <1>22, <1>23, <1>24, <1>25, <1>26, <1>27, <1>28, <1>29, <1>30, <1>31,
     ExitTypes
     DEF Next, ClientThread, performWork, ConnectionQueue, ClientDecides, Crash

-----------------------------------------------------------------------------
(* What the client thread of a run loop holds is about its own connections.  *)
OwnItem(l) == {x \in ConnectionAndMessage : LoopOf[x.conn] = l}

OwnFunction(l) == {g \in Function : LoopOf[g.conn] = l}

(* Only a frame in dispatchMessages has vectors, and the one that runs for a *)
(* wait dispatches everything; only a synchronous request is waited for.     *)
OwnFrame(l) ==
    {f \in Frame :
        /\ f.conn # NoEnd => LoopOf[f.conn] = l
        /\ f.at \in {"handle", "check", "sleep"} => f.conn # NoEnd
        /\ f.at # "dispatch" => f.todo = <<>> /\ f.putBack = <<>>
        /\ f.conn = NoEnd => f.putBack = <<>>
        /\ f.at \in {"check", "sleep"} => f.msg.type = "sync"
        /\ f.todo \in Seq(OwnItem(l))
        /\ f.putBack \in Seq({x \in OwnItem(l) : x.conn # f.conn})}

OwnConnections ==
    \A l \in RunLoops :
        /\ stack[l] \in Seq(OwnFrame(l))
        /\ toDispatch[l] \in Seq(OwnItem(l))
        /\ functions[l] \in Seq(OwnFunction(l))

(* The top of a stack that holds only own frames is one, and so is the rest. *)
LEMMA OwnTop ==
  ASSUME OwnConnections, NEW l \in RunLoops, stack[l] # <<>>
  PROVE  /\ Top(l) \in OwnFrame(l) /\ Front(stack[l]) \in Seq(OwnFrame(l))
         /\ stack[l] \in Seq(OwnFrame(l))
         /\ Top(l) \in Frame
         /\ Top(l).at \in {"handle", "check", "sleep"} => Top(l).conn \in Ends /\ LoopOf[Top(l).conn] = l
<1>1. stack[l] \in Seq(OwnFrame(l))
  BY DEF OwnConnections
<1>2. Top(l) \in OwnFrame(l) /\ Front(stack[l]) \in Seq(OwnFrame(l))
  BY <1>1, FrontFacts DEF Top
<1>3. QED
  BY <1>1, <1>2 DEF OwnFrame, Frame

(* A frame that has just been pushed has no vectors.                         *)
LEMMA NewFrameOwn ==
  ASSUME NEW l \in RunLoops,
         NEW at \in {"handle", "swap", "check", "nested"},
         NEW e \in Ends \cup {NoEnd}, NEW m \in Message,
         e # NoEnd => LoopOf[e] = l,
         at \in {"handle", "check"} => e # NoEnd,
         at = "check" => m.type = "sync"
  PROVE  NewFrame(at, e, m) \in OwnFrame(l)
<1>1. NewFrame(at, e, m) \in Frame
  BY NewFrameType
<1>2. <<>> \in Seq(OwnItem(l)) /\ <<>> \in Seq({x \in OwnItem(l) : x.conn # e})
  BY EmptyFacts
<1>3. QED
  BY <1>1, <1>2 DEF NewFrame, OwnFrame

(* dispatchMessage() pushes at most the frame of a handler.                  *)
LEMMA DispatchOwn ==
  ASSUME Types, OwnConnections, NEW l \in RunLoops, NEW e \in Ends, NEW m \in Message,
         LoopOf[e] = l, NEW below \in Seq(OwnFrame(l)), dispatchMessage(l, e, m, below)
  PROVE  \A k \in RunLoops : stack'[k] \in Seq(OwnFrame(k))
<1>1. Append(below, NewFrame("handle", e, m)) \in Seq(OwnFrame(l))
  BY NewFrameOwn, AppendFacts, NoEndAssumption
<1>2. stack' = [stack EXCEPT ![l] = below] \/ stack' = [stack EXCEPT ![l] = Append(below, NewFrame("handle", e, m))]
  BY DEF dispatchMessage
<1>3. QED
  BY <1>1, <1>2 DEF OwnConnections, Types, LoopTypes

(* Every step keeps to the connections of the run loop it is a step of.      *)
LEMMA OwnStep == Types /\ OwnConnections /\ [Next]_vars => OwnConnections'
<1> SUFFICES ASSUME Types, OwnConnections, [Next]_vars PROVE OwnConnections'
  OBVIOUS
<1> USE DEF endVars, queueVars, loopVars
<1> DEFINE Stacks == \A k \in RunLoops : stack'[k] \in Seq(OwnFrame(k))
           Vectors == \A k \in RunLoops : toDispatch'[k] \in Seq(OwnItem(k))
           Functions == \A k \in RunLoops : functions'[k] \in Seq(OwnFunction(k))
<1>0. ASSUME Stacks, Vectors, Functions PROVE OwnConnections'
  BY <1>0 DEF OwnConnections
<1>a. stack' = stack => Stacks
  BY DEF OwnConnections
<1>b. toDispatch' = toDispatch => Vectors
  BY DEF OwnConnections
<1>c. functions' = functions => Functions
  BY DEF OwnConnections
<1>d. ASSUME NEW l \in RunLoops, NEW s \in Seq(OwnFrame(l)), stack' = [stack EXCEPT ![l] = s] PROVE Stacks
  BY <1>d DEF OwnConnections, Types, LoopTypes
<1>e. ASSUME NEW l \in RunLoops, NEW s \in Seq(OwnItem(l)), toDispatch' = [toDispatch EXCEPT ![l] = s] PROVE Vectors
  BY <1>e DEF OwnConnections, Types, LoopTypes
<1>f. ASSUME NEW l \in RunLoops, NEW s \in Seq(OwnFunction(l)), functions' = [functions EXCEPT ![l] = s] PROVE Functions
  BY <1>f DEF OwnConnections, Types, LoopTypes
<1> HIDE DEF Stacks, Vectors, Functions
<1>1. ASSUME NEW e \in Ends, SendSync(e) PROVE OwnConnections'
  <2> DEFINE l == LoopOf[e]
             m == [type |-> "sync", id |-> syncRequestID[e] + 1,
                   serial |-> serial[e] + 1, flagged |-> Flagged(e)]
  <2>1. l \in RunLoops /\ stack[l] \in Seq(OwnFrame(l)) /\ e # NoEnd
    BY LoopAssumption, NoEndAssumption DEF OwnConnections
  <2>2. m \in Message
    BY DEF Message, Flagged, Types, CountTypes
  <2>3. NewFrame("check", e, m) \in OwnFrame(l) /\ NewFrame("swap", NoEnd, NoMessage) \in OwnFrame(l)
    BY <2>1, <2>2, NewFrameOwn, NoMessageType
  <2>4. Append(Append(stack[l], NewFrame("check", e, m)), NewFrame("swap", NoEnd, NoMessage)) \in Seq(OwnFrame(l))
    BY <2>1, <2>3, AppendFacts
  <2>5. stack' = [stack EXCEPT ![l] =
               Append(Append(stack[l], NewFrame("check", e, m)), NewFrame("swap", NoEnd, NoMessage))]
    BY <1>1 DEF SendSync
  <2>6. Stacks
    BY <2>1, <2>4, <2>5, <1>d
  <2>7. toDispatch' = toDispatch /\ functions' = functions
    BY <1>1 DEF SendSync
  <2>8. QED BY <2>6, <2>7, <1>b, <1>c, <1>0
<1>2. ASSUME NEW l \in RunLoops, ProcessExits(l) PROVE OwnConnections'
  <2>0. /\ stack' = [stack EXCEPT ![l] = <<>>] /\ toDispatch' = [toDispatch EXCEPT ![l] = <<>>]
        /\ functions' = [functions EXCEPT ![l] = <<>>]
    BY <1>2 DEF ProcessExits
  <2>1. Stacks
    BY <2>0, <1>d, EmptyFacts
  <2>2. Vectors
    BY <2>0, <1>e, EmptyFacts
  <2>3. Functions
    BY <2>0, <1>f, EmptyFacts
  <2>4. QED BY <2>1, <2>2, <2>3, <1>0
<1>3. ASSUME NEW l \in RunLoops, HandlerReturns(l) \/ ExitNestedLoop(l) PROVE OwnConnections'
  <2>1. Front(stack[l]) \in Seq(OwnFrame(l))
    BY FrontType DEF OwnConnections
  <2>2. Stacks
    BY <1>3, <2>1, <1>d DEF HandlerReturns, ExitNestedLoop
  <2>3. toDispatch' = toDispatch /\ functions' = functions
    BY <1>3 DEF HandlerReturns, ExitNestedLoop
  <2>4. QED BY <2>2, <2>3, <1>b, <1>c, <1>0
<1>4. ASSUME NEW l \in RunLoops, EnterNestedLoop(l) PROVE OwnConnections'
  <2>1. Append(stack[l], NewFrame("nested", NoEnd, NoMessage)) \in Seq(OwnFrame(l))
    BY NewFrameOwn, NoMessageType, AppendFacts DEF OwnConnections
  <2>2. Stacks
    BY <1>4, <2>1, <1>d DEF EnterNestedLoop
  <2>3. toDispatch' = toDispatch /\ functions' = functions
    BY <1>4 DEF EnterNestedLoop
  <2>4. QED BY <2>2, <2>3, <1>b, <1>c, <1>0
<1>5. ASSUME NEW l \in RunLoops, NEW fn, NextFunction(l, fn)
      PROVE  /\ Functions /\ Head(functions[l]).conn \in Ends
             /\ LoopOf[Head(functions[l]).conn] = l
  <2>1. Tail(functions[l]) \in Seq(OwnFunction(l)) /\ Head(functions[l]) \in OwnFunction(l)
    BY <1>5, TailFacts DEF NextFunction, OwnConnections
  <2>2. Functions
    BY <1>5, <1>f, <2>1 DEF NextFunction
  <2>3. QED
    BY <2>1, <2>2 DEF OwnFunction, Function
<1>6. ASSUME NEW l \in RunLoops, dispatchOneMessage(l) PROVE OwnConnections'
  <2> DEFINE e == Head(functions[l]).conn
  <2>1. Functions /\ e \in Ends /\ LoopOf[e] = l
    BY <1>5, <1>6 DEF dispatchOneMessage
  <2>2. Stacks
    <3>1. CASE incoming[e] = <<>>
      BY <1>6, <3>1, <1>a DEF dispatchOneMessage
    <3>2. CASE incoming[e] # <<>>
      <4>1. Head(incoming[e]) \in Message /\ stack[l] \in Seq(OwnFrame(l))
        BY <2>1, <3>2, TailFacts DEF Types, QueueTypes, OwnConnections
      <4>2. dispatchMessage(l, e, Head(incoming[e]), stack[l])
        BY <1>6, <3>2 DEF dispatchOneMessage
      <4>3. QED BY <2>1, <4>1, <4>2, DispatchOwn DEF Stacks
    <3>3. QED BY <3>1, <3>2
  <2>3. toDispatch' = toDispatch
    BY <1>6 DEF dispatchOneMessage
  <2>4. QED BY <2>1, <2>2, <2>3, <1>b, <1>0
<1>7. ASSUME NEW l \in RunLoops, dispatchMessagesForConnection(l) PROVE OwnConnections'
  <2> DEFINE e == Head(functions[l]).conn
  <2>1. Functions /\ e \in Ends /\ LoopOf[e] = l
    BY <1>5, <1>7 DEF dispatchMessagesForConnection
  <2>2. Append(stack[l], NewFrame("swap", e, NoMessage)) \in Seq(OwnFrame(l))
    BY <2>1, NewFrameOwn, NoMessageType, AppendFacts DEF OwnConnections
  <2>3. Stacks
    BY <1>7, <2>2, <1>d DEF dispatchMessagesForConnection
  <2>4. toDispatch' = toDispatch
    BY <1>7 DEF dispatchMessagesForConnection
  <2>5. QED BY <2>1, <2>3, <2>4, <1>b, <1>0
<1>8. ASSUME NEW l \in RunLoops, dispatchConnectionDidClose(l) PROVE OwnConnections'
  <2>1. Functions
    BY <1>5, <1>8 DEF dispatchConnectionDidClose
  <2>2. stack' = stack /\ toDispatch' = toDispatch
    BY <1>8 DEF dispatchConnectionDidClose
  <2>3. QED BY <2>1, <2>2, <1>a, <1>b, <1>0
<1>9. ASSUME NEW l \in RunLoops, SwapMessages(l) PROVE OwnConnections'
  <2> DEFINE f == [Top(l) EXCEPT !.at = "dispatch", !.todo = toDispatch[l]]
  <2>1. /\ Top(l) \in OwnFrame(l) /\ Front(stack[l]) \in Seq(OwnFrame(l))
        /\ toDispatch[l] \in Seq(OwnItem(l)) /\ Top(l) \in Frame /\ toDispatch[l] \in Seq(ConnectionAndMessage)
    BY <1>9, OwnTop DEF SwapMessages, At, OwnConnections, Types, LoopTypes
  <2>2. f \in Frame
    BY <2>1 DEF Frame
  <2>3. f \in OwnFrame(l)
    <3>1. Top(l).at = "swap"
      BY <1>9 DEF SwapMessages, At
    <3>2. f.at = "dispatch" /\ f.conn = Top(l).conn /\ f.putBack = Top(l).putBack /\ f.todo = toDispatch[l]
      BY <2>1 DEF Frame
    <3>3. QED BY <2>1, <2>2, <3>1, <3>2 DEF OwnFrame
  <2>4. Append(Front(stack[l]), f) \in Seq(OwnFrame(l))
    BY <2>1, <2>3, AppendFacts
  <2>5. stack' = [stack EXCEPT ![l] = Append(Front(stack[l]), f)]
    BY <1>9 DEF SwapMessages
  <2>6. Stacks
    BY <2>4, <2>5, <1>d
  <2>7. Vectors
    BY <1>9, <1>e, EmptyFacts DEF SwapMessages
  <2>8. functions' = functions
    BY <1>9 DEF SwapMessages
  <2>9. QED BY <2>6, <2>7, <2>8, <1>c, <1>0
<1>10. ASSUME NEW l \in RunLoops, DispatchNext(l) PROVE OwnConnections'
  <2> DEFINE f == Top(l)
             next == Head(f.todo)
             kept == [f EXCEPT !.todo = Tail(f.todo), !.putBack = Append(f.putBack, next)]
             taken == [f EXCEPT !.todo = Tail(f.todo)]
  <2>1. /\ f \in OwnFrame(l) /\ Front(stack[l]) \in Seq(OwnFrame(l)) /\ f \in Frame
        /\ f.at = "dispatch" /\ f.todo # <<>>
    BY <1>10, OwnTop DEF DispatchNext, At
  <2>2. /\ f.todo \in Seq(OwnItem(l)) /\ f.putBack \in Seq({x \in OwnItem(l) : x.conn # f.conn})
        /\ f.conn # NoEnd => LoopOf[f.conn] = l
        /\ f.conn = NoEnd => f.putBack = <<>>
    BY <2>1 DEF OwnFrame
  <2>3. next \in OwnItem(l) /\ Tail(f.todo) \in Seq(OwnItem(l))
    BY <2>1, <2>2, TailFacts
  <2>4. next.conn \in Ends /\ next.msg \in Message /\ LoopOf[next.conn] = l
    BY <2>3 DEF OwnItem, ConnectionAndMessage
  <2>5. f.todo \in Seq(ConnectionAndMessage) /\ f.putBack \in Seq(ConnectionAndMessage)
    BY <2>1 DEF Frame
  <2>6. next \in ConnectionAndMessage /\ Tail(f.todo) \in Seq(ConnectionAndMessage)
    BY <2>1, <2>5, TailFacts
  <2>7. taken \in OwnFrame(l)
    <3>1. taken \in Frame
      BY <2>1, <2>6 DEF Frame
    <3>2. /\ taken.at = f.at /\ taken.conn = f.conn /\ taken.todo = Tail(f.todo)
          /\ taken.putBack = f.putBack
      BY <2>1 DEF Frame
    <3>3. QED BY <2>1, <2>2, <2>3, <3>1, <3>2 DEF OwnFrame
  <2>8. Stacks
    <3>1. CASE f.conn \notin {NoEnd, next.conn}
      <4>1. Append(f.putBack, next) \in Seq({x \in OwnItem(l) : x.conn # f.conn})
        BY <2>2, <2>3, <3>1, AppendFacts
      <4>2. kept \in Frame
        <5>1. Append(f.putBack, next) \in Seq(ConnectionAndMessage)
          BY <2>5, <2>6, AppendFacts
        <5>2. QED BY <2>1, <2>6, <5>1 DEF Frame
      <4>3. /\ kept.at = f.at /\ kept.conn = f.conn /\ kept.todo = Tail(f.todo)
            /\ kept.putBack = Append(f.putBack, next)
        BY <2>1 DEF Frame
      <4>4. kept \in OwnFrame(l)
        BY <2>1, <2>2, <2>3, <3>1, <4>1, <4>2, <4>3 DEF OwnFrame
      <4>5. Append(Front(stack[l]), kept) \in Seq(OwnFrame(l))
        BY <2>1, <4>4, AppendFacts
      <4>6. stack' = [stack EXCEPT ![l] = Append(Front(stack[l]), kept)]
        BY <1>10, <3>1 DEF DispatchNext
      <4>7. QED BY <4>5, <4>6, <1>d
    <3>2. CASE f.conn \in {NoEnd, next.conn}
      <4>1. dispatchMessage(l, next.conn, next.msg, Append(Front(stack[l]), taken))
        BY <1>10, <3>2 DEF DispatchNext
      <4>2. Append(Front(stack[l]), taken) \in Seq(OwnFrame(l))
        BY <2>1, <2>7, AppendFacts
      <4>3. QED BY <2>4, <4>1, <4>2, DispatchOwn DEF Stacks
    <3>3. QED BY <3>1, <3>2
  <2>9. toDispatch' = toDispatch /\ functions' = functions
    BY <1>10 DEF DispatchNext
  <2>10. QED BY <2>8, <2>9, <1>b, <1>c, <1>0
<1>11. ASSUME NEW l \in RunLoops, EndDispatchMessages(l) PROVE OwnConnections'
  <2>1. Top(l) \in OwnFrame(l) /\ Front(stack[l]) \in Seq(OwnFrame(l)) /\ toDispatch[l] \in Seq(OwnItem(l))
    BY <1>11, OwnTop DEF EndDispatchMessages, At, OwnConnections
  <2>2. Top(l).putBack \in Seq(OwnItem(l))
    <3>1. Top(l).putBack \in Seq({x \in OwnItem(l) : x.conn # Top(l).conn})
      BY <2>1 DEF OwnFrame
    <3>2. QED BY <3>1
  <2>3. toDispatch[l] \o Top(l).putBack \in Seq(OwnItem(l))
    BY <2>1, <2>2, ConcatFacts
  <2>4. Stacks /\ Vectors
    BY <1>11, <2>1, <2>3, <1>d, <1>e DEF EndDispatchMessages
  <2>5. functions' = functions
    BY <1>11 DEF EndDispatchMessages
  <2>6. QED BY <2>4, <2>5, <1>c, <1>0
<1>12. ASSUME NEW l \in RunLoops, NEW e, PopPendingReply(l, e) PROVE OwnConnections'
  <2>1. Front(stack[l]) \in Seq(OwnFrame(l))
    BY FrontType DEF OwnConnections
  <2>2. Stacks
    BY <1>12, <2>1, <1>d DEF PopPendingReply
  <2>3. toDispatch' = toDispatch /\ functions' = functions
    BY <1>12 DEF PopPendingReply
  <2>4. QED BY <2>2, <2>3, <1>b, <1>c, <1>0
<1>13. ASSUME NEW l \in RunLoops, ReturnReply(l) \/ GiveUp(l) \/ TimeOut(l) PROVE OwnConnections'
  BY <1>12, <1>13, <1>2 DEF ReturnReply, GiveUp, TimeOut, SyncSendFails
<1>14. ASSUME NEW l \in RunLoops, NEW at \in {"check", "sleep"}, At(l, {"check", "sleep"})
       PROVE  [Top(l) EXCEPT !.at = at] \in OwnFrame(l) /\ Front(stack[l]) \in Seq(OwnFrame(l))
  <2> DEFINE f == [Top(l) EXCEPT !.at = at]
  <2>1. Top(l) \in OwnFrame(l) /\ Front(stack[l]) \in Seq(OwnFrame(l)) /\ Top(l) \in Frame
    BY <1>14, OwnTop DEF At
  <2>2. f \in Frame
    BY <2>1 DEF Frame
  <2>3. /\ f.at = at /\ f.conn = Top(l).conn /\ f.msg = Top(l).msg /\ f.todo = Top(l).todo
        /\ f.putBack = Top(l).putBack /\ Top(l).at \in {"check", "sleep"}
    BY <2>1, <1>14 DEF Frame, At
  <2>4. QED BY <2>1, <2>2, <2>3 DEF OwnFrame
<1>15. ASSUME NEW l \in RunLoops, Sleep(l) PROVE OwnConnections'
  <2>1. [Top(l) EXCEPT !.at = "sleep"] \in OwnFrame(l) /\ Front(stack[l]) \in Seq(OwnFrame(l))
    BY <1>14, <1>15 DEF Sleep, At
  <2>2. Append(Front(stack[l]), [Top(l) EXCEPT !.at = "sleep"]) \in Seq(OwnFrame(l))
    BY <2>1, AppendFacts
  <2>3. Stacks
    BY <1>15, <2>2, <1>d DEF Sleep
  <2>4. toDispatch' = toDispatch /\ functions' = functions
    BY <1>15 DEF Sleep
  <2>5. QED BY <2>3, <2>4, <1>b, <1>c, <1>0
<1>16. ASSUME NEW l \in RunLoops, WakeUp(l) PROVE OwnConnections'
  <2>1. [Top(l) EXCEPT !.at = "check"] \in OwnFrame(l) /\ Front(stack[l]) \in Seq(OwnFrame(l))
    BY <1>14, <1>16 DEF WakeUp, At
  <2>2. NewFrame("swap", NoEnd, NoMessage) \in OwnFrame(l)
    BY NewFrameOwn, NoMessageType
  <2>3. Append(Append(Front(stack[l]), [Top(l) EXCEPT !.at = "check"]),
               NewFrame("swap", NoEnd, NoMessage)) \in Seq(OwnFrame(l))
    BY <2>1, <2>2, AppendFacts
  <2>4. Stacks
    BY <1>16, <2>3, <1>d DEF WakeUp
  <2>5. toDispatch' = toDispatch /\ functions' = functions
    BY <1>16 DEF WakeUp
  <2>6. QED BY <2>4, <2>5, <1>b, <1>c, <1>0
<1>17. ASSUME NEW e \in Ends, NEW fn \in {"dispatchOneMessage", "dispatchMessagesForConnection", "dispatchConnectionDidClose"}
       PROVE  /\ Append(functions[LoopOf[e]], [fn |-> fn, conn |-> e]) \in Seq(OwnFunction(LoopOf[e]))
              /\ LoopOf[e] \in RunLoops /\ functions[LoopOf[e]] \in Seq(OwnFunction(LoopOf[e]))
  <2>1. [fn |-> fn, conn |-> e] \in OwnFunction(LoopOf[e]) /\ LoopOf[e] \in RunLoops
    BY LoopAssumption DEF OwnFunction, Function
  <2>2. QED BY <2>1, AppendFacts DEF OwnConnections
<1>18. ASSUME NEW e \in Ends, ReceiveFlagged(e) PROVE OwnConnections'
  <2> DEFINE l == LoopOf[e]
  <2>1. WithDispatch(l, e) \in Seq(OwnFunction(l)) /\ l \in RunLoops
    BY <1>17 DEF WithDispatch
  <2>2. Functions
    BY <1>18, <2>1, <1>f DEF ReceiveFlagged
  <2>3. Append(toDispatch[l], [conn |-> e, msg |-> Head(wire[e])]) \in Seq(OwnItem(l))
    <3>1. Head(wire[e]) \in Message
      BY <1>18, TailFacts DEF ReceiveFlagged, Receive, Types, QueueTypes
    <3>2. [conn |-> e, msg |-> Head(wire[e])] \in OwnItem(l)
      BY <3>1 DEF OwnItem, ConnectionAndMessage
    <3>3. QED BY <2>1, <3>2, AppendFacts DEF OwnConnections
  <2>4. Vectors
    BY <1>18, <2>1, <2>3, <1>e DEF ReceiveFlagged
  <2>5. stack' = stack
    BY <1>18 DEF ReceiveFlagged
  <2>6. QED BY <2>2, <2>4, <2>5, <1>a, <1>0
<1>19. ASSUME NEW e \in Ends, ReceiveUnflagged(e) \/ connectionDidClose(e) PROVE OwnConnections'
  <2>1. Functions
    BY <1>17, <1>19, <1>f DEF ReceiveUnflagged, connectionDidClose, WithClose
  <2>2. stack' = stack /\ toDispatch' = toDispatch
    BY <1>19 DEF ReceiveUnflagged, connectionDidClose
  <2>3. QED BY <2>1, <2>2, <1>a, <1>b, <1>0
<1>20. CASE UNCHANGED <<stack, toDispatch, functions>>
  BY <1>20, <1>a, <1>b, <1>c, <1>0
<1>21. ASSUME NEW e \in Ends, NEW ask \in BOOLEAN,
              \/ SendAsync(e, ask) \/ Invalidate(e) \/ sendOutgoingMessages(e) \/ PlatformInvalidate(e)
              \/ ReceiveReply(e) \/ ReceiveOtherReply(e) \/ wakeUpClientRunLoop(e)
       PROVE  OwnConnections'
  BY <1>20, <1>21 DEF SendAsync, Invalidate, sendOutgoingMessages, PlatformInvalidate, ReceiveReply,
     ReceiveOtherReply, wakeUpClientRunLoop
<1>22. ASSUME NEW t \in SecondaryThreads,
              SecondaryRegister(t) \/ SecondarySend(t) \/ SecondaryReturn(t)
       PROVE  OwnConnections'
  BY <1>20, <1>22 DEF SecondaryRegister, SecondarySend, SecondaryReturn
<1>23. CASE UNCHANGED vars
  BY <1>20, <1>23 DEF vars
<1>24. ASSUME NEW e \in Ends, SendSyncFails(e) PROVE OwnConnections'
  BY <1>2, <1>24, LoopAssumption DEF SendSyncFails
<1>25. QED
  BY <1>1, <1>2, <1>3, <1>4, <1>6, <1>7, <1>8, <1>9, <1>10, <1>11, <1>13, <1>15, <1>16, <1>18, <1>19,
     <1>21, <1>22, <1>23, <1>24
     DEF Next, ClientThread, performWork, ConnectionQueue, ClientDecides, Crash

-----------------------------------------------------------------------------
(* Counting the elements of a sequence that are in a set.                    *)
Positions(s, S) == {i \in DOMAIN s : s[i] \in S}
Count(s, S) == Cardinality(Positions(s, S))

(* A count is a number, of a finite set of positions.                        *)
LEMMA CountType ==
  ASSUME NEW T, NEW s \in Seq(T), NEW S
  PROVE  IsFiniteSet(Positions(s, S)) /\ Count(s, S) \in Nat
<1>1. Len(s) \in Nat /\ DOMAIN s = 1 .. Len(s)
  OBVIOUS
<1>2. IsFiniteSet(1 .. Len(s))
  BY <1>1, FS_Interval
<1>3. Positions(s, S) \subseteq 1 .. Len(s)
  BY <1>1 DEF Positions
<1>4. QED
  BY <1>2, <1>3, FS_Subset, FS_CardinalityType DEF Count

(* Append adds one to the count or leaves it.                                *)
LEMMA CountAppend ==
  ASSUME NEW T, NEW s \in Seq(T), NEW x \in T, NEW S
  PROVE  Count(Append(s, x), S) = IF x \in S THEN Count(s, S) + 1 ELSE Count(s, S)
<1>1. IsFiniteSet(Positions(s, S))
  BY CountType
<1>2. CASE x \in S
  <2>1. Positions(Append(s, x), S) = Positions(s, S) \cup {Len(s) + 1}
    BY <1>2, AppendFacts DEF Positions
  <2>2. Len(s) + 1 \notin Positions(s, S)
    BY AppendFacts DEF Positions
  <2>3. QED
    BY <1>1, <1>2, <2>1, <2>2, FS_AddElement DEF Count
<1>3. CASE x \notin S
  <2>1. Positions(Append(s, x), S) = Positions(s, S)
    BY <1>3, AppendFacts DEF Positions
  <2>2. QED
    BY <1>3, <2>1 DEF Count
<1>4. QED BY <1>2, <1>3

(* Front takes one off the count or leaves it.                               *)
LEMMA CountFront ==
  ASSUME NEW T, NEW s \in Seq(T), s # <<>>, NEW S
  PROVE  Count(s, S) = IF s[Len(s)] \in S THEN Count(Front(s), S) + 1 ELSE Count(Front(s), S)
<1>1. /\ Front(s) \in Seq(T) /\ s[Len(s)] \in T /\ Len(Front(s)) = Len(s) - 1
      /\ Len(s) \in Nat /\ Len(s) > 0 /\ \A i \in 1 .. Len(s) - 1 : Front(s)[i] = s[i]
  BY FrontFacts
<1>2. s = Append(Front(s), s[Len(s)])
  <2> DEFINE t == Append(Front(s), s[Len(s)])
  <2>1. t \in Seq(T) /\ Len(t) = Len(s)
    BY <1>1, AppendFacts
  <2>2. \A i \in 1 .. Len(s) : t[i] = s[i]
    BY <1>1, AppendFacts
  <2>3. QED BY <2>1, <2>2, SeqEqual
<1>3. Count(Append(Front(s), s[Len(s)]), S) =
      IF s[Len(s)] \in S THEN Count(Front(s), S) + 1 ELSE Count(Front(s), S)
  BY <1>1, CountAppend
<1>4. QED BY <1>2, <1>3

(* Nothing is counted in the empty sequence.                                 *)
LEMMA CountEmpty == \A S : Count(<<>>, S) = 0
<1>1. \A S : Positions(<<>>, S) = {}
  BY EmptyFacts DEF Positions
<1>2. QED BY <1>1, FS_EmptySet DEF Count

-----------------------------------------------------------------------------
(* marked[e] counts the handlers of marked messages of e on the stack.       *)
MarkedFrame(e) == {f \in Frame : f.at = "handle" /\ f.conn = e /\ f.msg.flagged}

MarkedIsCount == \A e \in Ends : marked[e] = Count(stack[LoopOf[e]], MarkedFrame(e))

(* The count of MarkedCountsHandlers in terms of Count.                      *)
LEMMA MarkedIsCountIff == Types => (MarkedIsCount <=> MarkedCountsHandlers)
<1> SUFFICES ASSUME Types PROVE MarkedIsCount <=> MarkedCountsHandlers
  OBVIOUS
<1>1. ASSUME NEW e \in Ends
      PROVE  Positions(stack[LoopOf[e]], MarkedFrame(e)) =
             {i \in DOMAIN stack[LoopOf[e]] :
                 LET f == stack[LoopOf[e]][i]
                 IN  f.at = "handle" /\ f.conn = e /\ f.msg.flagged}
  <2>1. stack[LoopOf[e]] \in Seq(Frame)
    BY LoopAssumption DEF Types, LoopTypes
  <2>2. \A i \in DOMAIN stack[LoopOf[e]] : stack[LoopOf[e]][i] \in Frame
    BY <2>1
  <2>3. QED
    BY <2>2 DEF Positions, MarkedFrame
<1>2. QED
  BY <1>1 DEF MarkedIsCount, MarkedCountsHandlers, Count

(* A frame that is no handler is pushed: the count stays.                    *)
LEMMA PushOther ==
  ASSUME NEW s \in Seq(Frame), NEW f \in Frame, f.at # "handle", NEW e
  PROVE  Count(Append(s, f), MarkedFrame(e)) = Count(s, MarkedFrame(e))
BY CountAppend DEF MarkedFrame

(* A frame that is no handler is popped: the count stays.                    *)
LEMMA PopOther ==
  ASSUME NEW s \in Seq(Frame), s # <<>>, s[Len(s)].at # "handle", NEW e
  PROVE  Count(Front(s), MarkedFrame(e)) = Count(s, MarkedFrame(e))
BY CountFront DEF MarkedFrame

(* dispatchMessage() counts the handler it enters.                           *)
LEMMA DispatchCounts ==
  ASSUME Types, MarkedIsCount, NEW l \in RunLoops, NEW e \in Ends, LoopOf[e] = l, NEW m \in Message,
         NEW below \in Seq(Frame), dispatchMessage(l, e, m, below),
         \A d \in Ends : Count(below, MarkedFrame(d)) = Count(stack[l], MarkedFrame(d))
  PROVE  MarkedIsCount'
<1> SUFFICES ASSUME NEW d \in Ends PROVE marked'[d] = Count(stack'[LoopOf[d]], MarkedFrame(d))
  BY DEF MarkedIsCount
<1>1. stack \in [RunLoops -> Seq(Frame)] /\ marked \in [Ends -> Int] /\ LoopOf[d] \in RunLoops
  BY LoopAssumption DEF Types, LoopTypes, CountTypes
<1>2. marked[d] = Count(stack[LoopOf[d]], MarkedFrame(d))
  BY DEF MarkedIsCount
<1>3. CASE ~client[e]
  <2>1. stack' = [stack EXCEPT ![l] = below] /\ marked' = marked
    BY <1>3 DEF dispatchMessage
  <2>2. QED BY <1>1, <1>2, <2>1
<1>4. CASE client[e]
  <2> DEFINE f == NewFrame("handle", e, m)
             above == Append(below, f)
  <2>1. stack' = [stack EXCEPT ![l] = above] /\ marked' = [marked EXCEPT ![e] = IF m.flagged THEN @ + 1 ELSE @]
    BY <1>4 DEF dispatchMessage, EnterMarked
  <2>2. f \in Frame /\ f.at = "handle" /\ f.conn = e /\ f.msg = m
    BY NewFrameType DEF NewFrame
  <2>3. f \in MarkedFrame(d) <=> d = e /\ m.flagged
    BY <2>2 DEF MarkedFrame
  <2>4. Count(above, MarkedFrame(d)) =
        IF f \in MarkedFrame(d) THEN Count(below, MarkedFrame(d)) + 1 ELSE Count(below, MarkedFrame(d))
    BY <2>2, CountAppend
  <2> HIDE DEF f, above
  <2>5. CASE LoopOf[d] # l
    <3>1. d # e
      BY <2>5
    <3>2. QED BY <1>1, <1>2, <2>1, <2>5, <3>1
  <2>6. CASE LoopOf[d] = l
    <3>1. stack'[LoopOf[d]] = above
      BY <1>1, <2>1, <2>6
    <3>2. CASE d = e /\ m.flagged
      <4>1. marked'[d] = marked[d] + 1
        BY <1>1, <2>1, <3>2
      <4>2. QED BY <1>2, <2>3, <2>4, <2>6, <3>1, <3>2, <4>1
    <3>3. CASE ~(d = e /\ m.flagged)
      <4>1. marked'[d] = marked[d]
        BY <1>1, <2>1, <3>3
      <4>2. QED BY <1>2, <2>3, <2>4, <2>6, <3>1, <3>3, <4>1
    <3>4. QED BY <3>2, <3>3
  <2>7. QED BY <2>5, <2>6
<1>5. QED BY <1>3, <1>4

(* Every step keeps the counter and the handlers on the stack together.      *)
LEMMA MarkedStep == Types /\ OwnConnections /\ MarkedIsCount /\ [Next]_vars => MarkedIsCount'
<1> SUFFICES ASSUME Types, OwnConnections, MarkedIsCount, [Next]_vars PROVE MarkedIsCount'
  OBVIOUS
<1> USE DEF endVars, queueVars, loopVars
<1>0. stack \in [RunLoops -> Seq(Frame)] /\ marked \in [Ends -> Int] /\ \A d \in Ends : LoopOf[d] \in RunLoops
  BY LoopAssumption DEF Types, LoopTypes, CountTypes
<1>a. ASSUME NEW l \in RunLoops, NEW s, stack' = [stack EXCEPT ![l] = s], marked' = marked,
             \A d \in Ends : Count(s, MarkedFrame(d)) = Count(stack[l], MarkedFrame(d))
      PROVE  MarkedIsCount'
  BY <1>a, <1>0 DEF MarkedIsCount
<1>b. stack' = stack /\ marked' = marked => MarkedIsCount'
  BY DEF MarkedIsCount
<1>c. ASSUME NEW l \in RunLoops, stack[l] # <<>>, Top(l).at # "handle"
      PROVE  /\ Front(stack[l]) \in Seq(Frame) /\ Top(l) \in Frame
             /\ \A d \in Ends : Count(Front(stack[l]), MarkedFrame(d)) = Count(stack[l], MarkedFrame(d))
  BY <1>c, <1>0, FrontFacts, PopOther DEF Top
<1>1. ASSUME NEW e \in Ends, SendSync(e) PROVE MarkedIsCount'
  <2> DEFINE l == LoopOf[e]
             m == [type |-> "sync", id |-> syncRequestID[e] + 1,
                   serial |-> serial[e] + 1, flagged |-> Flagged(e)]
             f == NewFrame("check", e, m)
             g == NewFrame("swap", NoEnd, NoMessage)
  <2>1. m \in Message
    BY DEF Message, Flagged, Types, CountTypes
  <2>2. f \in Frame /\ g \in Frame /\ f.at # "handle" /\ g.at # "handle"
    <3>1. f \in Frame /\ g \in Frame
      BY <2>1, NewFrameType, NoMessageType
    <3>2. QED BY <3>1 DEF NewFrame
  <2>3. l \in RunLoops /\ stack[l] \in Seq(Frame) /\ Append(stack[l], f) \in Seq(Frame)
    BY <1>0, <2>2, AppendFacts
  <2>4. \A d \in Ends : Count(Append(Append(stack[l], f), g), MarkedFrame(d)) = Count(stack[l], MarkedFrame(d))
    BY <2>2, <2>3, PushOther
  <2>5. stack' = [stack EXCEPT ![l] = Append(Append(stack[l], f), g)] /\ marked' = marked
    BY <1>1 DEF SendSync
  <2>6. QED BY <1>a, <2>3, <2>4, <2>5
<1>2. ASSUME NEW l \in RunLoops, ProcessExits(l) PROVE MarkedIsCount'
  <2> SUFFICES ASSUME NEW d \in Ends PROVE marked'[d] = Count(stack'[LoopOf[d]], MarkedFrame(d))
    BY DEF MarkedIsCount
  <2>1. /\ stack' = [stack EXCEPT ![l] = <<>>]
        /\ marked' = [e \in Ends |-> IF LoopOf[e] = l THEN 0 ELSE marked[e]]
    BY <1>2 DEF ProcessExits
  <2>2. CASE LoopOf[d] = l
    BY <1>0, <2>1, <2>2, CountEmpty
  <2>3. CASE LoopOf[d] # l
    BY <1>0, <2>1, <2>3 DEF MarkedIsCount
  <2>4. QED BY <2>2, <2>3
<1>3. ASSUME NEW l \in RunLoops, HandlerReturns(l) PROVE MarkedIsCount'
  <2> DEFINE f == Top(l)
             e == f.conn
             m == f.msg
  <2>1. /\ f \in Frame /\ stack[l] # <<>> /\ stack[l] \in Seq(Frame) /\ Front(stack[l]) \in Seq(Frame)
        /\ f = stack[l][Len(stack[l])] /\ f.at = "handle" /\ e \in Ends /\ LoopOf[e] = l
    BY <1>0, <1>3, OwnTop, FrontFacts DEF HandlerReturns, At, Top
  <2>2. /\ marked' = [marked EXCEPT ![e] = IF m.flagged THEN @ - 1 ELSE @]
        /\ stack' = [stack EXCEPT ![l] = Front(stack[l])]
    BY <1>3 DEF HandlerReturns, LeaveMarked
  <2> SUFFICES ASSUME NEW d \in Ends PROVE marked'[d] = Count(stack'[LoopOf[d]], MarkedFrame(d))
    BY DEF MarkedIsCount
  <2>3. marked[d] = Count(stack[LoopOf[d]], MarkedFrame(d))
    BY DEF MarkedIsCount
  <2>4. f \in MarkedFrame(d) <=> d = e /\ m.flagged
    BY <2>1 DEF MarkedFrame
  <2>5. Count(stack[l], MarkedFrame(d)) =
        IF f \in MarkedFrame(d) THEN Count(Front(stack[l]), MarkedFrame(d)) + 1 ELSE Count(Front(stack[l]), MarkedFrame(d))
    BY <2>1, CountFront
  <2>6. Count(Front(stack[l]), MarkedFrame(d)) \in Nat
    BY <2>1, CountType
  <2> HIDE DEF f
  <2>7. CASE LoopOf[d] # l
    <3>1. d # e
      BY <2>1, <2>7
    <3>2. QED BY <1>0, <2>2, <2>3, <2>7, <3>1
  <2>8. CASE LoopOf[d] = l
    <3>1. stack'[LoopOf[d]] = Front(stack[l])
      BY <1>0, <2>2, <2>8
    <3>2. CASE d = e /\ m.flagged
      <4>1. marked'[d] = marked[d] - 1
        BY <1>0, <2>2, <3>2
      <4>2. QED BY <2>3, <2>4, <2>5, <2>6, <2>8, <3>1, <3>2, <4>1
    <3>3. CASE ~(d = e /\ m.flagged)
      <4>1. marked'[d] = marked[d]
        BY <1>0, <2>2, <3>3
      <4>2. QED BY <2>3, <2>4, <2>5, <2>8, <3>1, <3>3, <4>1
    <3>4. QED BY <3>2, <3>3
  <2>9. QED BY <2>7, <2>8
<1>4. ASSUME NEW l \in RunLoops, ExitNestedLoop(l) \/ EndDispatchMessages(l) PROVE MarkedIsCount'
  <2>1. stack[l] # <<>> /\ Top(l).at # "handle"
    BY <1>4 DEF ExitNestedLoop, EndDispatchMessages, At
  <2>2. stack' = [stack EXCEPT ![l] = Front(stack[l])] /\ marked' = marked
    BY <1>4 DEF ExitNestedLoop, EndDispatchMessages
  <2>3. QED BY <1>a, <1>c, <2>1, <2>2
<1>5. ASSUME NEW l \in RunLoops, NEW e \in Ends \cup {NoEnd}, NEW at \in {"swap", "nested"},
             stack' = [stack EXCEPT ![l] = Append(stack[l], NewFrame(at, e, NoMessage))], marked' = marked
      PROVE  MarkedIsCount'
  <2>1. NewFrame(at, e, NoMessage) \in Frame /\ NewFrame(at, e, NoMessage).at # "handle"
    <3>1. NewFrame(at, e, NoMessage) \in Frame
      BY NewFrameType, NoMessageType
    <3>2. QED BY <3>1 DEF NewFrame
  <2>2. \A d \in Ends : Count(Append(stack[l], NewFrame(at, e, NoMessage)), MarkedFrame(d)) = Count(stack[l], MarkedFrame(d))
    BY <1>0, <2>1, PushOther
  <2>3. QED BY <1>a, <1>5, <2>2
<1>6. ASSUME NEW l \in RunLoops, EnterNestedLoop(l) \/ dispatchMessagesForConnection(l) PROVE MarkedIsCount'
  <2>1. CASE EnterNestedLoop(l)
    BY <1>5, <2>1 DEF EnterNestedLoop
  <2>2. CASE dispatchMessagesForConnection(l)
    <3>1. Head(functions[l]) \in Function
      BY <2>2, TailFacts DEF dispatchMessagesForConnection, NextFunction, Types, LoopTypes
    <3>2. Head(functions[l]).conn \in Ends
      BY <3>1 DEF Function
    <3>3. QED BY <1>5, <2>2, <3>2 DEF dispatchMessagesForConnection
  <2>3. QED BY <1>6, <2>1, <2>2
<1>7. ASSUME NEW l \in RunLoops, dispatchOneMessage(l) PROVE MarkedIsCount'
  <2> DEFINE e == Head(functions[l]).conn
  <2>1. Head(functions[l]) \in OwnFunction(l)
    BY <1>7, TailFacts DEF dispatchOneMessage, NextFunction, OwnConnections
  <2>2. e \in Ends /\ LoopOf[e] = l
    BY <2>1 DEF OwnFunction, Function
  <2>3. CASE incoming[e] = <<>>
    BY <1>7, <1>b, <2>3 DEF dispatchOneMessage
  <2>4. CASE incoming[e] # <<>>
    <3>1. Head(incoming[e]) \in Message
      BY <2>2, <2>4, TailFacts DEF Types, QueueTypes
    <3>2. dispatchMessage(l, e, Head(incoming[e]), stack[l])
      BY <1>7, <2>4 DEF dispatchOneMessage
    <3>3. QED BY <1>0, <2>2, <3>1, <3>2, DispatchCounts
  <2>5. QED BY <2>3, <2>4
<1>8. ASSUME NEW l \in RunLoops, stack[l] # <<>>, Top(l).at # "handle", NEW g \in Frame, g.at # "handle"
      PROVE  /\ Append(Front(stack[l]), g) \in Seq(Frame)
             /\ \A d \in Ends : Count(Append(Front(stack[l]), g), MarkedFrame(d)) = Count(stack[l], MarkedFrame(d))
  BY <1>c, <1>8, PushOther, AppendFacts
<1>9. ASSUME NEW l \in RunLoops, SwapMessages(l) PROVE MarkedIsCount'
  <2> DEFINE g == [Top(l) EXCEPT !.at = "dispatch", !.todo = toDispatch[l]]
  <2>1. Top(l) \in Frame /\ toDispatch[l] \in Seq(ConnectionAndMessage) /\ stack[l] # <<>> /\ Top(l).at # "handle"
    BY <1>9, OwnTop DEF SwapMessages, At, Types, LoopTypes
  <2>2. g \in Frame /\ g.at # "handle"
    BY <2>1 DEF Frame
  <2>3. stack' = [stack EXCEPT ![l] = Append(Front(stack[l]), g)] /\ marked' = marked
    BY <1>9 DEF SwapMessages
  <2> HIDE DEF g
  <2>4. \A d \in Ends : Count(Append(Front(stack[l]), g), MarkedFrame(d)) = Count(stack[l], MarkedFrame(d))
    BY <1>8, <2>1, <2>2
  <2>5. QED BY <1>a, <2>3, <2>4
<1>10. ASSUME NEW l \in RunLoops, DispatchNext(l) PROVE MarkedIsCount'
  <2> DEFINE f == Top(l)
             next == Head(f.todo)
             kept == [f EXCEPT !.todo = Tail(f.todo), !.putBack = Append(f.putBack, next)]
             taken == [f EXCEPT !.todo = Tail(f.todo)]
  <2>1. /\ f \in OwnFrame(l) /\ f \in Frame /\ stack[l] # <<>> /\ f.at = "dispatch" /\ f.todo # <<>>
        /\ f.todo \in Seq(ConnectionAndMessage) /\ f.putBack \in Seq(ConnectionAndMessage)
    <3>1. f \in OwnFrame(l) /\ f \in Frame /\ stack[l] # <<>> /\ f.at = "dispatch" /\ f.todo # <<>>
      BY <1>10, OwnTop DEF DispatchNext, At
    <3>2. QED BY <3>1 DEF Frame
  <2>2. next \in OwnItem(l) /\ next \in ConnectionAndMessage /\ Tail(f.todo) \in Seq(ConnectionAndMessage)
    <3>1. f.todo \in Seq(OwnItem(l))
      BY <2>1 DEF OwnFrame
    <3>2. QED BY <2>1, <3>1, TailFacts
  <2>3. next.conn \in Ends /\ next.msg \in Message /\ LoopOf[next.conn] = l
    BY <2>2 DEF OwnItem, ConnectionAndMessage
  <2>4. CASE f.conn \notin {NoEnd, next.conn}
    <3>1. Append(f.putBack, next) \in Seq(ConnectionAndMessage)
      BY <2>1, <2>2, AppendFacts
    <3>2. kept \in Frame /\ kept.at # "handle"
      BY <2>1, <2>2, <3>1 DEF Frame
    <3>3. stack' = [stack EXCEPT ![l] = Append(Front(stack[l]), kept)] /\ marked' = marked
      BY <1>10, <2>4 DEF DispatchNext
    <3>4. Top(l).at # "handle"
      BY <2>1
    <3> HIDE DEF kept
    <3>5. \A d \in Ends : Count(Append(Front(stack[l]), kept), MarkedFrame(d)) = Count(stack[l], MarkedFrame(d))
      BY <1>8, <2>1, <3>2, <3>4
    <3>6. QED BY <1>a, <3>3, <3>5
  <2>5. CASE f.conn \in {NoEnd, next.conn}
    <3>1. taken \in Frame /\ taken.at # "handle"
      BY <2>1, <2>2 DEF Frame
    <3>2. dispatchMessage(l, next.conn, next.msg, Append(Front(stack[l]), taken))
      BY <1>10, <2>5 DEF DispatchNext
    <3>3. Top(l).at # "handle"
      BY <2>1
    <3>4. QED BY <1>8, <2>1, <2>3, <3>1, <3>2, <3>3, DispatchCounts
  <2>6. QED BY <2>4, <2>5
<1>11. ASSUME NEW l \in RunLoops, ReturnReply(l) \/ GiveUp(l) \/ TimeOut(l) PROVE MarkedIsCount'
  <2>1. stack[l] # <<>> /\ Top(l).at # "handle"
    BY <1>11 DEF ReturnReply, GiveUp, TimeOut, At
  <2>2. ASSUME NEW e, PopPendingReply(l, e) PROVE MarkedIsCount'
    <3>1. stack' = [stack EXCEPT ![l] = Front(stack[l])] /\ marked' = marked
      BY <2>2 DEF PopPendingReply
    <3>2. QED BY <1>a, <1>c, <2>1, <3>1
  <2>3. QED
    BY <1>2, <1>11, <2>2 DEF ReturnReply, GiveUp, TimeOut, SyncSendFails
<1>12. ASSUME NEW l \in RunLoops, Sleep(l) PROVE MarkedIsCount'
  <2> DEFINE g == [Top(l) EXCEPT !.at = "sleep"]
  <2>1. Top(l) \in Frame /\ stack[l] # <<>> /\ Top(l).at # "handle"
    BY <1>12, OwnTop DEF Sleep, At
  <2>2. g \in Frame /\ g.at # "handle"
    BY <2>1 DEF Frame
  <2>3. stack' = [stack EXCEPT ![l] = Append(Front(stack[l]), g)] /\ marked' = marked
    BY <1>12 DEF Sleep
  <2> HIDE DEF g
  <2>4. \A d \in Ends : Count(Append(Front(stack[l]), g), MarkedFrame(d)) = Count(stack[l], MarkedFrame(d))
    BY <1>8, <2>1, <2>2
  <2>5. QED BY <1>a, <2>3, <2>4
<1>13. ASSUME NEW l \in RunLoops, WakeUp(l) PROVE MarkedIsCount'
  <2> DEFINE g == [Top(l) EXCEPT !.at = "check"]
             h == NewFrame("swap", NoEnd, NoMessage)
             s == Append(Front(stack[l]), g)
  <2>1. Top(l) \in Frame /\ stack[l] # <<>> /\ Top(l).at # "handle"
    BY <1>13, OwnTop DEF WakeUp, At
  <2>2. g \in Frame /\ g.at # "handle"
    BY <2>1 DEF Frame
  <2>3. h \in Frame /\ h.at # "handle"
    <3>1. h \in Frame
      BY NewFrameType, NoMessageType
    <3>2. QED BY <3>1 DEF NewFrame
  <2>4. stack' = [stack EXCEPT ![l] = Append(s, h)] /\ marked' = marked
    BY <1>13 DEF WakeUp
  <2>5. s \in Seq(Frame) /\ \A d \in Ends : Count(s, MarkedFrame(d)) = Count(stack[l], MarkedFrame(d))
    BY <1>8, <2>1, <2>2
  <2> HIDE DEF s, h
  <2>6. \A d \in Ends : Count(Append(s, h), MarkedFrame(d)) = Count(s, MarkedFrame(d))
    BY <2>3, <2>5, PushOther
  <2>7. QED BY <1>a, <2>4, <2>5, <2>6
<1>14. ASSUME NEW e \in Ends, NEW ask \in BOOLEAN,
              \/ SendAsync(e, ask) \/ Invalidate(e) \/ sendOutgoingMessages(e) \/ PlatformInvalidate(e)
              \/ ReceiveReply(e) \/ ReceiveOtherReply(e) \/ wakeUpClientRunLoop(e)
              \/ ReceiveFlagged(e) \/ ReceiveUnflagged(e) \/ connectionDidClose(e)
       PROVE  MarkedIsCount'
  BY <1>b, <1>14 DEF SendAsync, Invalidate, sendOutgoingMessages, PlatformInvalidate, ReceiveReply,
     ReceiveOtherReply, wakeUpClientRunLoop, ReceiveFlagged, ReceiveUnflagged, connectionDidClose
<1>15. ASSUME NEW t \in SecondaryThreads,
              SecondaryRegister(t) \/ SecondarySend(t) \/ SecondaryReturn(t)
       PROVE  MarkedIsCount'
  BY <1>b, <1>15 DEF SecondaryRegister, SecondarySend, SecondaryReturn
<1>16. CASE UNCHANGED vars
  BY <1>b, <1>16 DEF vars
<1>17. ASSUME NEW e \in Ends, SendSyncFails(e) PROVE MarkedIsCount'
  BY <1>2, <1>17, LoopAssumption DEF SendSyncFails
<1>18. ASSUME NEW l \in RunLoops, dispatchConnectionDidClose(l) PROVE MarkedIsCount'
  BY <1>b, <1>18 DEF dispatchConnectionDidClose
<1>19. QED
  BY <1>1, <1>2, <1>3, <1>4, <1>6, <1>7, <1>9, <1>10, <1>11, <1>12, <1>13, <1>14, <1>15, <1>16, <1>17, <1>18
     DEF Next, ClientThread, performWork, ConnectionQueue, ClientDecides, Crash

-----------------------------------------------------------------------------
(* The initial state.                                                        *)
LEMMA InitTypes == Init => Types /\ OwnConnections /\ MarkedIsCount
<1> SUFFICES ASSUME Init PROVE Types /\ OwnConnections /\ MarkedIsCount
  OBVIOUS
<1> USE EmptyFacts, LoopAssumption
<1>1. FlagTypes /\ CountTypes
  BY DEF Init, FlagTypes, CountTypes
<1>2. QueueTypes /\ LoopTypes
  BY DEF Init, QueueTypes, LoopTypes
<1>3. HistoryTypes
  BY DEF Init, HistoryTypes, Idle, Wait
<1>4. OwnConnections
  BY DEF Init, OwnConnections
<1>5. MarkedIsCount
  BY CountEmpty DEF Init, MarkedIsCount
<1>6. QED BY <1>1, <1>2, <1>3, <1>4, <1>5 DEF Types

(* The invariant of the types, the connections and the counter.              *)
LEMMA MarkedInvariant == Spec => [](Types /\ OwnConnections /\ MarkedIsCount)
<1>1. Types /\ OwnConnections /\ MarkedIsCount /\ [Next]_vars => (Types /\ OwnConnections /\ MarkedIsCount)'
  BY TypesStep, OwnStep, MarkedStep
<1>2. QED
  BY InitTypes, <1>1, PTL DEF Spec

(* Every variable has the type of its C++ counterpart; the counter of marked *)
(* messages being dispatched, decremented without a check, never underflows. *)
THEOREM TypeCorrect == Spec => []TypeOK
<1>1. Types /\ OwnConnections /\ MarkedIsCount => TypeOK
  <2> SUFFICES ASSUME Types, MarkedIsCount PROVE TypeOK
    OBVIOUS
  <2>1. marked \in [Ends -> Nat]
    <3>1. \A e \in Ends : marked[e] \in Nat
      BY CountType, LoopAssumption DEF MarkedIsCount, Types, LoopTypes
    <3>2. QED BY <3>1 DEF Types, CountTypes
  <2>2. QED
    BY <2>1 DEF TypeOK, Types, FlagTypes, CountTypes, QueueTypes, LoopTypes, HistoryTypes,
       PendingReply, Wait, Handled, Queued
<1>2. QED
  BY <1>1, MarkedInvariant, PTL

(* The counter that decides the flag of what an end sends is the number of   *)
(* marked messages whose handlers are on the client thread's stack, through  *)
(* nested waits, invalidations and nested loops of any depth.                *)
THEOREM MarkedCorrect == Spec => []MarkedCountsHandlers
<1>1. Types /\ OwnConnections /\ MarkedIsCount => MarkedCountsHandlers
  BY MarkedIsCountIff
<1>2. QED
  BY <1>1, MarkedInvariant, PTL

-----------------------------------------------------------------------------
(* Waits and pending replies.                                                *)

(* Two stacks have the same frames of waitForSyncReply in the same places.   *)
SameWaits(s, t) ==
    /\ \A k \in DOMAIN s : Waits(s[k]) =>
           k \in DOMAIN t /\ Waits(t[k]) /\ t[k].conn = s[k].conn /\ t[k].msg = s[k].msg
    /\ \A k \in DOMAIN t : Waits(t[k]) => k \in DOMAIN s /\ Waits(s[k])

(* Keeping the waits is transitive.                                          *)
LEMMA SameWaitsTransitive ==
  ASSUME NEW s, NEW t, NEW u, SameWaits(s, t), SameWaits(t, u)
  PROVE  SameWaits(s, u)
BY DEF SameWaits

(* Pushing a frame that does not wait keeps the waits.                       *)
LEMMA PushKeepsWaits ==
  ASSUME NEW s \in Seq(Frame), NEW f \in Frame, ~Waits(f)
  PROVE  SameWaits(s, Append(s, f))
BY AppendFacts DEF SameWaits

(* Popping a frame that does not wait keeps the waits.                       *)
LEMMA PopKeepsWaits ==
  ASSUME NEW s \in Seq(Frame), s # <<>>, ~Waits(s[Len(s)])
  PROVE  SameWaits(s, Front(s))
BY FrontFacts, SMTT(30) DEF SameWaits

(* So does a wait that falls asleep or wakes up.                             *)
LEMMA TurnKeepsWaits ==
  ASSUME NEW s \in Seq(Frame), s # <<>>, NEW f \in Frame, Waits(s[Len(s)]), Waits(f),
         f.conn = s[Len(s)].conn, f.msg = s[Len(s)].msg
  PROVE  SameWaits(s, Append(Front(s), f))
<1>1. /\ Front(s) \in Seq(Frame) /\ Len(Front(s)) = Len(s) - 1 /\ Len(s) \in Nat /\ Len(s) > 0
      /\ DOMAIN s = 1 .. Len(s) /\ \A i \in 1 .. Len(s) - 1 : Front(s)[i] = s[i]
  BY FrontFacts
<1>2. /\ DOMAIN Append(Front(s), f) = 1 .. Len(s)
      /\ \A i \in 1 .. Len(s) - 1 : Append(Front(s), f)[i] = s[i]
      /\ Append(Front(s), f)[Len(s)] = f
  BY <1>1, AppendFacts
<1>3. QED
  BY <1>1, <1>2 DEF SameWaits

(* A step leaves the waits and the ids of the pending replies alone.         *)
KeepsWaits ==
    /\ \A l \in RunLoops : SameWaits(stack[l], stack'[l])
    /\ \A e \in Ends :
           /\ syncRequestID[e] <= syncRequestID'[e]
           /\ DOMAIN pending'[e] = DOMAIN pending[e]
           /\ \A j \in DOMAIN pending[e] : pending'[e][j].id = pending[e][j].id
    /\ pending' = pending \/ \E e \in Ends : ReceiveReply(e)

EndsWait(l) == At(l, {"check", "sleep"}) /\ PopPendingReply(l, Top(l).conn)

(* dispatchMessage() is no wait.                                             *)
LEMMA DispatchKeepsWaits ==
  ASSUME Types, NEW l \in RunLoops, NEW e \in Ends, NEW m \in Message,
         NEW below \in Seq(Frame), dispatchMessage(l, e, m, below), SameWaits(stack[l], below)
  PROVE  \A k \in RunLoops : SameWaits(stack[k], stack'[k])
<1> DEFINE f == NewFrame("handle", e, m)
<1>1. f \in Frame /\ ~Waits(f)
  <2>1. f \in Frame
    BY NewFrameType
  <2>2. QED BY <2>1 DEF NewFrame, Waits
<1>2. SameWaits(stack[l], Append(below, f))
  BY <1>1, PushKeepsWaits, SameWaitsTransitive
<1>3. stack' = [stack EXCEPT ![l] = below] \/ stack' = [stack EXCEPT ![l] = Append(below, f)]
  BY DEF dispatchMessage
<1>4. QED
  BY <1>2, <1>3 DEF Types, LoopTypes, SameWaits

(* What a step does to the waits.                                            *)
LEMMA WaitsStep ==
  ASSUME Types, OwnConnections, [Next]_vars
  PROVE  \/ KeepsWaits
         \/ \E e \in Ends : SendSync(e)
         \/ \E l \in RunLoops : EndsWait(l)
         \/ \E l \in RunLoops : ProcessExits(l)
<1> USE DEF endVars, queueVars, loopVars
<1>0. /\ stack \in [RunLoops -> Seq(Frame)] /\ \A d \in Ends : LoopOf[d] \in RunLoops
      /\ pending \in [Ends -> Seq(PendingReply)] /\ syncRequestID \in [Ends -> Nat]
  BY LoopAssumption DEF Types, LoopTypes, QueueTypes, CountTypes
<1>a. ASSUME \A l \in RunLoops : SameWaits(stack[l], stack'[l]), pending' = pending, syncRequestID' = syncRequestID
      PROVE  KeepsWaits
  BY <1>0, <1>a DEF KeepsWaits
<1>b. \A l \in RunLoops : SameWaits(stack[l], stack[l])
  BY DEF SameWaits
<1>c. ASSUME NEW l \in RunLoops, NEW s, stack' = [stack EXCEPT ![l] = s], SameWaits(stack[l], s)
      PROVE  \A k \in RunLoops : SameWaits(stack[k], stack'[k])
  BY <1>0, <1>b, <1>c
<1>2. ASSUME NEW t \in SecondaryThreads, SecondaryRegister(t) PROVE KeepsWaits
  <2>1. stack' = stack /\ pending' = pending
    BY <1>2 DEF SecondaryRegister
  <2>2. \A e \in Ends : syncRequestID[e] <= syncRequestID'[e]
    BY <1>0, <1>2 DEF SecondaryRegister
  <2>3. QED BY <1>b, <2>1, <2>2 DEF KeepsWaits
<1>3. ASSUME NEW l \in RunLoops, HandlerReturns(l) \/ ExitNestedLoop(l) \/ EndDispatchMessages(l) PROVE KeepsWaits
  <2>1. stack[l] # <<>> /\ stack[l] \in Seq(Frame) /\ ~Waits(stack[l][Len(stack[l])])
    BY <1>0, <1>3 DEF HandlerReturns, ExitNestedLoop, EndDispatchMessages, At, Top, Waits
  <2>2. /\ stack' = [stack EXCEPT ![l] = Front(stack[l])] /\ pending' = pending
        /\ syncRequestID' = syncRequestID
    BY <1>3 DEF HandlerReturns, ExitNestedLoop, EndDispatchMessages
  <2>3. SameWaits(stack[l], Front(stack[l]))
    BY <2>1, PopKeepsWaits
  <2>4. QED BY <1>a, <1>c, <2>2, <2>3
<1>4. ASSUME NEW l \in RunLoops, EnterNestedLoop(l) \/ dispatchMessagesForConnection(l) PROVE KeepsWaits
  <2>1. PICK f \in Frame : stack' = [stack EXCEPT ![l] = Append(stack[l], f)] /\ ~Waits(f)
    <3>1. CASE EnterNestedLoop(l)
      <4> DEFINE f == NewFrame("nested", NoEnd, NoMessage)
      <4>1. f \in Frame
        BY NewFrameType, NoMessageType
      <4>2. ~Waits(f)
        BY DEF NewFrame, Waits
      <4>3. QED BY <3>1, <4>1, <4>2 DEF EnterNestedLoop
    <3>2. CASE dispatchMessagesForConnection(l)
      <4> DEFINE e == Head(functions[l]).conn
                 f == NewFrame("swap", e, NoMessage)
      <4>1. Head(functions[l]) \in Function
        BY <3>2, TailFacts DEF dispatchMessagesForConnection, NextFunction, Types, LoopTypes
      <4>2. e \in Ends
        BY <4>1 DEF Function
      <4>3. f \in Frame
        BY <4>2, NewFrameType, NoMessageType
      <4>4. ~Waits(f)
        BY DEF NewFrame, Waits
      <4>5. QED BY <3>2, <4>3, <4>4 DEF dispatchMessagesForConnection
    <3>3. QED BY <1>4, <3>1, <3>2
  <2>2. pending' = pending /\ syncRequestID' = syncRequestID
    BY <1>4 DEF EnterNestedLoop, dispatchMessagesForConnection
  <2>3. QED BY <1>0, <1>a, <1>c, <2>1, <2>2, PushKeepsWaits
<1>5. ASSUME NEW l \in RunLoops, dispatchOneMessage(l) PROVE KeepsWaits
  <2> DEFINE e == Head(functions[l]).conn
  <2>1. Head(functions[l]) \in Function
    BY <1>5, TailFacts DEF dispatchOneMessage, NextFunction, Types, LoopTypes
  <2>2. e \in Ends
    BY <2>1 DEF Function
  <2>3. pending' = pending /\ syncRequestID' = syncRequestID
    BY <1>5 DEF dispatchOneMessage
  <2>4. CASE incoming[e] = <<>>
    <3>1. stack' = stack
      BY <1>5, <2>4 DEF dispatchOneMessage
    <3>2. QED BY <1>a, <1>b, <2>3, <3>1
  <2>5. CASE incoming[e] # <<>>
    <3>1. Head(incoming[e]) \in Message
      BY <2>2, <2>5, TailFacts DEF Types, QueueTypes
    <3>2. dispatchMessage(l, e, Head(incoming[e]), stack[l])
      BY <1>5, <2>5 DEF dispatchOneMessage
    <3>3. \A k \in RunLoops : SameWaits(stack[k], stack'[k])
      BY <1>0, <1>b, <2>2, <3>1, <3>2, DispatchKeepsWaits
    <3>4. QED BY <1>a, <2>3, <3>3
  <2>6. QED BY <2>4, <2>5
<1>6. ASSUME NEW l \in RunLoops, stack[l] # <<>>, ~Waits(Top(l)), NEW g \in Frame, ~Waits(g)
      PROVE  SameWaits(stack[l], Append(Front(stack[l]), g)) /\ Append(Front(stack[l]), g) \in Seq(Frame)
  <2>1. SameWaits(stack[l], Front(stack[l])) /\ Front(stack[l]) \in Seq(Frame)
    BY <1>0, <1>6, PopKeepsWaits, FrontFacts DEF Top
  <2>2. SameWaits(Front(stack[l]), Append(Front(stack[l]), g)) /\ Append(Front(stack[l]), g) \in Seq(Frame)
    BY <1>6, <2>1, PushKeepsWaits, AppendFacts
  <2>3. QED BY <2>1, <2>2, SameWaitsTransitive
<1>7. ASSUME NEW l \in RunLoops, SwapMessages(l) PROVE KeepsWaits
  <2> DEFINE g == [Top(l) EXCEPT !.at = "dispatch", !.todo = toDispatch[l]]
  <2>1. Top(l) \in Frame /\ toDispatch[l] \in Seq(ConnectionAndMessage) /\ stack[l] # <<>> /\ ~Waits(Top(l))
    BY <1>7, OwnTop DEF SwapMessages, At, Types, LoopTypes, Waits
  <2>2. g \in Frame /\ ~Waits(g)
    BY <2>1 DEF Frame, Waits
  <2>3. /\ stack' = [stack EXCEPT ![l] = Append(Front(stack[l]), g)] /\ pending' = pending
        /\ syncRequestID' = syncRequestID
    BY <1>7 DEF SwapMessages
  <2> HIDE DEF g
  <2>4. SameWaits(stack[l], Append(Front(stack[l]), g))
    BY <1>6, <2>1, <2>2
  <2>5. QED BY <1>a, <1>c, <2>3, <2>4
<1>8. ASSUME NEW l \in RunLoops, DispatchNext(l) PROVE KeepsWaits
  <2> DEFINE f == Top(l)
             next == Head(f.todo)
             kept == [f EXCEPT !.todo = Tail(f.todo), !.putBack = Append(f.putBack, next)]
             taken == [f EXCEPT !.todo = Tail(f.todo)]
  <2>1. /\ f \in Frame /\ stack[l] # <<>> /\ f.at = "dispatch" /\ f.todo # <<>> /\ ~Waits(Top(l))
        /\ f.todo \in Seq(ConnectionAndMessage) /\ f.putBack \in Seq(ConnectionAndMessage)
    <3>1. f \in Frame /\ stack[l] # <<>> /\ f.at = "dispatch" /\ f.todo # <<>>
      BY <1>8, OwnTop DEF DispatchNext, At
    <3>2. QED BY <3>1 DEF Frame, Waits
  <2>2. next \in ConnectionAndMessage /\ Tail(f.todo) \in Seq(ConnectionAndMessage)
    BY <2>1, TailFacts
  <2>3. next.conn \in Ends /\ next.msg \in Message
    BY <2>2 DEF ConnectionAndMessage
  <2>4. pending' = pending /\ syncRequestID' = syncRequestID
    BY <1>8 DEF DispatchNext
  <2>5. CASE f.conn \notin {NoEnd, next.conn}
    <3>1. Append(f.putBack, next) \in Seq(ConnectionAndMessage)
      BY <2>1, <2>2, AppendFacts
    <3>2. kept \in Frame /\ ~Waits(kept)
      BY <2>1, <2>2, <3>1 DEF Frame, Waits
    <3>3. stack' = [stack EXCEPT ![l] = Append(Front(stack[l]), kept)]
      BY <1>8, <2>5 DEF DispatchNext
    <3> HIDE DEF kept
    <3>4. SameWaits(stack[l], Append(Front(stack[l]), kept))
      BY <1>6, <2>1, <3>2
    <3>5. QED BY <1>a, <1>c, <2>4, <3>3, <3>4
  <2>6. CASE f.conn \in {NoEnd, next.conn}
    <3>1. taken \in Frame /\ ~Waits(taken)
      BY <2>1, <2>2 DEF Frame, Waits
    <3>2. dispatchMessage(l, next.conn, next.msg, Append(Front(stack[l]), taken))
      BY <1>8, <2>6 DEF DispatchNext
    <3> HIDE DEF taken
    <3>3. SameWaits(stack[l], Append(Front(stack[l]), taken)) /\ Append(Front(stack[l]), taken) \in Seq(Frame)
      BY <1>6, <2>1, <3>1
    <3>4. \A k \in RunLoops : SameWaits(stack[k], stack'[k])
      BY <2>3, <3>2, <3>3, DispatchKeepsWaits
    <3>5. QED BY <1>a, <2>4, <3>4
  <2>7. QED BY <2>5, <2>6
<1>9. ASSUME NEW l \in RunLoops, ReturnReply(l) \/ GiveUp(l) \/ TimeOut(l)
      PROVE  EndsWait(l) \/ ProcessExits(l)
  BY <1>9 DEF ReturnReply, GiveUp, TimeOut, SyncSendFails, EndsWait, At
<1>10. ASSUME NEW l \in RunLoops, At(l, {"check", "sleep"}), NEW at \in {"check", "sleep"}
       PROVE  LET g == [Top(l) EXCEPT !.at = at]
              IN  /\ SameWaits(stack[l], Append(Front(stack[l]), g))
                  /\ Append(Front(stack[l]), g) \in Seq(Frame)
  <2> DEFINE g == [Top(l) EXCEPT !.at = at]
  <2>1. stack[l] \in Seq(Frame) /\ stack[l] # <<>> /\ Top(l) \in Frame /\ Waits(Top(l))
    BY <1>0, <1>10, OwnTop DEF At, Waits
  <2>2. g \in Frame /\ Waits(g) /\ g.conn = Top(l).conn /\ g.msg = Top(l).msg
    BY <2>1 DEF Frame, Waits
  <2> HIDE DEF g
  <2>3. SameWaits(stack[l], Append(Front(stack[l]), g))
    BY <2>1, <2>2, TurnKeepsWaits DEF Top
  <2>4. QED BY <2>1, <2>2, <2>3, FrontFacts, AppendFacts DEF g
<1>11. ASSUME NEW l \in RunLoops, Sleep(l) PROVE KeepsWaits
  <2>1. SameWaits(stack[l], Append(Front(stack[l]), [Top(l) EXCEPT !.at = "sleep"]))
    BY <1>10, <1>11 DEF Sleep, At
  <2>2. /\ stack' = [stack EXCEPT ![l] = Append(Front(stack[l]), [Top(l) EXCEPT !.at = "sleep"])]
        /\ pending' = pending /\ syncRequestID' = syncRequestID
    BY <1>11 DEF Sleep
  <2>3. QED BY <1>a, <1>c, <2>1, <2>2
<1>12. ASSUME NEW l \in RunLoops, WakeUp(l) PROVE KeepsWaits
  <2> DEFINE s == Append(Front(stack[l]), [Top(l) EXCEPT !.at = "check"])
             h == NewFrame("swap", NoEnd, NoMessage)
  <2>1. SameWaits(stack[l], s) /\ s \in Seq(Frame)
    BY <1>10, <1>12 DEF WakeUp, At
  <2>2. h \in Frame /\ ~Waits(h)
    <3>1. h \in Frame
      BY NewFrameType, NoMessageType
    <3>2. QED BY <3>1 DEF NewFrame, Waits
  <2>3. stack' = [stack EXCEPT ![l] = Append(s, h)] /\ pending' = pending /\ syncRequestID' = syncRequestID
    BY <1>12 DEF WakeUp
  <2> HIDE DEF s, h
  <2>4. SameWaits(stack[l], Append(s, h))
    BY <2>1, <2>2, PushKeepsWaits, SameWaitsTransitive
  <2>5. QED BY <1>a, <1>c, <2>3, <2>4
<1>13. ASSUME NEW e \in Ends, ReceiveReply(e) PROVE KeepsWaits
  <2>1. stack' = stack /\ syncRequestID' = syncRequestID
    BY <1>13 DEF ReceiveReply
  <2>2. PICK i \in DOMAIN pending[e] : SetReply(e, i, Head(wire[e]))
    BY <1>13 DEF ReceiveReply
  <2>3. pending' = [pending EXCEPT ![e] = [pending[e] EXCEPT ![i] = [pending[e][i] EXCEPT !.reply = Head(wire[e]).serial]]]
    BY <1>0, <2>2 DEF SetReply
  <2>4. pending[e][i] \in PendingReply
    BY <1>0
  <2>5. ASSUME NEW d \in Ends
        PROVE  DOMAIN pending'[d] = DOMAIN pending[d] /\ \A j \in DOMAIN pending[d] : pending'[d][j].id = pending[d][j].id
    BY <1>0, <2>3, <2>4 DEF PendingReply
  <2>6. QED BY <1>0, <1>b, <1>13, <2>1, <2>5 DEF KeepsWaits
<1>14. ASSUME NEW e \in Ends, NEW ask \in BOOLEAN,
              \/ SendAsync(e, ask) \/ Invalidate(e) \/ sendOutgoingMessages(e) \/ PlatformInvalidate(e)
              \/ ReceiveOtherReply(e) \/ wakeUpClientRunLoop(e)
              \/ ReceiveFlagged(e) \/ ReceiveUnflagged(e) \/ connectionDidClose(e)
       PROVE  KeepsWaits
  <2>1. stack' = stack /\ pending' = pending /\ syncRequestID' = syncRequestID
    BY <1>14 DEF SendAsync, Invalidate, sendOutgoingMessages, PlatformInvalidate,
       ReceiveOtherReply, wakeUpClientRunLoop, ReceiveFlagged, ReceiveUnflagged, connectionDidClose
  <2>2. QED BY <1>a, <1>b, <2>1
<1>15. ASSUME NEW t \in SecondaryThreads, SecondarySend(t) \/ SecondaryReturn(t)
       PROVE  KeepsWaits
  <2>1. stack' = stack /\ pending' = pending /\ syncRequestID' = syncRequestID
    BY <1>15 DEF SecondarySend, SecondaryReturn
  <2>2. QED BY <1>a, <1>b, <2>1
<1>16. CASE UNCHANGED vars
  <2>1. stack' = stack /\ pending' = pending /\ syncRequestID' = syncRequestID
    BY <1>16 DEF vars
  <2>2. QED BY <1>a, <1>b, <2>1
<1>17. ASSUME NEW e \in Ends, SendSyncFails(e) PROVE \E l \in RunLoops : ProcessExits(l)
  BY <1>0, <1>17 DEF SendSyncFails
<1>18. ASSUME NEW l \in RunLoops, dispatchConnectionDidClose(l) PROVE KeepsWaits
  <2>1. stack' = stack /\ pending' = pending /\ syncRequestID' = syncRequestID
    BY <1>18 DEF dispatchConnectionDidClose
  <2>2. QED BY <1>a, <1>b, <2>1
<1>19. QED
  BY <1>2, <1>3, <1>4, <1>5, <1>7, <1>8, <1>9, <1>11, <1>12, <1>13, <1>14, <1>15, <1>16, <1>17, <1>18
     DEF Next, ClientThread, performWork, ConnectionQueue, ClientDecides, Crash

(* The pending replies of a connection are the waits on the stack that are   *)
(* about it: ids grow inwards, and each wait has its pending reply.          *)
PendingIncrease ==
    \A e \in Ends :
        /\ \A i, j \in DOMAIN pending[e] : i < j => pending[e][i].id < pending[e][j].id
        /\ \A i \in DOMAIN pending[e] : pending[e][i].id <= syncRequestID[e]
WaitsIncrease ==
    \A l \in RunLoops : \A i, j \in DOMAIN stack[l] :
        /\ Waits(stack[l][i]) /\ Waits(stack[l][j]) /\ stack[l][i].conn = stack[l][j].conn /\ i < j
        => stack[l][i].msg.id < stack[l][j].msg.id
WaitHasPending ==
    \A l \in RunLoops : \A i \in DOMAIN stack[l] : Waits(stack[l][i]) =>
        \E j \in DOMAIN pending[stack[l][i].conn] :
            pending[stack[l][i].conn][j].id = stack[l][i].msg.id
PendingHasWait ==
    \A e \in Ends : \A j \in DOMAIN pending[e] : \E i \in DOMAIN stack[LoopOf[e]] :
        /\ Waits(stack[LoopOf[e]][i]) /\ stack[LoopOf[e]][i].conn = e
        /\ stack[LoopOf[e]][i].msg.id = pending[e][j].id
PendingMatchesStack == PendingIncrease /\ WaitsIncrease /\ WaitHasPending /\ PendingHasWait

(* What a frame that waits is about.                                         *)
LEMMA WaitFacts ==
  ASSUME Types, OwnConnections, NEW l \in RunLoops, NEW i \in DOMAIN stack[l], Waits(stack[l][i])
  PROVE  /\ stack[l][i] \in Frame /\ stack[l][i].conn \in Ends /\ LoopOf[stack[l][i].conn] = l
         /\ stack[l][i].msg \in Message /\ stack[l][i].msg.id \in Nat /\ stack[l][i].msg.serial \in Nat
         /\ i \in 1 .. Len(stack[l]) /\ Len(stack[l]) \in Nat /\ DOMAIN stack[l] = 1 .. Len(stack[l])
<1>1. stack[l] \in Seq(OwnFrame(l))
  BY DEF OwnConnections
<1>2. stack[l][i] \in OwnFrame(l) /\ i \in 1 .. Len(stack[l]) /\ Len(stack[l]) \in Nat
      /\ DOMAIN stack[l] = 1 .. Len(stack[l])
  BY <1>1
<1>3. stack[l][i] \in Frame /\ stack[l][i].conn \in Ends /\ LoopOf[stack[l][i].conn] = l
  BY <1>2 DEF OwnFrame, Frame, Waits
<1>4. stack[l][i].msg \in Message
  BY <1>3 DEF Frame
<1>5. QED
  BY <1>2, <1>3, <1>4 DEF Message

(* The types of a pending reply.                                             *)
LEMMA PendingFacts ==
  ASSUME Types, NEW e \in Ends, NEW j \in DOMAIN pending[e]
  PROVE  /\ pending[e] \in Seq(PendingReply) /\ pending[e][j].id \in Nat /\ pending[e][j].reply \in Nat
         /\ j \in 1 .. Len(pending[e]) /\ Len(pending[e]) \in Nat /\ DOMAIN pending[e] = 1 .. Len(pending[e])
<1>1. pending[e] \in Seq(PendingReply)
  BY DEF Types, QueueTypes
<1>2. pending[e][j] \in PendingReply /\ j \in 1 .. Len(pending[e]) /\ Len(pending[e]) \in Nat
      /\ DOMAIN pending[e] = 1 .. Len(pending[e])
  BY <1>1
<1>3. QED BY <1>1, <1>2 DEF PendingReply

(* The innermost wait of a run loop is about the last pending reply of its   *)
(* connection.                                                               *)
LEMMA LastIsOurs ==
  ASSUME Types, OwnConnections, PendingMatchesStack, NEW l \in RunLoops, At(l, {"check", "sleep"})
  PROVE  LET e == Top(l).conn
         IN  /\ e \in Ends /\ LoopOf[e] = l /\ pending[e] # <<>> /\ Waits(Top(l))
             /\ pending[e][Len(pending[e])].id = Top(l).msg.id
             /\ Len(stack[l]) \in DOMAIN stack[l] /\ Len(pending[e]) \in DOMAIN pending[e]
<1> DEFINE e == Top(l).conn
           n == Len(stack[l])
<1>1. stack[l] \in Seq(Frame) /\ stack[l] # <<>>
  BY DEF At, Types, LoopTypes
<1>2. n \in DOMAIN stack[l] /\ Top(l) = stack[l][n] /\ Waits(Top(l)) /\ n \in Nat /\ DOMAIN stack[l] = 1 .. n
  BY <1>1 DEF At, Top, Waits
<1>3. e \in Ends /\ LoopOf[e] = l /\ Top(l).msg.id \in Nat
  BY <1>2, WaitFacts
<1>4. PICK j \in DOMAIN pending[e] : pending[e][j].id = Top(l).msg.id
  BY <1>2 DEF PendingMatchesStack, WaitHasPending
<1>5. /\ Len(pending[e]) \in Nat /\ j \in 1 .. Len(pending[e]) /\ DOMAIN pending[e] = 1 .. Len(pending[e])
      /\ pending[e] \in Seq(PendingReply)
  BY <1>3, PendingFacts
<1>6. pending[e] # <<>> /\ Len(pending[e]) \in DOMAIN pending[e]
  BY <1>5
<1>7. PICK i \in DOMAIN stack[l] : /\ Waits(stack[l][i]) /\ stack[l][i].conn = e
                                   /\ stack[l][i].msg.id = pending[e][Len(pending[e])].id
  BY <1>3, <1>6 DEF PendingMatchesStack, PendingHasWait
<1>8. stack[l][i].msg.id \in Nat
  BY <1>7, WaitFacts
<1>9. pending[e][j].id <= pending[e][Len(pending[e])].id
  <2>1. CASE j = Len(pending[e])
    BY <2>1, <1>3, <1>4
  <2>2. CASE j # Len(pending[e])
    <3>1. j < Len(pending[e])
      BY <1>5, <2>2
    <3>2. pending[e][j].id < pending[e][Len(pending[e])].id
      BY <1>3, <1>6, <3>1 DEF PendingMatchesStack, PendingIncrease
    <3>3. QED BY <3>2, <1>8, <1>7, <1>4, <1>3
  <2>3. QED BY <2>1, <2>2
<1>10. i = n
  <2> SUFFICES ASSUME i # n PROVE FALSE
    OBVIOUS
  <2>1. i < n
    BY <1>2
  <2>2. stack[l][i].msg.id < stack[l][n].msg.id
    BY <1>2, <1>7, <2>1 DEF PendingMatchesStack, WaitsIncrease
  <2>3. QED BY <1>2, <1>3, <1>4, <1>7, <1>8, <1>9, <2>2
<1>11. QED
  BY <1>2, <1>3, <1>6, <1>7, <1>10

(* Every step keeps the pending replies and the waits on the stack           *)
(* together.                                                                 *)
LEMMA PendingStep ==
  Types /\ OwnConnections /\ PendingMatchesStack /\ [Next]_vars => PendingMatchesStack'
<1> SUFFICES ASSUME Types, OwnConnections, PendingMatchesStack, [Next]_vars PROVE PendingMatchesStack'
  OBVIOUS
<1>0. /\ stack \in [RunLoops -> Seq(Frame)] /\ \A d \in Ends : LoopOf[d] \in RunLoops
      /\ pending \in [Ends -> Seq(PendingReply)] /\ syncRequestID \in [Ends -> Nat]
  BY LoopAssumption DEF Types, LoopTypes, QueueTypes, CountTypes
<1>t. Types'
  BY TypesStep
<1>o. OwnConnections'
  BY OwnStep
<1> USE DEF PendingMatchesStack
<1>1. CASE KeepsWaits
  <2>0. \A e \in Ends : syncRequestID[e] \in Nat /\ syncRequestID'[e] \in Nat
    BY <1>t, <1>0 DEF Types, CountTypes
  <2>1. PendingIncrease'
    <3> SUFFICES ASSUME NEW e \in Ends
                 PROVE  /\ \A i, j \in DOMAIN pending'[e] : i < j => pending'[e][i].id < pending'[e][j].id
                        /\ \A i \in DOMAIN pending'[e] : pending'[e][i].id <= syncRequestID'[e]
      BY DEF PendingIncrease
    <3>1. DOMAIN pending'[e] = DOMAIN pending[e] /\ \A j \in DOMAIN pending[e] : pending'[e][j].id = pending[e][j].id
      BY <1>1 DEF KeepsWaits
    <3>2. \A i \in DOMAIN pending[e] : pending[e][i].id \in Nat /\ pending[e][i].id <= syncRequestID[e]
      BY PendingFacts DEF PendingIncrease
    <3>3. syncRequestID[e] <= syncRequestID'[e]
      BY <1>1 DEF KeepsWaits
    <3>4. \A i \in DOMAIN pending'[e] : pending'[e][i].id <= syncRequestID'[e]
      BY <3>1, <3>2, <3>3, <2>0
    <3>5. QED BY <3>1, <3>4 DEF PendingIncrease
  <2>2. WaitsIncrease'
    <3> SUFFICES ASSUME NEW l \in RunLoops, NEW i \in DOMAIN stack'[l], NEW j \in DOMAIN stack'[l],
                        Waits(stack'[l][i]), Waits(stack'[l][j]), stack'[l][i].conn = stack'[l][j].conn, i < j
                 PROVE  stack'[l][i].msg.id < stack'[l][j].msg.id
      BY DEF WaitsIncrease, Waits
    <3>1. SameWaits(stack[l], stack'[l])
      BY <1>1 DEF KeepsWaits
    <3>2. /\ i \in DOMAIN stack[l] /\ Waits(stack[l][i]) /\ j \in DOMAIN stack[l] /\ Waits(stack[l][j])
          /\ stack'[l][i].msg = stack[l][i].msg /\ stack'[l][j].msg = stack[l][j].msg
          /\ stack[l][i].conn = stack[l][j].conn
      BY <3>1 DEF SameWaits
    <3>3. QED BY <3>2 DEF WaitsIncrease
  <2>3. WaitHasPending'
    <3> SUFFICES ASSUME NEW l \in RunLoops, NEW i \in DOMAIN stack'[l], Waits(stack'[l][i])
                 PROVE  \E j \in DOMAIN pending'[stack'[l][i].conn] :
                            pending'[stack'[l][i].conn][j].id = stack'[l][i].msg.id
      BY DEF WaitHasPending, Waits
    <3>1. SameWaits(stack[l], stack'[l])
      BY <1>1 DEF KeepsWaits
    <3>2. /\ i \in DOMAIN stack[l] /\ Waits(stack[l][i]) /\ stack'[l][i].msg = stack[l][i].msg
          /\ stack'[l][i].conn = stack[l][i].conn
      BY <3>1 DEF SameWaits
    <3>3. stack[l][i].conn \in Ends
      BY <3>2, WaitFacts
    <3>4. QED BY <1>1, <3>2, <3>3 DEF WaitHasPending, KeepsWaits
  <2>4. PendingHasWait'
    <3> SUFFICES ASSUME NEW e \in Ends, NEW j \in DOMAIN pending'[e]
                 PROVE  \E i \in DOMAIN stack'[LoopOf[e]] :
                            /\ Waits(stack'[LoopOf[e]][i]) /\ stack'[LoopOf[e]][i].conn = e
                            /\ stack'[LoopOf[e]][i].msg.id = pending'[e][j].id
      BY DEF PendingHasWait, Waits
    <3>1. j \in DOMAIN pending[e] /\ pending'[e][j].id = pending[e][j].id
      BY <1>1 DEF KeepsWaits
    <3>2. SameWaits(stack[LoopOf[e]], stack'[LoopOf[e]])
      BY <1>0, <1>1 DEF KeepsWaits
    <3>3. QED BY <3>1, <3>2 DEF PendingHasWait, SameWaits
  <2>5. QED BY <2>1, <2>2, <2>3, <2>4
<1>2. ASSUME NEW k \in RunLoops, ProcessExits(k) PROVE PendingMatchesStack'
  <2>1. /\ stack' = [stack EXCEPT ![k] = <<>>] /\ syncRequestID' = syncRequestID
        /\ pending' = [e \in Ends |-> IF LoopOf[e] = k THEN <<>> ELSE pending[e]]
    BY <1>2 DEF ProcessExits
  <2>2. DOMAIN stack'[k] = {} /\ \A l \in RunLoops : l # k => stack'[l] = stack[l]
    BY <1>0, <2>1, EmptyFacts
  <2>3. \A e \in Ends : (LoopOf[e] = k => DOMAIN pending'[e] = {}) /\ (LoopOf[e] # k => pending'[e] = pending[e])
    BY <2>1, EmptyFacts
  <2>4. PendingIncrease'
    BY <2>1, <2>3 DEF PendingIncrease
  <2>5. WaitsIncrease'
    BY <2>2 DEF WaitsIncrease, Waits
  <2>6. WaitHasPending'
    <3> SUFFICES ASSUME NEW l \in RunLoops, NEW i \in DOMAIN stack'[l], Waits(stack'[l][i])
                 PROVE  \E j \in DOMAIN pending'[stack'[l][i].conn] :
                            pending'[stack'[l][i].conn][j].id = stack'[l][i].msg.id
      BY DEF WaitHasPending, Waits
    <3>1. l # k /\ stack'[l] = stack[l]
      BY <2>2
    <3>2. stack[l][i].conn \in Ends /\ LoopOf[stack[l][i].conn] = l
      BY <3>1, WaitFacts
    <3>3. QED BY <2>3, <3>1, <3>2 DEF WaitHasPending
  <2>7. PendingHasWait'
    <3> SUFFICES ASSUME NEW e \in Ends, NEW j \in DOMAIN pending'[e]
                 PROVE  \E i \in DOMAIN stack'[LoopOf[e]] :
                            /\ Waits(stack'[LoopOf[e]][i]) /\ stack'[LoopOf[e]][i].conn = e
                            /\ stack'[LoopOf[e]][i].msg.id = pending'[e][j].id
      BY DEF PendingHasWait, Waits
    <3>1. LoopOf[e] # k /\ pending'[e] = pending[e]
      BY <2>3
    <3>2. stack'[LoopOf[e]] = stack[LoopOf[e]]
      BY <1>0, <2>2, <3>1
    <3>3. QED BY <3>1, <3>2 DEF PendingHasWait
  <2>8. QED BY <2>4, <2>5, <2>6, <2>7
<1>3. ASSUME NEW e \in Ends, SendSync(e) PROVE PendingMatchesStack'
  <2> DEFINE k == LoopOf[e]
             m == [type |-> "sync", id |-> syncRequestID[e] + 1,
                   serial |-> serial[e] + 1, flagged |-> Flagged(e)]
             f == NewFrame("check", e, m)
             g == NewFrame("swap", NoEnd, NoMessage)
             s == stack[k]
             q == pending[e]
             r == [id |-> m.id, reply |-> 0]
             n == syncRequestID[e] + 1
  <2>1. k \in RunLoops /\ s \in Seq(Frame) /\ q \in Seq(PendingReply) /\ syncRequestID[e] \in Nat
    BY <1>0
  <2>2. m \in Message /\ m.id = n
    BY DEF Message, Flagged, Types, CountTypes
  <2>3. f \in Frame /\ Waits(f) /\ f.conn = e /\ f.msg = m /\ g \in Frame /\ ~Waits(g)
    <3>1. f \in Frame /\ g \in Frame
      BY <2>2, NewFrameType, NoMessageType
    <3>2. QED BY <3>1 DEF NewFrame, Waits
  <2>4. r \in PendingReply /\ r.id = n
    BY <2>1 DEF PendingReply
  <2>5. /\ stack' = [stack EXCEPT ![k] = Append(Append(s, f), g)]
        /\ pending' = [pending EXCEPT ![e] = Append(q, r)]
        /\ syncRequestID' = [syncRequestID EXCEPT ![e] = n]
    BY <1>3 DEF SendSync
  <2> HIDE DEF f, g, r, m, n
  <2>6. Append(s, f) \in Seq(Frame)
    BY <2>1, <2>3, AppendFacts
  <2>7. /\ DOMAIN stack'[k] = 1 .. Len(s) + 2 /\ DOMAIN s = 1 .. Len(s) /\ Len(s) \in Nat
        /\ \A i \in DOMAIN s : stack'[k][i] = s[i]
        /\ stack'[k][Len(s) + 1] = f /\ stack'[k][Len(s) + 2] = g
    <3>1. stack'[k] = Append(Append(s, f), g)
      BY <1>0, <2>1, <2>5
    <3>2. QED BY <2>1, <2>3, <2>6, <3>1, AppendFacts
  <2>8. \A l \in RunLoops : l # k => stack'[l] = stack[l]
    BY <1>0, <2>5
  <2>9. /\ DOMAIN pending'[e] = 1 .. Len(q) + 1 /\ DOMAIN q = 1 .. Len(q) /\ Len(q) \in Nat
        /\ \A j \in DOMAIN q : pending'[e][j] = q[j]
        /\ pending'[e][Len(q) + 1] = r
    <3>1. pending'[e] = Append(q, r)
      BY <1>0, <2>5
    <3>2. QED BY <2>1, <2>4, <3>1, AppendFacts
  <2>10. \A d \in Ends : d # e => pending'[d] = pending[d] /\ syncRequestID'[d] = syncRequestID[d]
    BY <1>0, <2>5
  <2>11. syncRequestID'[e] = n /\ n \in Nat /\ \A x \in Nat : x <= syncRequestID[e] => x < n
    BY <1>0, <2>1, <2>5 DEF n
  <2>12. \A j \in DOMAIN q : q[j].id \in Nat /\ q[j].id < n
    BY <2>11, PendingFacts DEF PendingIncrease
  <2>13. \A i \in DOMAIN s : Waits(s[i]) /\ s[i].conn = e => s[i].msg.id \in Nat /\ s[i].msg.id < n
    BY <2>1, <2>12, WaitFacts DEF WaitHasPending
  <2>14. \A i \in DOMAIN stack'[k] : Waits(stack'[k][i]) => i \in DOMAIN s \/ i = Len(s) + 1
    <3> SUFFICES ASSUME NEW i \in DOMAIN stack'[k], Waits(stack'[k][i]) PROVE i \in DOMAIN s \/ i = Len(s) + 1
      OBVIOUS
    <3>1. i # Len(s) + 2
      BY <2>3, <2>7
    <3>2. i \in 1 .. Len(s) + 2 /\ DOMAIN s = 1 .. Len(s) /\ Len(s) \in Nat
      BY <2>7
    <3>3. QED BY <3>1, <3>2
  <2>15. \A j \in DOMAIN pending'[e] : j \in DOMAIN q \/ j = Len(q) + 1
    BY <2>9
  <2>16. PendingIncrease'
    <3> SUFFICES ASSUME NEW d \in Ends
                 PROVE  /\ \A i, j \in DOMAIN pending'[d] : i < j => pending'[d][i].id < pending'[d][j].id
                        /\ \A i \in DOMAIN pending'[d] : pending'[d][i].id <= syncRequestID'[d]
      BY DEF PendingIncrease
    <3>1. CASE d # e
      BY <2>10, <3>1 DEF PendingIncrease
    <3>2. CASE d = e
      <4>1. ASSUME NEW i \in DOMAIN pending'[e], NEW j \in DOMAIN pending'[e], i < j
            PROVE  pending'[e][i].id < pending'[e][j].id
        <5>1. CASE j \in DOMAIN q
          BY <2>9, <4>1, <5>1 DEF PendingIncrease
        <5>2. CASE j = Len(q) + 1
          BY <2>9, <2>12, <2>4, <4>1, <5>2
        <5>3. QED BY <2>15, <5>1, <5>2
      <4>2. ASSUME NEW i \in DOMAIN pending'[e] PROVE pending'[e][i].id <= syncRequestID'[e]
        BY <2>4, <2>9, <2>11, <2>12, <2>15
      <4>3. QED BY <3>2, <4>1, <4>2
    <3>3. QED BY <3>1, <3>2
  <2>17. WaitsIncrease'
    <3> SUFFICES ASSUME NEW l \in RunLoops, NEW i \in DOMAIN stack'[l], NEW j \in DOMAIN stack'[l],
                        Waits(stack'[l][i]), Waits(stack'[l][j]), stack'[l][i].conn = stack'[l][j].conn, i < j
                 PROVE  stack'[l][i].msg.id < stack'[l][j].msg.id
      BY DEF WaitsIncrease, Waits
    <3>1. CASE l # k
      BY <2>8, <3>1 DEF WaitsIncrease
    <3>2. CASE l = k
      <4>1. CASE j \in DOMAIN s
        <5>1. i \in DOMAIN s /\ stack'[k][i] = s[i] /\ stack'[k][j] = s[j]
          BY <2>7, <3>2, <4>1
        <5>2. QED BY <2>1, <3>2, <4>1, <5>1 DEF WaitsIncrease
      <4>2. CASE j = Len(s) + 1
        <5>1. i \in DOMAIN s /\ stack'[k][i] = s[i] /\ stack'[k][j] = f
          BY <2>7, <3>2, <4>2
        <5>2. QED BY <2>2, <2>3, <2>13, <3>2, <5>1
      <4>3. QED BY <2>14, <3>2, <4>1, <4>2
    <3>3. QED BY <3>1, <3>2
  <2>18. WaitHasPending'
    <3> SUFFICES ASSUME NEW l \in RunLoops, NEW i \in DOMAIN stack'[l], Waits(stack'[l][i])
                 PROVE  \E j \in DOMAIN pending'[stack'[l][i].conn] :
                            pending'[stack'[l][i].conn][j].id = stack'[l][i].msg.id
      BY DEF WaitHasPending, Waits
    <3>1. CASE l = k /\ i = Len(s) + 1
      <4>1. Len(q) + 1 \in DOMAIN pending'[e] /\ pending'[e][Len(q) + 1].id = n
        BY <2>4, <2>9
      <4>2. stack'[l][i] = f
        BY <2>7, <3>1
      <4>3. stack'[l][i].conn = e /\ stack'[l][i].msg.id = n
        BY <2>2, <2>3, <4>2
      <4>4. QED BY <4>1, <4>3
    <3>2. CASE ~(l = k /\ i = Len(s) + 1)
      <4>1. i \in DOMAIN stack[l] /\ stack'[l][i] = stack[l][i]
        BY <2>7, <2>8, <2>14, <3>2
      <4>2. stack[l][i].conn \in Ends
        BY <4>1, WaitFacts
      <4>3. PICK j \in DOMAIN pending[stack[l][i].conn] : pending[stack[l][i].conn][j].id = stack[l][i].msg.id
        BY <4>1 DEF WaitHasPending
      <4>4. j \in DOMAIN pending'[stack[l][i].conn] /\ pending'[stack[l][i].conn][j] = pending[stack[l][i].conn][j]
        BY <2>9, <2>10, <4>2, <4>3
      <4>5. QED BY <4>1, <4>3, <4>4
    <3>3. QED BY <3>1, <3>2
  <2>19. PendingHasWait'
    <3> SUFFICES ASSUME NEW d \in Ends, NEW j \in DOMAIN pending'[d]
                 PROVE  \E i \in DOMAIN stack'[LoopOf[d]] :
                            /\ Waits(stack'[LoopOf[d]][i]) /\ stack'[LoopOf[d]][i].conn = d
                            /\ stack'[LoopOf[d]][i].msg.id = pending'[d][j].id
      BY DEF PendingHasWait, Waits
    <3>1. CASE d = e /\ j = Len(q) + 1
      <4>1. Len(s) + 1 \in DOMAIN stack'[k]
        BY <2>7
      <4>2. QED BY <2>2, <2>3, <2>4, <2>7, <2>9, <3>1, <4>1
    <3>2. CASE ~(d = e /\ j = Len(q) + 1)
      <4>1. j \in DOMAIN pending[d] /\ pending'[d][j] = pending[d][j]
        BY <2>9, <2>10, <2>15, <3>2
      <4>2. PICK i \in DOMAIN stack[LoopOf[d]] :
                /\ Waits(stack[LoopOf[d]][i]) /\ stack[LoopOf[d]][i].conn = d
                /\ stack[LoopOf[d]][i].msg.id = pending[d][j].id
        BY <4>1 DEF PendingHasWait
      <4>3. i \in DOMAIN stack'[LoopOf[d]] /\ stack'[LoopOf[d]][i] = stack[LoopOf[d]][i]
        <5>1. CASE LoopOf[d] = k
          <6>1. i \in DOMAIN s
            BY <4>2, <5>1
          <6>2. i \in DOMAIN stack'[k] /\ stack'[k][i] = s[i]
            BY <2>7, <6>1
          <6>3. QED BY <5>1, <6>2
        <5>2. CASE LoopOf[d] # k
          BY <1>0, <2>8, <4>2, <5>2
        <5>3. QED BY <5>1, <5>2
      <4>4. QED BY <4>1, <4>2, <4>3
    <3>3. QED BY <3>1, <3>2
  <2>20. QED BY <2>16, <2>17, <2>18, <2>19
<1>4. ASSUME NEW k \in RunLoops, EndsWait(k) PROVE PendingMatchesStack'
  <2> DEFINE e == Top(k).conn
             s == stack[k]
             q == pending[e]
  <2>1. /\ e \in Ends /\ LoopOf[e] = k /\ q # <<>> /\ Waits(Top(k)) /\ q[Len(q)].id = Top(k).msg.id
        /\ Len(s) \in DOMAIN s /\ Len(q) \in DOMAIN q
    BY <1>4, LastIsOurs DEF EndsWait
  <2>2. s \in Seq(Frame) /\ q \in Seq(PendingReply) /\ s # <<>> /\ Top(k) = s[Len(s)]
    BY <1>0, <1>4, <2>1 DEF EndsWait, At, Top
  <2>3. stack' = [stack EXCEPT ![k] = Front(s)] /\ pending' = [pending EXCEPT ![e] = Front(q)]
        /\ syncRequestID' = syncRequestID
    BY <1>4 DEF EndsWait, PopPendingReply, removeLastPendingReply
  <2>4. /\ DOMAIN stack'[k] = 1 .. Len(s) - 1 /\ DOMAIN s = 1 .. Len(s) /\ Len(s) \in Nat /\ Len(s) > 0
        /\ \A i \in 1 .. Len(s) - 1 : stack'[k][i] = s[i]
    <3>1. stack'[k] = Front(s)
      BY <1>0, <2>3
    <3>2. QED BY <2>2, <3>1, FrontFacts
  <2>5. \A l \in RunLoops : l # k => stack'[l] = stack[l]
    BY <1>0, <2>3
  <2>6. /\ DOMAIN pending'[e] = 1 .. Len(q) - 1 /\ DOMAIN q = 1 .. Len(q) /\ Len(q) \in Nat /\ Len(q) > 0
        /\ \A j \in 1 .. Len(q) - 1 : pending'[e][j] = q[j]
    <3>1. pending'[e] = Front(q)
      BY <1>0, <2>1, <2>3
    <3> HIDE DEF q
    <3>2. /\ DOMAIN Front(q) = 1 .. Len(q) - 1 /\ DOMAIN q = 1 .. Len(q) /\ Len(q) \in Nat /\ Len(q) > 0
          /\ \A j \in 1 .. Len(q) - 1 : Front(q)[j] = q[j]
      BY <2>1, <2>2, FrontFacts
    <3>3. QED BY <3>1, <3>2
  <2>7. \A d \in Ends : d # e => pending'[d] = pending[d]
    BY <1>0, <2>3
  <2> HIDE DEF e
  <2>8. PendingIncrease'
    <3> SUFFICES ASSUME NEW d \in Ends
                 PROVE  /\ \A i, j \in DOMAIN pending'[d] : i < j => pending'[d][i].id < pending'[d][j].id
                        /\ \A i \in DOMAIN pending'[d] : pending'[d][i].id <= syncRequestID'[d]
      BY DEF PendingIncrease
    <3>1. \A i \in DOMAIN pending'[d] : i \in DOMAIN pending[d] /\ pending'[d][i] = pending[d][i]
      BY <2>6, <2>7
    <3>2. QED BY <2>3, <3>1 DEF PendingIncrease
  <2>9. \A l \in RunLoops : \A i \in DOMAIN stack'[l] : i \in DOMAIN stack[l] /\ stack'[l][i] = stack[l][i]
    BY <2>4, <2>5
  <2>10. WaitsIncrease'
    <3> SUFFICES ASSUME NEW l \in RunLoops, NEW i \in DOMAIN stack'[l], NEW j \in DOMAIN stack'[l],
                        Waits(stack'[l][i]), Waits(stack'[l][j]), stack'[l][i].conn = stack'[l][j].conn, i < j
                 PROVE  stack'[l][i].msg.id < stack'[l][j].msg.id
      BY DEF WaitsIncrease, Waits
    <3>1. i \in DOMAIN stack[l] /\ j \in DOMAIN stack[l] /\ stack'[l][i] = stack[l][i] /\ stack'[l][j] = stack[l][j]
      BY <2>9
    <3>2. QED BY <3>1 DEF WaitsIncrease
  <2>11. WaitHasPending'
    <3> SUFFICES ASSUME NEW l \in RunLoops, NEW i \in DOMAIN stack'[l], Waits(stack'[l][i])
                 PROVE  \E j \in DOMAIN pending'[stack'[l][i].conn] :
                            pending'[stack'[l][i].conn][j].id = stack'[l][i].msg.id
      BY DEF WaitHasPending, Waits
    <3> DEFINE d == stack[l][i].conn
    <3>1. i \in DOMAIN stack[l] /\ stack'[l][i] = stack[l][i]
      BY <2>9
    <3>2. d \in Ends /\ LoopOf[d] = l /\ stack[l][i].msg.id \in Nat
      BY <3>1, WaitFacts
    <3>3. PICK j \in DOMAIN pending[d] : pending[d][j].id = stack[l][i].msg.id
      BY <3>1 DEF WaitHasPending
    <3>4. CASE d # e
      BY <2>7, <3>1, <3>2, <3>3, <3>4
    <3>5. CASE d = e
      <4>1. l = k /\ i < Len(s) /\ i \in DOMAIN s
        BY <2>1, <2>4, <3>1, <3>2, <3>5
      <4>2. s[i].msg.id < s[Len(s)].msg.id
        BY <2>1, <2>2, <3>1, <3>5, <4>1 DEF WaitsIncrease, e
      <4>3. j # Len(q)
        BY <2>1, <2>2, <3>2, <3>3, <3>5, <4>1, <4>2
      <4>4. j \in DOMAIN pending'[e] /\ pending'[e][j] = q[j]
        BY <2>6, <3>3, <3>5, <4>3
      <4>5. QED BY <3>1, <3>3, <3>5, <4>4
    <3>6. QED BY <3>4, <3>5
  <2>12. PendingHasWait'
    <3> SUFFICES ASSUME NEW d \in Ends, NEW j \in DOMAIN pending'[d]
                 PROVE  \E i \in DOMAIN stack'[LoopOf[d]] :
                            /\ Waits(stack'[LoopOf[d]][i]) /\ stack'[LoopOf[d]][i].conn = d
                            /\ stack'[LoopOf[d]][i].msg.id = pending'[d][j].id
      BY DEF PendingHasWait, Waits
    <3>1. j \in DOMAIN pending[d] /\ pending'[d][j] = pending[d][j]
      BY <2>6, <2>7
    <3>2. PICK i \in DOMAIN stack[LoopOf[d]] :
              /\ Waits(stack[LoopOf[d]][i]) /\ stack[LoopOf[d]][i].conn = d
              /\ stack[LoopOf[d]][i].msg.id = pending[d][j].id
      BY <3>1 DEF PendingHasWait
    <3>3. ~(LoopOf[d] = k /\ i = Len(s))
      <4> SUFFICES ASSUME LoopOf[d] = k, i = Len(s) PROVE FALSE
        OBVIOUS
      <4>1. d = e /\ pending[d][j].id = q[Len(q)].id
        BY <2>1, <2>2, <3>2 DEF e
      <4>2. j < Len(q)
        BY <2>6, <4>1
      <4>3. q[j].id < q[Len(q)].id
        BY <2>1, <3>1, <4>1, <4>2 DEF PendingIncrease
      <4>4. q[j].id \in Nat
        BY <2>1, <3>1, <4>1, PendingFacts
      <4>5. QED BY <4>1, <4>3, <4>4
    <3>4. i \in DOMAIN stack'[LoopOf[d]] /\ stack'[LoopOf[d]][i] = stack[LoopOf[d]][i]
      <4>1. CASE LoopOf[d] = k
        <5>1. i \in 1 .. Len(s) /\ i # Len(s)
          BY <2>4, <3>2, <3>3, <4>1
        <5>2. i \in 1 .. Len(s) - 1
          BY <2>4, <5>1
        <5>3. QED BY <2>4, <4>1, <5>2
      <4>2. CASE LoopOf[d] # k
        BY <1>0, <2>5, <3>2, <4>2
      <4>3. QED BY <4>1, <4>2
    <3>5. QED BY <3>1, <3>2, <3>4
  <2>13. QED BY <2>8, <2>10, <2>11, <2>12
<1>5. QED
  BY <1>1, <1>2, <1>3, <1>4, WaitsStep

(* The last pending reply of a connection is the one its innermost wait is   *)
(* about, so the reply that is popped is the one that was pushed: what       *)
(* sendSyncMessage and waitForSyncReply assert.                              *)
THEOREM PendingRepliesMatch == Spec => []PendingReplyIsOurs
<1>1. Init => PendingMatchesStack
  BY EmptyFacts, LoopAssumption DEF Init, PendingMatchesStack, PendingIncrease, WaitsIncrease, WaitHasPending, PendingHasWait
<1>2. Types /\ OwnConnections /\ MarkedIsCount /\ PendingMatchesStack => PendingReplyIsOurs
  BY LastIsOurs DEF PendingReplyIsOurs, Last
<1>3. QED
  BY <1>1, <1>2, PendingStep, MarkedInvariant, PTL DEF Spec
=============================================================================
